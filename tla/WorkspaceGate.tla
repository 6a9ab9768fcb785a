--------------------------- MODULE WorkspaceGate ---------------------------
(***************************************************************************)
(* The workspace gate (src/core/src/workspaceGate.ts) and the calls that   *)
(* take it through dispatch (src/core/src/dispatch.ts).                    *)
(*                                                                         *)
(* A call arrives, may await pre-work that itself takes the gate           *)
(* (`ahead`), enters the queue, is admitted by `pump`, resumes in a later  *)
(* microtask, and releases when its work settles.  A bounded read has one  *)
(* budget across its pre-work and its entry.  A call may be made again     *)
(* once it has returned, so waiters meet an unending stream of others.     *)
(*                                                                         *)
(* JavaScript runs each callback to its end: every synchronous span of the *)
(* code (`push; pump`, `release; pump`, the timer's `withdraw`) is one     *)
(* action.  The pre-work of several calls may be one shared run: a call    *)
(* that finds it in flight joins it.                                       *)
(***************************************************************************)
EXTENDS Naturals, FiniteSets, Sequences, SequencesExt

CONSTANTS
    Calls,      \* the callers of the gate
    Exclusive,  \* those that take it with `exclusive`; the others with `shared`
    Bounded,    \* the reads that bring a gateWaitMs
    Staged,     \* the reads that await pre-work before they enter
    Ahead       \* [Staged -> Exclusive]: the call that pre-work runs as

ASSUME CallsAssumption ==
    /\ IsFiniteSet(Calls)
    /\ Exclusive \subseteq Calls
    /\ Bounded \subseteq Calls \ Exclusive
    /\ Staged \subseteq Calls \ Exclusive
    /\ Ahead \in [Staged -> Exclusive]

VARIABLES
    readers,    \* workspaceGate.ts:59
    writing,    \* :60
    waiting,    \* :61, the waiters in arrival order
    phase,      \* where each call is
    spent       \* the budget of a bounded read has run out (`left()` is 0)

vars == <<readers, writing, waiting, phase, spent>>

Phases == {"idle", "ahead", "ready", "queued", "admitted", "running", "refused"}

\* One type invariant: the counters, the queue and the calls have their types.
TypeOK ==
    /\ readers \in Nat
    /\ writing \in BOOLEAN
    /\ waiting \in Seq(Calls)
    /\ phase \in [Calls -> Phases]
    /\ spent \in [Calls -> BOOLEAN]

Init ==
    /\ readers = 0
    /\ writing = FALSE
    /\ waiting = <<>>
    /\ phase = [c \in Calls |-> "idle"]
    /\ spent = [c \in Calls |-> FALSE]

-----------------------------------------------------------------------------
\* Mutant of PumpStops: a writer at the front is admitted beside running readers.
PumpStopsIgnoringReaders(q, n, r, w) ==
    \/ /\ n = 0
       /\ q # <<>> => w
    \/ /\ n = 1
       /\ ~w /\ q[1] \in Exclusive
    \/ /\ n > 0
       /\ ~w /\ \A i \in 1..n : q[i] \notin Exclusive
       /\ n < Len(q) => q[n + 1] \in Exclusive

(***************************************************************************)
(* pump(): the loop admits from the front and stops after n waiters, with  *)
(* r readers counted and w the writing flag when it starts.                *)
(***************************************************************************)
PumpStops(q, n, r, w) ==
    \/ /\ n = 0
       /\ (q # <<>> /\ ~w) => (q[1] \in Exclusive /\ r > 0)
    \/ /\ n = 1
       /\ ~w /\ r = 0 /\ q[1] \in Exclusive
    \/ /\ n > 0
       /\ ~w /\ \A i \in 1..n : q[i] \notin Exclusive
       /\ n < Len(q) => q[n + 1] \in Exclusive

\* Mutant of Pump: the loop counts one hold however many readers it admits.
PumpCountingOnce(q, r, w, ph) ==
    \E n \in 0..Len(q) :
        LET admitted == ToSet(SubSeq(q, 1, n))
            alone    == admitted \cap Exclusive # {}
        IN  /\ PumpStops(q, n, r, w)
            /\ waiting' = SubSeq(q, n + 1, Len(q))
            /\ writing' = (w \/ alone)
            /\ readers' = IF alone \/ n = 0 THEN r ELSE r + 1
            /\ phase' = [c \in Calls |-> IF c \in admitted THEN "admitted" ELSE ph[c]]

(***************************************************************************)
(* One run of pump over the queue q, r readers, the writing flag w and the *)
(* phases ph.  The hold is counted here, before the awaiter resumes.       *)
(***************************************************************************)
Pump(q, r, w, ph) ==
    \E n \in 0..Len(q) :
        LET admitted == ToSet(SubSeq(q, 1, n))
            alone    == admitted \cap Exclusive # {}
        IN  /\ PumpStops(q, n, r, w)
            /\ waiting' = SubSeq(q, n + 1, Len(q))
            /\ writing' = (w \/ alone)
            /\ readers' = IF alone THEN r ELSE r + n
            /\ phase' = [c \in Calls |-> IF c \in admitted THEN "admitted" ELSE ph[c]]

\* A call reaches the dispatcher.  A staged read starts its pre-work, or joins the run in flight.
Start(c) ==
    /\ phase[c] = "idle"
    /\ spent' = [spent EXCEPT ![c] = FALSE]
    /\ phase' = IF c \notin Staged THEN [phase EXCEPT ![c] = "ready"]
                ELSE IF phase[Ahead[c]] = "idle"
                     THEN [phase EXCEPT ![c] = "ahead", ![Ahead[c]] = "ready"]
                     ELSE [phase EXCEPT ![c] = "ahead"]
    /\ UNCHANGED <<readers, writing, waiting>>

\* Mutant of Enter: a spent budget still queues.
EnterThoughSpent(c) ==
    /\ phase[c] = "ready"
    /\ Pump(Append(waiting, c), readers, writing, [phase EXCEPT ![c] = "queued"])
    /\ UNCHANGED spent

\* Mutant of Enter: the newest waiter goes to the front.
EnterAtFront(c) ==
    /\ phase[c] = "ready"
    /\ IF spent[c] /\ waiting # <<>>
       THEN Pump(waiting, readers, writing, [phase EXCEPT ![c] = "refused"])
       ELSE Pump(<<c>> \o waiting, readers, writing, [phase EXCEPT ![c] = "queued"])
    /\ UNCHANGED spent

\* acquire(): join the queue and pump; with nothing left of the budget, admitted now or never.
Enter(c) ==
    /\ phase[c] = "ready"
    /\ IF spent[c] /\ ~ PumpStops(Append(waiting, c), Len(waiting) + 1, readers, writing)
       THEN Pump(waiting, readers, writing, [phase EXCEPT ![c] = "refused"])
       ELSE Pump(Append(waiting, c), readers, writing, [phase EXCEPT ![c] = "queued"])
    /\ UNCHANGED spent

\* Mutant of Expire: a withdrawal releases a hold it never had.
ExpireReleasing(c) ==
    /\ c \in Bounded /\ ~ spent[c]
    /\ spent' = [spent EXCEPT ![c] = TRUE]
    /\ \E i \in 1..Len(waiting) :
          /\ waiting[i] = c
          /\ Pump(RemoveAt(waiting, i), readers - 1, writing, [phase EXCEPT ![c] = "refused"])

\* Mutant of Expire: `splice(at)` without its count takes everyone behind along.
ExpireDroppingRest(c) ==
    /\ c \in Bounded /\ ~ spent[c]
    /\ spent' = [spent EXCEPT ![c] = TRUE]
    /\ \E i \in 1..Len(waiting) :
          /\ waiting[i] = c
          /\ Pump(SubSeq(waiting, 1, i - 1), readers, writing, [phase EXCEPT ![c] = "refused"])

\* Mutant of Expire: `ahead` awaits its pre-work whatever the budget says.
ExpireNotAhead(c) ==
    /\ c \in Bounded /\ ~ spent[c]
    /\ spent' = [spent EXCEPT ![c] = TRUE]
    /\ \/ /\ phase[c] \in {"ahead", "ready"}
          /\ UNCHANGED <<phase, readers, writing, waiting>>
       \/ \E i \in 1..Len(waiting) :
             /\ waiting[i] = c
             /\ Pump(RemoveAt(waiting, i), readers, writing, [phase EXCEPT ![c] = "refused"])

\* The clock passes a bounded read's deadline before it is admitted: `ahead` stops waiting,
\* a read not yet in the queue finds nothing left, a queued one is withdrawn and pumps.
Expire(c) ==
    /\ c \in Bounded
    /\ ~ spent[c]
    /\ spent' = [spent EXCEPT ![c] = TRUE]
    /\ \/ /\ phase[c] \in {"ahead", "ready"}
          /\ phase' = [phase EXCEPT ![c] = "ready"]
          /\ UNCHANGED <<readers, writing, waiting>>
       \/ \E i \in 1..Len(waiting) :
             /\ waiting[i] = c
             /\ Pump(RemoveAt(waiting, i), readers, writing, [phase EXCEPT ![c] = "refused"])

\* The microtask that resumes an admitted caller starts its work.
Resume(c) ==
    /\ phase[c] = "admitted"
    /\ phase' = [phase EXCEPT ![c] = "running"]
    /\ UNCHANGED <<readers, writing, waiting, spent>>

\* Mutant of Finish: the hold is released and nobody pumps.
FinishWithoutPump(c) ==
    /\ phase[c] = "running"
    /\ readers' = IF c \in Exclusive THEN readers ELSE readers - 1
    /\ writing' = (writing /\ c \notin Exclusive)
    /\ phase' = [phase EXCEPT ![c] = "idle"]
    /\ UNCHANGED <<waiting, spent>>

\* Its work settles, by a value or a throw: `finally` releases and pumps, and whoever awaited
\* this call as pre-work goes on.
Finish(c) ==
    /\ phase[c] = "running"
    /\ Pump(waiting,
            IF c \in Exclusive THEN readers ELSE readers - 1,
            writing /\ c \notin Exclusive,
            [d \in Calls |-> IF d = c THEN "idle"
                             ELSE IF d \in Staged /\ phase[d] = "ahead" /\ Ahead[d] = c THEN "ready"
                             ELSE phase[d]])
    /\ UNCHANGED spent

\* GateBusy reaches the client, which may ask again.
Answer(c) ==
    /\ phase[c] = "refused"
    /\ phase' = [phase EXCEPT ![c] = "idle"]
    /\ UNCHANGED <<readers, writing, waiting, spent>>

Next == \E c \in Calls :
    Start(c) \/ Enter(c) \/ Expire(c) \/ Resume(c) \/ Finish(c) \/ Answer(c)

Spec == Init /\ [][Next]_vars

(***************************************************************************)
(* The event loop runs queued microtasks and fires due timers, so Enter,   *)
(* Resume, Answer and Expire happen.  Nothing makes a client call, and     *)
(* nothing here makes work settle: WorkSettles is stated where it is used. *)
(***************************************************************************)
LoopFairness == \A c \in Calls :
    WF_vars(Enter(c)) /\ WF_vars(Resume(c)) /\ WF_vars(Answer(c)) /\ WF_vars(Expire(c))

LoopSpec == Spec /\ LoopFairness

WorkSettles == \A c \in Calls : WF_vars(Finish(c))

-----------------------------------------------------------------------------
(***************************************************************************)
(* Properties                                                              *)
(***************************************************************************)
Holders == {c \in Calls : phase[c] \in {"admitted", "running"}}

\* A write runs alone (workspaceGate.ts:65,70): no other call's work is under way with a writer's.
\* The window is between an admission and the microtask that resumes it.
WritesRunAlone ==
    \A c, d \in Calls :
        phase[c] = "running" /\ phase[d] = "running" /\ c # d => c \notin Exclusive

\* The counters are the holders, through every throw, withdrawal and pump (workspaceGate.ts:138-140).
HoldsCounted ==
    /\ readers = Cardinality(Holders \ Exclusive)
    /\ writing <=> Holders \cap Exclusive # {}
    /\ Cardinality(Holders \cap Exclusive) <= 1
    /\ writing => readers = 0

\* No lost wakeup: whenever the event loop is between callbacks, the front of the queue is one
\* that the holders really keep out.  Nobody else will pump for it (workspaceGate.ts:117,128).
FrontIsKeptOut ==
    waiting # <<>> =>
        IF Head(waiting) \in Exclusive THEN Holders # {} ELSE Holders \cap Exclusive # {}

\* A bounded read never waits past its one budget, pre-work included (workspaceGate.ts:80-91):
\* once it is spent the read is no longer in the queue and never runs unless already admitted.
NeverWaitsSpent == \A i \in 1..Len(waiting) : ~ spent[waiting[i]]

\* The gate implements the first-come first-served readers/writer lock.
Lock == INSTANCE RWLock WITH line <- waiting, held <- Holders
ImplementsLock == Lock!Spec

\* FIFO, so a steady stream of readers cannot starve a writer, nor withdrawals anyone
\* (workspaceGate.ts:50-51): if the work that holds the gate settles, whoever joins the
\* queue leaves it, and runs unless its budget ran out.
NobodyStarves ==
    WorkSettles =>
        \A c \in Calls : phase[c] \in {"ahead", "ready", "queued"} ~> phase[c] \in {"running", "refused"}

\* A bounded read is answered or admitted however long the work ahead of it takes, even forever
\* (workspaceGate.ts:80-83).
BoundedAnswered ==
    \A c \in Bounded : phase[c] \in {"ahead", "ready", "queued"} ~> phase[c] \in {"admitted", "refused"}
=============================================================================
