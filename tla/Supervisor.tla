----------------------------- MODULE Supervisor -----------------------------
(***************************************************************************)
(* The provider supervisor (core/src/supervisor.ts): the processes of one  *)
(* provider id, their handshakes, deaths and respawns, the queue in front  *)
(* of the one in the map, the secret policy installed on it and the        *)
(* verdicts sent back.                                                     *)
(*                                                                         *)
(* Two starts of one id may race (the second replaces the first), either   *)
(* may race a respawn, and a stop may land in any of their awaits.  A      *)
(* process dies when it likes; the core learns of it at the exit event.    *)
(* Time is abstracted: a timer that is armed may fire.  Only the entry in  *)
(* the map has a queue worth a variable: nobody asks a process before it   *)
(* is there, and the queue of one that leaves is closed for ever.          *)
(***************************************************************************)
EXTENDS Integers, FiniteSets, RequestQueue

CONSTANTS
    Requests,       \* callers that ask the provider, again and again
    Revisions,      \* revisions of the secret policy
    FirstRevision,  \* the one in force when the first process starts
    MaxRespawns,    \* unexpected deaths a provider gets before it stays dead
    MaxSpawns,      \* bound: processes ever spawned
    MaxCalls,       \* bound: starts, stops and changes of the policy together
    Nobody          \* no process, no revision

ASSUME SupervisorAssumption ==
    /\ FirstRevision \in Revisions
    /\ MaxRespawns \in Nat /\ MaxSpawns \in Nat /\ MaxCalls \in Nat
    /\ Nobody \notin Revisions \cup Int

Children == 1..MaxSpawns    \* processes, in the order they are spawned

VARIABLES
    spawned,    \* how many processes there have been
    os,         \* of each process: alive, dead, or dead with its exit event delivered
    stopped,    \* processes that stopProcess signalled while they lived
    handshake,  \* of each process: whose await its initialize is in
    answered,   \* processes that answered it, while the caller has not gone on
    previous,   \* of a respawned process: the process it is to replace
    starting,   \* the supervisor's set: spawned, not yet registered
    published,  \* the process of the entry in the supervisor's map
    deaths,     \* of that entry: unexpected deaths so far
    due,        \* processes whose entry has its respawn timer armed
    queue,      \* the RequestQueue of the entry in the map
    stage,      \* of its running request: what it awaits
    believed,   \* of that entry: policyRevision, the revision taken to be installed
    doubted,    \* history: whether its last install ran out of time
    judge,      \* of each process: the last revision it was sent
    policy,     \* the revision of the core's policy
    request,    \* of each caller: whether it waits, or owes a process a verdict
    announced,  \* history: processes whose death the exit listeners heard of
    calls       \* starts, stops and changes of the policy so far

procVars  == <<spawned, os, stopped, handshake, answered, previous, starting, judge>>
entryVars == <<published, deaths, due, believed, doubted>>
askVars   == <<queue, stage, request>>
vars == <<procVars, entryVars, askVars, policy, calls, announced>>

None == [state |-> "none", of |-> Nobody]
Waits == [state |-> "waits", of |-> Nobody]
OwesVerdict(c) == [state |-> "verdict", of |-> c]

\* What a queue holds: a caller's request, or the verdict on an answer of process c.
Asked(r) == [kind |-> "ask", of |-> r]
Verdict(c) == [kind |-> "verdict", of |-> c]
Work == {Asked(r) : r \in Requests} \cup {Verdict(c) : c \in Children}

ASSUME IdleAssumption == Idle \notin Work

TypeOK ==
    /\ spawned \in 0..MaxSpawns
    /\ os \in [Children -> {"unborn", "alive", "dead", "exited"}]
    /\ stopped \subseteq Children /\ starting \subseteq Children /\ answered \subseteq Children
    /\ handshake \in [Children -> {"none", "start", "respawn"}]
    /\ previous \in [Children -> Children \cup {Nobody}]
    /\ published \in Children \cup {Nobody}
    /\ deaths \in 0..(MaxRespawns + 1) /\ due \subseteq Children
    /\ queue.waiting \in Seq(Work) /\ queue.running \in Work \cup {Idle} /\ queue.closed \in BOOLEAN
    /\ stage \in {"none", "installing", "asked"}
    /\ believed \in Revisions \cup {Nobody} /\ doubted \in BOOLEAN
    /\ judge \in [Children -> Revisions \cup {Nobody}]
    /\ policy \in Revisions
    /\ request \in [Requests -> {None, Waits} \cup {OwesVerdict(c) : c \in Children}]
    /\ announced \subseteq Children
    /\ calls \in 0..MaxCalls

Init ==
    /\ spawned = 0
    /\ os = [c \in Children |-> "unborn"]
    /\ stopped = {} /\ starting = {} /\ answered = {}
    /\ handshake = [c \in Children |-> "none"]
    /\ previous = [c \in Children |-> Nobody]
    /\ published = Nobody /\ deaths = 0 /\ due = {}
    /\ queue = Closed(NewQueue) /\ stage = "none"
    /\ believed = Nobody /\ doubted = FALSE
    /\ judge = [c \in Children |-> Nobody]
    /\ policy = FirstRevision
    /\ request = [r \in Requests |-> None]
    /\ announced = {}
    /\ calls = 0

-----------------------------------------------------------------------------
(***************************************************************************)
(* Queues and processes, as the actions use them                           *)
(***************************************************************************)

\* What the running request does first: it is sent at once if its process has the policy, else the
\* policy is installed before it.  Other work awaits nothing.
FirstAwait(q) ==
    IF q.running = Idle \/ q.running.kind = "verdict" THEN "none"
    ELSE IF believed = policy THEN "asked"
    ELSE "installing"

\* The queue becomes q.  Work that begins to run installs the policy or is sent.
Enters(q) ==
    LET begins == q.running # queue.running
        first == FirstAwait(q) IN
    /\ queue' = q
    /\ stage' = IF begins THEN first ELSE stage
    /\ judge' = IF begins /\ first = "installing" THEN [judge EXCEPT ![published] = policy] ELSE judge

\* The queue becomes q, a new one or a closed one: the callers of the old one are rejected.
Rejects(q) ==
    /\ queue' = q
    /\ stage' = "none"
    /\ request' = [r \in Requests |-> IF Asked(r) \in Pending(queue) THEN None ELSE request[r]]

\* stopProcess on each of cs: the queue closed, the pipe closed and a signal sent.
StopProcesses(cs) ==
    /\ IF published \in cs THEN Rejects(Closed(queue)) ELSE UNCHANGED askVars
    /\ stopped' = stopped \cup {c \in cs : os[c] = "alive"}

\* spawnProcess: the next process, its initialize sent with the current policy.
SpawnProcess(kind, prev) ==
    LET c == spawned + 1 IN
    /\ spawned < MaxSpawns
    /\ spawned' = c
    /\ os' = [os EXCEPT ![c] = "alive"]
    /\ handshake' = [handshake EXCEPT ![c] = kind]
    /\ previous' = [previous EXCEPT ![c] = prev]
    /\ starting' = starting \cup {c}
    /\ judge' = [judge EXCEPT ![c] = policy]

\* The await of initialize is over, and process c is no longer in the set.
Settles(c) ==
    /\ handshake' = [handshake EXCEPT ![c] = "none"]
    /\ answered' = answered \ {c}
    /\ starting' = starting \ {c}

\* A mutant of OnExit: the cap compared with the deaths before this one.
OnExitLate(c, d) ==
    /\ announced' = announced \cup {c}
    /\ deaths' = d + 1
    /\ due' = IF d > MaxRespawns THEN due ELSE due \cup {c}

\* onExit for the entry of c, with d deaths before: announced, counted, and respawned up to the cap.
OnExit(c, d) ==
    /\ announced' = announced \cup {c}
    /\ deaths' = d + 1
    /\ due' = IF d + 1 > MaxRespawns THEN due ELSE due \cup {c}

\* A mutant of Publish: an exit delivered during the handshake is not caught up with.
PublishUnwatched(c, d) ==
    /\ Settles(c)
    /\ published' = c
    /\ \/ os[c] # "exited" /\ Rejects(NewQueue)
       \/ os[c] # "alive" /\ Rejects(Closed(NewQueue))
    /\ believed' = judge[c] /\ doubted' = FALSE
    /\ deaths' = d
    /\ UNCHANGED <<announced, due>>

\* The entry of process c, with d deaths, takes the place of the one in the map, whose callers are
\* rejected.  A process that died during its handshake brings a queue closed already, if its exit or
\* a broken pipe was noticed; watchForExit catches up with the exit.
Publish(c, d) ==
    /\ Settles(c)
    /\ published' = c
    /\ \/ os[c] # "exited" /\ Rejects(NewQueue)
       \/ os[c] # "alive" /\ Rejects(Closed(NewQueue))
    /\ believed' = judge[c] /\ doubted' = FALSE
    /\ IF os[c] = "exited"
       THEN OnExit(c, d)
       ELSE deaths' = d /\ UNCHANGED <<announced, due>>

-----------------------------------------------------------------------------
(***************************************************************************)
(* Starts                                                                  *)
(***************************************************************************)

\* `start`: a process is spawned and asked to initialize.
Start ==
    /\ calls < MaxCalls
    /\ calls' = calls + 1
    /\ SpawnProcess("start", Nobody)
    /\ UNCHANGED <<stopped, answered, entryVars, askVars, policy, announced>>

\* The process answers initialize; whoever awaits it goes on later.
Reply(c) ==
    /\ os[c] = "alive" /\ handshake[c] # "none" /\ c \notin answered
    /\ answered' = answered \cup {c}
    /\ UNCHANGED <<spawned, os, stopped, handshake, previous, starting, judge, entryVars, askVars,
                   policy, calls, announced>>

\* A mutant of Started: the incumbent is left running behind the map.
StartedOverIncumbent(c) ==
    /\ handshake[c] = "start" /\ c \in answered /\ c \in starting
    /\ Publish(c, 0)
    /\ UNCHANGED <<stopped, spawned, os, previous, judge, policy, calls>>

\* `start` after the handshake: the incumbent is reaped and the process published.
Started(c) ==
    /\ handshake[c] = "start" /\ c \in answered /\ c \in starting
    /\ Publish(c, 0)
    /\ stopped' = stopped \cup {i \in {published} \ {Nobody} : os[i] = "alive"}
    /\ UNCHANGED <<spawned, os, previous, judge, policy, calls>>

\* Either caller after the handshake, when a stop took the process from the set meanwhile.
TornDown(c) ==
    /\ handshake[c] # "none" /\ c \in answered /\ c \notin starting
    /\ Settles(c)
    /\ UNCHANGED <<spawned, os, stopped, previous, judge, entryVars, askVars, policy, calls,
                   announced>>

\* `start` gives up: no answer within the budget, or one of another protocol.
StartFails(c) ==
    /\ handshake[c] = "start" /\ c \in starting
    /\ Settles(c)
    /\ StopProcesses({c})
    /\ UNCHANGED <<spawned, os, previous, judge, entryVars, policy, calls, announced>>

-----------------------------------------------------------------------------
(***************************************************************************)
(* Deaths and respawns                                                     *)
(***************************************************************************)

\* A process dies, by itself or of the signal it was sent.
Dies(c) ==
    /\ os[c] = "alive"
    /\ os' = [os EXCEPT ![c] = "dead"]
    /\ UNCHANGED <<spawned, stopped, handshake, answered, previous, starting, judge, entryVars,
                   askVars, policy, calls, announced>>

\* A write into the pipe of a dead process fails before its exit is delivered.
BrokenPipe(c) ==
    /\ os[c] = "dead" /\ published = c /\ ~queue.closed
    /\ Rejects(Closed(queue))
    /\ UNCHANGED <<procVars, entryVars, policy, calls, announced>>

\* The exit event: the queue is closed, and the death of the entry in the map counted.
Exit(c) ==
    /\ os[c] = "dead"
    /\ os' = [os EXCEPT ![c] = "exited"]
    /\ IF published = c
       THEN Rejects(Closed(queue)) /\ OnExit(c, deaths)
       ELSE UNCHANGED <<askVars, announced, deaths, due>>
    /\ judge' = [judge EXCEPT ![c] = Nobody]
    /\ UNCHANGED <<spawned, stopped, handshake, answered, previous, starting, published, believed,
                   doubted, policy, calls>>

\* stillWanted: no stop and no other start took the place of the entry of c.  (`stopping` is set only
\* as the entry leaves the map.)
StillWanted(c) == published = c

\* The respawn timer of the entry of c: `respawn` up to its await.
RespawnFires(c) ==
    /\ c \in due
    /\ due' = due \ {c}
    /\ IF StillWanted(c)
       THEN SpawnProcess("respawn", c)
       ELSE UNCHANGED <<spawned, os, handshake, previous, starting, judge>>
    /\ UNCHANGED <<stopped, answered, published, deaths, believed, doubted, askVars, policy, calls,
                   announced>>

\* A mutant of Respawned: the entry is not checked again after the handshake.
RespawnedUnchecked(n) ==
    /\ handshake[n] = "respawn" /\ n \in answered /\ n \in starting
    /\ Publish(n, deaths) /\ UNCHANGED stopped
    /\ UNCHANGED <<spawned, os, previous, judge, policy, calls>>

\* A mutant of Respawned: the new entry begins with no deaths.
RespawnedAfresh(n) ==
    /\ handshake[n] = "respawn" /\ n \in answered /\ n \in starting
    /\ IF StillWanted(previous[n])
       THEN Publish(n, 0) /\ UNCHANGED stopped
       ELSE Settles(n) /\ StopProcesses({n}) /\ UNCHANGED <<entryVars, announced>>
    /\ UNCHANGED <<spawned, os, previous, judge, policy, calls>>

\* `respawn` after the handshake: published in the place of its entry, or stopped if that has gone.
Respawned(n) ==
    /\ handshake[n] = "respawn" /\ n \in answered /\ n \in starting
    /\ IF StillWanted(previous[n])
       THEN Publish(n, deaths) /\ UNCHANGED stopped
       ELSE Settles(n) /\ StopProcesses({n}) /\ UNCHANGED <<entryVars, announced>>
    /\ UNCHANGED <<spawned, os, previous, judge, policy, calls>>

\* `respawn` gives up: the child is reaped, the attempt costs the entry a death, and another follows
\* up to the cap, if the entry is still wanted.
RespawnFails(n) ==
    LET prev == previous[n] IN
    /\ handshake[n] = "respawn" /\ n \in starting
    /\ Settles(n)
    /\ StopProcesses({n})
    /\ announced' = IF os[n] = "exited" THEN announced \cup {n} ELSE announced
    /\ IF StillWanted(prev)
       THEN /\ deaths' = deaths + 1
            /\ due' = IF deaths + 1 <= MaxRespawns THEN due \cup {prev} ELSE due
       ELSE UNCHANGED <<deaths, due>>
    /\ UNCHANGED <<spawned, os, previous, judge, published, believed, doubted, policy, calls>>

-----------------------------------------------------------------------------
(***************************************************************************)
(* Stops                                                                   *)
(***************************************************************************)

\* `stop`: the entry is torn down and removed.
Stop ==
    /\ calls < MaxCalls /\ published # Nobody
    /\ calls' = calls + 1
    /\ StopProcesses({published})
    /\ published' = Nobody
    /\ UNCHANGED <<spawned, os, handshake, answered, previous, starting, judge, deaths, due, believed,
                   doubted, policy, announced>>

\* `stopAll`: every process not yet registered is abandoned too, and its pending initialize rejected,
\* which a respawn reports if its child had died by itself.
StopAll ==
    /\ calls < MaxCalls /\ starting # {}
    /\ calls' = calls + 1
    /\ StopProcesses(starting \cup ({published} \ {Nobody}))
    /\ starting' = {}
    /\ published' = Nobody
    /\ handshake' = [c \in Children |-> IF c \in starting \ answered THEN "none" ELSE handshake[c]]
    /\ announced' = announced \cup {n \in starting \ answered : handshake[n] = "respawn" /\ os[n] = "exited"}
    /\ UNCHANGED <<spawned, os, answered, previous, judge, deaths, due, believed, doubted, policy>>

-----------------------------------------------------------------------------
(***************************************************************************)
(* Asking                                                                  *)
(***************************************************************************)

\* `askProvider`: queued on the process in the map.  A closed queue rejects the caller at once.
Ask(r) ==
    /\ request[r] = None /\ published # Nobody /\ ~queue.closed
    /\ request' = [request EXCEPT ![r] = Waits]
    /\ Enters(Run(queue, Asked(r)))
    /\ UNCHANGED <<spawned, os, stopped, handshake, answered, previous, starting, entryVars, policy,
                   calls, announced>>

\* A mutant of Installed: the policy is installed once, whatever it became meanwhile.
InstalledOnce ==
    /\ stage = "installing"
    /\ believed' = judge[published]
    /\ doubted' = FALSE
    /\ stage' = "asked"
    /\ UNCHANGED <<procVars, published, deaths, due, queue, request, policy, calls, announced>>

\* installPolicy's answer: the revision is noted, and the policy installed again if it moved.
Installed ==
    /\ stage = "installing"
    /\ believed' = judge[published]
    /\ doubted' = FALSE
    /\ IF judge[published] = policy
       THEN stage' = "asked" /\ UNCHANGED judge
       ELSE judge' = [judge EXCEPT ![published] = policy] /\ UNCHANGED stage
    /\ UNCHANGED <<spawned, os, stopped, handshake, answered, previous, starting, published, deaths,
                   due, queue, request, policy, calls, announced>>

\* The answer to the request itself; its caller will judge it and owes the process a verdict.
Answer ==
    /\ stage = "asked"
    /\ \E r \in Requests :
         /\ queue.running = Asked(r)
         /\ request' = [request EXCEPT ![r] = OwesVerdict(published)]
    /\ Enters(Settled(queue))
    /\ UNCHANGED <<spawned, os, stopped, handshake, answered, previous, starting, entryVars, policy,
                   calls, announced>>

\* The budget of the running request is over, the warming grace included: its caller fails.  A
\* process that was still initializing at the ceiling is wedged, and killed.
Expires(wedged) ==
    /\ stage # "none"
    /\ \E r \in Requests :
         /\ queue.running = Asked(r)
         /\ request' = [request EXCEPT ![r] = None]
    /\ os' = IF wedged /\ os[published] = "alive" THEN [os EXCEPT ![published] = "dead"] ELSE os
    /\ doubted' = (stage = "installing" \/ doubted)
    /\ Enters(Settled(queue))
    /\ UNCHANGED <<spawned, stopped, handshake, answered, previous, starting, published, deaths, due,
                   believed, policy, calls, announced>>

\* A mutant of PublishVerdict: the provider is found by its id alone.
PublishVerdictById(r) ==
    LET c == request[r].of IN
    /\ request[r].state = "verdict"
    /\ request' = [request EXCEPT ![r] = None]
    /\ IF published # Nobody
       THEN Enters(Run(queue, Verdict(c)))
       ELSE UNCHANGED <<queue, stage, judge>>
    /\ UNCHANGED <<spawned, os, stopped, handshake, answered, previous, starting, entryVars, policy,
                   calls, announced>>

\* `admission`: the verdict goes to the process that answered, if the map still holds it.
PublishVerdict(r) ==
    LET c == request[r].of IN
    /\ request[r].state = "verdict"
    /\ request' = [request EXCEPT ![r] = None]
    /\ IF published = c
       THEN Enters(Run(queue, Verdict(c)))
       ELSE UNCHANGED <<queue, stage, judge>>
    /\ UNCHANGED <<spawned, os, stopped, handshake, answered, previous, starting, entryVars, policy,
                   calls, announced>>

\* A verdict is a notification: it is written and the queue goes on.
VerdictSent ==
    /\ queue.running # Idle /\ queue.running.kind = "verdict"
    /\ Enters(Settled(queue))
    /\ UNCHANGED <<spawned, os, stopped, handshake, answered, previous, starting, entryVars, request,
                   policy, calls, announced>>

\* The core's policy moves.  Only a move that affects an indexed module reaches policyChanged.
PolicyMoves(v, affects) ==
    /\ calls < MaxCalls /\ v # policy
    /\ calls' = calls + 1
    /\ policy' = v
    /\ believed' = IF affects THEN Nobody ELSE believed
    /\ UNCHANGED <<procVars, published, deaths, due, doubted, askVars, announced>>

-----------------------------------------------------------------------------
Next ==
    \/ Start
    \/ Stop
    \/ StopAll
    \/ \E c \in Children :
         \/ Reply(c) \/ Started(c) \/ TornDown(c) \/ StartFails(c)
         \/ Dies(c) \/ BrokenPipe(c) \/ Exit(c)
         \/ RespawnFires(c) \/ Respawned(c) \/ RespawnFails(c)
    \/ \E r \in Requests : Ask(r) \/ PublishVerdict(r)
    \/ Installed
    \/ Answer
    \/ \E wedged \in BOOLEAN : Expires(wedged)
    \/ VerdictSent
    \/ \E v \in Revisions, affects \in BOOLEAN : PolicyMoves(v, affects)

\* Timers fire and events are delivered: every handshake and request has a budget, a process that
\* was sent a signal dies of it, and an exit is noticed.
Fairness ==
    /\ \A c \in Children :
         /\ WF_vars(Started(c) \/ StartFails(c) \/ TornDown(c))
         /\ WF_vars(Respawned(c) \/ RespawnFails(c))
         /\ WF_vars(c \in stopped /\ Dies(c)) /\ WF_vars(Exit(c))
         /\ WF_vars(RespawnFires(c))
    /\ WF_vars(\E wedged \in BOOLEAN : Expires(wedged))
    /\ WF_vars(VerdictSent)
    /\ \A r \in Requests : WF_vars(PublishVerdict(r))

Spec == Init /\ [][Next]_vars /\ Fairness

-----------------------------------------------------------------------------
(***************************************************************************)
(* Properties                                                              *)
(***************************************************************************)

\* No process is left behind, whatever starts, respawns and stops cross: one that lives is signalled
\* by stopProcess exactly when neither the map nor the set of the starting ones holds it.
NoOrphans ==
    \A c \in Children :
        os[c] = "alive" => (c \in stopped <=> c \notin starting \cup {published})

\* A stop is final.  A respawn takes only the place of the entry it was armed for, so what was
\* stopped or replaced does not come back by itself (stillWanted, "a respawn abandoned by teardown
\* must never publish"); and a process that was stopped is not reported as a death.
StopsAreFinal ==
    [][ /\ published' \notin {published, Nobody} => previous[published'] \in {Nobody, published}
        /\ announced' \cap stopped' = {} ]_vars

\* The started process that c replaces, over any number of respawns.
Root[c \in Children] == IF previous[c] = Nobody THEN c ELSE Root[previous[c]]

\* Deaths and failed handshakes are bounded together: one start leads to MaxRespawns respawns at
\* most (MAX_RESPAWNS), whichever way each of its processes went.
LineageBounded ==
    \A c \in 1..spawned : Cardinality({d \in 1..spawned : Root[d] = c}) <= MaxRespawns + 1

\* A request reaches a process only under the policy the core has as it is sent: the last revision
\* that process was told is the current one (installPolicy's loop).  Not so after an install ran out
\* of time, for then the core does not know what the process has.
AsksUnderPolicy ==
    [][ /\ stage' = "asked"
        /\ stage # "asked" \/ queue'.running # queue.running
        /\ ~doubted'
        => judge'[published'] = policy' ]_vars

\* A verdict waits only in front of the process that answered, never of its replacement under the
\* same id, whose ledger does not know the answer (admission, incarnation).
VerdictsReachParser ==
    \A w \in Pending(queue) : w.kind = "verdict" => w.of = published

\* Every caller is answered or fails: not left behind by a death, a stop, a replacement or a wedged
\* provider (RequestQueue.close, withTimeout).
EveryAskSettles ==
    \A r \in Requests : request[r] = Waits ~> request[r] # Waits

\* The entry's process is dead, its deaths are under the cap, and the bound leaves room for another.
Serverless ==
    /\ published # Nobody /\ os[published] # "alive"
    /\ deaths <= MaxRespawns /\ spawned < MaxSpawns

\* A provider that dies under the cap comes back, is replaced or is stopped: no death goes
\* unnoticed, the ones during a handshake included (watchForExit).
ComesBack ==
    Serverless ~> ~Serverless
=============================================================================
