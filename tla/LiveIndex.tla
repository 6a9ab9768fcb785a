----------------------------- MODULE LiveIndex -----------------------------
(***************************************************************************)
(* The live index (core/src/liveIndex.ts, watcher.ts, invalidation.ts, the *)
(* batches of indexer.ts, the warm scan of workspaceScan.ts).              *)
(*                                                                         *)
(* A burst of edits is recorded by path, read when git has said what may   *)
(* be read, held back while the warm scan runs, and applied as one batch   *)
(* under the exclusive gate, one batch at a time.  Batches, the scan and   *)
(* the pump write into one transaction that may be lost for all of them;   *)
(* what a batch lost is read from disk again after a backoff, and a scan   *)
(* starts over.  Any other failure is reported and what it hit dropped:    *)
(* the files a batch had yet to write, or one file whose provider is down, *)
(* whose parse is refused or whose read throws and which keeps its row.    *)
(*                                                                         *)
(* A file is its content, a number, 0 when there is none.  Files here      *)
(* belong to the workspace; guarded and ignored ones, links and evidence   *)
(* of the policy are left out.  A hold of the gate that changes one file   *)
(* is one step, a batch's is several.                                      *)
(***************************************************************************)
EXTENDS Integers, FiniteSets, SequencesExt

CONSTANTS
    Modules,
    Contents,       \* numbers of contents
    MaxEdits,       \* bound: files that differ from the index at first, and changes of files on disk
    MaxTroubles     \* bound: lost batches, failures of git, of the scan, of batches and of files, together

ASSUME LiveAssumption ==
    /\ IsFiniteSet(Modules) /\ Contents \subseteq Nat \ {0}
    /\ MaxEdits \in Nat /\ MaxTroubles \in Nat

VARIABLES
    disk,           \* the content of each file
    index,          \* what the index holds of it, the open transaction included
    base,           \* what a lost transaction leaves of that
    pending, armed, \* the watcher: paths of a burst, and whether a timer will flush it
    flights,        \* flushes that wait for git, in order
    held,           \* batches held back: state and events, by path
    tail,           \* serialized work: batches and sweeps, the first one running
    job,            \* its phase, the files it has yet to write, whether its batch was lost
    lost, retry,    \* paths of lost batches, and whether the timer that reads them again is armed
    missed,         \* files whose last read was reported as failed and dropped (history)
    scan,           \* the warm scan: state, files to read, files seen, whether its batch was lost
    sweep,          \* the sweep's timer is armed
    stopped,        \* stop() was called
    life,           \* of the daemon
    used

watchVars == <<pending, armed, flights>>
lateVars == <<lost, retry, missed>>
lifeVars == <<sweep, stopped, life>>
vars == <<disk, index, base, watchVars, held, tail, job, lateVars, scan, lifeVars, used>>

\* An event of the watcher is what its read found; a batch maps paths to that.
Files == Contents \cup {0}
Batches == UNION {[s -> Files] : s \in SUBSET Modules}
NoEvents == [m \in {} |-> 0]
Sweep == [kind |-> "sweep", events |-> NoEvents]
Batch(events) == [kind |-> "batch", events |-> events]

Idle == [phase |-> "idle", todo |-> {}, lost |-> FALSE]
Scanning == {"listing", "reading"}

TypeOK ==
    /\ disk \in [Modules -> Files] /\ index \in [Modules -> Files] /\ base \in [Modules -> Files]
    /\ pending \subseteq Modules /\ armed \in BOOLEAN /\ (armed <=> pending # {})
    /\ flights \in Seq([of : SUBSET Modules, known : BOOLEAN])
    /\ held.state \in {"holding", "released", "refused"} /\ held.events \in Batches
    /\ (held.state # "holding" => held.events = NoEvents)
    /\ tail \in Seq([kind : {"batch", "sweep"}, events : Batches])
    /\ (\A i \in 1..Len(tail) : tail[i].kind = "sweep" =>
            ~sweep /\ \A j \in 1..Len(tail) : tail[j].kind = "sweep" => i = j)
    /\ job.phase \in {"idle", "gate", "hold"} /\ job.todo \subseteq Modules /\ job.lost \in BOOLEAN
    /\ (job.phase # "idle" => tail # <<>>)
    /\ (job.phase = "hold" => Head(tail).kind = "batch" /\ job.todo \subseteq DOMAIN Head(tail).events)
    /\ (job.phase # "hold" => job.todo = {} /\ ~job.lost)
    /\ lost \subseteq Modules /\ retry \in BOOLEAN /\ (lost # {} => retry \/ stopped)
    /\ missed \subseteq Modules
    /\ scan.state \in Scanning \cup {"sleeping", "done", "failed"}
    /\ scan.todo \subseteq Modules /\ scan.seen \subseteq Modules /\ scan.lost \in BOOLEAN
    /\ sweep \in BOOLEAN /\ stopped \in BOOLEAN /\ (stopped => ~retry /\ ~sweep)
    /\ life \in {"up", "stopping", "exited"}
    /\ used.edits \in 0..MaxEdits /\ used.troubles \in 0..MaxTroubles

\* The watcher is up and the scan begins, over what an earlier daemon left of the index.
Init ==
    /\ disk \in [Modules -> Files] /\ index \in [Modules -> Files] /\ base = index
    /\ pending = {} /\ armed = FALSE /\ flights = <<>>
    /\ held = [state |-> "holding", events |-> NoEvents]
    /\ tail = <<>> /\ job = Idle /\ lost = {} /\ retry = FALSE /\ missed = {}
    /\ scan = [state |-> "listing", todo |-> {}, seen |-> {}, lost |-> FALSE]
    /\ sweep = TRUE /\ stopped = FALSE /\ life = "up"
    /\ used = [edits |-> Cardinality({m \in Modules : disk[m] # index[m]}), troubles |-> 0]
    /\ used.edits <= MaxEdits

Alive == life # "exited"
GateFree == job.phase # "hold" /\ Alive

Trouble ==
    /\ used.troubles < MaxTroubles
    /\ used' = [used EXCEPT !.troubles = @ + 1]

-----------------------------------------------------------------------------
(***************************************************************************)
(* The watcher                                                             *)
(***************************************************************************)

\* `record`: an edit of m on disk, noticed.
Notice(m, paths) ==
    IF stopped THEN UNCHANGED <<pending, armed>>
    ELSE pending' = paths \cup {m} /\ armed' = TRUE

\* Somebody edits, creates or removes a file.
Edit(m, c) ==
    /\ used.edits < MaxEdits /\ c # disk[m]
    /\ used' = [used EXCEPT !.edits = @ + 1]
    /\ disk' = [disk EXCEPT ![m] = c]
    /\ Notice(m, pending) /\ missed' = missed \ {m}
    /\ UNCHANGED <<index, base, flights, held, tail, job, lost, retry, scan, lifeVars>>

\* A refactor step edits a file and indexes it in its own transaction, the open one committed first.
StepWrites(m, c) ==
    /\ GateFree /\ used.edits < MaxEdits /\ c # disk[m]
    /\ used' = [used EXCEPT !.edits = @ + 1]
    /\ disk' = [disk EXCEPT ![m] = c]
    /\ index' = [index EXCEPT ![m] = c] /\ base' = index'
    /\ Notice(m, pending) /\ missed' = missed \ {m}
    /\ UNCHANGED <<flights, held, tail, job, lost, retry, scan, lifeVars>>

\* `admits` without asking git: the index holds the module.  What else the scope knows is left out.
Known(m) == index[m] # 0

\* A later batch laid over an earlier one: of each path the last event.
Over(later, earlier) ==
    [m \in DOMAIN later \cup DOMAIN earlier |-> IF m \in DOMAIN later THEN later[m] ELSE earlier[m]]

\* `push` of what is held back.
Push(events) ==
    CASE held.state = "released" -> tail' = Append(tail, Batch(events)) /\ UNCHANGED held
      [] held.state = "holding"  -> held' = [held EXCEPT !.events = Over(events, @)] /\ UNCHANGED tail
      [] held.state = "refused"  -> UNCHANGED <<held, tail>>

\* A mutant of Deliver: nothing holds a batch back.
DeliverUnheld(modules) ==
    IF stopped \/ modules = {} THEN UNCHANGED <<held, tail>>
    ELSE tail' = Append(tail, Batch([m \in modules |-> disk[m]])) /\ UNCHANGED held

\* `deliver`: the files of a burst are read now.
Deliver(modules) ==
    IF stopped \/ modules = {} THEN UNCHANGED <<held, tail>>
    ELSE Push([m \in modules |-> disk[m]])

\* `flush`: a burst the scope knows is delivered, unless an earlier one still waits for git.
Flush ==
    LET known == \A m \in pending : Known(m) IN
    /\ armed /\ Alive
    /\ pending' = {} /\ armed' = FALSE
    /\ IF known /\ flights = <<>>
       THEN Deliver(pending) /\ UNCHANGED flights
       ELSE flights' = Append(flights, [of |-> pending, known |-> known]) /\ UNCHANGED <<held, tail>>
    /\ UNCHANGED <<disk, index, base, job, lateVars, scan, lifeVars, used>>

flightUnchanged == <<disk, index, base, job, lateVars, scan, lifeVars>>

\* The first flush that waits is answered: git ignores nothing of it, or rejects.
FlightLands ==
    /\ flights # <<>> /\ Alive
    /\ flights' = Tail(flights)
    /\ Deliver(Head(flights).of)
    /\ UNCHANGED <<flightUnchanged, pending, armed, used>>

\* git cannot say: what the scope does not hold is asked again in a later flush.
FlightFails ==
    LET unknown == {m \in Head(flights).of : ~Known(m)} IN
    /\ flights # <<>> /\ Alive /\ ~Head(flights).known /\ Trouble
    /\ flights' = Tail(flights)
    /\ pending' = IF stopped THEN pending ELSE pending \cup unknown
    /\ armed' = (pending' # {})
    /\ Deliver(Head(flights).of \ unknown)
    /\ UNCHANGED flightUnchanged

-----------------------------------------------------------------------------
(***************************************************************************)
(* The shared transaction                                                  *)
(***************************************************************************)

\* The pump parses a module it has reason to.
PumpParses(m) ==
    /\ GateFree /\ index[m] # 0 /\ disk[m] # index[m]
    /\ index' = [index EXCEPT ![m] = disk[m]]
    /\ UNCHANGED <<disk, base, watchVars, held, tail, job, lateVars, scan, lifeVars, used>>

\* `commitDueBatch`.
CommitDue ==
    /\ base # index /\ Alive
    /\ base' = index
    /\ UNCHANGED <<disk, index, watchVars, held, tail, job, lateVars, scan, lifeVars, used>>

\* `loseBatch`: everything in it is rolled back, and every pass under way has lost.
LoseBatch ==
    /\ base # index \/ job.todo # {}
    /\ Alive /\ Trouble
    /\ index' = base
    /\ job' = [job EXCEPT !.lost = job.phase = "hold"]
    /\ scan' = [scan EXCEPT !.lost = scan.state = "reading"]
    /\ UNCHANGED <<disk, base, watchVars, held, tail, lateVars, lifeVars>>

-----------------------------------------------------------------------------
(***************************************************************************)
(* The warm scan                                                           *)
(***************************************************************************)

scanUnchanged == <<disk, watchVars, job, lost, retry>>

\* What is there is listed.
ScanLists ==
    /\ scan.state = "listing" /\ Alive
    /\ scan' = [scan EXCEPT !.state = "reading", !.todo = {m \in Modules : disk[m] # 0}, !.seen = {}]
    /\ UNCHANGED <<scanUnchanged, index, base, held, tail, missed, lifeVars, used>>

\* One file, under the gate; it may be gone by now.
ScanReads(m) ==
    /\ scan.state = "reading" /\ ~scan.lost /\ m \in scan.todo /\ GateFree
    /\ index' = [index EXCEPT ![m] = disk[m]]
    /\ scan' = [scan EXCEPT !.todo = @ \ {m}, !.seen = IF disk[m] = 0 THEN @ ELSE @ \cup {m}]
    /\ missed' = missed \ {m}
    /\ UNCHANGED <<scanUnchanged, base, held, tail, lifeVars, used>>

\* Or its provider is down, its parse refused, or reading it throws: it keeps its row and counts as seen.
ScanLeaves(m) ==
    /\ scan.state = "reading" /\ ~scan.lost /\ m \in scan.todo /\ GateFree /\ Trouble
    /\ scan' = [scan EXCEPT !.todo = @ \ {m}, !.seen = @ \cup {m}]
    /\ missed' = missed \cup {m}
    /\ UNCHANGED <<scanUnchanged, index, base, held, tail, lifeVars>>

\* What it did not see is pruned, the transaction committed, and what was held back released as one
\* batch.
ScanEnds ==
    /\ scan.state = "reading" /\ ~scan.lost /\ scan.todo = {} /\ GateFree
    /\ index' = [m \in Modules |-> IF m \in scan.seen THEN index[m] ELSE 0] /\ base' = index'
    /\ scan' = [scan EXCEPT !.state = "done", !.seen = {}]
    /\ IF held.state = "holding"
       THEN /\ held' = [state |-> "released", events |-> NoEvents]
            /\ tail' = IF held.events = NoEvents THEN tail ELSE Append(tail, Batch(held.events))
       ELSE UNCHANGED <<held, tail>>
    /\ UNCHANGED <<scanUnchanged, missed, lifeVars, used>>

\* Its batch is lost: it sleeps and starts over.
ScanSleeps ==
    /\ scan.state = "reading" /\ scan.lost /\ Alive
    /\ scan' = [state |-> "sleeping", todo |-> {}, seen |-> {}, lost |-> FALSE]
    /\ UNCHANGED <<scanUnchanged, index, base, held, tail, missed, lifeVars, used>>

ScanAgain ==
    /\ scan.state = "sleeping" /\ Alive
    /\ scan' = [scan EXCEPT !.state = "listing"]
    /\ UNCHANGED <<scanUnchanged, index, base, held, tail, missed, lifeVars, used>>

\* `stop`: the watcher and the timers.
StopLive ==
    /\ stopped' = TRUE /\ sweep' = FALSE /\ retry' = FALSE
    /\ pending' = {} /\ armed' = FALSE

\* Another error ends it: what was held back is refused, and the live index stopped.
ScanThrows ==
    /\ scan.state \in Scanning /\ Alive /\ Trouble
    /\ scan' = [state |-> "failed", todo |-> {}, seen |-> {}, lost |-> FALSE]
    /\ held' = [state |-> "refused", events |-> NoEvents]
    /\ StopLive
    /\ UNCHANGED <<disk, index, base, flights, tail, job, lost, missed, life>>

-----------------------------------------------------------------------------
(***************************************************************************)
(* Batches and sweeps, one at a time                                       *)
(***************************************************************************)

Done == tail' = Tail(tail) /\ job' = Idle

\* The next piece of work asks for the gate, or is skipped on the way out.
JobStarts ==
    /\ tail # <<>> /\ job.phase = "idle" /\ Alive
    /\ IF (Head(tail).kind = "batch" /\ life = "stopping") \/ (Head(tail).kind = "sweep" /\ stopped)
       THEN Done
       ELSE job' = [job EXCEPT !.phase = "gate"] /\ UNCHANGED tail
    /\ UNCHANGED <<disk, index, base, watchVars, held, lateVars, scan, lifeVars, used>>

\* `decideInvalidation`: what the events tell apart from the index; a delete always counts.
Decided(events) == {m \in DOMAIN events : events[m] = 0 \/ events[m] # index[m]}

\* A batch takes the gate and decides; under a scan it would be refused and dropped.
BatchEnters ==
    /\ job.phase = "gate" /\ Head(tail).kind = "batch" /\ Alive
    /\ IF scan.state \in Scanning THEN Done
       ELSE job' = [job EXCEPT !.phase = "hold", !.todo = Decided(Head(tail).events)] /\ UNCHANGED tail
    /\ UNCHANGED <<disk, index, base, watchVars, held, lateVars, scan, lifeVars, used>>

\* A mutant of Sweeps: its timer is armed again whatever happened meanwhile.
SweepsAgain ==
    /\ job.phase = "gate" /\ Head(tail).kind = "sweep" /\ Alive
    /\ Done /\ sweep' = TRUE
    /\ UNCHANGED <<disk, index, base, watchVars, held, lateVars, scan, stopped, life, used>>

\* A sweep runs under the gate; its timer is armed again unless the live index stopped.
Sweeps ==
    /\ job.phase = "gate" /\ Head(tail).kind = "sweep" /\ Alive
    /\ Done /\ sweep' = ~stopped
    /\ UNCHANGED <<disk, index, base, watchVars, held, lateVars, scan, stopped, life, used>>

Holds == job.phase = "hold" /\ Alive

\* One file: forgotten as its event says, or read from disk again.
BatchWrites(m) ==
    /\ Holds /\ ~job.lost /\ life = "up" /\ m \in job.todo
    /\ index' = [index EXCEPT ![m] = IF Head(tail).events[m] = 0 THEN 0 ELSE disk[m]]
    /\ job' = [job EXCEPT !.todo = @ \ {m}]
    /\ missed' = missed \ {m}
    /\ UNCHANGED <<disk, base, watchVars, held, tail, lost, retry, scan, lifeVars, used>>

\* Or its provider is down, its parse refused, or reading it throws: an outcome of that file alone, which
\* keeps its row.
BatchLeaves(m) ==
    /\ Holds /\ ~job.lost /\ life = "up" /\ m \in job.todo /\ Head(tail).events[m] # 0 /\ Trouble
    /\ job' = [job EXCEPT !.todo = @ \ {m}]
    /\ missed' = missed \cup {m}
    /\ UNCHANGED <<disk, index, base, watchVars, held, tail, lost, retry, scan, lifeVars>>

\* The batch is through, or cut short on the way out.  It may read again what else the scope lists and
\* the index lacks, then the transaction is committed.
BatchEnds(again) ==
    /\ Holds /\ ~job.lost /\ (job.todo = {} \/ life = "stopping")
    /\ again \subseteq {m \in Modules \ DOMAIN Head(tail).events : index[m] = 0 /\ disk[m] # 0}
    /\ life = "stopping" => again = {}
    /\ index' = [m \in Modules |-> IF m \in again THEN disk[m] ELSE index[m]] /\ base' = index'
    /\ missed' = missed \ again
    /\ Done
    /\ UNCHANGED <<disk, watchVars, held, lost, retry, scan, lifeVars, used>>

\* Anything but a loss throws: what was written is committed, the error reported and the batch dropped.
BatchThrows ==
    /\ Holds /\ ~job.lost /\ Trouble
    /\ base' = index
    /\ missed' = missed \cup job.todo
    /\ Done
    /\ UNCHANGED <<disk, index, watchVars, held, lost, retry, scan, lifeVars>>

\* A mutant of BatchFails: the loss is reported and the batch dropped.
BatchFailsDropped ==
    /\ Holds /\ job.lost
    /\ Done
    /\ UNCHANGED <<disk, index, base, watchVars, held, lateVars, scan, lifeVars, used>>

\* The transaction was lost: the batch throws, and its paths are read again after a backoff.
BatchFails ==
    /\ Holds /\ job.lost
    /\ lost' = lost \cup DOMAIN Head(tail).events
    /\ retry' = ~stopped
    /\ Done
    /\ UNCHANGED <<disk, index, base, watchVars, held, missed, scan, lifeVars, used>>

\* The timer of `retryLost`: paths, read as they are now, in a batch of their own.
RetryFires ==
    /\ retry /\ Alive
    /\ retry' = FALSE /\ lost' = {}
    /\ tail' = Append(tail, Batch([m \in lost |-> disk[m]]))
    /\ UNCHANGED <<disk, index, base, watchVars, held, job, missed, scan, lifeVars, used>>

\* A mutant of SweepFires: the timer repeats.
SweepFiresAgain ==
    /\ sweep /\ Alive
    /\ tail' = Append(tail, Sweep)
    /\ UNCHANGED <<disk, index, base, watchVars, held, job, lateVars, scan, lifeVars, used>>

\* The sweep's timer.
SweepFires ==
    /\ sweep /\ Alive
    /\ sweep' = FALSE
    /\ tail' = Append(tail, Sweep)
    /\ UNCHANGED <<disk, index, base, watchVars, held, job, lateVars, scan, stopped, life, used>>

\* The daemon is asked to stop, and tears down under the gate.
Shutdown ==
    /\ life = "up" /\ life' = "stopping"
    /\ UNCHANGED <<disk, index, base, watchVars, held, tail, job, lateVars, scan, sweep, stopped, used>>

Exit ==
    /\ life = "stopping" /\ GateFree
    /\ life' = "exited" /\ StopLive
    /\ UNCHANGED <<disk, index, base, flights, held, tail, job, lost, missed, scan, used>>

-----------------------------------------------------------------------------
ScanSteps ==
    \/ ScanLists \/ (\E m \in Modules : ScanReads(m)) \/ ScanEnds \/ ScanSleeps \/ ScanAgain

Serve ==
    \/ JobStarts \/ BatchEnters \/ Sweeps
    \/ \E m \in Modules : BatchWrites(m)
    \/ \E again \in SUBSET Modules : BatchEnds(again)
    \/ BatchFails

\* Failures that are reported, and what they hit dropped.
Drops ==
    \/ \E m \in Modules : ScanLeaves(m) \/ BatchLeaves(m)
    \/ BatchThrows

Next ==
    \/ \E m \in Modules, c \in Files : Edit(m, c) \/ StepWrites(m, c)
    \/ Flush \/ FlightLands \/ FlightFails
    \/ \E m \in Modules : PumpParses(m)
    \/ CommitDue \/ LoseBatch
    \/ ScanSteps \/ ScanThrows
    \/ Drops
    \/ Serve \/ RetryFires \/ SweepFires
    \/ Shutdown \/ Exit

\* Timers fire, git answers, the gate serves the scan and the batches, and the transaction's timer
\* commits it.
Fairness ==
    /\ WF_vars(Flush) /\ WF_vars(FlightLands) /\ WF_vars(RetryFires)
    /\ WF_vars(ScanSteps) /\ WF_vars(Serve) /\ WF_vars(CommitDue)

Spec == Init /\ [][Next]_vars /\ Fairness

-----------------------------------------------------------------------------
(***************************************************************************)
(* Properties                                                              *)
(***************************************************************************)

\* No batch is applied while the scan lists, reads and prunes ("live indexing cannot run under the
\* warmup pass", applyEvents), whoever pushed it and however often the scan starts over.
BatchesWaitForScan ==
    job.phase = "hold" => scan.state \notin Scanning

\* Once editing stops, the index settles on what is on disk and durably so, whatever was lost, held
\* back, cut from git or read too early (startLiveIndex: "the session repairs itself once the store takes
\* writes again"): each file but those whose last read was reported as failed and dropped, as the same
\* comment says, until they are edited or read again; and unless the scan failed for good or the daemon
\* is on its way out.
CatchesUp ==
    <>[](\/ \A m \in Modules \ missed : index[m] = disk[m] /\ base[m] = disk[m]
         \/ stopped \/ life # "up")

\* After stop() nothing stays armed or comes again: what was queued or in flight runs out.
Quiesces ==
    stopped ~> [](\/ tail = <<>> /\ flights = <<>> /\ ~armed /\ ~retry /\ ~sweep
                  \/ life = "exited")
=============================================================================
