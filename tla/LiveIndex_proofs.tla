-------------------------- MODULE LiveIndex_proofs --------------------------
(***************************************************************************)
(* No batch is applied under the warm scan, for any files, contents and    *)
(* numbers of edits and failures.                                          *)
(*                                                                         *)
(* The code checks this only where it refuses: a batch that finds a scan   *)
(* under way is dropped.  The argument is that none ever does: as long as  *)
(* the scan may read, what the watcher sends is held back, so the work in  *)
(* the tail is sweeps, and the one in hand is no batch.                    *)
(*                                                                         *)
(* The second half is the rest of the state: timers for what waits, one    *)
(* sweep, and nothing due after a stop.                                    *)
(***************************************************************************)
EXTENDS LiveIndex, SequenceTheorems, FiniteSetTheorems, TLAPS

\* What is queued.
Works == [kind : {"batch", "sweep"}, events : Batches]

OnlySweeps(works) == \A i \in 1..Len(works) : works[i].kind = "sweep"

Types ==
  /\ disk \in [Modules -> Files]
  /\ pending \subseteq Modules /\ lost \subseteq Modules
  /\ flights \in Seq([of : SUBSET Modules, known : BOOLEAN])
  /\ held \in [state : {"holding", "released", "refused"}, events : Batches]
  /\ tail \in Seq(Works)
  /\ job \in [phase : {"idle", "gate", "hold"}, todo : SUBSET Modules, lost : BOOLEAN]
  /\ scan \in [state : Scanning \cup {"sleeping", "done", "failed"},
               todo : SUBSET Modules, seen : SUBSET Modules, lost : BOOLEAN]

\* While the scan may read, batches are held back.
HeldUnderScan ==
  scan.state \in Scanning \cup {"sleeping"} => held.state = "holding"

\* While they are, none is queued, nor due to be read again.
NothingQueued ==
  held.state = "holding" => ~retry /\ OnlySweeps(tail)

\* The work in hand is the first of the tail, and what holds the gate is a batch.
JobInHand ==
  /\ job.phase # "idle" => tail # <<>>
  /\ job.phase = "hold" => Head(tail).kind = "batch"

IInv == Types /\ HeldUnderScan /\ NothingQueued /\ JobInHand

-----------------------------------------------------------------------------
(***************************************************************************)
(* Batches and the tail                                                    *)
(***************************************************************************)

\* Reading a set of files gives a batch.
LEMMA ReadIsBatch ==
  ASSUME NEW s \in SUBSET Modules, disk \in [Modules -> Files]
  PROVE  [m \in s |-> disk[m]] \in Batches
<1>1. [m \in s |-> disk[m]] \in [s -> Files]
  OBVIOUS
<1> QED
  BY <1>1 DEF Batches

\* A later batch laid over an earlier one is a batch.
LEMMA MergeIsBatch ==
  ASSUME NEW e \in Batches, NEW f \in Batches
  PROVE  Over(e, f) \in Batches
<1>1. PICK s \in SUBSET Modules : e \in [s -> Files]
  BY DEF Batches
<1>2. PICK t \in SUBSET Modules : f \in [t -> Files]
  BY DEF Batches
<1>3. Over(e, f) \in [s \cup t -> Files]
  BY <1>1, <1>2 DEF Over
<1> QED
  BY <1>3 DEF Batches

LEMMA NoEventsIsBatch == NoEvents \in Batches
<1>1. NoEvents \in [{} -> Files]
  BY DEF NoEvents
<1> QED
  BY <1>1 DEF Batches

\* A batch is about files of the workspace.
LEMMA BatchDomain ==
  ASSUME NEW e \in Batches
  PROVE  DOMAIN e \subseteq Modules
BY DEF Batches

\* Work queued last leaves the work in hand where it is.
LEMMA Queued ==
  ASSUME NEW t \in Seq(Works), NEW w \in Works
  PROVE  /\ Append(t, w) \in Seq(Works) /\ Append(t, w) # <<>>
         /\ t # <<>> => Head(Append(t, w)) = Head(t)
         /\ OnlySweeps(t) /\ w.kind = "sweep" => OnlySweeps(Append(t, w))
BY AppendProperties, HeadTailAppend DEF OnlySweeps

\* The work in hand leaves from the front.
LEMMA Dequeued ==
  ASSUME NEW t \in Seq(Works), t # <<>>
  PROVE  /\ Head(t) \in Works /\ Head(t) = t[1] /\ 1 \in 1..Len(t)
         /\ Tail(t) \in Seq(Works)
         /\ OnlySweeps(t) => OnlySweeps(Tail(t))
BY HeadTailProperties DEF OnlySweeps

\* While batches are held back, no batch holds the gate.
LEMMA NoneHolds ==
  ASSUME IInv
  PROVE  held.state = "holding" => job.phase # "hold"
<1>1. SUFFICES ASSUME held.state = "holding", job.phase = "hold"
               PROVE  FALSE
  OBVIOUS
<1>2. tail \in Seq(Works) /\ tail # <<>> /\ OnlySweeps(tail) /\ Head(tail).kind = "batch"
  BY <1>1 DEF IInv, Types, NothingQueued, JobInHand
<1>3. Head(tail) = tail[1] /\ 1 \in 1..Len(tail)
  BY <1>2, Dequeued
<1> QED
  BY <1>2, <1>3 DEF OnlySweeps

\* What the watcher delivers is queued once batches are released, and held back before.
LEMMA Delivers ==
  ASSUME IInv, NEW modules \in SUBSET Modules, Deliver(modules)
  PROVE  /\ held' \in [state : {"holding", "released", "refused"}, events : Batches]
         /\ held'.state = held.state
         /\ tail' \in Seq(Works)
         /\ tail # <<>> => tail' # <<>> /\ Head(tail') = Head(tail)
         /\ held.state = "holding" => tail' = tail
<1> DEFINE read == [m \in modules |-> disk[m]]
<1>0. held \in [state : {"holding", "released", "refused"}, events : Batches] /\ tail \in Seq(Works)
  BY DEF IInv, Types
<1>1. read \in Batches
  BY ReadIsBatch DEF IInv, Types
<1>2. CASE stopped \/ modules = {}
  BY <1>0, <1>2 DEF Deliver
<1>3. CASE ~(stopped \/ modules = {})
  <2>1. Push(read)
    BY <1>3 DEF Deliver
  <2>2. CASE held.state = "released"
    <3>1. tail' = Append(tail, Batch(read)) /\ held' = held
      BY <2>1, <2>2 DEF Push
    <3>2. Batch(read) \in Works
      BY <1>1 DEF Batch, Works
    <3> QED
      BY <1>0, <2>2, <3>1, <3>2, Queued
  <2>3. CASE held.state = "holding"
    <3>1. held' = [held EXCEPT !.events = Over(read, held.events)] /\ tail' = tail
      BY <2>1, <2>3 DEF Push
    <3>2. Over(read, held.events) \in Batches
      BY <1>0, <1>1, MergeIsBatch
    <3> QED
      BY <1>0, <3>1, <3>2
  <2>4. CASE held.state = "refused"
    <3>1. held' = held /\ tail' = tail
      BY <2>1, <2>4 DEF Push
    <3> QED
      BY <1>0, <3>1
  <2> QED
    BY <1>0, <2>2, <2>3, <2>4
<1> QED
  BY <1>2, <1>3

\* A step of the watcher or of the transaction that touches neither the scan nor a timer of lost
\* batches, keeps the phase of the work in hand, and at most delivers.
LEMMA DeliveryKeeps ==
  ASSUME IInv, Types',
         scan'.state = scan.state, retry' = retry, job'.phase = job.phase,
         held'.state = held.state,
         tail # <<>> => tail' # <<>> /\ Head(tail') = Head(tail),
         held.state = "holding" => tail' = tail
  PROVE  IInv'
<1>1. HeldUnderScan'
  BY DEF IInv, HeldUnderScan
<1>2. NothingQueued'
  BY DEF IInv, NothingQueued, OnlySweeps
<1>3. JobInHand'
  BY DEF IInv, JobInHand
<1> QED
  BY <1>1, <1>2, <1>3 DEF IInv

\* The work in hand is through.
LEMMA DoneKeeps ==
  ASSUME IInv, Done, job.phase # "idle" \/ tail # <<>>
  PROVE  /\ tail' \in Seq(Works)
         /\ job' \in [phase : {"idle", "gate", "hold"}, todo : SUBSET Modules, lost : BOOLEAN]
         /\ OnlySweeps(tail) => OnlySweeps(tail')
         /\ JobInHand'
<1>1. tail \in Seq(Works) /\ tail # <<>>
  BY DEF IInv, Types, JobInHand
<1>2. tail' = Tail(tail) /\ job' = Idle
  BY DEF Done
<1> QED
  BY <1>1, <1>2, Dequeued DEF Idle, JobInHand

-----------------------------------------------------------------------------
(***************************************************************************)
(* Induction                                                               *)
(***************************************************************************)

LEMMA InitIInv == Init => IInv
<1> SUFFICES ASSUME Init PROVE IInv
  OBVIOUS
<1>1. Types
  BY NoEventsIsBatch, EmptySeq DEF Init, Types, Idle, Scanning
<1> QED
  BY <1>1 DEF Init, IInv, HeldUnderScan, NothingQueued, JobInHand, OnlySweeps, Idle

\* The watcher: edits, flushes and answers of git.
LEMMA WatcherKeeps ==
  ASSUME IInv,
         \/ \E m \in Modules, c \in Files : Edit(m, c) \/ StepWrites(m, c)
         \/ Flush \/ FlightLands \/ FlightFails
  PROVE  IInv'
<1>0. Types
  BY DEF IInv
<1> USE DEF watchVars, lateVars, lifeVars, flightUnchanged
<1>1. ASSUME NEW m \in Modules, NEW c \in Files, Edit(m, c) \/ StepWrites(m, c)
      PROVE  IInv'
  <2>1. disk' \in [Modules -> Files] /\ pending' \subseteq Modules
    BY <1>0, <1>1, ZenonT(40) DEF Edit, StepWrites, Notice, Types
  <2>2. UNCHANGED <<flights, held, tail, job, lost, retry, scan>>
    BY <1>1 DEF Edit, StepWrites
  <2>3. Types'
    BY <1>0, <2>1, <2>2 DEF Types
  <2> QED
    BY <2>2, <2>3, DeliveryKeeps
<1>2. CASE Flush
  <2>1. /\ pending' = {} /\ pending \in SUBSET Modules
        /\ UNCHANGED <<disk, job, lost, retry, scan>>
    BY <1>0, <1>2 DEF Flush, Types
  <2>2. CASE (\A m \in pending : Known(m)) /\ flights = <<>>
    <3>1. Deliver(pending) /\ flights' = flights
      BY <1>2, <2>2 DEF Flush
    <3>2. Types'
      BY <1>0, <2>1, <3>1, Delivers DEF Types
    <3> QED
      BY <2>1, <3>1, <3>2, Delivers, DeliveryKeeps
  <2>3. CASE ~((\A m \in pending : Known(m)) /\ flights = <<>>)
    <3> DEFINE f == [of |-> pending, known |-> \A m \in pending : Known(m)]
    <3>1. flights' = Append(flights, f) /\ UNCHANGED <<held, tail>>
      BY <1>2, <2>3 DEF Flush
    <3>2. f \in [of : SUBSET Modules, known : BOOLEAN]
      BY <2>1
    <3>3. flights' \in Seq([of : SUBSET Modules, known : BOOLEAN])
      BY <1>0, <3>1, <3>2, AppendProperties DEF Types
    <3>4. Types'
      BY <1>0, <2>1, <3>1, <3>3 DEF Types
    <3> QED
      BY <2>1, <3>1, <3>4, DeliveryKeeps
  <2> QED
    BY <2>2, <2>3
<1>3. CASE FlightLands \/ FlightFails
  <2>1. flights # <<>> /\ flights' = Tail(flights) /\ UNCHANGED <<disk, job, lost, retry, scan>>
    BY <1>3 DEF FlightLands, FlightFails
  <2> DEFINE Flights == [of : SUBSET Modules, known : BOOLEAN]
  <2>2. flights \in Seq(Flights)
    BY <1>0 DEF Types
  <2>3. Head(flights) \in Flights /\ Tail(flights) \in Seq(Flights)
    <3> HIDE DEF Flights
    <3> QED
      BY <2>1, <2>2, HeadTailProperties
  <2>4. Head(flights).of \in SUBSET Modules
        /\ flights' \in Seq([of : SUBSET Modules, known : BOOLEAN])
    BY <2>1, <2>3
  <2>5. PICK modules \in SUBSET Modules : Deliver(modules)
    BY <1>3, <2>4 DEF FlightLands, FlightFails
  <2>6. pending' \subseteq Modules
    BY <1>0, <1>3, <2>4 DEF FlightLands, FlightFails, Types
  <2>7. Types'
    BY <1>0, <2>1, <2>4, <2>5, <2>6, Delivers DEF Types
  <2> QED
    BY <2>1, <2>5, <2>7, Delivers, DeliveryKeeps
<1> QED
  BY <1>1, <1>2, <1>3

\* The shared transaction: parses, commits and losses.
LEMMA TransactionKeeps ==
  ASSUME IInv, (\E m \in Modules : PumpParses(m)) \/ CommitDue \/ LoseBatch
  PROVE  IInv'
<1>0. Types
  BY DEF IInv
<1>1. /\ UNCHANGED <<disk, pending, flights, held, tail, lost, retry>>
      /\ job' \in [phase : {"idle", "gate", "hold"}, todo : SUBSET Modules, lost : BOOLEAN]
      /\ job'.phase = job.phase
      /\ scan' \in [state : Scanning \cup {"sleeping", "done", "failed"},
                    todo : SUBSET Modules, seen : SUBSET Modules, lost : BOOLEAN]
      /\ scan'.state = scan.state
  BY <1>0 DEF PumpParses, CommitDue, LoseBatch, Types, watchVars, lateVars
<1>2. Types'
  BY <1>0, <1>1 DEF Types
<1> QED
  BY <1>1, <1>2, DeliveryKeeps

\* The warm scan: batches are let go only as it ends, and refused only as it fails.
LEMMA ScanKeeps ==
  ASSUME IInv, ScanSteps \/ ScanThrows
  PROVE  IInv'
<1>0. Types
  BY DEF IInv
<1> USE DEF scanUnchanged, watchVars, lateVars, lifeVars
<1>1. CASE ScanLists \/ (\E m \in Modules : ScanReads(m)) \/ ScanSleeps \/ ScanAgain
  <2> DEFINE Scans == [state : Scanning \cup {"sleeping", "done", "failed"},
                      todo : SUBSET Modules, seen : SUBSET Modules, lost : BOOLEAN]
  <2>1. scan \in Scans
    BY <1>0 DEF Types
  <2>2. /\ UNCHANGED <<disk, pending, flights, held, tail, job, lost, retry>>
        /\ scan.state \in Scanning \cup {"sleeping"}
    BY <1>1 DEF ScanLists, ScanReads, ScanSleeps, ScanAgain, Scanning
  <2>3. scan' \in Scans
    <3>1. CASE ScanLists
      BY <2>1, <3>1 DEF ScanLists, Scanning
    <3>2. ASSUME NEW m \in Modules, ScanReads(m) PROVE scan' \in Scans
      <4>1. (IF disk[m] = 0 THEN scan.seen ELSE scan.seen \cup {m}) \subseteq Modules
        BY <2>1
      <4> QED
        BY <2>1, <3>2, <4>1 DEF ScanReads
    <3>3. CASE ScanSleeps
      BY <3>3 DEF ScanSleeps
    <3>4. CASE ScanAgain
      BY <2>1, <3>4 DEF ScanAgain, Scanning
    <3> QED
      BY <1>1, <3>1, <3>2, <3>3, <3>4
  <2>4. /\ UNCHANGED <<disk, pending, flights, held, tail, job, lost, retry>>
        /\ scan.state \in Scanning \cup {"sleeping"} /\ scan' \in Scans
    BY <2>2, <2>3
  <2>5. Types'
    BY <1>0, <2>4 DEF Types
  <2>6. HeldUnderScan'
    BY <2>4 DEF IInv, HeldUnderScan
  <2>7. NothingQueued' /\ JobInHand'
    BY <2>4 DEF IInv, NothingQueued, JobInHand, OnlySweeps
  <2> QED
    BY <2>5, <2>6, <2>7 DEF IInv
<1>2. CASE ScanEnds
  <2>1. /\ UNCHANGED <<disk, pending, flights, job, lost, retry>>
        /\ scan'.state = "done"
        /\ scan' \in [state : Scanning \cup {"sleeping", "done", "failed"},
                      todo : SUBSET Modules, seen : SUBSET Modules, lost : BOOLEAN]
    BY <1>0, <1>2 DEF ScanEnds, Types, Scanning
  <2>2. held.state = "holding"
    BY <1>2 DEF ScanEnds, IInv, HeldUnderScan, Scanning
  <2>3. /\ held' = [state |-> "released", events |-> NoEvents]
        /\ tail' = IF held.events = NoEvents THEN tail ELSE Append(tail, Batch(held.events))
    BY <1>2, <2>2 DEF ScanEnds
  <2>4. Batch(held.events) \in Works
    BY <1>0 DEF Batch, Works, Types
  <2>5. /\ tail' \in Seq(Works)
        /\ tail # <<>> => tail' # <<>> /\ Head(tail') = Head(tail)
    BY <1>0, <2>3, <2>4, Queued DEF Types
  <2>6. Types'
    BY <1>0, <2>1, <2>3, <2>5, NoEventsIsBatch DEF Types
  <2>7. HeldUnderScan' /\ NothingQueued'
    BY <2>1, <2>3 DEF HeldUnderScan, NothingQueued, Scanning
  <2>8. JobInHand'
    BY <2>1, <2>5 DEF IInv, JobInHand
  <2> QED
    BY <2>6, <2>7, <2>8 DEF IInv
<1>3. CASE ScanThrows
  <2>1. /\ UNCHANGED <<disk, flights, tail, job, lost>>
        /\ scan' = [state |-> "failed", todo |-> {}, seen |-> {}, lost |-> FALSE]
        /\ held' = [state |-> "refused", events |-> NoEvents]
        /\ pending' = {}
    BY <1>3 DEF ScanThrows, StopLive
  <2>2. Types'
    BY <1>0, <2>1, NoEventsIsBatch DEF Types
  <2>3. HeldUnderScan' /\ NothingQueued'
    BY <2>1 DEF HeldUnderScan, NothingQueued, Scanning
  <2>4. JobInHand'
    BY <2>1 DEF IInv, JobInHand
  <2> QED
    BY <2>2, <2>3, <2>4 DEF IInv
<1> QED
  BY <1>1, <1>2, <1>3 DEF ScanSteps

\* A failure that is reported passes over one file of the scan or of the batch in hand, or ends that
\* batch and commits what is written; nothing else but the record of what was missed.
LEMMA DropsSteps ==
  ASSUME IInv, Drops
  PROVE  /\ UNCHANGED <<disk, index, pending, armed, flights, held, lost, retry, sweep, stopped, life>>
         /\ base' = base \/ base' = index
         /\ Trouble
         /\ \/ /\ job' = job /\ tail' = tail /\ scan'.state = scan.state
               /\ scan' \in [state : Scanning \cup {"sleeping", "done", "failed"},
                             todo : SUBSET Modules, seen : SUBSET Modules, lost : BOOLEAN]
            \/ /\ scan' = scan /\ tail' = tail /\ job.phase = "hold"
               /\ \E m \in Modules : job' = [job EXCEPT !.todo = job.todo \ {m}]
            \/ scan' = scan /\ Done /\ job.phase = "hold"
<1> USE DEF scanUnchanged, watchVars, lifeVars, Trouble
<1>1. ASSUME NEW m \in Modules, ScanLeaves(m)
      PROVE  scan' \in [state : Scanning \cup {"sleeping", "done", "failed"},
                        todo : SUBSET Modules, seen : SUBSET Modules, lost : BOOLEAN]
             /\ scan'.state = scan.state
  <2>1. scan' = [scan EXCEPT !.todo = scan.todo \ {m}, !.seen = scan.seen \cup {m}]
    BY <1>1 DEF ScanLeaves
  <2> QED
    BY <2>1 DEF IInv, Types
<1>2. ASSUME NEW m \in Modules, BatchLeaves(m)
      PROVE  job' = [job EXCEPT !.todo = job.todo \ {m}] /\ job.phase = "hold"
  BY <1>2 DEF BatchLeaves, Holds
<1>3. CASE \E m \in Modules : ScanLeaves(m)
  BY <1>1, <1>3 DEF ScanLeaves
<1>4. CASE \E m \in Modules : BatchLeaves(m)
  BY <1>2, <1>4 DEF BatchLeaves
<1>5. CASE BatchThrows
  BY <1>5 DEF BatchThrows, Holds
<1> QED
  BY <1>3, <1>4, <1>5 DEF Drops

\* Batches and sweeps: the work in hand is begun, carried on, or through.
LEMMA ServeKeeps ==
  ASSUME IInv, Serve \/ Drops
  PROVE  IInv'
<1>0. Types
  BY DEF IInv
<1> USE DEF watchVars, lateVars, lifeVars
\* Everything but the work in hand stays.
<1> DEFINE Carries ==
      UNCHANGED <<disk, pending, flights, held, lost, retry, scan>>
<1>1. ASSUME Carries, Done, job.phase # "idle" \/ tail # <<>>
      PROVE  IInv'
  <2>1. Types'
    BY <1>0, <1>1, DoneKeeps DEF Types
  <2>2. HeldUnderScan' /\ NothingQueued' /\ JobInHand'
    BY <1>1, DoneKeeps DEF IInv, HeldUnderScan, NothingQueued
  <2> QED
    BY <2>1, <2>2 DEF IInv
<1>2. ASSUME Carries, tail' = tail,
             job' \in [phase : {"idle", "gate", "hold"}, todo : SUBSET Modules, lost : BOOLEAN],
             JobInHand'
      PROVE  IInv'
  <2>1. Types'
    BY <1>0, <1>2 DEF Types
  <2>2. HeldUnderScan' /\ NothingQueued'
    BY <1>2 DEF IInv, HeldUnderScan, NothingQueued, OnlySweeps
  <2> QED
    BY <1>2, <2>1, <2>2 DEF IInv
<1>3. CASE JobStarts
  <2>1. Carries /\ tail # <<>>
    BY <1>3 DEF JobStarts
  <2>2. CASE Done
    BY <1>1, <2>1, <2>2
  <2>3. CASE job' = [job EXCEPT !.phase = "gate"] /\ tail' = tail
    <3>1. job' \in [phase : {"idle", "gate", "hold"}, todo : SUBSET Modules, lost : BOOLEAN]
          /\ job'.phase = "gate"
      BY <1>0, <2>3 DEF Types
    <3>2. JobInHand'
      BY <2>1, <2>3, <3>1 DEF JobInHand
    <3> QED
      BY <1>2, <2>1, <2>3, <3>1, <3>2
  <2> QED
    BY <1>3, <2>2, <2>3 DEF JobStarts
<1>4. CASE BatchEnters
  <2>1. Carries /\ job.phase = "gate" /\ Head(tail).kind = "batch" /\ tail # <<>>
    BY <1>4 DEF BatchEnters, IInv, JobInHand
  <2>2. CASE Done
    BY <1>1, <2>1, <2>2
  <2>3. CASE job' = [job EXCEPT !.phase = "hold", !.todo = Decided(Head(tail).events)] /\ tail' = tail
    <3>1. Head(tail) \in Works
      BY <1>0, <2>1, Dequeued DEF Types
    <3>2. Decided(Head(tail).events) \subseteq Modules
      BY <3>1, BatchDomain DEF Decided, Works
    <3>3. job' \in [phase : {"idle", "gate", "hold"}, todo : SUBSET Modules, lost : BOOLEAN]
      BY <1>0, <2>3, <3>2 DEF Types
    <3>4. JobInHand'
      BY <2>1, <2>3 DEF JobInHand
    <3> QED
      BY <1>2, <2>1, <2>3, <3>3, <3>4
  <2> QED
    BY <1>4, <2>2, <2>3 DEF BatchEnters
<1>5. CASE Sweeps
  BY <1>1, <1>5 DEF Sweeps
<1>6. ASSUME NEW m \in Modules, BatchWrites(m)
      PROVE  IInv'
  <2>1. Carries /\ tail' = tail /\ job' = [job EXCEPT !.todo = job.todo \ {m}]
    BY <1>6 DEF BatchWrites
  <2>2. job' \in [phase : {"idle", "gate", "hold"}, todo : SUBSET Modules, lost : BOOLEAN]
        /\ job'.phase = job.phase
    BY <1>0, <2>1 DEF Types
  <2>3. JobInHand'
    BY <2>1, <2>2 DEF IInv, JobInHand
  <2> QED
    BY <1>2, <2>1, <2>2, <2>3
<1>7. ASSUME NEW again \in SUBSET Modules, BatchEnds(again)
      PROVE  IInv'
  BY <1>1, <1>7 DEF BatchEnds, Holds
<1>8. CASE BatchFails
  <2>1. job.phase = "hold" /\ Done /\ UNCHANGED <<disk, pending, flights, held, scan>>
    BY <1>8 DEF BatchFails, Holds
  <2>2. held.state # "holding"
    BY <2>1, NoneHolds
  <2>3. tail # <<>>
    BY <2>1 DEF IInv, JobInHand
  <2>4. Head(tail) \in Works
    BY <1>0, <2>3, Dequeued DEF Types
  <2>5. lost' \subseteq Modules
    BY <1>0, <1>8, <2>4, BatchDomain DEF BatchFails, Types, Works
  <2>6. Types'
    BY <1>0, <2>1, <2>5, DoneKeeps DEF Types
  <2>7. HeldUnderScan' /\ NothingQueued' /\ JobInHand'
    BY <2>1, <2>2, DoneKeeps DEF IInv, HeldUnderScan, NothingQueued
  <2> QED
    BY <2>6, <2>7 DEF IInv
<1>9. CASE Drops
  <2>2. CASE job' = job /\ tail' = tail /\ scan'.state = scan.state
             /\ scan' \in [state : Scanning \cup {"sleeping", "done", "failed"},
                           todo : SUBSET Modules, seen : SUBSET Modules, lost : BOOLEAN]
    <3>1. UNCHANGED <<disk, pending, flights, held, lost, retry>>
      BY <1>9, DropsSteps
    <3>2. Types'
      BY <1>0, <2>2, <3>1 DEF Types
    <3> QED
      BY <2>2, <3>1, <3>2, DeliveryKeeps
  <2>3. ASSUME scan' = scan, tail' = tail, job.phase = "hold",
               NEW m \in Modules, job' = [job EXCEPT !.todo = job.todo \ {m}]
        PROVE  IInv'
    <3>1. Carries
      BY <1>9, <2>3, DropsSteps
    <3>2. job' \in [phase : {"idle", "gate", "hold"}, todo : SUBSET Modules, lost : BOOLEAN]
          /\ job'.phase = job.phase
      BY <1>0, <2>3 DEF Types
    <3>3. JobInHand'
      BY <2>3, <3>2 DEF IInv, JobInHand
    <3> QED
      BY <1>2, <2>3, <3>1, <3>2, <3>3
  <2>4. CASE scan' = scan /\ Done /\ job.phase = "hold"
    <3>1. Carries
      BY <1>9, <2>4, DropsSteps
    <3> QED
      BY <1>1, <2>4, <3>1
  <2> QED
    BY <1>9, <2>2, <2>3, <2>4, DropsSteps
<1> QED
  BY <1>3, <1>4, <1>5, <1>6, <1>7, <1>8, <1>9 DEF Serve

\* Timers and the daemon's end.
LEMMA TimersKeep ==
  ASSUME IInv, RetryFires \/ SweepFires \/ Shutdown \/ Exit
  PROVE  IInv'
<1>0. Types
  BY DEF IInv
<1> USE DEF watchVars, lateVars, lifeVars
<1>1. CASE RetryFires
  <2> DEFINE read == [m \in lost |-> disk[m]]
  <2>1. /\ retry /\ retry' = FALSE /\ lost' = {} /\ tail' = Append(tail, Batch(read))
        /\ UNCHANGED <<disk, pending, flights, held, job, scan>>
    BY <1>1 DEF RetryFires
  <2>2. Batch(read) \in Works
    BY <1>0, ReadIsBatch DEF Types, Batch, Works
  <2>3. /\ tail' \in Seq(Works)
        /\ tail # <<>> => tail' # <<>> /\ Head(tail') = Head(tail)
    BY <1>0, <2>1, <2>2, Queued DEF Types
  <2>4. held.state # "holding"
    BY <2>1 DEF IInv, NothingQueued
  <2>5. Types'
    BY <1>0, <2>1, <2>3 DEF Types
  <2>6. HeldUnderScan' /\ NothingQueued' /\ JobInHand'
    BY <2>1, <2>3, <2>4 DEF IInv, HeldUnderScan, NothingQueued, JobInHand
  <2> QED
    BY <2>5, <2>6 DEF IInv
<1>2. CASE SweepFires
  <2>1. /\ tail' = Append(tail, Sweep)
        /\ UNCHANGED <<disk, pending, flights, held, job, lost, retry, scan>>
    BY <1>2 DEF SweepFires
  <2>2. Sweep \in Works /\ Sweep.kind = "sweep"
    BY NoEventsIsBatch DEF Sweep, Works
  <2>3. /\ tail' \in Seq(Works)
        /\ tail # <<>> => tail' # <<>> /\ Head(tail') = Head(tail)
        /\ OnlySweeps(tail) => OnlySweeps(tail')
    BY <1>0, <2>1, <2>2, Queued DEF Types
  <2>4. Types'
    BY <1>0, <2>1, <2>3 DEF Types
  <2>5. HeldUnderScan' /\ NothingQueued' /\ JobInHand'
    BY <2>1, <2>3 DEF IInv, HeldUnderScan, NothingQueued, JobInHand
  <2> QED
    BY <2>4, <2>5 DEF IInv
<1>3. CASE Shutdown \/ Exit
  <2>1. /\ UNCHANGED <<disk, flights, held, tail, job, lost, scan>>
        /\ pending' \subseteq Modules /\ (retry' => retry)
    BY <1>0, <1>3 DEF Shutdown, Exit, StopLive, Types
  <2>2. Types'
    BY <1>0, <2>1 DEF Types
  <2>3. HeldUnderScan' /\ NothingQueued' /\ JobInHand'
    BY <2>1 DEF IInv, HeldUnderScan, NothingQueued, JobInHand, OnlySweeps
  <2> QED
    BY <2>2, <2>3 DEF IInv
<1> QED
  BY <1>1, <1>2, <1>3

LEMMA StutterKeeps == IInv /\ UNCHANGED vars => IInv'
BY DEF vars, watchVars, lateVars, lifeVars, IInv, Types, HeldUnderScan, NothingQueued, JobInHand,
       OnlySweeps

\* While the scan reads, batches are held back and no batch holds the gate.
THEOREM IInvInvariant == Spec => []IInv
<1>1. IInv /\ [Next]_vars => IInv'
  BY WatcherKeeps, TransactionKeeps, ScanKeeps, ServeKeeps, TimersKeep, StutterKeeps DEF Next
<1> QED
  BY InitIInv, <1>1, PTL DEF Spec

\* No batch is applied while the scan lists, reads and prunes (applyEvents).
THEOREM BatchesAlwaysWait == Spec => []BatchesWaitForScan
<1>1. IInv => BatchesWaitForScan
  BY NoneHolds DEF IInv, HeldUnderScan, BatchesWaitForScan
<1> QED
  BY IInvInvariant, <1>1, PTL

-----------------------------------------------------------------------------
(***************************************************************************)
(* The rest of the state                                                   *)
(***************************************************************************)
Indexed == index \in [Modules -> Files] /\ base \in [Modules -> Files]

\* A burst has a timer, and no timer is armed without one.
Bursts == armed \in BOOLEAN /\ (armed <=> pending # {})

\* Events are held only while batches are.
HeldFits == held.state # "holding" => held.events = NoEvents

\* A sweep is queued or its timer is armed, never both nor twice.
OneSweep == \A i, j \in 1..Len(tail) : tail[i].kind = "sweep" /\ tail[j].kind = "sweep" => i = j /\ ~sweep

\* Only a batch that holds the gate has files left and a transaction to lose.
JobFits ==
  /\ job.phase = "hold" => job.todo \subseteq DOMAIN Head(tail).events
  /\ job.phase # "hold" => job.todo = {} /\ ~job.lost

\* Lost paths have a timer, and nothing does after a stop.
TimersFit ==
  /\ retry \in BOOLEAN /\ sweep \in BOOLEAN /\ stopped \in BOOLEAN
  /\ lost # {} => retry \/ stopped
  /\ stopped => ~retry /\ ~sweep

Bounds ==
  /\ life \in {"up", "stopping", "exited"}
  /\ used \in [edits : 0..MaxEdits, troubles : 0..MaxTroubles]

\* What was missed is of the workspace.
MissedFits == missed \subseteq Modules

MoreInv == Indexed /\ Bursts /\ HeldFits /\ OneSweep /\ JobFits /\ TimersFit /\ MissedFits /\ Bounds

LEMMA MoreInit == Init => MoreInv
<1> SUFFICES ASSUME Init PROVE MoreInv
  OBVIOUS
<1>1. Indexed /\ Bursts /\ HeldFits /\ OneSweep /\ JobFits /\ TimersFit
  <2>1. Indexed /\ HeldFits /\ JobFits /\ OneSweep
    BY DEF Init, Indexed, HeldFits, OneSweep, JobFits, Idle
  <2>2. Bursts
    BY Zenon DEF Init, Bursts
  <2>3. TimersFit
    BY Zenon DEF Init, TimersFit
  <2> QED
    BY <2>1, <2>2, <2>3
<1>2. Cardinality({m \in Modules : disk[m] # index[m]}) \in Nat
  <2>1. IsFiniteSet({m \in Modules : disk[m] # index[m]})
    BY LiveAssumption, FS_Subset
  <2> QED
    BY <2>1, FS_CardinalityType
<1>3. Bounds /\ MissedFits
  BY <1>2, LiveAssumption DEF Init, Bounds, MissedFits
<1> QED
  BY <1>1, <1>3 DEF MoreInv

\* One step of the whole specification, expanded.
LEMMA IndexedKept ==
  ASSUME IInv, MoreInv, [Next]_vars
  PROVE  Indexed'
<1>0. /\ disk \in [Modules -> Files] /\ index \in [Modules -> Files] /\ base \in [Modules -> Files]
      /\ 0 \in Files
  BY DEF IInv, Types, MoreInv, Indexed, Files
<1> USE DEF Indexed, vars, watchVars, lateVars, lifeVars, flightUnchanged, scanUnchanged
<1>1. CASE \E m \in Modules, c \in Files : Edit(m, c) \/ StepWrites(m, c)
  BY <1>0, <1>1 DEF Edit, StepWrites
<1>2. CASE Flush \/ FlightLands \/ FlightFails
  BY <1>0, <1>2 DEF Flush, FlightLands, FlightFails
<1>3. CASE (\E m \in Modules : PumpParses(m)) \/ CommitDue \/ LoseBatch
  BY <1>0, <1>3 DEF PumpParses, CommitDue, LoseBatch
<1>4. CASE ScanSteps \/ ScanThrows
  <2>1. CASE \E m \in Modules : ScanReads(m)
    BY <1>0, <2>1 DEF ScanReads
  <2>2. CASE ScanEnds
    BY <1>0, <2>2 DEF ScanEnds
  <2>3. CASE ScanLists \/ ScanSleeps \/ ScanAgain \/ ScanThrows
    BY <1>0, <2>3 DEF ScanLists, ScanSleeps, ScanAgain, ScanThrows
  <2> QED
    BY <1>4, <2>1, <2>2, <2>3 DEF ScanSteps
<1>5. CASE Serve
  BY <1>0, <1>5 DEF Serve, JobStarts, BatchEnters, Sweeps, BatchWrites, BatchEnds, BatchFails
<1>6. CASE RetryFires \/ SweepFires \/ Shutdown \/ Exit \/ UNCHANGED vars
  BY <1>0, <1>6 DEF RetryFires, SweepFires, Shutdown, Exit
<1>7. CASE Drops
  BY <1>0, <1>7, DropsSteps
<1> QED
  BY <1>1, <1>2, <1>3, <1>4, <1>5, <1>6, <1>7 DEF Next

LEMMA BurstsKept ==
  ASSUME IInv, MoreInv, [Next]_vars
  PROVE  Bursts'
<1> USE DEF vars, watchVars, lateVars, lifeVars, flightUnchanged, scanUnchanged
<1>1. \/ UNCHANGED <<pending, armed>>
      \/ pending' = {} /\ armed' = FALSE
      \/ pending' # {} /\ armed' = TRUE
      \/ armed' = (pending' # {})
  <2>1. CASE \E m \in Modules, c \in Files : Edit(m, c) \/ StepWrites(m, c)
    BY <2>1 DEF Edit, StepWrites, Notice
  <2>2. CASE Flush \/ FlightLands \/ FlightFails
    BY <2>2 DEF Flush, FlightLands, FlightFails
  <2>3. CASE (\E m \in Modules : PumpParses(m)) \/ CommitDue \/ LoseBatch
    BY <2>3 DEF PumpParses, CommitDue, LoseBatch
  <2>4. CASE ScanSteps \/ ScanThrows
    BY <2>4 DEF ScanSteps, ScanLists, ScanReads, ScanEnds, ScanSleeps, ScanAgain, ScanThrows, StopLive
  <2>5. CASE Serve
    BY <2>5 DEF Serve, JobStarts, BatchEnters, Sweeps, BatchWrites, BatchEnds, BatchFails
  <2>6. CASE RetryFires \/ SweepFires \/ Shutdown \/ Exit \/ UNCHANGED vars
    BY <2>6 DEF RetryFires, SweepFires, Shutdown, Exit, StopLive
  <2>7. CASE Drops
    BY <2>7, DropsSteps
  <2> QED
    BY <2>1, <2>2, <2>3, <2>4, <2>5, <2>6, <2>7 DEF Next
<1>2. Bursts
  BY DEF MoreInv
<1>3. CASE UNCHANGED <<pending, armed>>
  BY <1>2, <1>3, Zenon DEF Bursts
<1>4. CASE pending' = {} /\ armed' = FALSE
  BY <1>4, Zenon DEF Bursts
<1>5. CASE pending' # {} /\ armed' = TRUE
  BY <1>5, Zenon DEF Bursts
<1>6. CASE armed' = (pending' # {})
  <2>1. CASE pending' # {}
    <3>1. armed' = TRUE
      BY <1>6, <2>1
    <3> QED
      BY <2>1, <3>1, Zenon DEF Bursts
  <2>2. CASE pending' = {}
    <3>1. armed' = FALSE
      BY <1>6, <2>2
    <3> QED
      BY <2>2, <3>1, Zenon DEF Bursts
  <2> QED
    BY <2>1, <2>2
<1> QED
  BY <1>1, <1>3, <1>4, <1>5, <1>6

\* What a step may do to the timers of lost paths and of the sweep.
LEMMA TimersKept ==
  ASSUME IInv, MoreInv, [Next]_vars
  PROVE  TimersFit'
<1> USE DEF vars, watchVars, lateVars, lifeVars, flightUnchanged, scanUnchanged
<1>1. \/ UNCHANGED <<lost, retry, sweep, stopped>>
      \/ stopped' = TRUE /\ sweep' = FALSE /\ retry' = FALSE
      \/ UNCHANGED <<lost, retry, stopped>> /\ sweep' = ~stopped
      \/ UNCHANGED <<lost, retry, stopped>> /\ sweep' = FALSE
      \/ UNCHANGED <<sweep, stopped>> /\ retry' = ~stopped
      \/ UNCHANGED <<sweep, stopped>> /\ retry' = FALSE /\ lost' = {}
  <2>1. CASE \E m \in Modules, c \in Files : Edit(m, c) \/ StepWrites(m, c)
    BY <2>1 DEF Edit, StepWrites
  <2>2. CASE Flush \/ FlightLands \/ FlightFails
    BY <2>2 DEF Flush, FlightLands, FlightFails
  <2>3. CASE (\E m \in Modules : PumpParses(m)) \/ CommitDue \/ LoseBatch
    BY <2>3 DEF PumpParses, CommitDue, LoseBatch
  <2>4. CASE ScanSteps \/ ScanThrows
    BY <2>4 DEF ScanSteps, ScanLists, ScanReads, ScanEnds, ScanSleeps, ScanAgain, ScanThrows, StopLive
  <2>5. CASE Serve
    <3>1. CASE Sweeps
      BY <3>1 DEF Sweeps
    <3>2. CASE BatchFails
      BY <3>2 DEF BatchFails
    <3>3. CASE JobStarts \/ BatchEnters \/ (\E m \in Modules : BatchWrites(m))
               \/ (\E again \in SUBSET Modules : BatchEnds(again))
      BY <3>3 DEF JobStarts, BatchEnters, BatchWrites, BatchEnds
    <3> QED
      BY <2>5, <3>1, <3>2, <3>3 DEF Serve
  <2>6. CASE RetryFires \/ SweepFires
    BY <2>6 DEF RetryFires, SweepFires
  <2>7. CASE Shutdown \/ Exit \/ UNCHANGED vars
    BY <2>7 DEF Shutdown, Exit, StopLive
  <2>8. CASE Drops
    BY <2>8, DropsSteps
  <2> QED
    BY <2>1, <2>2, <2>3, <2>4, <2>5, <2>6, <2>7, <2>8 DEF Next
<1>2. TimersFit
  BY DEF MoreInv
<1>3. CASE UNCHANGED <<lost, retry, sweep, stopped>>
  BY <1>2, <1>3, Zenon DEF TimersFit
<1>4. CASE stopped' = TRUE /\ sweep' = FALSE /\ retry' = FALSE
  BY <1>4, Zenon DEF TimersFit
<1>5. CASE UNCHANGED <<lost, retry, stopped>> /\ sweep' = FALSE
  BY <1>2, <1>5, Zenon DEF TimersFit
<1>6. CASE UNCHANGED <<sweep, stopped>> /\ retry' = FALSE /\ lost' = {}
  BY <1>2, <1>6, Zenon DEF TimersFit
<1>7. CASE UNCHANGED <<lost, retry, stopped>> /\ sweep' = ~stopped
  <2>1. CASE stopped = TRUE
    <3>1. sweep' = FALSE
      BY <1>7, <2>1
    <3> QED
      BY <1>2, <1>7, <3>1, Zenon DEF TimersFit
  <2>2. CASE stopped = FALSE
    <3>1. sweep' = TRUE
      BY <1>7, <2>2
    <3> QED
      BY <1>2, <1>7, <2>2, <3>1, Zenon DEF TimersFit
  <2> QED
    BY <1>2, <2>1, <2>2 DEF TimersFit
<1>8. CASE UNCHANGED <<sweep, stopped>> /\ retry' = ~stopped
  <2>1. CASE stopped = TRUE
    <3>1. retry' = FALSE
      BY <1>8, <2>1
    <3> QED
      BY <1>2, <1>8, <2>1, <3>1, Zenon DEF TimersFit
  <2>2. CASE stopped = FALSE
    <3>1. retry' = TRUE
      BY <1>8, <2>2
    <3> QED
      BY <1>2, <1>8, <2>2, <3>1, Zenon DEF TimersFit
  <2> QED
    BY <1>2, <2>1, <2>2 DEF TimersFit
<1> QED
  BY <1>1, <1>3, <1>4, <1>5, <1>6, <1>7, <1>8

LEMMA BoundsKept ==
  ASSUME IInv, MoreInv, [Next]_vars
  PROVE  Bounds'
<1>0. Bounds /\ MaxEdits \in Nat /\ MaxTroubles \in Nat
  BY LiveAssumption DEF MoreInv
<1> USE DEF vars, watchVars, lateVars, lifeVars, flightUnchanged, scanUnchanged
<1>1. \/ used' = used
      \/ used.edits < MaxEdits /\ used' = [used EXCEPT !.edits = used.edits + 1]
      \/ Trouble
  <2>1. CASE \E m \in Modules, c \in Files : Edit(m, c) \/ StepWrites(m, c)
    BY <2>1 DEF Edit, StepWrites
  <2>2. CASE Flush \/ FlightLands \/ FlightFails
    BY <2>2 DEF Flush, FlightLands, FlightFails
  <2>3. CASE (\E m \in Modules : PumpParses(m)) \/ CommitDue \/ LoseBatch
    BY <2>3 DEF PumpParses, CommitDue, LoseBatch
  <2>4. CASE ScanSteps \/ ScanThrows
    BY <2>4 DEF ScanSteps, ScanLists, ScanReads, ScanEnds, ScanSleeps, ScanAgain, ScanThrows
  <2>5. CASE Serve
    BY <2>5 DEF Serve, JobStarts, BatchEnters, Sweeps, BatchWrites, BatchEnds, BatchFails
  <2>6. CASE RetryFires \/ SweepFires \/ Shutdown \/ Exit \/ UNCHANGED vars
    BY <2>6, SMTT(30) DEF RetryFires, SweepFires, Shutdown, Exit
  <2>7. CASE Drops
    BY <2>7, Zenon DEF Drops, ScanLeaves, BatchLeaves, BatchThrows
  <2> QED
    BY <2>1, <2>2, <2>3, <2>4, <2>5, <2>6, <2>7 DEF Next
<1>2. life' = life \/ life' \in {"stopping", "exited"}
  BY DropsSteps DEF Next, Edit, StepWrites, Flush, FlightLands, FlightFails, PumpParses, CommitDue, LoseBatch, ScanSteps,
     ScanLists, ScanReads, ScanEnds, ScanSleeps, ScanAgain, ScanThrows, Serve, JobStarts, BatchEnters, Sweeps,
     BatchWrites, BatchEnds, BatchFails, RetryFires, SweepFires, Shutdown, Exit
<1> QED
  BY <1>0, <1>1, <1>2 DEF Bounds, Trouble

\* What the watcher delivers is queued as a batch, or grows what is held back.
LEMMA DeliverySteps ==
  ASSUME IInv, NEW modules \in SUBSET Modules, Deliver(modules)
  PROVE  /\ tail' = tail \/ \E e \in Batches : tail' = Append(tail, Batch(e))
         /\ \/ held' = held
            \/ held.state = "holding" /\ \E e : held' = [held EXCEPT !.events = e]
<1> DEFINE read == [m \in modules |-> disk[m]]
<1>1. read \in Batches /\ held.state \in {"holding", "released", "refused"}
  BY ReadIsBatch DEF IInv, Types
<1>2. CASE stopped \/ modules = {}
  BY <1>2 DEF Deliver
<1>3. CASE ~ (stopped \/ modules = {})
  <2>1. Push(read)
    BY <1>3 DEF Deliver
  <2> HIDE DEF read
  <2>2. CASE held.state = "released"
    BY <1>1, <2>1, <2>2 DEF Push
  <2>3. CASE held.state = "holding"
    <3>1. held' = [held EXCEPT !.events = Over(read, held.events)] /\ tail' = tail
      BY <2>1, <2>3 DEF Push
    <3> QED
      BY <2>3, <3>1
  <2>4. CASE held.state = "refused"
    BY <1>1, <2>1, <2>4 DEF Push
  <2> QED
    BY <1>1, <2>2, <2>3, <2>4
<1> QED
  BY <1>2, <1>3

\* Every delivery is of files of the workspace.
LEMMA FlightsDeliver ==
  ASSUME IInv, Flush \/ FlightLands \/ FlightFails
  PROVE  \/ UNCHANGED <<held, tail>>
         \/ \E modules \in SUBSET Modules : Deliver(modules)
<1>0. Types
  BY DEF IInv
<1>1. CASE Flush
  BY <1>0, <1>1 DEF Flush, Types
<1>2. CASE FlightLands \/ FlightFails
  <2> DEFINE Flights == [of : SUBSET Modules, known : BOOLEAN]
  <2>1. flights # <<>> /\ flights \in Seq(Flights)
    BY <1>0, <1>2 DEF FlightLands, FlightFails, Types
  <2>2. Head(flights) \in Flights
    <3> HIDE DEF Flights
    <3> QED
      BY <2>1, HeadTailProperties
  <2>3. Head(flights).of \in SUBSET Modules
    BY <2>2
  <2> QED
    BY <1>2, <2>3 DEF FlightLands, FlightFails
<1> QED
  BY <1>1, <1>2

\* What is held back is let go or refused as a whole; only while held does it grow.
LEMMA HeldKept ==
  ASSUME IInv, MoreInv, [Next]_vars
  PROVE  HeldFits'
<1> USE DEF vars, watchVars, lateVars, lifeVars, flightUnchanged, scanUnchanged
<1>1. \/ held' = held
      \/ held.state = "holding" /\ \E e : held' = [held EXCEPT !.events = e]
      \/ held'.events = NoEvents
  <2>1. CASE \E m \in Modules, c \in Files : Edit(m, c) \/ StepWrites(m, c)
    BY <2>1 DEF Edit, StepWrites
  <2>2. CASE Flush \/ FlightLands \/ FlightFails
    BY <2>2, FlightsDeliver, DeliverySteps
  <2>3. CASE (\E m \in Modules : PumpParses(m)) \/ CommitDue \/ LoseBatch
    BY <2>3 DEF PumpParses, CommitDue, LoseBatch
  <2>4. CASE ScanSteps \/ ScanThrows
    <3>1. CASE ScanEnds
      <4>1. held' = held \/ held' = [state |-> "released", events |-> NoEvents]
        BY <3>1 DEF ScanEnds
      <4> QED
        BY <4>1
    <3>2. CASE ScanThrows
      <4>1. held' = [state |-> "refused", events |-> NoEvents]
        BY <3>2 DEF ScanThrows
      <4> QED
        BY <4>1
    <3>3. CASE ScanLists \/ (\E m \in Modules : ScanReads(m)) \/ ScanSleeps \/ ScanAgain
      BY <3>3 DEF ScanLists, ScanReads, ScanSleeps, ScanAgain
    <3> QED
      BY <2>4, <3>1, <3>2, <3>3 DEF ScanSteps
  <2>5. CASE Serve
    BY <2>5 DEF Serve, JobStarts, BatchEnters, Sweeps, BatchWrites, BatchEnds, BatchFails
  <2>6. CASE RetryFires \/ SweepFires \/ Shutdown \/ Exit \/ UNCHANGED vars
    BY <2>6 DEF RetryFires, SweepFires, Shutdown, Exit
  <2>7. CASE Drops
    BY <2>7, DropsSteps
  <2> QED
    BY <2>1, <2>2, <2>3, <2>4, <2>5, <2>6, <2>7 DEF Next
<1>2. HeldFits /\ held \in [state : {"holding", "released", "refused"}, events : Batches]
  BY DEF MoreInv, IInv, Types
<1> QED
  BY <1>1, <1>2 DEF HeldFits

\* The tail after a step: the same, a batch queued, a sweep queued as its timer fires, or the first work
\* gone, and the sweep's timer armed then if that was a sweep.
LEMMA TailSteps ==
  ASSUME IInv, [Next]_vars
  PROVE  \/ tail' = tail /\ (sweep' = sweep \/ sweep' = FALSE)
         \/ (\E e \in Batches : tail' = Append(tail, Batch(e))) /\ sweep' = sweep
         \/ tail' = Append(tail, Sweep) /\ sweep = TRUE /\ sweep' = FALSE
         \/ tail # <<>> /\ tail' = Tail(tail) /\ (sweep' = sweep \/ Head(tail).kind = "sweep")
<1>0. Types /\ JobInHand
  BY DEF IInv
<1> USE DEF vars, watchVars, lateVars, lifeVars, flightUnchanged, scanUnchanged
<1>1. CASE \E m \in Modules, c \in Files : Edit(m, c) \/ StepWrites(m, c)
  BY <1>1 DEF Edit, StepWrites
<1>2. CASE Flush \/ FlightLands \/ FlightFails
  <2>1. sweep' = sweep
    BY <1>2 DEF Flush, FlightLands, FlightFails
  <2> QED
    BY <1>2, <2>1, FlightsDeliver, DeliverySteps
<1>3. CASE (\E m \in Modules : PumpParses(m)) \/ CommitDue \/ LoseBatch
  BY <1>3 DEF PumpParses, CommitDue, LoseBatch
<1>4. CASE ScanSteps \/ ScanThrows
  <2>1. held.events \in Batches
    BY <1>0 DEF Types
  <2> QED
    BY <1>4, <2>1 DEF ScanSteps, ScanLists, ScanReads, ScanEnds, ScanSleeps, ScanAgain, ScanThrows, StopLive
<1>5. CASE Serve
  BY <1>0, <1>5 DEF Serve, JobStarts, BatchEnters, Sweeps, BatchWrites, BatchEnds, BatchFails, Done, Holds, JobInHand
<1>6. CASE RetryFires
  <2>1. [m \in lost |-> disk[m]] \in Batches
    BY <1>0, ReadIsBatch DEF Types
  <2> QED
    BY <1>6, <2>1 DEF RetryFires
<1>7. CASE SweepFires
  <2>1. tail' = Append(tail, Sweep) /\ sweep /\ sweep' = FALSE
    BY <1>7 DEF SweepFires
  <2> QED
    BY <2>1
<1>8. CASE Shutdown \/ Exit \/ UNCHANGED vars
  BY <1>8 DEF Shutdown, Exit, StopLive
<1>9. CASE Drops
  BY <1>0, <1>9, DropsSteps DEF Done, JobInHand
<1> QED
  BY <1>1, <1>2, <1>3, <1>4, <1>5, <1>6, <1>7, <1>8, <1>9 DEF Next

\* A sweep is queued as its timer is spent, and its timer armed again as the sweep leaves the tail.
LEMMA OneSweepKept ==
  ASSUME IInv, MoreInv, [Next]_vars
  PROVE  OneSweep'
<1>1. tail \in Seq(Works) /\ OneSweep
  BY DEF IInv, Types, MoreInv
<1>2. CASE tail' = tail /\ (sweep' = sweep \/ sweep' = FALSE)
  BY <1>1, <1>2 DEF OneSweep
<1>3. ASSUME NEW e \in Batches, tail' = Append(tail, Batch(e)), sweep' = sweep PROVE OneSweep'
  <2>1. Batch(e) \in Works /\ Batch(e).kind = "batch"
    BY DEF Batch, Works
  <2>2. /\ Len(tail') = Len(tail) + 1 /\ Len(tail) \in Nat
        /\ \A i \in 1..Len(tail) : tail'[i] = tail[i]
        /\ tail'[Len(tail) + 1].kind = "batch"
    BY <1>1, <1>3, <2>1, AppendProperties, LenProperties
  <2>3. \A i \in 1..Len(tail') : tail'[i].kind = "sweep" => i \in 1..Len(tail)
    BY <2>2
  <2> QED
    BY <1>1, <1>3, <2>2, <2>3 DEF OneSweep
<1>4. CASE tail' = Append(tail, Sweep) /\ sweep = TRUE /\ sweep' = FALSE
  <2>1. Sweep \in Works
    BY NoEventsIsBatch DEF Sweep, Works
  <2>2. /\ Len(tail') = Len(tail) + 1 /\ Len(tail) \in Nat
        /\ \A i \in 1..Len(tail) : tail'[i] = tail[i]
    BY <1>1, <1>4, <2>1, AppendProperties, LenProperties
  <2>3. \A i \in 1..Len(tail) : tail[i].kind # "sweep"
    BY <1>1, <1>4 DEF OneSweep
  <2>4. \A i \in 1..Len(tail') : tail'[i].kind = "sweep" => i = Len(tail) + 1
    BY <2>2, <2>3
  <2> QED
    BY <1>4, <2>4 DEF OneSweep
<1>5. CASE tail # <<>> /\ tail' = Tail(tail) /\ (sweep' = sweep \/ Head(tail).kind = "sweep")
  <2>1. /\ Len(tail) \in Nat \ {0} /\ Len(tail') = Len(tail) - 1 /\ Head(tail) = tail[1]
        /\ \A i \in 1..Len(tail') : tail'[i] = tail[i + 1]
    BY <1>1, <1>5, HeadTailProperties, LenProperties, EmptySeq
  <2>2. \A i \in 1..Len(tail') : i + 1 \in 1..Len(tail) /\ 1 \in 1..Len(tail) /\ i + 1 # 1
    BY <2>1
  <2>3. CASE sweep' = sweep
    BY <1>1, <2>1, <2>2, <2>3 DEF OneSweep
  <2>4. CASE Head(tail).kind = "sweep"
    <3>1. \A i \in 1..Len(tail') : tail'[i].kind # "sweep"
      BY <1>1, <2>1, <2>2, <2>4 DEF OneSweep
    <3> QED
      BY <3>1 DEF OneSweep
  <2> QED
    BY <1>5, <2>3, <2>4
<1> QED
  BY <1>2, <1>3, <1>4, <1>5, TailSteps

\* The batch that holds the gate has files left of its own only, and nothing else has.
LEMMA JobKept ==
  ASSUME IInv, MoreInv, [Next]_vars
  PROVE  JobFits'
<1>0. Types /\ JobInHand /\ JobFits
  BY DEF IInv, MoreInv
<1> USE DEF vars, watchVars, lateVars, lifeVars, flightUnchanged, scanUnchanged
<1>1. ASSUME job' = job, tail # <<>> => Head(tail') = Head(tail) PROVE JobFits'
  BY <1>0, <1>1 DEF JobFits, JobInHand
<1>2. ASSUME Done PROVE JobFits'
  BY <1>2 DEF Done, Idle, JobFits
<1>3. CASE \E m \in Modules, c \in Files : Edit(m, c) \/ StepWrites(m, c)
  <2>1. job' = job /\ tail' = tail
    BY <1>3 DEF Edit, StepWrites
  <2> QED
    BY <1>1, <2>1
<1>4. CASE Flush \/ FlightLands \/ FlightFails
  <2>1. job' = job
    BY <1>4 DEF Flush, FlightLands, FlightFails
  <2>2. tail # <<>> => Head(tail') = Head(tail)
    BY <1>4, FlightsDeliver, Delivers
  <2> QED
    BY <1>1, <2>1, <2>2
<1>5. CASE (\E m \in Modules : PumpParses(m)) \/ CommitDue
  <2>1. job' = job /\ tail' = tail
    BY <1>5 DEF PumpParses, CommitDue
  <2> QED
    BY <1>1, <2>1
<1>6. CASE LoseBatch
  <2>1. job' = [job EXCEPT !.lost = (job.phase = "hold")] /\ tail' = tail
    BY <1>6 DEF LoseBatch
  <2> QED
    BY <1>0, <2>1 DEF JobFits, Types
<1>7. CASE ScanSteps \/ ScanThrows
  <2>1. job' = job
    BY <1>7 DEF ScanSteps, ScanLists, ScanReads, ScanEnds, ScanSleeps, ScanAgain, ScanThrows
  <2>2. tail' = tail \/ tail' = Append(tail, Batch(held.events))
    BY <1>7 DEF ScanSteps, ScanLists, ScanReads, ScanEnds, ScanSleeps, ScanAgain, ScanThrows
  <2>3. Batch(held.events) \in Works /\ tail \in Seq(Works)
    BY <1>0 DEF Types, Batch, Works
  <2>4. tail # <<>> => Head(tail') = Head(tail)
    BY <2>2, <2>3, Queued
  <2> QED
    BY <1>1, <2>1, <2>4
<1>8. CASE JobStarts
  <2>1. CASE Done
    BY <1>2, <2>1
  <2>2. CASE job.phase = "idle" /\ job' = [job EXCEPT !.phase = "gate"]
    BY <1>0, <2>2 DEF JobFits, Types
  <2> QED
    BY <1>8, <2>1, <2>2 DEF JobStarts
<1>9. CASE BatchEnters
  <2>1. CASE Done
    BY <1>2, <2>1
  <2>2. CASE job' = [job EXCEPT !.phase = "hold", !.todo = Decided(Head(tail).events)] /\ tail' = tail
    BY <1>0, <2>2 DEF JobFits, Types, Decided
  <2> QED
    BY <1>9, <2>1, <2>2 DEF BatchEnters
<1>10. ASSUME NEW m \in Modules, BatchWrites(m) PROVE JobFits'
  <2>1. job.phase = "hold" /\ job' = [job EXCEPT !.todo = job.todo \ {m}] /\ tail' = tail
    BY <1>10 DEF BatchWrites, Holds
  <2> QED
    BY <1>0, <2>1 DEF JobFits, Types
<1>11. CASE Sweeps \/ (\E again \in SUBSET Modules : BatchEnds(again)) \/ BatchFails
  BY <1>2, <1>11 DEF Sweeps, BatchEnds, BatchFails
<1>12. CASE RetryFires
  <2>1. job' = job /\ tail' = Append(tail, Batch([m \in lost |-> disk[m]]))
    BY <1>12 DEF RetryFires
  <2>2. Batch([m \in lost |-> disk[m]]) \in Works /\ tail \in Seq(Works)
    BY <1>0, ReadIsBatch DEF Types, Batch, Works
  <2>3. tail # <<>> => Head(tail') = Head(tail)
    BY <2>1, <2>2, Queued
  <2> QED
    BY <1>1, <2>1, <2>3
<1>13. CASE SweepFires
  <2>1. job' = job /\ tail' = Append(tail, Sweep)
    BY <1>13 DEF SweepFires
  <2>2. Sweep \in Works /\ tail \in Seq(Works)
    BY <1>0, NoEventsIsBatch DEF Types, Sweep, Works
  <2>3. tail # <<>> => Head(tail') = Head(tail)
    BY <2>1, <2>2, Queued
  <2> QED
    BY <1>1, <2>1, <2>3
<1>14. CASE Shutdown \/ Exit \/ UNCHANGED vars
  <2>1. job' = job /\ tail' = tail
    BY <1>14 DEF Shutdown, Exit
  <2> QED
    BY <1>1, <2>1
<1>15. CASE Drops
  <2>1. ASSUME tail' = tail, job.phase = "hold",
               NEW m \in Modules, job' = [job EXCEPT !.todo = job.todo \ {m}]
        PROVE  JobFits'
    BY <1>0, <2>1 DEF JobFits, Types
  <2> QED
    BY <1>1, <1>2, <1>15, <2>1, DropsSteps
<1> QED
  BY <1>3, <1>4, <1>5, <1>6, <1>7, <1>8, <1>9, <1>10, <1>11, <1>12, <1>13, <1>14, <1>15 DEF Next, Serve

\* A file is missed as the scan or a batch passes over it, and a batch misses its own files only.
LEMMA MissedKept ==
  ASSUME IInv, MoreInv, [Next]_vars
  PROVE  MissedFits'
<1>0. missed \subseteq Modules /\ job.todo \subseteq Modules
  BY DEF IInv, Types, MoreInv, MissedFits
<1> USE DEF MissedFits, vars, lateVars
<1>1. CASE \E m \in Modules, c \in Files : Edit(m, c) \/ StepWrites(m, c)
  BY <1>0, <1>1 DEF Edit, StepWrites
<1>2. CASE Flush \/ FlightLands \/ FlightFails
  BY <1>0, <1>2 DEF Flush, FlightLands, FlightFails, flightUnchanged
<1>3. CASE (\E m \in Modules : PumpParses(m)) \/ CommitDue \/ LoseBatch
  BY <1>0, <1>3 DEF PumpParses, CommitDue, LoseBatch
<1>4. CASE ScanSteps \/ ScanThrows
  BY <1>0, <1>4 DEF ScanSteps, ScanLists, ScanReads, ScanEnds, ScanSleeps, ScanAgain, ScanThrows
<1>5. CASE Serve
  BY <1>0, <1>5 DEF Serve, JobStarts, BatchEnters, Sweeps, BatchWrites, BatchEnds, BatchFails
<1>6. CASE RetryFires \/ SweepFires \/ Shutdown \/ Exit \/ UNCHANGED vars
  BY <1>0, <1>6 DEF RetryFires, SweepFires, Shutdown, Exit
<1>7. CASE Drops
  BY <1>0, <1>7 DEF Drops, ScanLeaves, BatchLeaves, BatchThrows
<1> QED
  BY <1>1, <1>2, <1>3, <1>4, <1>5, <1>6, <1>7 DEF Next

\* The whole state keeps its types: above all, what waits has a timer, a sweep is queued or due once,
\* and nothing is due after a stop (record, retryLost, armSweep, stop).
THEOREM LiveTypesKept == Spec => []TypeOK
<1>1. IInv /\ MoreInv /\ [Next]_vars => MoreInv'
  BY IndexedKept, BurstsKept, HeldKept, OneSweepKept, JobKept, TimersKept, MissedKept,
     BoundsKept DEF MoreInv
<1>2. IInv /\ MoreInv => TypeOK
  <2> SUFFICES ASSUME IInv, MoreInv PROVE TypeOK
    OBVIOUS
  <2>1. /\ disk \in [Modules -> Files] /\ pending \subseteq Modules /\ lost \subseteq Modules
        /\ flights \in Seq([of : SUBSET Modules, known : BOOLEAN]) /\ tail \in Seq(Works)
        /\ held \in [state : {"holding", "released", "refused"}, events : Batches]
        /\ job \in [phase : {"idle", "gate", "hold"}, todo : SUBSET Modules, lost : BOOLEAN]
        /\ scan \in [state : Scanning \cup {"sleeping", "done", "failed"},
                     todo : SUBSET Modules, seen : SUBSET Modules, lost : BOOLEAN]
        /\ JobInHand
    BY DEF IInv, Types
  <2>2. Indexed /\ Bursts /\ HeldFits /\ OneSweep /\ JobFits /\ TimersFit /\ MissedFits /\ Bounds
    BY DEF MoreInv
  <2>3. Bursts /\ TimersFit => /\ armed \in BOOLEAN /\ (armed <=> pending # {}) /\ retry \in BOOLEAN
                               /\ (lost # {} => retry \/ stopped) /\ sweep \in BOOLEAN
                               /\ stopped \in BOOLEAN /\ (stopped => ~retry /\ ~sweep)
    BY Zenon DEF Bursts, TimersFit
  <2> QED
    BY <2>1, <2>2, <2>3 DEF TypeOK, Indexed, HeldFits, OneSweep, JobFits, MissedFits, Bounds, JobInHand, Works
<1> QED
  BY <1>1, <1>2, MoreInit, IInvInvariant, PTL DEF Spec
=============================================================================
