-------------------------- MODULE Supervisor_proofs --------------------------
(***************************************************************************)
(* What the supervisor keeps for any number of processes, respawns, calls, *)
(* callers and policies.                                                   *)
(*                                                                         *)
(* Three arguments.  The processes: who has custody of each, and that an   *)
(* entry has one respawn under way at most, which is what bounds its       *)
(* deaths.  The queue: whose work it holds, and what its process was last  *)
(* told of the policy.  The lineages: an entry has died as often as its    *)
(* lineage grew.                                                           *)
(***************************************************************************)
EXTENDS Supervisor, SequenceTheorems, FiniteSetTheorems, Extrema, TLAPS

Queues == [waiting : Seq(Work), running : Work \cup {Idle}, closed : BOOLEAN]

ProcTypes ==
  /\ spawned \in 0..MaxSpawns
  /\ os \in [Children -> {"unborn", "alive", "dead", "exited"}]
  /\ stopped \subseteq Children /\ starting \subseteq Children
  /\ due \subseteq Children /\ announced \subseteq Children
  /\ handshake \in [Children -> {"none", "start", "respawn"}]
  /\ previous \in [Children -> Children \cup {Nobody}]
  /\ published \in Children \cup {Nobody}
  /\ deaths \in 0..(MaxRespawns + 1)

\* Processes are born in order, nothing is known of one before, and what waits for a respawn, was
\* reported, or is about to be replaced by a respawn is dead for good and no longer starting.
Lives ==
  /\ \A c \in Children : os[c] = "unborn" <=> c > spawned
  /\ \A c \in stopped \cup starting \cup ({published} \ {Nobody}) : os[c] # "unborn"
  /\ \A c \in due \cup announced : os[c] = "exited"
  /\ due \cap starting = {}
  /\ \A c \in Children : handshake[c] = "start" => previous[c] = Nobody
  /\ \A c \in Children : handshake[c] = "respawn" =>
       previous[c] \in Children /\ previous[c] \notin starting /\ os[previous[c]] = "exited"

\* A process is starting, in the map, or signalled: one of these if it ever lived on, never two.
Custody ==
  /\ stopped \cap starting = {} /\ published \notin stopped /\ published \notin starting
  /\ \A c \in Children : os[c] = "alive" => c \in stopped \cup starting \cup {published}

\* No process that was stopped is reported as a death.
Unreported == announced \cap stopped = {}

\* The children that are to replace the entry in the map.
Respawning == {n \in starting : handshake[n] = "respawn" /\ previous[n] = published}

\* The entry has one respawn under way at most, its timer's or a child's, and none past the cap.
OneRespawn ==
  /\ published \in due => Respawning = {}
  /\ \A m, n \in Respawning : m = n
  /\ deaths > MaxRespawns /\ published # Nobody =>
       os[published] = "exited" /\ published \notin due /\ Respawning = {}

ProcInv == ProcTypes /\ Lives /\ Custody /\ Unreported /\ OneRespawn

AskTypes ==
  /\ queue \in Queues
  /\ stage \in {"none", "installing", "asked"}
  /\ believed \in Revisions \cup {Nobody} /\ doubted \in BOOLEAN
  /\ judge \in [Children -> Revisions \cup {Nobody}]
  /\ policy \in Revisions
  /\ request \in [Requests -> {None, Waits} \cup {OwesVerdict(c) : c \in Children}]

\* Something is awaited exactly for a running request, of a process in the map.
StageFits ==
  /\ stage # "none" => published \in Children
  /\ stage # "none" <=> \E r \in Requests : queue.running = Asked(r)

\* A closed queue is empty.
ClosedIsEmpty == queue.closed => queue.waiting = <<>> /\ queue.running = Idle

\* Unless an install is under way or its outcome is unknown, the revision taken to be installed is the
\* last one the process was told.
PolicyKnown ==
  published # Nobody /\ ~doubted /\ stage # "installing" /\ ~queue.closed
    => believed \in {Nobody, judge[published]}

\* A request begins under the policy the core has: what AsksUnderPolicy says of a step.
AsksKnown ==
  (stage' = "asked" /\ (stage # "asked" \/ queue'.running # queue.running) /\ ~doubted')
    => judge'[published'] = policy'

AskInv == AskTypes /\ StageFits /\ ClosedIsEmpty /\ VerdictsReachParser /\ PolicyKnown

IInv == ProcInv /\ AskInv /\ answered \subseteq Children /\ calls \in 0..MaxCalls

-----------------------------------------------------------------------------
(***************************************************************************)
(* The processes                                                           *)
(***************************************************************************)

\* The state the first argument is about.
procState == <<spawned, os, stopped, starting, due, announced, handshake, previous, published, deaths>>

LEMMA ProcUnchanged ==
  ASSUME ProcInv, UNCHANGED procState
  PROVE  ProcInv'
BY DEF procState, ProcInv, ProcTypes, Lives, Custody, Unreported, OneRespawn, Respawning

\* What TypeOK says of the constants, and that nothing stands for no process.
LEMMA Constants ==
  /\ Nobody \notin Children /\ Nobody \notin Revisions
  /\ MaxRespawns \in Nat /\ MaxSpawns \in Nat /\ MaxCalls \in Nat
  /\ FirstRevision \in Revisions
BY SupervisorAssumption DEF Children

\* A process is spawned, for a start or in the place of an entry whose timer fired.
LEMMA SpawnKeeps ==
  ASSUME ProcInv, NEW kind \in {"start", "respawn"}, NEW prev, SpawnProcess(kind, prev),
         UNCHANGED <<stopped, announced, published, deaths>>,
         kind = "start" => prev = Nobody /\ due' = due,
         kind = "respawn" => prev = published /\ prev \in due /\ due' = due \ {prev}
  PROVE  ProcInv'
<1> DEFINE n == spawned + 1
<1>0. ProcTypes /\ Lives /\ Custody /\ Unreported /\ OneRespawn
  BY DEF ProcInv
<1>1. /\ n \in Children /\ spawned' = n /\ n \in 0..MaxSpawns /\ os[n] = "unborn"
      /\ os' = [os EXCEPT ![n] = "alive"]
      /\ handshake' = [handshake EXCEPT ![n] = kind]
      /\ previous' = [previous EXCEPT ![n] = prev]
      /\ starting' = starting \cup {n}
  BY <1>0, Constants DEF SpawnProcess, ProcTypes, Lives, Children
<1>2. prev \in Children \cup {Nobody} /\ due' \subseteq due
  BY <1>0 DEF ProcTypes
<1>3. n \notin stopped \cup starting \cup due \cup announced \cup {published}
  BY <1>0, <1>1, Constants DEF Lives, ProcTypes
<1>4. ProcTypes'
  BY <1>0, <1>1, <1>2 DEF ProcTypes
<1>5. Lives'
  <2>1. \A c \in Children : os'[c] = "unborn" <=> c > spawned'
    BY <1>0, <1>1 DEF Lives, ProcTypes, Children
  <2>2. \A c \in stopped' \cup starting' \cup ({published'} \ {Nobody}) : os'[c] # "unborn"
    BY <1>0, <1>1, <1>3 DEF Lives, ProcTypes
  <2>3. (\A c \in due' \cup announced' : os'[c] = "exited") /\ due' \cap starting' = {}
    BY <1>0, <1>1, <1>2, <1>3 DEF Lives, ProcTypes
  <2>4. \A c \in Children : handshake'[c] = "start" => previous'[c] = Nobody
    BY <1>0, <1>1 DEF Lives, ProcTypes
  <2>5. \A c \in Children : handshake'[c] = "respawn" =>
          previous'[c] \in Children /\ previous'[c] \notin starting' /\ os'[previous'[c]] = "exited"
    <3>1. kind = "respawn" => prev \in Children /\ prev \notin starting /\ os[prev] = "exited" /\ prev # n
      BY <1>0, <1>3 DEF Lives, ProcTypes
    <3> QED
      BY <1>0, <1>1, <3>1 DEF Lives, ProcTypes
  <2> QED
    BY <2>1, <2>2, <2>3, <2>4, <2>5 DEF Lives
<1>6. Custody'
  BY <1>0, <1>1, <1>3 DEF Custody, ProcTypes
<1>7. Unreported'
  BY <1>0 DEF Unreported
<1>8. OneRespawn'
  <2>1. CASE kind = "start"
    <3>1. Respawning' = Respawning
      BY <1>0, <1>1, <1>3, <2>1 DEF Respawning, ProcTypes
    <3>2. published # Nobody => os'[published] = os[published]
      BY <1>0, <1>1, <1>3 DEF ProcTypes
    <3> QED
      BY <1>0, <2>1, <3>1, <3>2 DEF OneRespawn
  <2>2. CASE kind = "respawn"
    <3>1. Respawning = {} /\ deaths <= MaxRespawns
      BY <1>0, <2>2, Constants DEF OneRespawn, ProcTypes
    <3>2. Respawning' = {n}
      BY <1>0, <1>1, <1>3, <2>2, <3>1 DEF Respawning, ProcTypes
    <3>3. published \notin due'
      BY <2>2
    <3> QED
      BY <1>0, <3>1, <3>2, <3>3, Constants DEF OneRespawn, ProcTypes
  <2> QED
    BY <2>1, <2>2
<1> QED
  BY <1>4, <1>5, <1>6, <1>7, <1>8 DEF ProcInv

\* A handshake is over and its process not published: signalled, or torn down before.  Its entry, if
\* the child was a respawn and failed, may get another timer.
LEMMA AbandonKeeps ==
  ASSUME ProcInv, NEW c \in Children, Settles(c),
         stopped' = stopped \cup {d \in {c} \cap starting : os[d] = "alive"},
         UNCHANGED <<spawned, os, previous, published>>,
         announced \subseteq announced',
         announced' \subseteq announced \cup {d \in {c} \cap starting : os[d] = "exited"},
         \/ UNCHANGED <<deaths, due>>
         \/ /\ c \in Respawning /\ deaths' = deaths + 1
            /\ due' = IF deaths + 1 <= MaxRespawns THEN due \cup {published} ELSE due
  PROVE  ProcInv'
<1>0. ProcTypes /\ Lives /\ Custody /\ Unreported /\ OneRespawn
  BY DEF ProcInv
<1>1. /\ handshake' = [handshake EXCEPT ![c] = "none"]
      /\ starting' = starting \ {c}
  BY DEF Settles
<1>2. c \in Respawning => /\ published \in Children /\ published \notin starting /\ os[published] = "exited"
                          /\ deaths <= MaxRespawns /\ published \notin due
  BY <1>0, Constants DEF Respawning, OneRespawn, Lives, ProcTypes
<1>3. ProcTypes'
  <2>1. deaths' \in 0..(MaxRespawns + 1) /\ due' \subseteq Children
    BY <1>0, <1>2, Constants DEF ProcTypes
  <2>2. announced' \subseteq Children /\ stopped' \subseteq Children /\ starting' \subseteq Children
    BY <1>0, <1>1 DEF ProcTypes
  <2> QED
    BY <1>0, <1>1, <2>1, <2>2 DEF ProcTypes
<1>4. Lives'
  <2>1. \A d \in Children : os'[d] = "unborn" <=> d > spawned'
    BY <1>0 DEF Lives
  <2>2. \A d \in stopped' \cup starting' \cup ({published'} \ {Nobody}) : os'[d] # "unborn"
    BY <1>0, <1>1 DEF Lives
  <2>3. (\A d \in due' \cup announced' : os'[d] = "exited") /\ due' \cap starting' = {}
    BY <1>0, <1>1, <1>2 DEF Lives
  <2>4. \A d \in Children : handshake'[d] # "none" => handshake'[d] = handshake[d]
    BY <1>0, <1>1 DEF ProcTypes
  <2>5. \A d \in Children : handshake'[d] = "start" => previous'[d] = Nobody
    BY <1>0, <2>4 DEF Lives
  <2>6. \A d \in Children : handshake'[d] = "respawn" =>
          previous'[d] \in Children /\ previous'[d] \notin starting' /\ os'[previous'[d]] = "exited"
    BY <1>0, <1>1, <2>4 DEF Lives
  <2> QED
    BY <2>1, <2>2, <2>3, <2>5, <2>6 DEF Lives
<1>5. Custody'
  BY <1>0, <1>1 DEF Custody
<1>6. Unreported'
  BY <1>0 DEF Unreported, Custody, Lives
<1>7. OneRespawn'
  <2>1. Respawning' = Respawning \ {c}
    BY <1>0, <1>1 DEF Respawning, ProcTypes
  <2>2. CASE UNCHANGED <<deaths, due>>
    BY <1>0, <2>1, <2>2 DEF OneRespawn
  <2>3. CASE /\ c \in Respawning /\ deaths' = deaths + 1
             /\ due' = IF deaths + 1 <= MaxRespawns THEN due \cup {published} ELSE due
    <3>1. Respawning' = {}
      BY <1>0, <2>1, <2>3 DEF OneRespawn
    <3>2. deaths' > MaxRespawns => published' \notin due'
      BY <1>0, <1>2, <2>3, Constants DEF ProcTypes
    <3> QED
      BY <1>2, <2>3, <3>1, <3>2 DEF OneRespawn
  <2> QED
    BY <2>2, <2>3
<1> QED
  BY <1>3, <1>4, <1>5, <1>6, <1>7 DEF ProcInv

\* A process takes its place in the map: of no deaths after a start, of its entry's after a respawn.
LEMMA PublishKeeps ==
  ASSUME ProcInv, NEW c \in starting, NEW d \in 0..MaxRespawns, Publish(c, d),
         stopped' = stopped \cup {i \in {published} \ {Nobody} : os[i] = "alive"},
         UNCHANGED <<spawned, os, previous>>
  PROVE  ProcInv'
<1>0. ProcTypes /\ Lives /\ Custody /\ Unreported /\ OneRespawn
  BY DEF ProcInv
<1>1. /\ handshake' = [handshake EXCEPT ![c] = "none"]
      /\ starting' = starting \ {c} /\ published' = c /\ c \in Children
  BY <1>0 DEF Publish, Settles, ProcTypes
<1>2. /\ deaths' \in {d, d + 1}
      /\ deaths' = d + 1 => os[c] = "exited"
      /\ announced \subseteq announced' /\ due \subseteq due'
      /\ announced' \cup due' \subseteq announced \cup due \cup {i \in {c} : os[i] = "exited"}
      /\ announced' \subseteq announced \cup {c} /\ due' \subseteq due \cup {c}
      /\ c \in due' \ due => deaths' <= MaxRespawns
  <2>1. CASE os[c] = "exited"
    BY <2>1, Constants DEF Publish, OnExit
  <2>2. CASE os[c] # "exited"
    BY <2>2, Constants DEF Publish
  <2> QED
    BY <2>1, <2>2
<1>3. c \notin due /\ c \notin stopped' /\ c # published
  BY <1>0 DEF Lives, Custody
<1>4. ProcTypes'
  <2>1. deaths' \in 0..(MaxRespawns + 1)
    BY <1>2, Constants
  <2>2. stopped' \subseteq Children /\ announced' \subseteq Children /\ due' \subseteq Children
    BY <1>0, <1>1, <1>2 DEF ProcTypes
  <2> QED
    BY <1>0, <1>1, <2>1, <2>2 DEF ProcTypes
<1>5. Lives'
  <2>1. \A i \in Children : os'[i] = "unborn" <=> i > spawned'
    BY <1>0 DEF Lives
  <2>2. \A i \in stopped' \cup starting' \cup ({published'} \ {Nobody}) : os'[i] # "unborn"
    BY <1>0, <1>1 DEF Lives
  <2>3. (\A i \in due' \cup announced' : os'[i] = "exited") /\ due' \cap starting' = {}
    BY <1>0, <1>1, <1>2 DEF Lives
  <2>4. \A i \in Children : handshake'[i] # "none" => handshake'[i] = handshake[i]
    BY <1>0, <1>1 DEF ProcTypes
  <2>5. \A i \in Children : handshake'[i] = "start" => previous'[i] = Nobody
    BY <1>0, <2>4 DEF Lives
  <2>6. \A i \in Children : handshake'[i] = "respawn" =>
          previous'[i] \in Children /\ previous'[i] \notin starting' /\ os'[previous'[i]] = "exited"
    BY <1>0, <1>1, <2>4 DEF Lives
  <2> QED
    BY <2>1, <2>2, <2>3, <2>5, <2>6 DEF Lives
<1>6. Custody'
  BY <1>0, <1>1, <1>3, Constants DEF Custody, ProcTypes
<1>7. Unreported'
  <2>1. announced \cap stopped' = {}
    BY <1>0 DEF Unreported, Lives
  <2> QED
    BY <1>2, <1>3, <2>1 DEF Unreported
<1>8. OneRespawn'
  <2>1. Respawning' = {}
    BY <1>0, <1>1 DEF Respawning, Lives, ProcTypes
  <2>2. deaths' > MaxRespawns => os'[published'] = "exited" /\ published' \notin due'
    BY <1>1, <1>2, <1>3, Constants
  <2> QED
    BY <2>1, <2>2 DEF OneRespawn
<1> QED
  BY <1>4, <1>5, <1>6, <1>7, <1>8 DEF ProcInv

\* A process dies.
LEMMA DeathKeeps ==
  ASSUME ProcInv, NEW c \in Children, os[c] = "alive", os' = [os EXCEPT ![c] = "dead"],
         UNCHANGED <<spawned, stopped, starting, due, announced, handshake, previous, published, deaths>>
  PROVE  ProcInv'
<1>0. ProcTypes /\ Lives /\ Custody /\ Unreported /\ OneRespawn
  BY DEF ProcInv
<1>1. ProcTypes'
  BY <1>0 DEF ProcTypes
<1>2. \A d \in Children : (os'[d] = os[d] \/ d = c) /\ (os'[d] = "exited" <=> os[d] = "exited")
        /\ (os'[d] = "unborn" <=> os[d] = "unborn") /\ (os'[d] = "alive" => os[d] = "alive")
  BY <1>0 DEF ProcTypes
<1>3. Lives'
  BY <1>0, <1>2 DEF Lives, ProcTypes
<1>4. Custody'
  BY <1>0, <1>2 DEF Custody
<1>5. Unreported'
  BY <1>0 DEF Unreported
<1>6. Respawning' = Respawning
  BY DEF Respawning
<1>7. OneRespawn'
  BY <1>0, <1>2, <1>6 DEF OneRespawn, ProcTypes
<1> QED
  BY <1>1, <1>3, <1>4, <1>5, <1>7 DEF ProcInv

\* Its exit is delivered.
LEMMA ExitKeeps ==
  ASSUME ProcInv, NEW c \in Children, Exit(c)
  PROVE  ProcInv'
<1>0. ProcTypes /\ Lives /\ Custody /\ Unreported /\ OneRespawn
  BY DEF ProcInv
<1>1. /\ os[c] = "dead" /\ os' = [os EXCEPT ![c] = "exited"]
      /\ UNCHANGED <<spawned, stopped, starting, handshake, previous, published>>
  BY DEF Exit
<1>2. /\ announced \subseteq announced' /\ announced' \subseteq announced \cup ({c} \cap {published})
      /\ due \subseteq due' /\ due' \subseteq due \cup ({c} \cap {published})
      /\ published # c => UNCHANGED <<deaths, due>>
      /\ published = c => /\ deaths' = deaths + 1 /\ deaths <= MaxRespawns
                          /\ published \in due' \ due => deaths' <= MaxRespawns
  <2>1. CASE published = c
    <3>1. OnExit(c, deaths)
      BY <2>1 DEF Exit
    <3>2. deaths <= MaxRespawns
      BY <1>0, <1>1, <2>1, Constants DEF OneRespawn, ProcTypes
    <3> QED
      BY <1>0, <2>1, <3>1, <3>2, Constants DEF OnExit, ProcTypes
  <2>2. CASE published # c
    BY <2>2 DEF Exit
  <2> QED
    BY <2>1, <2>2
<1>3. \A d \in Children : /\ d = c \/ os'[d] = os[d]
                          /\ os[d] = "exited" => os'[d] = "exited"
                          /\ os'[d] = "unborn" <=> os[d] = "unborn"
                          /\ os'[d] = "alive" => os[d] = "alive"
  BY <1>0, <1>1 DEF ProcTypes
<1>4. os'[c] = "exited" /\ c \notin due
  BY <1>0, <1>1 DEF Lives, ProcTypes
<1>5. ProcTypes'
  <2>1. deaths' \in 0..(MaxRespawns + 1)
    BY <1>0, <1>2, Constants DEF ProcTypes
  <2>2. announced' \subseteq Children /\ due' \subseteq Children
    BY <1>0, <1>2 DEF ProcTypes
  <2> QED
    BY <1>0, <1>1, <2>1, <2>2 DEF ProcTypes
<1>6. Lives'
  <2>1. (\A d \in Children : os'[d] = "unborn" <=> d > spawned')
        /\ (\A d \in stopped' \cup starting' \cup ({published'} \ {Nobody}) : os'[d] # "unborn")
    BY <1>0, <1>1, <1>3 DEF Lives, ProcTypes
  <2>2. \A d \in due' \cup announced' : os'[d] = "exited"
    BY <1>0, <1>2, <1>3, <1>4 DEF Lives, ProcTypes
  <2>3. due' \cap starting' = {}
    BY <1>0, <1>1, <1>2 DEF Lives, Custody
  <2>4. (\A d \in Children : handshake'[d] = "start" => previous'[d] = Nobody)
        /\ (\A d \in Children : handshake'[d] = "respawn" =>
             previous'[d] \in Children /\ previous'[d] \notin starting' /\ os'[previous'[d]] = "exited")
    BY <1>0, <1>1, <1>3 DEF Lives
  <2> QED
    BY <2>1, <2>2, <2>3, <2>4 DEF Lives
<1>7. Custody'
  BY <1>0, <1>1, <1>3 DEF Custody
<1>8. Unreported'
  BY <1>0, <1>1, <1>2 DEF Unreported, Custody
<1>9. OneRespawn'
  <2>1. Respawning' = Respawning
    BY <1>1 DEF Respawning
  <2>2. CASE published = c
    <3>1. Respawning = {}
      BY <1>0, <1>1, <2>2 DEF Respawning, Lives, ProcTypes
    <3>2. deaths' > MaxRespawns => published' \notin due'
      BY <1>1, <1>2, <1>4, <1>5, <2>2, Constants DEF ProcTypes
    <3> QED
      BY <1>1, <1>4, <2>1, <2>2, <3>1, <3>2 DEF OneRespawn
  <2>3. CASE published # c
    <3>1. published \in Children => os'[published] = os[published]
      BY <1>3, <2>3
    <3> QED
      BY <1>0, <1>1, <1>2, <2>1, <2>3, <3>1 DEF OneRespawn, ProcTypes
  <2> QED
    BY <2>2, <2>3
<1> QED
  BY <1>5, <1>6, <1>7, <1>8, <1>9 DEF ProcInv

\* The map is emptied, and perhaps the set of the starting ones with it: all of them are signalled.
LEMMA TeardownKeeps ==
  ASSUME ProcInv, NEW gone \in SUBSET starting,
         starting' = starting \ gone, published' = Nobody,
         stopped' = stopped \cup {c \in gone \cup ({published} \ {Nobody}) : os[c] = "alive"},
         announced \subseteq announced',
         announced' \subseteq announced \cup {c \in gone : os[c] = "exited"},
         handshake' \in [Children -> {"none", "start", "respawn"}],
         \A c \in Children : handshake'[c] # "none" => handshake'[c] = handshake[c],
         UNCHANGED <<spawned, os, previous, deaths, due>>
  PROVE  ProcInv'
<1>0. ProcTypes /\ Lives /\ Custody /\ Unreported /\ OneRespawn
  BY DEF ProcInv
<1>1. ProcTypes'
  <2>1. announced' \subseteq Children /\ stopped' \subseteq Children /\ starting' \subseteq Children
    BY <1>0 DEF ProcTypes
  <2> QED
    BY <1>0, <2>1 DEF ProcTypes
<1>2. Lives'
  <2>1. \A c \in Children : os'[c] = "unborn" <=> c > spawned'
    BY <1>0 DEF Lives
  <2>2. \A c \in stopped' \cup starting' \cup ({published'} \ {Nobody}) : os'[c] # "unborn"
    BY <1>0 DEF Lives
  <2>3. (\A c \in due' \cup announced' : os'[c] = "exited") /\ due' \cap starting' = {}
    BY <1>0 DEF Lives
  <2>4. \A c \in Children : handshake'[c] = "start" => previous'[c] = Nobody
    BY <1>0 DEF Lives
  <2>5. \A c \in Children : handshake'[c] = "respawn" =>
          previous'[c] \in Children /\ previous'[c] \notin starting' /\ os'[previous'[c]] = "exited"
    BY <1>0 DEF Lives
  <2> QED
    BY <2>1, <2>2, <2>3, <2>4, <2>5 DEF Lives
<1>3. Custody'
  BY <1>0, Constants DEF Custody, ProcTypes
<1>4. Unreported'
  BY <1>0 DEF Unreported, Custody, Lives
<1>5. OneRespawn'
  <2>1. Respawning' = {}
    BY <1>0, <1>1, <1>2, Constants DEF Respawning, Lives, ProcTypes
  <2> QED
    BY <2>1, <1>0, Constants DEF OneRespawn, ProcTypes
<1> QED
  BY <1>1, <1>2, <1>3, <1>4, <1>5 DEF ProcInv

\* A timer fires for an entry that is gone.
LEMMA StaleTimerKeeps ==
  ASSUME ProcInv, NEW c \in Children, published # c, due' = due \ {c},
         UNCHANGED <<spawned, os, stopped, starting, announced, handshake, previous, published, deaths>>
  PROVE  ProcInv'
<1>0. ProcTypes /\ Lives /\ Custody /\ Unreported /\ OneRespawn
  BY DEF ProcInv
<1>1. ProcTypes' /\ Lives' /\ Custody' /\ Unreported'
  BY <1>0 DEF ProcTypes, Lives, Custody, Unreported
<1>2. Respawning' = Respawning
  BY DEF Respawning
<1>3. OneRespawn'
  BY <1>0, <1>2 DEF OneRespawn
<1> QED
  BY <1>1, <1>3 DEF ProcInv

\* Every step of the supervisor and of its processes.
LEMMA ProcStep ==
  ASSUME IInv, [Next]_vars
  PROVE  ProcInv'
<1>0. ProcInv /\ ProcTypes
  BY DEF IInv, ProcInv
<1> USE DEF procVars, entryVars, askVars
<1>1. CASE Start
  <2>1. /\ SpawnProcess("start", Nobody)
        /\ UNCHANGED <<stopped, announced, published, deaths, due>>
    BY <1>1 DEF Start
  <2> QED
    BY <1>0, <2>1, SpawnKeeps
<1>2. CASE Stop
  <2>1. /\ published' = Nobody /\ published # Nobody
        /\ stopped' = stopped \cup {c \in {published} : os[c] = "alive"}
        /\ UNCHANGED <<spawned, os, handshake, previous, starting, deaths, due, announced>>
    BY <1>2 DEF Stop, StopProcesses
  <2>2. {} \in SUBSET starting /\ starting' = starting \ {}
    BY <2>1
  <2>3. stopped' = stopped \cup {c \in {} \cup ({published} \ {Nobody}) : os[c] = "alive"}
    BY <2>1
  <2>4. announced' \subseteq announced \cup {c \in {} : os[c] = "exited"}
    BY <2>1
  <2>5. handshake' \in [Children -> {"none", "start", "respawn"}]
    BY <1>0, <2>1 DEF ProcTypes
  <2> QED
    BY <1>0, <2>1, <2>2, <2>3, <2>4, <2>5, TeardownKeeps
<1>3. CASE StopAll
  <2>1. /\ starting' = {} /\ published' = Nobody
        /\ stopped' = stopped \cup {c \in starting \cup ({published} \ {Nobody}) : os[c] = "alive"}
        /\ handshake' = [c \in Children |-> IF c \in starting \ answered THEN "none" ELSE handshake[c]]
        /\ announced' = announced \cup {n \in starting \ answered : handshake[n] = "respawn" /\ os[n] = "exited"}
        /\ UNCHANGED <<spawned, os, previous, deaths, due>>
    BY <1>3 DEF StopAll, StopProcesses
  <2>2. starting' = starting \ starting
    BY <2>1
  <2>3. announced \subseteq announced' /\ announced' \subseteq announced \cup {c \in starting : os[c] = "exited"}
    BY <2>1
  <2>4. /\ handshake' \in [Children -> {"none", "start", "respawn"}]
        /\ \A c \in Children : handshake'[c] # "none" => handshake'[c] = handshake[c]
    BY <1>0, <2>1 DEF ProcTypes
  <2> QED
    BY <1>0, <2>1, <2>2, <2>3, <2>4, TeardownKeeps
<1>4. ASSUME NEW c \in Children, Started(c)
      PROVE  ProcInv'
  <2>1. /\ c \in starting /\ Publish(c, 0)
        /\ stopped' = stopped \cup {i \in {published} \ {Nobody} : os[i] = "alive"}
        /\ UNCHANGED <<spawned, os, previous>>
    BY <1>4 DEF Started
  <2>2. 0 \in 0..MaxRespawns
    BY Constants
  <2> QED
    BY <1>0, <2>1, <2>2, PublishKeeps
<1>5. ASSUME NEW c \in Children, TornDown(c)
      PROVE  ProcInv'
  <2>1. /\ c \notin starting /\ Settles(c)
        /\ UNCHANGED <<spawned, os, stopped, previous, published, announced, deaths, due>>
    BY <1>5 DEF TornDown
  <2>2. stopped' = stopped \cup {d \in {c} \cap starting : os[d] = "alive"}
    BY <2>1
  <2> QED
    BY <1>0, <2>1, <2>2, AbandonKeeps
<1>6. ASSUME NEW c \in Children, StartFails(c)
      PROVE  ProcInv'
  <2>1. /\ c \in starting /\ Settles(c)
        /\ stopped' = stopped \cup {d \in {c} : os[d] = "alive"}
        /\ UNCHANGED <<spawned, os, previous, published, announced, deaths, due>>
    BY <1>6 DEF StartFails, StopProcesses
  <2>2. stopped' = stopped \cup {d \in {c} \cap starting : os[d] = "alive"}
    BY <2>1
  <2> QED
    BY <1>0, <2>1, <2>2, AbandonKeeps
<1>7. ASSUME NEW c \in Children, Dies(c)
      PROVE  ProcInv'
  BY <1>0, <1>7, DeathKeeps DEF Dies
<1>8. ASSUME NEW c \in Children, Exit(c)
      PROVE  ProcInv'
  BY <1>0, <1>8, ExitKeeps
<1>9. ASSUME NEW c \in Children, RespawnFires(c)
      PROVE  ProcInv'
  <2>1. /\ c \in due /\ due' = due \ {c}
        /\ UNCHANGED <<stopped, published, deaths, announced>>
    BY <1>9 DEF RespawnFires
  <2>2. CASE published = c
    <3>1. SpawnProcess("respawn", c)
      BY <1>9, <2>2 DEF RespawnFires, StillWanted
    <3> QED
      BY <1>0, <2>1, <2>2, <3>1, SpawnKeeps
  <2>3. CASE published # c
    <3>1. UNCHANGED <<spawned, os, handshake, previous, starting>>
      BY <1>9, <2>3 DEF RespawnFires, StillWanted
    <3> QED
      BY <1>0, <2>1, <2>3, <3>1, StaleTimerKeeps
  <2> QED
    BY <2>2, <2>3
<1>10. ASSUME NEW n \in Children, Respawned(n)
       PROVE  ProcInv'
  <2>1. /\ handshake[n] = "respawn" /\ n \in starting
        /\ UNCHANGED <<spawned, os, previous>>
    BY <1>10 DEF Respawned
  <2>2. CASE published = previous[n]
    <3>1. Publish(n, deaths) /\ UNCHANGED stopped
      BY <1>10, <2>2 DEF Respawned, StillWanted
    <3>2. n \in Respawning /\ published \in Children /\ os[published] = "exited"
      BY <1>0, <2>1, <2>2 DEF Respawning, ProcInv, Lives
    <3>3. deaths \in 0..MaxRespawns
      BY <1>0, <3>2, Constants DEF ProcInv, OneRespawn, ProcTypes
    <3>4. stopped' = stopped \cup {i \in {published} \ {Nobody} : os[i] = "alive"}
      BY <3>1, <3>2
    <3> QED
      BY <1>0, <2>1, <3>1, <3>3, <3>4, PublishKeeps
  <2>3. CASE published # previous[n]
    <3>1. /\ Settles(n) /\ stopped' = stopped \cup {d \in {n} : os[d] = "alive"}
          /\ UNCHANGED <<published, announced, deaths, due>>
      BY <1>10, <2>3 DEF Respawned, StillWanted, StopProcesses
    <3>2. stopped' = stopped \cup {d \in {n} \cap starting : os[d] = "alive"}
      BY <2>1, <3>1
    <3> QED
      BY <1>0, <2>1, <3>1, <3>2, AbandonKeeps
  <2> QED
    BY <2>2, <2>3
<1>11. ASSUME NEW n \in Children, RespawnFails(n)
       PROVE  ProcInv'
  <2>1. /\ handshake[n] = "respawn" /\ n \in starting /\ Settles(n)
        /\ stopped' = stopped \cup {d \in {n} : os[d] = "alive"}
        /\ announced' = IF os[n] = "exited" THEN announced \cup {n} ELSE announced
        /\ UNCHANGED <<spawned, os, previous, published>>
    BY <1>11 DEF RespawnFails, StopProcesses
  <2>2. stopped' = stopped \cup {d \in {n} \cap starting : os[d] = "alive"}
    BY <2>1
  <2>3. /\ announced \subseteq announced'
        /\ announced' \subseteq announced \cup {d \in {n} \cap starting : os[d] = "exited"}
    BY <2>1
  <2>4. CASE published = previous[n]
    <3>1. n \in Respawning
      BY <2>1, <2>4 DEF Respawning
    <3>2. /\ deaths' = deaths + 1
          /\ due' = IF deaths + 1 <= MaxRespawns THEN due \cup {published} ELSE due
      BY <1>11, <2>4 DEF RespawnFails, StillWanted
    <3> QED
      BY <1>0, <2>1, <2>2, <2>3, <3>1, <3>2, AbandonKeeps
  <2>5. CASE published # previous[n]
    <3>1. UNCHANGED <<deaths, due>>
      BY <1>11, <2>5 DEF RespawnFails, StillWanted
    <3> QED
      BY <1>0, <2>1, <2>2, <2>3, <3>1, AbandonKeeps
  <2> QED
    BY <2>4, <2>5
<1>12. ASSUME NEW wedged \in BOOLEAN, Expires(wedged)
       PROVE  ProcInv'
  <2>1. /\ published \in Children
        /\ UNCHANGED <<spawned, stopped, starting, due, announced, handshake, previous, published, deaths>>
    BY <1>12 DEF Expires, IInv, AskInv, StageFits
  <2>2. CASE wedged /\ os[published] = "alive"
    BY <1>0, <1>12, <2>1, <2>2, DeathKeeps DEF Expires
  <2>3. CASE ~(wedged /\ os[published] = "alive")
    BY <1>0, <1>12, <2>1, <2>3, ProcUnchanged DEF Expires, procState
  <2> QED
    BY <2>2, <2>3
<1>13. CASE \/ \E c \in Children : Reply(c) \/ BrokenPipe(c)
            \/ \E r \in Requests : Ask(r) \/ PublishVerdict(r)
            \/ Installed \/ Answer \/ VerdictSent
            \/ \E v \in Revisions, affects \in BOOLEAN : PolicyMoves(v, affects)
            \/ UNCHANGED vars
  <2>1. UNCHANGED procState
    BY <1>13 DEF Reply, BrokenPipe, Ask, PublishVerdict, Installed, Answer, VerdictSent, PolicyMoves, vars,
                 procState
  <2> QED
    BY <1>0, <2>1, ProcUnchanged
<1> QED
  BY <1>1, <1>2, <1>3, <1>4, <1>5, <1>6, <1>7, <1>8, <1>9, <1>10, <1>11, <1>12, <1>13 DEF Next

-----------------------------------------------------------------------------
(***************************************************************************)
(* The queue                                                               *)
(***************************************************************************)

\* Some caller's request is q's running work.
Asking(q) == \E r \in Requests : q.running = Asked(r)

LEMMA WorkKinds ==
  /\ \A r \in Requests : Asked(r) \in Work /\ Asked(r).kind = "ask"
  /\ \A c \in Children : Verdict(c) \in Work /\ Verdict(c).kind = "verdict" /\ Verdict(c).of = c
  /\ \A w \in Work : w.kind # "verdict" <=> \E r \in Requests : w = Asked(r)
  /\ \A w \in Work : w.kind = "verdict" => w.of \in Children
<1>1. \A r \in Requests : Asked(r) \in Work /\ Asked(r).kind = "ask"
  BY DEF Work, Asked
<1>2. \A c \in Children : Verdict(c) \in Work /\ Verdict(c).kind = "verdict" /\ Verdict(c).of = c
  BY DEF Work, Verdict
<1>3. \A w \in Work : (\E r \in Requests : w = Asked(r)) \/ (\E c \in Children : w = Verdict(c))
  BY DEF Work
<1> QED
  BY <1>1, <1>2, <1>3

\* A queue takes work, or refuses it.
LEMMA RunFits ==
  ASSUME NEW q \in Queues, NEW w \in Work
  PROVE  /\ Run(q, w) \in Queues /\ Run(q, w).closed = q.closed
         /\ q.closed => Run(q, w) = q
         /\ q.running # Idle => Run(q, w).running = q.running
         /\ Pending(Run(q, w)) \subseteq Pending(q) \cup {w}
<1>1. CASE q.closed
  BY <1>1 DEF Run
<1>2. CASE ~q.closed /\ q.running = Idle
  BY <1>2 DEF Run, Queues, Pending
<1>3. CASE ~q.closed /\ q.running # Idle
  <2>1. Run(q, w) = [q EXCEPT !.waiting = Append(q.waiting, w)]
    BY <1>3 DEF Run
  <2>2. q.waiting \in Seq(Work)
    BY DEF Queues
  <2>3. /\ Append(q.waiting, w) \in Seq(Work)
        /\ \A i \in 1..Len(Append(q.waiting, w)) :
             Append(q.waiting, w)[i] \in {q.waiting[j] : j \in 1..Len(q.waiting)} \cup {w}
    BY <2>2, AppendProperties
  <2>4. Run(q, w) \in Queues /\ Run(q, w).closed = q.closed /\ Run(q, w).running = q.running
        /\ Run(q, w).waiting = Append(q.waiting, w)
    BY <2>1, <2>3 DEF Queues
  <2> QED
    BY <1>3, <2>3, <2>4 DEF Pending
<1> QED
  BY <1>1, <1>2, <1>3 DEF Queues

\* A queue goes on to the next work.
LEMMA SettledFits ==
  ASSUME NEW q \in Queues
  PROVE  /\ Settled(q) \in Queues /\ Settled(q).closed = q.closed
         /\ Pending(Settled(q)) \subseteq Pending(q)
<1>0. q.waiting \in Seq(Work)
  BY DEF Queues
<1>1. CASE q.waiting = <<>>
  <2>1. Settled(q) = [q EXCEPT !.running = Idle]
    BY <1>1 DEF Settled
  <2> QED
    BY <2>1 DEF Queues, Pending
<1>2. CASE q.waiting # <<>>
  <2>1. Settled(q) = [q EXCEPT !.running = Head(q.waiting), !.waiting = Tail(q.waiting)]
    BY <1>2 DEF Settled
  <2>2. /\ Head(q.waiting) \in Work /\ Tail(q.waiting) \in Seq(Work)
        /\ Head(q.waiting) = q.waiting[1] /\ 1 \in 1..Len(q.waiting)
        /\ \A i \in 1..Len(Tail(q.waiting)) :
             i + 1 \in 1..Len(q.waiting) /\ Tail(q.waiting)[i] = q.waiting[i + 1]
    BY <1>0, <1>2, HeadTailProperties
  <2>3. /\ Settled(q) \in Queues /\ Settled(q).closed = q.closed
        /\ Settled(q).running = Head(q.waiting) /\ Settled(q).waiting = Tail(q.waiting)
    BY <2>1, <2>2 DEF Queues
  <2>4. \A w \in Pending(Settled(q)) : w \in {q.waiting[i] : i \in 1..Len(q.waiting)}
    BY <2>2, <2>3 DEF Pending
  <2> QED
    BY <2>3, <2>4 DEF Pending
<1> QED
  BY <1>1, <1>2

\* An empty queue: a new one, or a closed one.
LEMMA EmptyFits ==
  ASSUME NEW q
  PROVE  /\ NewQueue \in Queues /\ NewQueue.running = Idle /\ Pending(NewQueue) = {} /\ ~NewQueue.closed
         /\ Closed(q) \in Queues /\ Closed(q).running = Idle /\ Closed(q).waiting = <<>>
         /\ Pending(Closed(q)) = {} /\ Closed(q).closed
<1>1. <<>> \in Seq(Work) /\ Len(<<>>) = 0
  BY EmptySeq
<1> QED
  BY <1>1 DEF NewQueue, Closed, Queues, Pending

\* What Idle is not.
LEMMA IdleAsksNothing == \A r \in Requests : Idle # Asked(r)
BY IdleAssumption, WorkKinds

\* The queue moves: what begins to run is awaited, under the policy that is then installed or known.
LEMMA EntersFits ==
  ASSUME AskInv, published \in Children, NEW q \in Queues, ~q.closed, Enters(q)
  PROVE  /\ queue' = q
         /\ stage' \in {"none", "installing", "asked"}
         /\ judge' \in [Children -> Revisions \cup {Nobody}]
         /\ stage' # "none" <=> Asking(q)
         /\ stage' = "installing" \/ judge' = judge
         /\ stage' = "asked" /\ (stage # "asked" \/ q.running # queue.running) => believed = policy
         /\ q.running = queue.running => stage' = stage /\ judge' = judge
<1>0. AskTypes /\ StageFits
  BY DEF AskInv
<1>1. CASE q.running = queue.running
  BY <1>0, <1>1 DEF Enters, AskTypes, StageFits, Asking
<1>2. CASE q.running # queue.running
  <2>1. /\ queue' = q /\ stage' = FirstAwait(q)
        /\ judge' = IF FirstAwait(q) = "installing" THEN [judge EXCEPT ![published] = policy] ELSE judge
    BY <1>2 DEF Enters
  <2>2. judge' \in [Children -> Revisions \cup {Nobody}]
    BY <1>0, <2>1 DEF AskTypes
  <2>3. q.running \in Work \cup {Idle}
    BY DEF Queues
  <2>4. CASE q.running = Idle
    <3>1. FirstAwait(q) = "none" /\ ~Asking(q)
      BY <2>4, IdleAsksNothing DEF FirstAwait, Asking
    <3> QED
      BY <1>2, <2>1, <2>2, <3>1
  <2>5. CASE q.running # Idle /\ q.running.kind = "verdict"
    <3>1. FirstAwait(q) = "none" /\ ~Asking(q)
      BY <2>5, WorkKinds DEF FirstAwait, Asking
    <3> QED
      BY <1>2, <2>1, <2>2, <3>1
  <2>6. CASE q.running # Idle /\ q.running.kind # "verdict"
    <3>1. FirstAwait(q) = (IF believed = policy THEN "asked" ELSE "installing") /\ Asking(q)
      BY <2>3, <2>6, WorkKinds DEF FirstAwait, Asking
    <3> QED
      BY <1>2, <2>1, <2>2, <3>1
  <2> QED
    BY <2>4, <2>5, <2>6
<1> QED
  BY <1>1, <1>2

\* A queue takes the place of another whose callers are rejected, as the entry changes or closes.
LEMMA RejectsKeeps ==
  ASSUME AskTypes, NEW q, q = NewQueue \/ q = Closed(queue), Rejects(q),
         believed' \in Revisions \cup {Nobody}, doubted' \in BOOLEAN,
         judge' \in [Children -> Revisions \cup {Nobody}], policy' \in Revisions,
         q.closed \/ believed' = judge'[published']
  PROVE  AskInv' /\ AsksKnown
<1>1. /\ queue' = q /\ stage' = "none"
      /\ request' = [r \in Requests |-> IF Asked(r) \in Pending(queue) THEN None ELSE request[r]]
  BY DEF Rejects
<1>2. /\ q \in Queues /\ q.running = Idle /\ Pending(q) = {}
      /\ q.closed => q.waiting = <<>>
  BY EmptyFits
<1>3. AskTypes'
  <2>1. request' \in [Requests -> {None, Waits} \cup {OwesVerdict(c) : c \in Children}]
    BY <1>1 DEF AskTypes
  <2> QED
    BY <1>1, <1>2, <2>1 DEF AskTypes
<1>4. StageFits'
  BY <1>1, <1>2, IdleAsksNothing DEF StageFits
<1>5. ClosedIsEmpty' /\ VerdictsReachParser'
  BY <1>1, <1>2 DEF ClosedIsEmpty, VerdictsReachParser
<1>6. PolicyKnown'
  BY <1>1 DEF PolicyKnown
<1> QED
  BY <1>1, <1>3, <1>4, <1>5, <1>6 DEF AskInv, AsksKnown

\* The queue and its entry stay as they are.
LEMMA AskUnchanged ==
  ASSUME AskInv, UNCHANGED <<queue, stage, believed, doubted, policy, published>>,
         request' \in [Requests -> {None, Waits} \cup {OwesVerdict(c) : c \in Children}],
         judge' \in [Children -> Revisions \cup {Nobody}],
         published # Nobody => judge'[published] = judge[published]
  PROVE  AskInv' /\ AsksKnown
<1>1. AskTypes'
  BY DEF AskInv, AskTypes
<1>2. StageFits' /\ ClosedIsEmpty' /\ VerdictsReachParser'
  BY DEF AskInv, StageFits, ClosedIsEmpty, VerdictsReachParser
<1>3. PolicyKnown'
  BY DEF AskInv, PolicyKnown
<1> QED
  BY <1>1, <1>2, <1>3 DEF AskInv, AsksKnown

\* An open queue moves, with its entry as it is.
LEMMA MoveKeeps ==
  ASSUME AskInv, published \in Children,
         NEW q \in Queues, ~q.closed, Enters(q),
         \A w \in Pending(q) : w.kind = "verdict" => w.of = published,
         UNCHANGED <<published, believed, policy>>,
         request' \in [Requests -> {None, Waits} \cup {OwesVerdict(c) : c \in Children}],
         ~queue.closed,
         doubted' \in BOOLEAN,
         ~doubted' => ~doubted /\ (stage # "installing" \/ q.running = queue.running)
  PROVE  AskInv' /\ AsksKnown
<1>1. /\ queue' = q
      /\ stage' \in {"none", "installing", "asked"}
      /\ judge' \in [Children -> Revisions \cup {Nobody}]
      /\ stage' # "none" <=> Asking(q)
      /\ stage' = "installing" \/ judge' = judge
      /\ stage' = "asked" /\ (stage # "asked" \/ q.running # queue.running) => believed = policy
      /\ q.running = queue.running => stage' = stage /\ judge' = judge
  BY EntersFits
<1>2. AskTypes'
  BY <1>1 DEF AskInv, AskTypes
<1>3. StageFits'
  BY <1>1 DEF StageFits, Asking
<1>4. ClosedIsEmpty' /\ VerdictsReachParser'
  BY <1>1 DEF ClosedIsEmpty, VerdictsReachParser
<1>5. ASSUME ~doubted', stage' # "installing"
      PROVE  believed \in {Nobody, judge[published]} /\ judge' = judge
  <2>1. ~doubted /\ stage # "installing"
    BY <1>1, <1>5
  <2>2. published # Nobody
    BY Constants
  <2> QED
    BY <1>1, <1>5, <2>1, <2>2 DEF AskInv, PolicyKnown
<1>6. PolicyKnown'
  BY <1>1, <1>5 DEF PolicyKnown
<1>7. AsksKnown
  <2>1. policy \in Revisions /\ policy # Nobody
    BY Constants DEF AskInv, AskTypes
  <2> QED
    BY <1>1, <1>5, <2>1 DEF AsksKnown
<1> QED
  BY <1>2, <1>3, <1>4, <1>6, <1>7 DEF AskInv

\* Every step, as the queue sees it.
LEMMA AskStep ==
  ASSUME IInv, [Next]_vars
  PROVE  AskInv' /\ AsksKnown
<1>0. AskInv /\ AskTypes /\ ProcInv /\ ProcTypes
  BY DEF IInv, AskInv, ProcInv
<1>a. \A c \in starting : c \in Children /\ c # published
  BY <1>0 DEF ProcInv, ProcTypes, Custody
<1>b. request \in [Requests -> {None, Waits} \cup {OwesVerdict(c) : c \in Children}]
  BY <1>0 DEF AskTypes
<1>c. \A r \in Requests : Asked(r) # Idle
  BY IdleAsksNothing
<1> USE DEF procVars, entryVars, askVars
<1>1. CASE Start
  <2>1. spawned + 1 # published
    BY <1>0, <1>1, Constants DEF Start, SpawnProcess, ProcInv, Lives, ProcTypes, Children
  <2>2. /\ judge' = [judge EXCEPT ![spawned + 1] = policy]
        /\ UNCHANGED <<queue, stage, request, believed, doubted, policy, published>>
    BY <1>1 DEF Start, SpawnProcess
  <2>3. judge' \in [Children -> Revisions \cup {Nobody}]
        /\ (published # Nobody => judge'[published] = judge[published])
    BY <1>0, <2>1, <2>2 DEF AskTypes, ProcTypes
  <2> QED
    BY <1>0, <1>b, <2>2, <2>3, AskUnchanged
<1>2. ASSUME UNCHANGED <<queue, stage, request, believed, doubted, policy, published, judge>>
      PROVE  AskInv' /\ AsksKnown
  BY <1>0, <1>2, AskUnchanged DEF AskTypes
<1>3. CASE Stop
  BY <1>0, <1>3, EmptyFits, RejectsKeeps DEF Stop, StopProcesses, AskTypes
<1>4. CASE StopAll
  <2>1. /\ StopProcesses(starting \cup ({published} \ {Nobody})) /\ published' = Nobody
        /\ UNCHANGED <<judge, believed, doubted, policy>>
    BY <1>4 DEF StopAll
  <2>2. CASE published = Nobody
    <3>1. UNCHANGED <<queue, stage, request>>
      BY <1>a, <2>1, <2>2, Constants DEF StopProcesses
    <3> QED
      BY <1>2, <2>1, <2>2, <3>1
  <2>3. CASE published # Nobody
    <3>1. Rejects(Closed(queue))
      BY <2>1, <2>3 DEF StopProcesses
    <3> QED
      BY <1>0, <2>1, <3>1, EmptyFits, RejectsKeeps DEF AskTypes
  <2> QED
    BY <2>2, <2>3
<1>5. ASSUME NEW c \in Children, NEW d, Publish(c, d), UNCHANGED <<judge, policy>>
      PROVE  AskInv' /\ AsksKnown
  <2>1. /\ published' = c /\ believed' = judge[c] /\ doubted' = FALSE
        /\ Rejects(NewQueue) \/ Rejects(Closed(NewQueue))
    BY <1>5 DEF Publish
  <2>2. /\ believed' \in Revisions \cup {Nobody} /\ believed' = judge'[published']
        /\ judge' \in [Children -> Revisions \cup {Nobody}] /\ policy' \in Revisions
        /\ doubted' \in BOOLEAN
    BY <1>0, <1>5, <2>1 DEF AskTypes
  <2>3. Closed(NewQueue) = Closed(queue)
    BY DEF Closed
  <2> QED
    BY <1>0, <2>1, <2>2, <2>3, RejectsKeeps
<1>6. ASSUME NEW c \in Children,
             Started(c) \/ TornDown(c) \/ StartFails(c) \/ Reply(c) \/ Dies(c) \/ BrokenPipe(c)
      PROVE  AskInv' /\ AsksKnown
  <2>1. CASE Started(c)
    BY <1>5, <2>1 DEF Started
  <2>2. CASE TornDown(c) \/ Reply(c) \/ Dies(c)
    BY <1>2, <2>2 DEF TornDown, Reply, Dies
  <2>3. CASE StartFails(c)
    BY <1>2, <1>a, <2>3 DEF StartFails, StopProcesses
  <2>4. CASE BrokenPipe(c)
    BY <1>0, <2>4, EmptyFits, RejectsKeeps DEF BrokenPipe, AskTypes
  <2> QED
    BY <1>6, <2>1, <2>2, <2>3, <2>4
<1>7. ASSUME NEW c \in Children, Exit(c)
      PROVE  AskInv' /\ AsksKnown
  <2>1. /\ judge' = [judge EXCEPT ![c] = Nobody]
        /\ UNCHANGED <<published, believed, doubted, policy>>
    BY <1>7 DEF Exit
  <2>2. judge' \in [Children -> Revisions \cup {Nobody}]
    BY <1>0, <2>1 DEF AskTypes
  <2>3. CASE published = c
    BY <1>0, <1>7, <2>1, <2>2, <2>3, EmptyFits, RejectsKeeps DEF Exit, AskTypes
  <2>4. CASE published # c
    <3>1. UNCHANGED <<queue, stage, request>>
      BY <1>7, <2>4 DEF Exit
    <3>2. published # Nobody => judge'[published] = judge[published]
      BY <1>0, <2>1, <2>4 DEF AskTypes, ProcTypes
    <3> QED
      BY <1>0, <1>b, <2>1, <2>2, <3>1, <3>2, AskUnchanged
  <2> QED
    BY <2>3, <2>4
<1>8. ASSUME NEW c \in Children, RespawnFires(c)
      PROVE  AskInv' /\ AsksKnown
  <2>1. UNCHANGED <<queue, stage, request, believed, doubted, policy, published>>
    BY <1>8 DEF RespawnFires
  <2>2. CASE UNCHANGED judge
    BY <1>2, <2>1, <2>2
  <2>3. CASE SpawnProcess("respawn", c)
    <3>1. spawned + 1 # published
      BY <1>0, <2>3, Constants DEF SpawnProcess, ProcInv, Lives, ProcTypes, Children
    <3>2. judge' = [judge EXCEPT ![spawned + 1] = policy]
      BY <2>3 DEF SpawnProcess
    <3>3. judge' \in [Children -> Revisions \cup {Nobody}]
          /\ (published # Nobody => judge'[published] = judge[published])
      BY <1>0, <3>1, <3>2 DEF AskTypes, ProcTypes
    <3> QED
      BY <1>0, <1>b, <2>1, <3>3, AskUnchanged
  <2> QED
    BY <1>8, <2>2, <2>3 DEF RespawnFires
<1>9. ASSUME NEW n \in Children, Respawned(n) \/ RespawnFails(n)
      PROVE  AskInv' /\ AsksKnown
  <2>1. CASE Respawned(n) /\ Publish(n, deaths)
    BY <1>5, <2>1 DEF Respawned
  <2>2. CASE Respawned(n) /\ ~Publish(n, deaths)
    BY <1>2, <1>a, <2>2 DEF Respawned, StopProcesses
  <2>3. CASE RespawnFails(n)
    BY <1>2, <1>a, <2>3 DEF RespawnFails, StopProcesses
  <2> QED
    BY <1>9, <2>1, <2>2, <2>3
<1>10. ASSUME NEW r \in Requests, Ask(r)
       PROVE  AskInv' /\ AsksKnown
  <2> DEFINE q == Run(queue, Asked(r))
  <2>1. /\ published \in Children /\ ~queue.closed /\ Enters(q)
        /\ request' = [request EXCEPT ![r] = Waits]
        /\ UNCHANGED <<published, believed, doubted, policy>>
    BY <1>0, <1>10 DEF Ask, ProcTypes
  <2>2. Asked(r) \in Work /\ Asked(r).kind = "ask" /\ queue \in Queues
    BY <1>0, WorkKinds DEF AskTypes
  <2>3. /\ q \in Queues /\ ~q.closed /\ Pending(q) \subseteq Pending(queue) \cup {Asked(r)}
        /\ queue.running # Idle => q.running = queue.running
    BY <2>1, <2>2, RunFits
  <2>4. \A w \in Pending(q) : w.kind = "verdict" => w.of = published
    BY <1>0, <2>2, <2>3 DEF AskInv, VerdictsReachParser
  <2>5. stage # "installing" \/ q.running = queue.running
    BY <1>0, <1>c, <2>3 DEF AskInv, StageFits
  <2>6. request' \in [Requests -> {None, Waits} \cup {OwesVerdict(c) : c \in Children}]
    BY <1>b, <2>1
  <2>7. doubted' \in BOOLEAN /\ (~doubted' => ~doubted)
    BY <1>0, <2>1 DEF AskTypes
  <2> HIDE DEF q
  <2> QED
    BY <1>0, <2>1, <2>3, <2>4, <2>5, <2>6, <2>7, MoveKeeps
<1>11. CASE Installed
  <2>1. /\ stage = "installing" /\ published \in Children
        /\ believed' = judge[published] /\ doubted' = FALSE
        /\ UNCHANGED <<published, queue, request, policy>>
    BY <1>0, <1>11 DEF Installed, AskInv, StageFits
  <2>2. \/ judge[published] = policy /\ stage' = "asked" /\ judge' = judge
        \/ judge' = [judge EXCEPT ![published] = policy] /\ stage' = "installing"
    BY <1>11, <2>1 DEF Installed
  <2>3. AskTypes'
    BY <1>0, <2>1, <2>2 DEF AskTypes
  <2>4. StageFits' /\ ClosedIsEmpty' /\ VerdictsReachParser'
    BY <1>0, <2>1, <2>2 DEF AskInv, StageFits, ClosedIsEmpty, VerdictsReachParser
  <2>5. PolicyKnown' /\ AsksKnown
    BY <2>1, <2>2 DEF PolicyKnown, AsksKnown
  <2> QED
    BY <2>3, <2>4, <2>5 DEF AskInv
<1>12. ASSUME Enters(Settled(queue)), queue.running # Idle, published \in Children,
              UNCHANGED <<published, believed, policy>>,
              request' \in [Requests -> {None, Waits} \cup {OwesVerdict(c) : c \in Children}],
              doubted' \in BOOLEAN,
              ~doubted' => ~doubted /\ stage # "installing"
       PROVE  AskInv' /\ AsksKnown
  <2> DEFINE q == Settled(queue)
  <2>1. ~queue.closed
    BY <1>0, <1>12 DEF AskInv, ClosedIsEmpty
  <2>2. q \in Queues /\ ~q.closed /\ Pending(q) \subseteq Pending(queue)
    BY <1>0, <2>1, SettledFits DEF AskTypes
  <2>3. \A w \in Pending(q) : w.kind = "verdict" => w.of = published
    BY <1>0, <2>2 DEF AskInv, VerdictsReachParser
  <2>4. Enters(q)
    BY <1>12
  <2> HIDE DEF q
  <2> QED
    BY <1>0, <1>12, <2>1, <2>2, <2>3, <2>4, MoveKeeps
<1>13. CASE Answer
  <2>1. PICK r \in Requests : queue.running = Asked(r) /\ request' = [request EXCEPT ![r] = OwesVerdict(published)]
    BY <1>13 DEF Answer
  <2>2. /\ stage = "asked" /\ published \in Children /\ Enters(Settled(queue))
        /\ UNCHANGED <<published, believed, doubted, policy>>
    BY <1>0, <1>13 DEF Answer, AskInv, StageFits
  <2>3. request' \in [Requests -> {None, Waits} \cup {OwesVerdict(c) : c \in Children}]
    BY <1>b, <2>1, <2>2
  <2>4. doubted' \in BOOLEAN /\ (~doubted' => ~doubted)
    BY <1>0, <2>2 DEF AskTypes
  <2> QED
    BY <1>12, <1>c, <2>1, <2>2, <2>3, <2>4
<1>14. ASSUME NEW wedged \in BOOLEAN, Expires(wedged)
       PROVE  AskInv' /\ AsksKnown
  <2>1. PICK r \in Requests : queue.running = Asked(r) /\ request' = [request EXCEPT ![r] = None]
    BY <1>14 DEF Expires
  <2>2. /\ published \in Children /\ Enters(Settled(queue))
        /\ doubted' = (stage = "installing" \/ doubted)
        /\ UNCHANGED <<published, believed, policy>>
    BY <1>0, <1>14 DEF Expires, AskInv, StageFits
  <2>3. request' \in [Requests -> {None, Waits} \cup {OwesVerdict(c) : c \in Children}]
    BY <1>b, <2>1
  <2>4. doubted' \in BOOLEAN /\ (~doubted' => ~doubted /\ stage # "installing")
    BY <2>2
  <2> QED
    BY <1>12, <1>c, <2>1, <2>2, <2>3, <2>4
<1>15. CASE VerdictSent
  <2>1. /\ queue.running # Idle /\ queue.running.kind = "verdict" /\ Enters(Settled(queue))
        /\ UNCHANGED <<published, request, believed, doubted, policy>>
    BY <1>15 DEF VerdictSent
  <2>2. queue.running \in Work /\ queue.running \in Pending(queue)
    BY <1>0, <2>1 DEF AskTypes, Queues, Pending
  <2>3. published \in Children
    BY <1>0, <2>1, <2>2, WorkKinds DEF AskInv, VerdictsReachParser
  <2>4. stage # "installing"
    BY <1>0, <2>1, WorkKinds DEF AskInv, StageFits
  <2>5. doubted' \in BOOLEAN /\ (~doubted' => ~doubted)
    BY <1>0, <2>1 DEF AskTypes
  <2>6. request' \in [Requests -> {None, Waits} \cup {OwesVerdict(c) : c \in Children}]
    BY <1>b, <2>1
  <2> QED
    BY <1>12, <2>1, <2>3, <2>4, <2>5, <2>6
<1>16. ASSUME NEW r \in Requests, PublishVerdict(r)
       PROVE  AskInv' /\ AsksKnown
  <2> DEFINE c == request[r].of
             q == Run(queue, Verdict(c))
  <2>1. /\ request[r].state = "verdict" /\ request' = [request EXCEPT ![r] = None]
        /\ UNCHANGED <<published, believed, doubted, policy>>
    BY <1>16 DEF PublishVerdict
  <2>2. c \in Children
    BY <1>b, <2>1 DEF None, Waits, OwesVerdict
  <2>3. request' \in [Requests -> {None, Waits} \cup {OwesVerdict(x) : x \in Children}]
    BY <1>b, <2>1
  <2>4. /\ Verdict(c) \in Work /\ Verdict(c).kind = "verdict" /\ Verdict(c).of = c
        /\ queue \in Queues
    BY <1>0, <2>2, WorkKinds DEF AskTypes
  <2>5. /\ q \in Queues /\ q.closed = queue.closed /\ Pending(q) \subseteq Pending(queue) \cup {Verdict(c)}
        /\ queue.closed => q = queue
        /\ queue.running # Idle => q.running = queue.running
    BY <2>4, RunFits
  <2>6. judge \in [Children -> Revisions \cup {Nobody}] /\ doubted \in BOOLEAN
    BY <1>0 DEF AskTypes
  <2>7. CASE published # c
    <3>1. UNCHANGED <<queue, stage, judge>>
      BY <1>16, <2>7 DEF PublishVerdict
    <3> QED
      BY <1>0, <2>1, <2>3, <2>6, <3>1, AskUnchanged
  <2>8. CASE published = c
    <3>1. Enters(q)
      BY <1>16, <2>8 DEF PublishVerdict
    <3>2. CASE queue.closed
      <4>1. UNCHANGED <<queue, stage, judge>>
        BY <2>5, <3>1, <3>2 DEF Enters
      <4> QED
        BY <1>0, <2>1, <2>3, <2>6, <4>1, AskUnchanged
    <3>3. CASE ~queue.closed
      <4>1. \A w \in Pending(q) : w.kind = "verdict" => w.of = published
        BY <1>0, <2>4, <2>5, <2>8 DEF AskInv, VerdictsReachParser
      <4>2. stage # "installing" \/ q.running = queue.running
        BY <1>0, <1>c, <2>5 DEF AskInv, StageFits
      <4>3. published \in Children
        BY <2>2, <2>8
      <4> HIDE DEF q, c
      <4> QED
        BY <1>0, <2>1, <2>3, <2>5, <2>6, <3>1, <3>3, <4>1, <4>2, <4>3, MoveKeeps
    <3> QED
      BY <3>2, <3>3
  <2> QED
    BY <2>7, <2>8
<1>17. ASSUME NEW v \in Revisions, NEW affects \in BOOLEAN, PolicyMoves(v, affects)
       PROVE  AskInv' /\ AsksKnown
  <2>1. /\ policy' = v /\ believed' \in {Nobody, believed}
        /\ UNCHANGED <<published, doubted, queue, stage, request, judge>>
    BY <1>17 DEF PolicyMoves
  <2>2. AskTypes'
    BY <1>0, <2>1 DEF AskTypes
  <2>3. StageFits' /\ ClosedIsEmpty' /\ VerdictsReachParser'
    BY <1>0, <2>1 DEF AskInv, StageFits, ClosedIsEmpty, VerdictsReachParser
  <2>4. PolicyKnown' /\ AsksKnown
    BY <1>0, <2>1 DEF AskInv, PolicyKnown, AsksKnown
  <2> QED
    BY <2>2, <2>3, <2>4 DEF AskInv
<1>18. CASE UNCHANGED vars
  BY <1>2, <1>18 DEF vars
<1> QED
  BY <1>1, <1>3, <1>4, <1>6, <1>7, <1>8, <1>9, <1>10, <1>11, <1>13, <1>14, <1>15, <1>16, <1>17, <1>18
  DEF Next

-----------------------------------------------------------------------------
(***************************************************************************)
(* Induction                                                               *)
(***************************************************************************)

LEMMA InitIInv == Init => IInv
<1> SUFFICES ASSUME Init PROVE IInv
  OBVIOUS
<1>1. ProcTypes
  BY Constants DEF Init, ProcTypes
<1>2. Respawning = {}
  BY DEF Init, Respawning
<1>3. Lives /\ Custody /\ Unreported
  BY Constants DEF Init, Lives, Custody, Unreported, Children
<1>4. OneRespawn
  BY <1>2 DEF Init, OneRespawn
<1>5. queue \in Queues /\ queue.running = Idle /\ queue.waiting = <<>> /\ Pending(queue) = {}
  BY EmptyFits DEF Init
<1>6. AskTypes
  BY <1>5, Constants DEF Init, AskTypes
<1>7. StageFits /\ ClosedIsEmpty /\ VerdictsReachParser /\ PolicyKnown
  BY <1>5, IdleAsksNothing DEF Init, StageFits, ClosedIsEmpty, VerdictsReachParser, PolicyKnown
<1>8. answered \subseteq Children /\ calls \in 0..MaxCalls
  BY Constants DEF Init
<1> QED
  BY <1>1, <1>3, <1>4, <1>6, <1>7, <1>8 DEF IInv, ProcInv, AskInv

LEMMA RestStep ==
  ASSUME IInv, [Next]_vars
  PROVE  answered' \subseteq Children /\ calls' \in 0..MaxCalls
<1>1. answered \subseteq Children /\ calls \in 0..MaxCalls /\ starting \subseteq Children
  BY DEF IInv, ProcInv, ProcTypes
<1>2. answered' \subseteq Children
  BY <1>1 DEF Next, vars, procVars, entryVars, askVars, Start, Stop, StopAll, Reply, Started, TornDown,
     StartFails, Dies, BrokenPipe, Exit, RespawnFires, Respawned, RespawnFails, Ask, PublishVerdict,
     Installed, Answer, Expires, VerdictSent, PolicyMoves, Publish, Settles
<1>3. calls' = calls \/ (calls < MaxCalls /\ calls' = calls + 1)
  BY DEF Next, vars, procVars, entryVars, askVars, Start, Stop, StopAll, Reply, Started, TornDown,
     StartFails, Dies, BrokenPipe, Exit, RespawnFires, Respawned, RespawnFails, Ask, PublishVerdict,
     Installed, Answer, Expires, VerdictSent, PolicyMoves
<1>4. calls' \in 0..MaxCalls
  BY <1>1, <1>3, Constants
<1> QED
  BY <1>2, <1>4

\* What is in custody, waits, and is known stays so through every step.
THEOREM IInvInvariant == Spec => []IInv
<1>1. IInv /\ [Next]_vars => IInv'
  <2> SUFFICES ASSUME IInv, [Next]_vars PROVE IInv'
    OBVIOUS
  <2> QED
    BY ProcStep, AskStep, RestStep DEF IInv
<1> QED
  BY InitIInv, <1>1, PTL DEF Spec

\* The supervisor's state keeps its types; above all, the deaths of an entry stay within the cap by
\* one, because a respawn is under way once at most (MAX_RESPAWNS, onExit and respawn's failure).
THEOREM SupervisorTypes == Spec => []TypeOK
<1>1. IInv => TypeOK
  BY DEF IInv, ProcInv, ProcTypes, AskInv, AskTypes, Queues, TypeOK
<1> QED
  BY IInvInvariant, <1>1, PTL

\* No process is left behind: one that lives is signalled exactly when neither the map nor the
\* starting ones hold it (start, respawn, stop, stopAll).
THEOREM NothingOrphaned == Spec => []NoOrphans
<1>1. IInv => NoOrphans
  BY DEF IInv, ProcInv, Custody, NoOrphans
<1> QED
  BY IInvInvariant, <1>1, PTL

\* A verdict waits only in front of the process that answered (admission, incarnation).
THEOREM VerdictsAlwaysReach == Spec => []VerdictsReachParser
<1>1. IInv => VerdictsReachParser
  BY DEF IInv, AskInv
<1> QED
  BY IInvInvariant, <1>1, PTL

\* What was stopped or replaced does not come back, and is not reported as dead (stillWanted).
THEOREM StoppedForGood == Spec => StopsAreFinal
<1> DEFINE Final == /\ published' \notin {published, Nobody} => previous[published'] \in {Nobody, published}
                    /\ announced' \cap stopped' = {}
<1>1. ASSUME IInv, [Next]_vars
      PROVE  Final
  <2>1. announced' \cap stopped' = {}
    BY <1>1, ProcStep DEF ProcInv, Unreported
  <2>2. CASE \E c \in Children : Started(c)
    <3>1. PICK c \in Children : handshake[c] = "start" /\ published' = c
      BY <2>2 DEF Started, Publish
    <3>2. previous[c] = Nobody
      BY <1>1, <3>1 DEF IInv, ProcInv, Lives
    <3> QED
      BY <2>1, <3>1, <3>2
  <2>3. CASE \E n \in Children : Respawned(n)
    <3>1. PICK n \in Children : Respawned(n)
      BY <2>3
    <3>2. CASE published = previous[n]
      BY <2>1, <3>1, <3>2 DEF Respawned, StillWanted, Publish
    <3>3. CASE published # previous[n]
      BY <2>1, <3>1, <3>3 DEF Respawned, StillWanted, entryVars
    <3> QED
      BY <3>2, <3>3
  <2>4. CASE /\ ~\E c \in Children : Started(c)
             /\ ~\E n \in Children : Respawned(n)
    <3>1. published' \in {published, Nobody}
      BY <1>1, <2>4 DEF Next, vars, procVars, entryVars, askVars, Start, Stop, StopAll, Reply, TornDown,
         StartFails, Dies, BrokenPipe, Exit, RespawnFires, RespawnFails, Ask, PublishVerdict, Installed,
         Answer, Expires, VerdictSent, PolicyMoves
    <3> QED
      BY <2>1, <3>1
  <2> QED
    BY <2>2, <2>3, <2>4
<1> QED
  BY IInvInvariant, <1>1, PTL DEF Spec, StopsAreFinal

\* A request reaches a process only under the policy in force, unless an install ran out of time
\* before (installPolicy, policyRevision).
THEOREM AsksAlwaysUnderPolicy == Spec => AsksUnderPolicy
<1>1. IInv /\ [Next]_vars => AsksKnown
  BY AskStep
<1>2. AsksKnown => ( /\ stage' = "asked"
                     /\ stage # "asked" \/ queue'.running # queue.running
                     /\ ~doubted'
                     => judge'[published'] = policy' )
  BY DEF AsksKnown
<1> QED
  BY IInvInvariant, <1>1, <1>2, PTL DEF Spec, AsksUnderPolicy

-----------------------------------------------------------------------------
(***************************************************************************)
(* Lineages                                                                *)
(*                                                                         *)
(* A process replaces an older one, so `previous` is well-founded and the  *)
(* first process of a lineage is found by going back.                      *)
(***************************************************************************)
Older(p) == \A c \in Children : p[c] \in (1..(c - 1)) \cup {Nobody}

\* What Root is of, as a function of `previous`.
Back(p, f)  == [c \in Children |-> IF p[c] = Nobody THEN c ELSE f[p[c]]]
RootOf(p)   == CHOOSE f : f = Back(p, f)

LEMMA RootIs == Root = RootOf(previous)
BY DEF Root, RootOf, Back

LEMMA ChildrenAre ==
  /\ Children \subseteq Nat \ {0}
  /\ \A c \in Children : 1..(c - 1) \subseteq Children
  /\ Nobody \notin Int
BY SupervisorAssumption DEF Children

\* The recursion has a solution: over the first n processes, by induction on n.
LEMMA RootUnfolds ==
  ASSUME NEW p, Older(p)
  PROVE  \A c \in Children : RootOf(p)[c] = IF p[c] = Nobody THEN c ELSE RootOf(p)[p[c]]
<1> DEFINE Upto(n, f) == f = [c \in 1..n |-> IF p[c] = Nobody THEN c ELSE f[p[c]]]
           Bad == {n \in 0..MaxSpawns : ~ \E f : Upto(n, f)}
<1>1. Bad = {}
  <2> SUFFICES ASSUME Bad # {} PROVE FALSE
    OBVIOUS
  <2>1. PICK n \in Bad : \A k \in Bad : n <= k
    <3>1. Bad \in SUBSET Nat
      BY Constants
    <3> QED
      BY <3>1, LeastNumber
  <2>2. n \in 0..MaxSpawns /\ n \in Nat
    BY Constants
  <2>3. n # 0
    <3>1. Upto(0, [c \in {} |-> 0])
      OBVIOUS
    <3> QED
      BY <2>1, <3>1
  <2>4. n \in Children /\ n - 1 \in 0..MaxSpawns /\ n - 1 \notin Bad
    BY <2>1, <2>2, <2>3, Constants DEF Children
  <2>5. PICK f : Upto(n - 1, f)
    BY <2>4
  <2> DEFINE g == [c \in 1..n |-> IF p[c] = Nobody THEN c ELSE f[p[c]]]
  <2>6. ASSUME NEW c \in 1..(n - 1) PROVE g[c] = f[c]
    BY <2>2, <2>5
  <2>7. ASSUME NEW c \in 1..n, p[c] # Nobody PROVE p[c] \in 1..(n - 1)
    <3>1. c \in Children
      BY <2>2, Constants DEF Children
    <3> QED
      BY <2>2, <2>7, <3>1 DEF Older
  <2>8. Upto(n, g)
    <3>1. \A c \in 1..n : p[c] # Nobody => f[p[c]] = g[p[c]]
      BY <2>6, <2>7
    <3> QED
      BY <3>1
  <2> QED
    BY <2>1, <2>8
<1>2. PICK f : Upto(MaxSpawns, f)
  BY <1>1, Constants
<1>3. f = Back(p, f)
  BY <1>2 DEF Back, Children
<1>4. RootOf(p) = Back(p, RootOf(p))
  BY <1>3 DEF RootOf
<1> QED
  BY <1>4 DEF Back

\* A statement about processes that fails of one fails of a first one.
LEMMA FirstOf ==
  ASSUME NEW S \in SUBSET Children, S # {}
  PROVE  \E c \in S : \A d \in S : c <= d
BY LeastNumber, ChildrenAre

\* A lineage begins with an older process, or the process itself.
LEMMA RootIsOlder ==
  ASSUME NEW p, Older(p)
  PROVE  \A c \in Children : RootOf(p)[c] \in 1..c
<1> DEFINE Bad == {c \in Children : RootOf(p)[c] \notin 1..c}
<1> SUFFICES ASSUME Bad # {} PROVE FALSE
  OBVIOUS
<1>1. PICK c \in Bad : \A d \in Bad : c <= d
  BY FirstOf
<1>2. c \in Nat \ {0} /\ RootOf(p)[c] = IF p[c] = Nobody THEN c ELSE RootOf(p)[p[c]]
  BY RootUnfolds, ChildrenAre
<1>3. p[c] # Nobody
  BY <1>1, <1>2
<1>4. p[c] \in 1..(c - 1) /\ p[c] \in Children
  BY <1>3, ChildrenAre DEF Older
<1>5. RootOf(p)[p[c]] \in 1..p[c]
  BY <1>1, <1>2, <1>4
<1> QED
  BY <1>1, <1>2, <1>3, <1>4, <1>5

\* A process that no other replaces is alone in its lineage, unless it replaces one.
LEMMA RootAlone ==
  ASSUME NEW p, Older(p), NEW r \in Children, \A e \in Children : p[e] # r
  PROVE  \A d \in Children : RootOf(p)[d] = r => d = r
<1> DEFINE Bad == {d \in Children : RootOf(p)[d] = r /\ d # r}
<1> SUFFICES ASSUME Bad # {} PROVE FALSE
  OBVIOUS
<1>1. PICK c \in Bad : \A d \in Bad : c <= d
  BY FirstOf
<1>2. c \in Nat \ {0} /\ RootOf(p)[c] = IF p[c] = Nobody THEN c ELSE RootOf(p)[p[c]]
  BY RootUnfolds, ChildrenAre
<1>3. p[c] # Nobody
  BY <1>1, <1>2
<1>4. p[c] \in 1..(c - 1) /\ p[c] \in Children
  BY <1>3, ChildrenAre DEF Older
<1> QED
  BY <1>1, <1>2, <1>3, <1>4

\* What a process that nobody replaces is to replace changes no lineage but its own.
LEMMA RootStable ==
  ASSUME NEW p, NEW q, Older(p), Older(q), NEW n \in Children,
         \A e \in Children \ {n} : q[e] = p[e] /\ p[e] # n
  PROVE  \A d \in Children \ {n} : RootOf(q)[d] = RootOf(p)[d]
<1> DEFINE Bad == {d \in Children \ {n} : RootOf(q)[d] # RootOf(p)[d]}
<1> SUFFICES ASSUME Bad # {} PROVE FALSE
  OBVIOUS
<1>1. PICK c \in Bad : \A d \in Bad : c <= d
  BY FirstOf
<1>2. /\ c \in Nat \ {0} /\ c \in Children \ {n}
      /\ RootOf(p)[c] = IF p[c] = Nobody THEN c ELSE RootOf(p)[p[c]]
      /\ RootOf(q)[c] = IF q[c] = Nobody THEN c ELSE RootOf(q)[q[c]]
  BY RootUnfolds, ChildrenAre
<1>3. p[c] # Nobody /\ q[c] = p[c] /\ p[c] # n
  BY <1>1, <1>2
<1>4. p[c] \in 1..(c - 1) /\ p[c] \in Children
  BY <1>2, <1>3, ChildrenAre DEF Older
<1> QED
  BY <1>1, <1>2, <1>3, <1>4

-----------------------------------------------------------------------------
\* The processes so far that descend from r, a part of what LineageBounded counts.
Line(r) == {d \in 1..spawned : Root[d] = r}

\* What the entry's lineage may have grown to: every process but the last cost a death, and so did the
\* last if it is dead and no child is to replace it yet.
LineLimit == IF os[published] = "exited" /\ Respawning = {} THEN deaths ELSE deaths + 1

LineInv ==
  /\ Older(previous)
  /\ \A c \in Children : previous[c] \notin starting
  /\ \A c \in Children : c > spawned => previous[c] = Nobody
  /\ LineageBounded
  /\ published \in Children => Cardinality(Line(Root[published])) <= LineLimit

\* The state the lineages are about, the entry's part of it aside.
lineState == <<spawned, previous>>

LEMMA LineIsFinite == \A r : spawned \in Nat => IsFiniteSet(Line(r)) /\ Cardinality(Line(r)) \in Nat
<1> SUFFICES ASSUME NEW r, spawned \in Nat PROVE IsFiniteSet(Line(r)) /\ Cardinality(Line(r)) \in Nat
  OBVIOUS
<1>1. Line(r) \in SUBSET (1..spawned) /\ IsFiniteSet(1..spawned)
  BY FS_Interval DEF Line
<1> QED
  BY <1>1, FS_Subset, FS_CardinalityType

\* Spawning a process that replaces nobody, or whom nobody replaces yet, adds it to one lineage.
LEMMA LinesAfterSpawn ==
  ASSUME LineInv, spawned \in Nat, NEW n \in Children, n = spawned + 1, spawned' = n, NEW prev,
         previous \in [Children -> Children \cup {Nobody}], previous' = [previous EXCEPT ![n] = prev],
         prev \in 1..spawned \cup {Nobody}
  PROVE  /\ Older(previous')
         /\ \A d \in 1..spawned : Root'[d] = Root[d] /\ Root[d] \in 1..spawned
         /\ Root'[n] = IF prev = Nobody THEN n ELSE Root[prev]
         /\ \A r : Line(r)' = IF r = Root'[n] THEN Line(r) \cup {n} ELSE Line(r)
         /\ n \notin 1..spawned /\ Line(n) = {}
<1>1. Older(previous) /\ \A e \in Children : previous[e] # n
  <2>1. ASSUME NEW e \in Children PROVE previous[e] # n
    <3>1. CASE e > spawned
      BY <3>1, ChildrenAre DEF LineInv
    <3>2. CASE e <= spawned
      BY <3>2, ChildrenAre DEF LineInv, Older
    <3> QED
      BY <3>1, <3>2, ChildrenAre
  <2> QED
    BY <2>1 DEF LineInv
<1>2. Older(previous')
  BY <1>1 DEF Older
<1>3. \A d \in Children \ {n} : RootOf(previous')[d] = RootOf(previous)[d]
  <2>1. \A e \in Children \ {n} : previous'[e] = previous[e] /\ previous[e] # n
    BY <1>1
  <2>2. ASSUME NEW p, NEW q, p = previous, q = previous'
        PROVE  \A d \in Children \ {n} : RootOf(q)[d] = RootOf(p)[d]
    <3>1. Older(p) /\ Older(q) /\ \A e \in Children \ {n} : q[e] = p[e] /\ p[e] # n
      BY <1>1, <1>2, <2>1, <2>2
    <3> QED
      BY <3>1, RootStable
  <2> QED
    BY <2>2
<1>4. Root = RootOf(previous) /\ Root' = RootOf(previous')
  BY DEF Root, RootOf, Back
<1>5. \A d \in 1..spawned : d \in Children \ {n} /\ d < n
  BY Constants DEF Children
<1>6. \A d \in 1..spawned : Root'[d] = Root[d] /\ Root[d] \in 1..spawned
  <2>1. \A d \in Children : RootOf(previous)[d] \in 1..d
    BY <1>1, RootIsOlder
  <2>2. ASSUME NEW d \in 1..spawned PROVE Root'[d] = Root[d] /\ Root[d] \in 1..spawned
    <3>1. d \in Children \ {n} /\ 1..d \subseteq 1..spawned
      BY <1>5
    <3> QED
      BY <1>3, <1>4, <2>1, <3>1
  <2> QED
    BY <2>2
<1>7. Root'[n] = IF prev = Nobody THEN n ELSE Root[prev]
  <2>1. previous'[n] = prev
    OBVIOUS
  <2>2. RootOf(previous')[n] = IF prev = Nobody THEN n ELSE RootOf(previous')[prev]
    BY <1>2, <2>1, RootUnfolds
  <2>3. prev # Nobody => RootOf(previous')[prev] = RootOf(previous)[prev]
    BY <1>3, <1>5
  <2> QED
    BY <1>4, <2>2, <2>3
<1>8. 1..spawned' = (1..spawned) \cup {n} /\ n \notin 1..spawned
  OBVIOUS
<1>9. ASSUME NEW r PROVE Line(r)' = IF r = Root'[n] THEN Line(r) \cup {n} ELSE Line(r)
  BY <1>6, <1>8 DEF Line
<1>10. Line(n) = {}
  BY <1>6, <1>8 DEF Line
<1> QED
  BY <1>2, <1>6, <1>7, <1>8, <1>9, <1>10

\* No process is spawned: the lineages are the same, and only the entry's limit can move.
LEMMA LinesStay ==
  ASSUME LineInv, UNCHANGED lineState, starting' \subseteq starting,
         published' \in Children => Cardinality(Line(Root[published'])) <= LineLimit'
  PROVE  LineInv'
<1>1. spawned' = spawned /\ previous' = previous /\ Root' = Root
  BY DEF lineState, Root
<1>2. \A r : Line(r)' = Line(r)
  BY <1>1 DEF Line
<1>3. LineageBounded'
  BY <1>1 DEF LineageBounded, LineInv
<1>4. Older(previous)' /\ Children' = Children
  BY <1>1 DEF LineInv, Older, Children
<1>5. published' \in Children => Cardinality(Line(Root[published]))' <= LineLimit'
  BY <1>1 DEF Line
<1> QED
  BY <1>1, <1>3, <1>4, <1>5 DEF LineInv

\* The entry stays: a death raises its limit, and so does nothing else it must not.
LEMMA EntryStays ==
  ASSUME LineInv, ProcTypes, UNCHANGED <<spawned, previous, published>>, starting' \subseteq starting,
         \/ deaths' = deaths + 1
         \/ /\ deaths' = deaths /\ Respawning \subseteq Respawning'
            /\ os'[published] = "exited" => os[published] = "exited"
  PROVE  LineInv'
<1>1. deaths \in Nat
  BY Constants DEF ProcTypes
<1>2. LineLimit <= LineLimit' /\ LineLimit \in Nat /\ LineLimit' \in Nat
  BY <1>1 DEF LineLimit
<1>3. spawned \in Nat
  BY Constants DEF ProcTypes
<1>4. published' \in Children => Cardinality(Line(Root[published'])) <= LineLimit'
  BY <1>2, <1>3, LineIsFinite DEF LineInv
<1> QED
  BY <1>4, LinesStay DEF lineState

\* A start's process begins a lineage of its own.
LEMMA LinesAfterStart ==
  ASSUME LineInv, ProcInv, Start
  PROVE  LineInv'
<1>0. ProcTypes /\ Lives /\ Custody
  BY DEF ProcInv
<1>n. PICK n : n = spawned + 1
  OBVIOUS
<1>1. /\ n \in Children /\ spawned \in Nat /\ spawned' = n /\ MaxRespawns \in Nat
      /\ previous' = [previous EXCEPT ![n] = Nobody] /\ starting' = starting \cup {n}
      /\ handshake' = [handshake EXCEPT ![n] = "start"] /\ os' = [os EXCEPT ![n] = "alive"]
      /\ UNCHANGED <<published, deaths>>
  BY <1>0, <1>n, Constants DEF Start, SpawnProcess, ProcTypes, entryVars, Children
<1>2. /\ Older(previous')
      /\ \A d \in 1..spawned : Root'[d] = Root[d] /\ Root[d] \in 1..spawned
      /\ Root'[n] = n
      /\ \A r : Line(r)' = IF r = n THEN Line(r) \cup {n} ELSE Line(r)
      /\ n \notin 1..spawned /\ Line(n) = {}
  <2>1. n = spawned + 1 /\ previous \in [Children -> Children \cup {Nobody}]
    BY <1>0, <1>n DEF ProcTypes
  <2>2. /\ Older(previous')
        /\ \A d \in 1..spawned : Root'[d] = Root[d] /\ Root[d] \in 1..spawned
        /\ Root'[n] = IF Nobody = Nobody THEN n ELSE Root[Nobody]
        /\ \A r : Line(r)' = IF r = Root'[n] THEN Line(r) \cup {n} ELSE Line(r)
        /\ n \notin 1..spawned /\ Line(n) = {}
    BY <1>1, <2>1, LinesAfterSpawn
  <2> QED
    BY <2>2
<1>3. (\A c \in Children : previous'[c] \notin starting')
      /\ (\A c \in Children : c > spawned' => previous'[c] = Nobody)
  <2>1. ASSUME NEW c \in Children PROVE previous'[c] \notin starting'
    <3>1. previous'[c] = IF c = n THEN Nobody ELSE previous[c]
      BY <1>0, <1>1 DEF ProcTypes
    <3>2. previous[c] # n
      BY <1>1, <1>n, ChildrenAre DEF LineInv, Older
    <3>3. Nobody \notin starting'
      BY <1>0, <1>1, Constants DEF ProcTypes
    <3> QED
      BY <1>1, <3>1, <3>2, <3>3 DEF LineInv
  <2>2. ASSUME NEW c \in Children, c > spawned' PROVE previous'[c] = Nobody
    BY <1>0, <1>1, <1>n, <2>2, ChildrenAre DEF LineInv, ProcTypes
  <2> QED
    BY <2>1, <2>2
<1>4. LineageBounded'
  <2>1. \A c \in 1..spawned : Cardinality(Line(c)) <= MaxRespawns + 1
    BY DEF LineInv, LineageBounded, Line
  <2>2. Cardinality(Line(n)') <= MaxRespawns + 1
    <3>1. Line(n)' = {n}
      BY <1>2
    <3>2. Cardinality({n}) = 1
      BY FS_Singleton
    <3> QED
      BY <1>1, <3>1, <3>2
  <2>3. \A c \in 1..spawned' : Cardinality(Line(c)') <= MaxRespawns + 1
    <3>1. 1..spawned' = 1..spawned \cup {n}
      BY <1>1, <1>n
    <3>2. ASSUME NEW c \in 1..spawned PROVE Line(c)' = Line(c)
      BY <1>2
    <3>3. ASSUME NEW c \in 1..spawned PROVE Cardinality(Line(c)') <= MaxRespawns + 1
      BY <2>1, <3>2
    <3> QED
      BY <2>2, <3>1, <3>3
  <2> QED
    BY <2>3 DEF LineageBounded, Line
<1>5. published' \in Children => Cardinality(Line(Root[published]))' <= LineLimit'
  <2> SUFFICES ASSUME published \in Children PROVE Cardinality(Line(Root[published])') <= LineLimit'
    BY <1>1 DEF Line
  <2>1. published \in 1..spawned
    BY <1>0, <1>1, Constants, ChildrenAre DEF Lives
  <2>2. Line(Root[published])' = Line(Root[published])
    <3>1. Root'[published] = Root[published] /\ Root[published] # n
      BY <1>2, <2>1
    <3>2. Line(Root[published])' = {d \in 1..spawned' : Root'[d] = Root[published]}
      BY <1>1, <3>1 DEF Line
    <3> QED
      BY <1>2, <3>1, <3>2 DEF Line
  <2>3. Respawning' = Respawning
    BY <1>0, <1>1, <1>2, ChildrenAre DEF Respawning, ProcTypes, Lives
  <2>4. os'[published] = os[published]
    BY <1>0, <1>1, <1>2, <2>1 DEF ProcTypes
  <2> QED
    BY <1>1, <2>2, <2>3, <2>4 DEF LineInv, LineLimit
<1> QED
  BY <1>1, <1>2, <1>3, <1>4, <1>5 DEF LineInv

\* A respawn's child joins the lineage of the entry whose death brought it about: the timer was armed
\* because that death was under the cap, and no other child is to replace the entry.
LEMMA LinesAfterRespawn ==
  ASSUME LineInv, ProcInv, NEW p \in Children, RespawnFires(p), published = p
  PROVE  LineInv'
<1>0. ProcTypes /\ Lives /\ Custody /\ OneRespawn
  BY DEF ProcInv
<1>n. PICK n : n = spawned + 1
  OBVIOUS
<1>1. /\ n \in Children /\ spawned \in Nat /\ spawned' = n /\ MaxRespawns \in Nat /\ deaths \in Nat
      /\ previous' = [previous EXCEPT ![n] = p] /\ starting' = starting \cup {n}
      /\ handshake' = [handshake EXCEPT ![n] = "respawn"] /\ os' = [os EXCEPT ![n] = "alive"]
      /\ UNCHANGED <<published, deaths>> /\ p \in due
  BY <1>0, <1>n, Constants DEF RespawnFires, StillWanted, SpawnProcess, ProcTypes, Children
<1>2. p \in 1..spawned /\ p # n /\ os[p] = "exited" /\ p \notin starting /\ Respawning = {} /\ deaths <= MaxRespawns
  <2>1. os[p] = "exited" /\ p \notin starting
    BY <1>0, <1>1 DEF Lives
  <2>2. ~ (p > spawned)
    BY <1>0, <2>1 DEF Lives
  <2>3. Respawning = {} /\ deaths <= MaxRespawns
    BY <1>0, <1>1, Constants DEF OneRespawn
  <2> QED
    BY <1>1, <1>n, <2>1, <2>2, <2>3, ChildrenAre
<1>3. /\ Older(previous')
      /\ \A d \in 1..spawned : Root'[d] = Root[d] /\ Root[d] \in 1..spawned
      /\ Root'[n] = Root[p]
      /\ \A r : Line(r)' = IF r = Root[p] THEN Line(r) \cup {n} ELSE Line(r)
      /\ n \notin 1..spawned
  <2>1. previous \in [Children -> Children \cup {Nobody}] /\ p # Nobody
    BY <1>0, Constants DEF ProcTypes
  <2>2. /\ Older(previous')
        /\ \A d \in 1..spawned : Root'[d] = Root[d] /\ Root[d] \in 1..spawned
        /\ Root'[n] = IF p = Nobody THEN n ELSE Root[p]
        /\ \A r : Line(r)' = IF r = Root'[n] THEN Line(r) \cup {n} ELSE Line(r)
        /\ n \notin 1..spawned /\ Line(n) = {}
    BY <1>1, <1>2, <1>n, <2>1, LinesAfterSpawn
  <2> QED
    BY <2>1, <2>2
<1>4. ASSUME NEW c \in Children PROVE previous'[c] \notin starting'
  <2>1. previous'[c] = IF c = n THEN p ELSE previous[c]
    BY <1>0, <1>1 DEF ProcTypes
  <2>2. previous[c] # n
    <3>1. CASE c > spawned
      BY <1>1, <3>1, ChildrenAre DEF LineInv
    <3>2. CASE ~ (c > spawned)
      BY <1>1, <1>n, <3>2, ChildrenAre DEF LineInv, Older
    <3> QED
      BY <3>1, <3>2
  <2>3. previous[c] \notin starting
    BY DEF LineInv
  <2>4. p \notin starting'
    BY <1>1, <1>2
  <2> QED
    BY <1>1, <2>1, <2>2, <2>3, <2>4
<1>5. ASSUME NEW c \in Children, c > spawned' PROVE previous'[c] = Nobody
  <2>1. c > spawned /\ c # n
    BY <1>1, <1>n, <1>5, ChildrenAre
  <2> QED
    BY <1>0, <1>1, <2>1 DEF LineInv, ProcTypes
<1>6. Cardinality(Line(Root[p])) <= deaths /\ Cardinality(Line(Root[p])) \in Nat
  BY <1>1, <1>2, LineIsFinite DEF LineInv, LineLimit
<1>7. ASSUME NEW r, r = Root[p] PROVE Cardinality(Line(r)') <= deaths + 1
  <2>1. Line(r)' = Line(r) \cup {n} /\ IsFiniteSet(Line(r)) /\ Cardinality(Line(r)) \in Nat
    BY <1>1, <1>3, <1>7, LineIsFinite
  <2>2. Cardinality(Line(r)) <= deaths
    BY <1>6, <1>7
  <2>3. PICK S : S = Line(r)
    OBVIOUS
  <2>4. Cardinality(S \cup {n}) = IF n \in S THEN Cardinality(S) ELSE Cardinality(S) + 1
    BY <2>1, <2>3, FS_AddElement
  <2>5. Cardinality(S \cup {n}) <= deaths + 1
    BY <1>1, <2>1, <2>2, <2>3, <2>4
  <2> QED
    BY <2>1, <2>3, <2>5
<1>8. LineageBounded'
  <2>1. \A c \in 1..spawned : Cardinality(Line(c)) <= MaxRespawns + 1
    BY DEF LineInv, LineageBounded, Line
  <2>2. ASSUME NEW c \in 1..spawned, c # Root[p] PROVE Cardinality(Line(c)') <= MaxRespawns + 1
    <3>1. Line(c)' = Line(c)
      BY <1>3, <2>2
    <3> QED
      BY <2>1, <3>1
  <2>3. ASSUME NEW c, c = Root[p] PROVE Cardinality(Line(c)') <= MaxRespawns + 1
    <3>1. Cardinality(Line(c)') <= deaths + 1 /\ Cardinality(Line(c)') \in Nat
      <4>1. spawned' \in Nat => Cardinality(Line(c)') \in Nat
        <5>1. Line(c)' \in SUBSET (1..spawned')
          BY DEF Line
        <5>2. PICK S, N : S = Line(c)' /\ N = spawned'
          OBVIOUS
        <5>3. N \in Nat => IsFiniteSet(1..N)
          BY FS_Interval
        <5>4. N \in Nat => Cardinality(S) \in Nat
          BY <5>1, <5>2, <5>3, FS_Subset, FS_CardinalityType
        <5> QED
          BY <5>2, <5>4
      <4> QED
        BY <1>1, <1>7, <1>n, <2>3, <4>1
    <3> QED
      BY <1>1, <1>2, <3>1
  <2>4. ASSUME NEW c, c = n, c # Root[p] PROVE Cardinality(Line(c)') <= MaxRespawns + 1
    <3>1. Line(c)' = {}
      <4>1. Line(c)' = Line(c)
        BY <1>3, <2>4
      <4>2. Line(c) = {}
        BY <1>3, <2>4 DEF Line
      <4> QED
        BY <4>1, <4>2
    <3> QED
      BY <1>1, <3>1, FS_EmptySet
  <2>5. \A c \in 1..spawned' : Cardinality(Line(c)') <= MaxRespawns + 1
    <3>1. 1..spawned' = 1..spawned \cup {n}
      BY <1>1, <1>n
    <3> QED
      BY <2>2, <2>3, <2>4, <3>1
  <2> QED
    BY <2>5 DEF LineageBounded, Line
<1>9. published' \in Children => Cardinality(Line(Root[published]))' <= LineLimit'
  <2>1. Root'[p] = Root[p] /\ os'[p] = "exited"
    BY <1>0, <1>1, <1>2, <1>3 DEF ProcTypes
  <2>2. PICK r : r = Root[p]
    OBVIOUS
  <2>3. Line(Root[published])' = Line(r)'
    BY <1>1, <2>1, <2>2 DEF Line
  <2>4. n \in Respawning'
    BY <1>0, <1>1 DEF Respawning, ProcTypes
  <2>5. LineLimit' = deaths + 1
    BY <1>1, <2>4 DEF LineLimit
  <2> QED
    BY <1>7, <2>2, <2>3, <2>5
<1> QED
  BY <1>3, <1>4, <1>5, <1>8, <1>9 DEF LineInv

\* A published process that replaces nothing is alone in its lineage, which nothing was to replace.
LEMMA LinesAfterStarted ==
  ASSUME LineInv, ProcInv, NEW c \in Children, Started(c)
  PROVE  LineInv'
<1>0. ProcTypes /\ Lives
  BY DEF ProcInv
<1>1. /\ c \in starting /\ previous[c] = Nobody /\ published' = c /\ starting' = starting \ {c}
      /\ UNCHANGED <<spawned, previous, os>>
      /\ deaths' = IF os[c] = "exited" THEN 1 ELSE 0
  BY <1>0 DEF Started, Publish, Settles, OnExit, Lives, ProcTypes
<1>2. Root[c] = c
  BY <1>1, RootIs, RootUnfolds DEF LineInv
<1>3. Line(c) \subseteq {c}
  <2>1. \A e \in Children : previous[e] # c
    BY <1>1 DEF LineInv
  <2>2. \A d \in Children : Root[d] = c => d = c
    BY <2>1, RootIs, RootAlone DEF LineInv
  <2>3. 1..spawned \subseteq Children
    BY <1>0, Constants DEF ProcTypes, Children
  <2> QED
    BY <2>2, <2>3 DEF Line
<1>4. Cardinality(Line(Root[published'])) <= LineLimit'
  <2>1. Line(c) = {} \/ Line(c) = {c}
    BY <1>3
  <2>2. Cardinality(Line(c)) <= 1
    <3>1. Cardinality({}) = 0
      BY FS_EmptySet
    <3>2. Cardinality({c}) = 1
      BY FS_Singleton
    <3> QED
      BY <2>1, <3>1, <3>2
  <2>3. LineLimit' \in Nat /\ LineLimit' >= 1
    BY <1>1 DEF LineLimit
  <2>4. Cardinality(Line(c)) \in Nat
    BY <1>0, LineIsFinite, Constants DEF ProcTypes
  <2> QED
    BY <1>1, <1>2, <2>2, <2>3, <2>4
<1> QED
  BY <1>1, <1>4, LinesStay DEF lineState

\* A child that takes the place of its entry is of the entry's lineage, and brings its deaths.
LEMMA LinesAfterRespawned ==
  ASSUME LineInv, ProcInv, NEW n \in Children, Respawned(n)
  PROVE  LineInv'
<1>0. ProcTypes /\ Lives
  BY DEF ProcInv
<1>1. /\ n \in starting /\ handshake[n] = "respawn" /\ previous[n] \in Children /\ previous[n] # Nobody
      /\ UNCHANGED <<spawned, previous, os>> /\ starting' = starting \ {n}
  BY <1>0, Constants DEF Respawned, Publish, Settles, Lives
<1>2. CASE published = previous[n]
  <2>1. published' = n /\ deaths' = IF os[n] = "exited" THEN deaths + 1 ELSE deaths
    BY <1>2 DEF Respawned, StillWanted, Publish, OnExit
  <2>2. Root[n] = Root[published]
    BY <1>1, <1>2, RootIs, RootUnfolds DEF LineInv
  <2>3. LineLimit = deaths + 1
    BY <1>1, <1>2 DEF LineLimit, Respawning
  <2>4. deaths \in Nat
    BY <1>0, Constants DEF ProcTypes
  <2>5. LineLimit' >= deaths + 1
    BY <1>1, <2>1, <2>4 DEF LineLimit
  <2>6. Cardinality(Line(Root[published'])) <= LineLimit'
    <3>1. Cardinality(Line(Root[published])) <= deaths + 1
      BY <1>1, <1>2, <2>3 DEF LineInv
    <3>2. Cardinality(Line(Root[published])) \in Nat /\ LineLimit' \in Nat
      BY <1>0, <2>1, <2>4, LineIsFinite, Constants DEF ProcTypes, LineLimit
    <3> QED
      BY <2>1, <2>2, <2>4, <2>5, <3>1, <3>2
  <2> QED
    BY <1>1, <2>6, LinesStay DEF lineState
<1>3. CASE published # previous[n]
  <2>1. UNCHANGED <<published, deaths>> /\ handshake' = [handshake EXCEPT ![n] = "none"]
    BY <1>3 DEF Respawned, StillWanted, Settles, entryVars
  <2>2. Respawning \subseteq Respawning'
    BY <1>0, <1>1, <1>3, <2>1 DEF Respawning, ProcTypes
  <2> QED
    BY <1>0, <1>1, <2>1, <2>2, EntryStays
<1> QED
  BY <1>2, <1>3

LEMMA LineStep ==
  ASSUME IInv, LineInv, [Next]_vars
  PROVE  LineInv'
<1>0. ProcInv /\ ProcTypes /\ Lives
  BY DEF IInv, ProcInv
<1> USE DEF procVars, entryVars, askVars
<1>1. CASE Start
  BY <1>0, <1>1, LinesAfterStart
<1>2. CASE Stop
  BY <1>0, <1>2, LinesStay, Constants DEF Stop, lineState
<1>3. CASE StopAll
  BY <1>0, <1>3, LinesStay, Constants DEF StopAll, lineState
<1>4. ASSUME NEW c \in Children, Reply(c) PROVE LineInv'
  BY <1>0, <1>4, EntryStays DEF Reply, Respawning
<1>5. ASSUME NEW c \in Children, Started(c) PROVE LineInv'
  BY <1>0, <1>5, LinesAfterStarted
<1>6. ASSUME NEW c \in Children, TornDown(c) PROVE LineInv'
  <2>1. /\ UNCHANGED <<spawned, previous, published, deaths, os>> /\ starting' = starting \ {c} /\ c \notin starting
        /\ handshake' = [handshake EXCEPT ![c] = "none"]
    BY <1>6 DEF TornDown, Settles
  <2>2. Respawning \subseteq Respawning'
    BY <1>0, <2>1 DEF Respawning, ProcTypes
  <2> QED
    BY <1>0, <2>1, <2>2, EntryStays
<1>7. ASSUME NEW c \in Children, StartFails(c) PROVE LineInv'
  <2>1. /\ UNCHANGED <<spawned, previous, published, deaths, os>> /\ starting' = starting \ {c} /\ handshake[c] = "start"
        /\ handshake' = [handshake EXCEPT ![c] = "none"]
    BY <1>7 DEF StartFails, Settles
  <2>2. Respawning \subseteq Respawning'
    BY <1>0, <2>1 DEF Respawning, ProcTypes
  <2> QED
    BY <1>0, <2>1, <2>2, EntryStays
<1>8. ASSUME NEW c \in Children, Dies(c) PROVE LineInv'
  <2>1. UNCHANGED <<spawned, previous, published, deaths, starting, handshake>> /\ os' = [os EXCEPT ![c] = "dead"]
    BY <1>8 DEF Dies
  <2>2. Respawning' = Respawning
    BY <2>1 DEF Respawning
  <2>3. published \in Children => (os'[published] = "exited" => os[published] = "exited")
    BY <1>0, <2>1 DEF ProcTypes
  <2>4. CASE published \in Children
    BY <1>0, <2>1, <2>2, <2>3, <2>4, EntryStays
  <2>5. CASE published \notin Children
    BY <1>0, <2>1, <2>5, LinesStay DEF lineState
  <2> QED
    BY <2>4, <2>5
<1>9. ASSUME NEW c \in Children, BrokenPipe(c) PROVE LineInv'
  BY <1>0, <1>9, EntryStays DEF BrokenPipe, Respawning
<1>10. ASSUME NEW c \in Children, Exit(c) PROVE LineInv'
  <2>1. UNCHANGED <<spawned, previous, published, starting, handshake>> /\ os' = [os EXCEPT ![c] = "exited"]
    BY <1>10 DEF Exit
  <2>2. CASE published = c
    BY <1>0, <1>10, <2>1, <2>2, EntryStays DEF Exit, OnExit
  <2>3. CASE published # c
    <3>1. deaths' = deaths /\ Respawning' = Respawning
      BY <1>10, <2>1, <2>3 DEF Exit, Respawning
    <3>2. published \in Children => os'[published] = os[published]
      BY <1>0, <2>1, <2>3 DEF ProcTypes
    <3>3. CASE published \in Children
      BY <1>0, <2>1, <3>1, <3>2, <3>3, EntryStays
    <3>4. CASE published \notin Children
      BY <1>0, <2>1, <3>4, LinesStay DEF lineState
    <3> QED
      BY <3>3, <3>4
  <2> QED
    BY <2>2, <2>3
<1>11. ASSUME NEW c \in Children, RespawnFires(c) PROVE LineInv'
  <2>1. CASE published = c
    BY <1>0, <1>11, <2>1, LinesAfterRespawn
  <2>2. CASE published # c
    BY <1>0, <1>11, <2>2, EntryStays DEF RespawnFires, StillWanted, Respawning
  <2> QED
    BY <2>1, <2>2
<1>12. ASSUME NEW c \in Children, Respawned(c) PROVE LineInv'
  BY <1>0, <1>12, LinesAfterRespawned
<1>13. ASSUME NEW n \in Children, RespawnFails(n) PROVE LineInv'
  <2>1. /\ UNCHANGED <<spawned, previous, published, os>> /\ starting' = starting \ {n}
        /\ handshake' = [handshake EXCEPT ![n] = "none"]
    BY <1>13 DEF RespawnFails, Settles
  <2>2. CASE published = previous[n]
    <3>1. deaths' = deaths + 1
      BY <1>13, <2>2 DEF RespawnFails, StillWanted
    <3> QED
      BY <1>0, <2>1, <3>1, EntryStays
  <2>3. CASE published # previous[n]
    <3>1. deaths' = deaths
      BY <1>13, <2>3 DEF RespawnFails, StillWanted
    <3>2. Respawning \subseteq Respawning'
      BY <1>0, <2>1, <2>3 DEF Respawning, ProcTypes
    <3> QED
      BY <1>0, <2>1, <3>1, <3>2, EntryStays
  <2> QED
    BY <2>2, <2>3
<1>14. ASSUME UNCHANGED <<spawned, previous, published, deaths, starting, handshake, os>> PROVE LineInv'
  BY <1>0, <1>14, EntryStays DEF Respawning
<1>15. ASSUME NEW wedged \in BOOLEAN, Expires(wedged) PROVE LineInv'
  <2>1. /\ UNCHANGED <<spawned, previous, published, deaths, starting, handshake>>
        /\ os' = os \/ (os[published] = "alive" /\ os' = [os EXCEPT ![published] = "dead"])
    BY <1>15 DEF Expires
  <2>2. CASE os' = os
    BY <1>14, <2>1, <2>2
  <2>3. CASE os[published] = "alive" /\ os' = [os EXCEPT ![published] = "dead"]
    <3>1. Respawning' = Respawning
      BY <2>1 DEF Respawning
    <3>2. CASE published \in Children
      <4>1. os'[published] = "dead"
        BY <1>0, <2>3, <3>2 DEF ProcTypes
      <4> QED
        BY <1>0, <2>1, <3>1, <4>1, EntryStays
    <3>3. CASE published \notin Children
      BY <1>0, <2>1, <3>3, LinesStay DEF lineState
    <3> QED
      BY <3>2, <3>3
  <2> QED
    BY <2>1, <2>2, <2>3
<1>16. CASE \/ \E r \in Requests : Ask(r) \/ PublishVerdict(r)
            \/ Installed \/ Answer \/ VerdictSent
            \/ \E v \in Revisions, affects \in BOOLEAN : PolicyMoves(v, affects)
            \/ UNCHANGED vars
  BY <1>14, <1>16 DEF Ask, PublishVerdict, Installed, Answer, VerdictSent, PolicyMoves, vars
<1> QED
  BY <1>1, <1>2, <1>3, <1>4, <1>5, <1>6, <1>7, <1>8, <1>9, <1>10, <1>11, <1>12, <1>13, <1>15, <1>16
     DEF Next

LEMMA LineInit == Init => LineInv
<1> SUFFICES ASSUME Init PROVE LineInv
  OBVIOUS
<1>1. Older(previous) /\ published = Nobody /\ starting = {} /\ spawned = 0
  BY DEF Init, Older
<1>2. \A c \in Children : previous[c] = Nobody
  BY DEF Init
<1>3. LineageBounded
  BY <1>1 DEF LineageBounded
<1> QED
  BY <1>1, <1>2, <1>3, Constants DEF LineInv

\* One start leads to MaxRespawns respawns at most, whichever way each of its processes went: a death
\* of the entry and a failed handshake count together, and never both for one process (MAX_RESPAWNS).
THEOREM LineagesBounded == Spec => []LineageBounded
<1>1. IInv /\ LineInv /\ [Next]_vars => LineInv'
  BY LineStep
<1>2. LineInv => LineageBounded
  BY DEF LineInv
<1> QED
  BY <1>1, <1>2, LineInit, IInvInvariant, PTL DEF Spec
=============================================================================
