-------------------------- MODULE DaemonLock_proofs --------------------------
(***************************************************************************)
(* What the store lock keeps for any number of processes, rounds and       *)
(* deaths.                                                                 *)
(*                                                                         *)
(* The claim loop is argued by stations: a process not yet past the link   *)
(* has rounds left and has let nothing in; a process about to steal read *)
(* a holder that is dead, and the dead stay dead.  So while every lock     *)
(* removed is the one its remover read, no removal touches a claim.        *)
(***************************************************************************)
EXTENDS DaemonLock, TLAPS

\* The stations before a claim's link lands.
Contending == {"idle", "link", "read", "steal"}

\* A contending process still has a round to make.
RoundsLeft ==
  \A p \in Processes :
    pc[p] \in Contending \ {"idle"} => attempt[p] < Attempts

\* Only a daemon opens and serves, and every claim begins at nought.
PostsFit ==
  \A p \in Processes :
    /\ pc[p] \in {"claimed", "resuming", "open", "serving"} => p \in Daemons
    /\ At(p, "idle") => attempt[p] = 0

\* A request is under way only in a daemon that serves or stops.
AskedServe ==
  asked \subseteq {p \in Daemons : pc[p] \in {"serving", "cut", "releasing"}}

\* What a process is about to steal from is dead.
StaleIsDead ==
  \A p \in Processes :
    (At(p, "steal") /\ saw[p] # NoOne) => ~Alive(saw[p])

\* A daemon that let a request in is past its one link.
ServersPast == last # NoOne => pc[last] \notin Contending

\* A daemon that another one let a request in after is past it too, and the file
\* no longer names it.
RetiredPast ==
  \A d \in retired : pc[d] \notin Contending /\ lock # d

\* The daemon that let a request in last is none that another one has followed.
Ordered == last \notin retired

\* A claim that last read a dead delete says so: what it steals from is what the
\* claim tells its daemon.
ThiefKnows ==
  \A p \in Processes :
    (pc[p] \in Contending \cup {"claimed"} /\ saw[p] \in Deletes)
      => stolen[p] = "delete"

\* TypeOK in two halves: the flags, and what the flags do not decide.
Flags == custom \in BOOLEAN /\ owed \in BOOLEAN /\ taken \in BOOLEAN

Places ==
  /\ lock \in Processes \cup {NoOne}
  /\ pc \in [Processes -> Stations]
  /\ staged \subseteq Processes
  /\ \A p \in staged : pc[p] \in {"link", "read", "steal", "dead"}
  /\ attempt \in [Processes -> 0..Attempts]
  /\ saw \in [Processes -> Processes \cup {NoOne}]
  /\ stolen \in [Processes -> {"none", "daemon", "delete"}]
  /\ last \in Daemons \cup {NoOne}
  /\ retired \subseteq Daemons
  /\ deaths \in 0..MaxDeaths /\ faults \in 0..MaxFaults
  /\ RoundsLeft /\ PostsFit /\ AskedServe

Types == Flags /\ Places

IInv ==
  /\ Types
  /\ StaleIsDead
  /\ ClaimsAreNamed
  /\ ServersPast
  /\ RetiredPast
  /\ Ordered
  /\ ThiefKnows
  /\ ThiefResumes

USE ProcessesAreDistinct, AttemptsAreMade, BoundsAreNumbers

\* The initial states satisfy every part.
LEMMA InitHolds == Init => IInv
<1> SUFFICES ASSUME Init PROVE IInv
  OBVIOUS
<1> USE DEF Init, At, Processes
<1>1. Flags BY Zenon DEF Flags
<1>2. StaleIsDead /\ Places
  BY DEF Places, RoundsLeft, PostsFit, AskedServe, StaleIsDead, Contending, Alive, Stations
<1>3. ClaimsAreNamed BY DEF ClaimsAreNamed, Claiming
<1>4. ServersPast /\ RetiredPast /\ Ordered
  BY DEF ServersPast, RetiredPast, Ordered
<1>5. ThiefKnows /\ ThiefResumes
  BY DEF ThiefKnows, ThiefResumes, Working
<1> QED BY <1>1, <1>2, <1>3, <1>4, <1>5 DEF IInv, Types

-----------------------------------------------------------------------------
(* Types: each step keeps them. *)

\* Every step keeps the flags Boolean.
LEMMA FlagsStay == ASSUME Flags, Next PROVE Flags'
<1> USE DEF Flags
<1> SUFFICES ASSUME NEW p \in Processes,
                    \/ Stage(p) \/ Claim(p) \/ Serve(p) \/ Remove(p) \/ GiveUp(p)
                    \/ LetIn(p) \/ Answer(p)
                    \/ Shutdown(p) \/ RemoveFails(p) \/ Die(p)
             PROVE  Flags'
  BY Zenon DEF Next, Proceed
<1>1. CASE Stage(p) BY <1>1, Zenon DEF Stage
<1>2. CASE Claim(p)
  BY <1>2, Zenon DEF Claim, LinkLands, LinkMissing, LinkRefused, ReadAlive,
    ReadStale, Steal, Removing, Over, Leave
<1>3. CASE Serve(p)
  BY <1>3, Zenon DEF Serve, Inherit, Resume, Open, Publish, FindLost
<1>4. CASE Remove(p) BY <1>4, Zenon DEF Remove, Removing
<1>5. CASE GiveUp(p)
  BY <1>5, Zenon DEF GiveUp, ReleaseReads, ReleaseRemoves, Removing, Close
<1>6. CASE LetIn(p) \/ Answer(p) \/ Shutdown(p) \/ RemoveFails(p) \/ Die(p)
  BY <1>6, Zenon DEF LetIn, Answer, Shutdown, RemoveFails, Die
<1> QED BY <1>1, <1>2, <1>3, <1>4, <1>5, <1>6

\* Another round leaves a round to make, or ends the contending.
LEMMA AgainPlaces ==
  ASSUME Places, NEW p \in Processes, pc[p] \in Contending \ {"idle"},
         NEW S, \A q \in S : q = p \/ q \in staged, Again(p, S),
         asked' = asked
  PROVE  /\ pc' \in [Processes -> Stations]
         /\ attempt' \in [Processes -> 0..Attempts]
         /\ staged' \subseteq Processes
         /\ \A q \in staged' : pc'[q] \in {"link", "read", "steal", "dead"}
         /\ RoundsLeft' /\ PostsFit' /\ AskedServe'
<1> USE DEF Places, Again, Go, At, Contending, Stations, RoundsLeft, PostsFit
<1>1. \A q \in asked : pc'[q] = pc[q]
  <2>1. p \notin asked BY DEF AskedServe
  <2> QED BY <2>1 DEF AskedServe, Processes
<1>2. AskedServe' BY <1>1 DEF AskedServe
<1>3. CASE attempt[p] + 1 < Attempts BY <1>2, <1>3
<1>4. CASE ~(attempt[p] + 1 < Attempts) BY <1>2, <1>4
<1> QED BY <1>3, <1>4

\* A claim's steps keep the rest of the types.
LEMMA ClaimPlaces ==
  ASSUME Places, NEW p \in Processes, Stage(p) \/ Claim(p)
  PROVE  Places'
<1> USE DEF Places, At, bounds, answerVars, claimVars
<1>1. CASE LinkMissing(p)
  <2>1. Again(p, staged \cup {p}) /\ pc[p] \in Contending \ {"idle"}
    BY <1>1 DEF LinkMissing, Contending
  <2> QED BY <1>1, <2>1, AgainPlaces DEF LinkMissing
<1>2. CASE Steal(p)
  <2>1. Again(p, staged) /\ pc[p] \in Contending \ {"idle"}
    BY <1>2 DEF Steal, Contending
  <2> QED BY <1>2, <2>1, AgainPlaces DEF Steal, Removing
<1> USE DEF RoundsLeft, PostsFit, AskedServe, Contending, Stations, Go, Processes
<1>3. CASE Stage(p) BY <1>3 DEF Stage
<1>4. CASE LinkLands(p) BY <1>4 DEF LinkLands
<1>5. CASE LinkRefused(p) BY <1>5 DEF LinkRefused
<1>6. CASE ReadAlive(p) BY <1>6 DEF ReadAlive
<1>7. CASE ReadStale(p) BY <1>7 DEF ReadStale, Role
<1>8. CASE Over(p) BY <1>8 DEF Over
<1>9. CASE Leave(p) BY <1>9 DEF Leave
<1> QED BY <1>1, <1>2, <1>3, <1>4, <1>5, <1>6, <1>7, <1>8, <1>9 DEF Claim

\* What a holder does with its claim, and a death, keep them too.
LEMMA HolderPlaces ==
  ASSUME Places, NEW p \in Processes,
         \/ Serve(p) \/ Remove(p) \/ GiveUp(p)
         \/ LetIn(p) \/ Answer(p) \/ Shutdown(p) \/ RemoveFails(p) \/ Die(p)
  PROVE  Places'
<1> USE DEF Places, RoundsLeft, PostsFit, AskedServe, Contending, Stations, At, Go,
      Processes, bounds, answerVars, claimVars, Removing
<1>1. CASE Inherit(p) \/ Open(p) \/ Publish(p) \/ FindLost(p)
  <2>1. CASE Inherit(p) BY <2>1 DEF Inherit
  <2>2. CASE Open(p) BY <2>2 DEF Open
  <2>3. CASE Publish(p) BY <2>3 DEF Publish
  <2>4. CASE FindLost(p) BY <2>4 DEF FindLost
  <2> QED BY <1>1, <2>1, <2>2, <2>3, <2>4
<1>2. CASE Resume(p) BY <1>2 DEF Resume
<1>3. CASE Remove(p)
  <2>1. CASE custom BY <1>3, <2>1 DEF Remove
  <2>2. CASE ~custom BY <1>3, <2>2 DEF Remove
  <2> QED BY <2>1, <2>2
<1>4. CASE ReleaseReads(p) BY <1>4 DEF ReleaseReads
<1>5. CASE ReleaseRemoves(p) BY <1>5 DEF ReleaseRemoves
<1>6. CASE Close(p) BY <1>6 DEF Close
<1>7. CASE LetIn(p) \/ Answer(p) BY <1>7 DEF LetIn, Answer
<1>8. CASE Shutdown(p) BY <1>8 DEF Shutdown
<1>9. CASE RemoveFails(p) BY <1>9 DEF RemoveFails
<1>10. CASE Die(p) BY <1>10 DEF Die
<1> QED
  BY <1>1, <1>2, <1>3, <1>4, <1>5, <1>6, <1>7, <1>8, <1>9, <1>10
  DEF Serve, GiveUp

-----------------------------------------------------------------------------
(* The stale are dead, the claims are named, the requests are in order. *)

\* The steps of one process, as the arguments below split them.
StepOf(p) ==
  \/ Stage(p) \/ Proceed(p) \/ LetIn(p) \/ Answer(p)
  \/ Shutdown(p) \/ RemoveFails(p) \/ Die(p)

\* A process only leaves the living for good, and reads a holder as stale only
\* when it has left.
LEMMA StaleStays ==
  ASSUME Places, StaleIsDead, NEW p \in Processes, StepOf(p)
  PROVE  StaleIsDead'
<1> USE DEF StaleIsDead, Alive, At, Go, bounds, answerVars, claimVars
<1>. pc \in [Processes -> Stations] /\ saw \in [Processes -> Processes \cup {NoOne}]
  BY DEF Places
<1>1. \A q \in Processes : ~Alive(q) => ~Alive(q)'
  BY DEF StepOf, Proceed, Stage, Claim, LinkLands, LinkMissing, LinkRefused,
    ReadAlive, ReadStale, Steal, Over, Leave, Again, Serve, Inherit, Resume,
    Open, Publish, FindLost, Remove, GiveUp, ReleaseReads, ReleaseRemoves,
    Close, LetIn, Answer, Shutdown, RemoveFails, Die, Contending
<1>2. CASE ReadStale(p)
  BY <1>1, <1>2 DEF ReadStale, HolderLives
<1>3. CASE ~ReadStale(p)
  <2>1. CASE Stage(p) \/ Claim(p)
    BY <1>1, <1>3, <2>1 DEF Stage, Claim, LinkLands, LinkMissing, LinkRefused,
      ReadAlive, Steal, Over, Leave, Again
  <2>2. CASE Serve(p) \/ Remove(p) \/ GiveUp(p)
    BY <1>1, <2>2 DEF Serve, Inherit, Resume, Open, Publish, FindLost, Remove,
      GiveUp, ReleaseReads, ReleaseRemoves, Close
  <2>3. CASE LetIn(p) \/ Answer(p) BY <1>1, <2>3 DEF LetIn, Answer
  <2>4. CASE Shutdown(p) \/ RemoveFails(p) BY <1>1, <2>4 DEF Shutdown, RemoveFails
  <2>5. CASE Die(p) BY <1>1, <2>5 DEF Die
  <2> QED BY <2>1, <2>2, <2>3, <2>4, <2>5 DEF StepOf, Proceed
<1> QED BY <1>2, <1>3

\* The only step that makes a claim finds the file absent, so finds no other
\* claim; the steps that remove the file remove a dead one's or their own.
LEMMA NamedStays ==
  ASSUME Places, StaleIsDead, ClaimsAreNamed, NEW p \in Processes, StepOf(p)
  PROVE  ClaimsAreNamed'
<1> USE DEF Places, ClaimsAreNamed, Claiming, At, Go, bounds, answerVars,
      claimVars
<1> SUFFICES ASSUME ~taken', NEW q \in Claiming'
             PROVE  lock' = q
  BY Zenon
<1>1. ~taken
  BY DEF StepOf, Proceed, Stage, Claim, LinkLands, LinkMissing, LinkRefused,
    ReadAlive, ReadStale, Steal, Removing, Over, Leave, Serve, Inherit, Resume,
    Open, Publish, FindLost, Remove, GiveUp, ReleaseReads, ReleaseRemoves,
    Close, LetIn, Answer, Shutdown, RemoveFails, Die
<1>2. \A r \in Claiming : lock = r
  BY <1>1
<1>3. CASE LinkLands(p)
  BY <1>2, <1>3, ProcessesAreDistinct DEF LinkLands, Processes
<1>4. CASE Steal(p)
  BY <1>1, <1>2, <1>4 DEF Steal, Removing, Again, StaleIsDead, Alive
<1>5. CASE Remove(p) BY <1>1, <1>2, <1>5 DEF Remove, Removing
<1>6. CASE ReleaseRemoves(p)
  BY <1>1, <1>2, <1>6 DEF ReleaseRemoves, Removing
<1>7. CASE ~(LinkLands(p) \/ Steal(p) \/ Remove(p) \/ ReleaseRemoves(p))
  <2>1. lock' = lock /\ q \in Claiming
    BY <1>7, ZenonT(40) DEF StepOf, Proceed, Stage, Claim, LinkMissing, LinkRefused,
      ReadAlive, ReadStale, Over, Leave, Again, Serve, Inherit, Resume, Open,
      Publish, FindLost, GiveUp, ReleaseReads, Close, LetIn, Answer, Shutdown,
      RemoveFails, Die
  <2> QED BY <1>2, <2>1
<1> QED BY <1>3, <1>4, <1>5, <1>6, <1>7

\* A process past its link never contends again, so the file, once it stops
\* naming a daemon that let a request in, never names it again.
LEMMA OrderStays ==
  ASSUME Places, ServersPast, RetiredPast, Ordered,
         NEW p \in Processes, StepOf(p)
  PROVE  ServersPast' /\ RetiredPast' /\ Ordered'
<1> USE DEF Places, ServersPast, RetiredPast, Ordered, Contending, At,
      Go, bounds, answerVars, claimVars, Processes
<1>1. \A q \in Processes : pc[q] \notin Contending => pc'[q] \notin Contending
  BY ZenonT(40) DEF StepOf, Proceed, Stage, Claim, LinkLands, LinkMissing, LinkRefused,
    ReadAlive, ReadStale, Steal, Over, Leave, Again, Serve, Inherit, Resume,
    Open, Publish, FindLost, Remove, GiveUp, ReleaseReads, ReleaseRemoves,
    Close, LetIn, Answer, Shutdown, RemoveFails, Die
<1>2. CASE LetIn(p) BY <1>1, <1>2 DEF LetIn
<1>3. CASE ~LetIn(p)
  <2>1. /\ last' = last /\ retired' = retired
        /\ lock' # lock => lock' = NoOne \/ (lock' = p /\ pc[p] = "link")
    BY <1>3 DEF StepOf, Proceed, Stage, Claim, LinkLands, LinkMissing,
      LinkRefused, ReadAlive, ReadStale, Steal, Removing, Over, Leave, Serve,
      Inherit, Resume, Open, Publish, FindLost, Remove, GiveUp, ReleaseReads,
      ReleaseRemoves, Close, Answer, Shutdown, RemoveFails, Die
  <2> QED BY <1>1, <2>1
<1> QED BY <1>2, <1>3

\* What a claim read changes only where its role is told, and a claim that goes
\* round after a move forgets both.
LEMMA KnowingStays ==
  ASSUME Places, ThiefKnows, NEW p \in Processes, StepOf(p)
  PROVE  ThiefKnows'
<1> USE DEF Places, ThiefKnows, Contending, At, Go, bounds, answerVars,
      claimVars
<1>1. CASE ReadStale(p)
  BY <1>1 DEF ReadStale, Role, Processes
<1>2. CASE LinkMissing(p)
  BY <1>2 DEF LinkMissing, Again, Processes
<1>3. CASE ~ReadStale(p) /\ ~LinkMissing(p)
  <2>1. saw' = saw /\ stolen' = stolen
    BY <1>3 DEF StepOf, Proceed, Stage, Claim, LinkLands, LinkRefused,
      ReadAlive, Steal, Over, Leave, Serve, Inherit, Resume, Open, Publish,
      FindLost, Remove, GiveUp, ReleaseReads, ReleaseRemoves, Close, LetIn, Answer,
      Shutdown, RemoveFails, Die
  <2>2. \A q \in Processes :
          pc'[q] \in Contending \cup {"claimed"}
            => pc[q] \in Contending \cup {"claimed"}
    BY <1>3, ZenonT(40) DEF StepOf, Proceed, Stage, Claim, LinkLands, LinkRefused,
      ReadAlive, Steal, Over, Leave, Again, Serve, Inherit, Resume, Open,
      Publish, FindLost, Remove, GiveUp, ReleaseReads, ReleaseRemoves, Close,
      LetIn, Answer, Shutdown, RemoveFails, Die
  <2> QED BY <2>1, <2>2
<1> QED BY <1>1, <1>2, <1>3

\* A daemon goes to work either by finishing what was left, or with a claim that
\* last stole from no delete; and the delete that dies unfinished held the lock,
\* so no daemon was at work.
LEMMA ResumingStays ==
  ASSUME Places, Places', ClaimsAreNamed, ThiefKnows, ThiefResumes,
         NEW p \in Processes, StepOf(p)
  PROVE  ThiefResumes'
<1> USE DEF Places, At, Go, bounds, answerVars, claimVars
<1> SUFFICES ASSUME owed', ~taken', NEW q \in Working'
             PROVE  saw'[q] \notin Deletes
  BY Zenon DEF ThiefResumes
<1>1. ~taken
  BY DEF StepOf, Proceed, Stage, Claim, LinkLands, LinkMissing, LinkRefused,
    ReadAlive, ReadStale, Steal, Removing, Over, Leave, Serve, Inherit, Resume,
    Open, Publish, FindLost, Remove, GiveUp, ReleaseReads, ReleaseRemoves,
    Close, LetIn, Answer, Shutdown, RemoveFails, Die
<1>2. q \in Daemons /\ q \in Processes BY DEF Processes, Working, AskedServe
<1>3. CASE Die(p) /\ At(p, "removing")
  <2>1. p \in Claiming /\ q \in Claiming /\ p # q
    BY <1>2, <1>3 DEF Die, Claiming, Working, AskedServe
  <2> QED BY <1>1, <2>1 DEF ClaimsAreNamed
<1>4. CASE Open(p) /\ p = q
  BY <1>4 DEF Open, ThiefKnows
<1>5. CASE ~(Die(p) /\ At(p, "removing")) /\ ~(Open(p) /\ p = q)
  <2>1. owed
    BY <1>5, Zenon DEF StepOf, Proceed, Stage, Claim, LinkLands, LinkMissing,
      LinkRefused, ReadAlive, ReadStale, Steal, Over, Leave, Serve, Inherit,
      Resume, Open, Publish, FindLost, Remove, GiveUp, ReleaseReads,
      ReleaseRemoves, Close, LetIn, Answer, Shutdown, RemoveFails, Die
  <2>2. ~Resume(p) BY DEF Resume
  <2>3. pc'[q] \in {"open", "serving"} => pc[q] \in {"open", "serving"}
    <3>1. CASE Stage(p) \/ Claim(p)
      <4>1. CASE LinkMissing(p) BY <1>2, <4>1 DEF LinkMissing, Again
      <4>2. CASE Steal(p) BY <1>2, <4>2 DEF Steal, Again
      <4>3. CASE Stage(p) BY <1>2, <4>3 DEF Stage
      <4>4. CASE LinkLands(p) BY <1>2, <4>4 DEF LinkLands
      <4>5. CASE LinkRefused(p) BY <1>2, <4>5 DEF LinkRefused
      <4>6. CASE ReadAlive(p) BY <1>2, <4>6 DEF ReadAlive
      <4>7. CASE ReadStale(p) BY <1>2, <4>7 DEF ReadStale
      <4>8. CASE Over(p) \/ Leave(p) BY <1>2, <4>8 DEF Over, Leave
      <4> QED
        BY <3>1, <4>1, <4>2, <4>3, <4>4, <4>5, <4>6, <4>7, <4>8 DEF Claim
    <3>2. CASE Serve(p)
      BY <1>2, <1>5, <2>2, <3>2 DEF Serve, Inherit, Open, Publish, FindLost
    <3>3. CASE Remove(p) \/ GiveUp(p)
      BY <1>2, <3>3 DEF Remove, GiveUp, ReleaseReads, ReleaseRemoves, Close
    <3>4. CASE LetIn(p) \/ Answer(p) \/ Shutdown(p) \/ RemoveFails(p) \/ Die(p)
      BY <1>2, <3>4 DEF LetIn, Answer, Shutdown, RemoveFails, Die
    <3> QED BY <3>1, <3>2, <3>3, <3>4 DEF StepOf, Proceed
  <2>4. q \in asked' => q \in asked \/ At(q, "serving")
    BY DEF StepOf, Proceed, Stage, Claim, LinkLands, LinkMissing, LinkRefused,
      ReadAlive, ReadStale, Steal, Over, Leave, Serve, Inherit, Resume, Open,
      Publish, FindLost, Remove, GiveUp, ReleaseReads, ReleaseRemoves, Close,
      LetIn, Answer, Shutdown, RemoveFails, Die
  <2>5. q \in Working BY <1>2, <2>3, <2>4 DEF Working
  <2>6. pc[q] \in {"open", "serving", "cut", "releasing"}
    BY <2>5 DEF Working, AskedServe
  <2>7. saw'[q] = saw[q]
    BY <2>6, <1>2 DEF StepOf, Proceed, Stage, Claim, LinkLands, LinkMissing,
      LinkRefused, ReadAlive, ReadStale, Steal, Over, Leave, Serve, Inherit,
      Resume, Open, Publish, FindLost, Remove, GiveUp, ReleaseReads,
      ReleaseRemoves, Close, LetIn, Answer, Shutdown, RemoveFails, Die
  <2> QED BY <1>1, <2>1, <2>5, <2>7 DEF ThiefResumes
<1> QED BY <1>3, <1>4, <1>5

\* Every step, and stuttering, keeps the invariant.
LEMMA StepHolds == ASSUME IInv, [Next]_vars PROVE IInv'
<1>1. CASE UNCHANGED vars
  BY <1>1 DEF vars, bounds, answerVars, claimVars, IInv, Types, Flags, Places,
    RoundsLeft, PostsFit, AskedServe, StaleIsDead, ClaimsAreNamed, Claiming, ServersPast,
    RetiredPast, Ordered, ThiefKnows, ThiefResumes, Working, At, Alive
<1>2. ASSUME NEW p \in Processes, Next, StepOf(p) PROVE IInv'
  <2>1. Flags' BY <1>2, FlagsStay DEF IInv, Types
  <2>2. Places'
    BY <1>2, ClaimPlaces, HolderPlaces DEF IInv, Types, StepOf, Proceed
  <2> QED
    BY <1>2, <2>1, <2>2, StaleStays, NamedStays, OrderStays, KnowingStays,
      ResumingStays
    DEF IInv, Types
<1> QED BY <1>1, <1>2 DEF Next, StepOf

\* The invariant holds throughout.
LEMMA InvariantHolds == Spec => []IInv
BY InitHolds, StepHolds, PTL DEF Spec

-----------------------------------------------------------------------------
(* Theorems. *)

\* Every variable of the lock keeps its type, and no claim that has ended, won
\* or lost, leaves its staging file in the directory.
THEOREM LockTypes == Spec => []TypeOK
<1>1. IInv => TypeOK BY DEF IInv, Types, Flags, Places, AskedServe, TypeOK
<1> QED BY <1>1, InvariantHolds, PTL

\* For any number of daemons and deletes, as long as every lock removed was the
\* one its remover had read, the lock file names whoever acts on a claim.
THEOREM LockNamesClaims == Spec => []ClaimsAreNamed
<1>1. IInv => ClaimsAreNamed BY DEF IInv
<1> QED BY <1>1, InvariantHolds, PTL

\* Whatever locks are taken unread, a daemon that another one let a request in
\* after never lets one in again; and while none was, whoever has a request under
\* way, so may still answer, holds the lock.
THEOREM LockOrdersRequests == Spec => []RequestsInOrder
<1>1. IInv => asked \subseteq Claiming
  BY DEF IInv, Types, Places, AskedServe, Claiming, Processes
<1>2. IInv => RequestsInOrder
  BY <1>1 DEF IInv, Ordered, ClaimsAreNamed, RequestsInOrder
<1> QED BY <1>2, InvariantHolds, PTL

\* However many deletes die unfinished, a daemon whose claim last stole from one
\* never works on what it left, while every lock removed was the one read.
THEOREM ThievesResume == Spec => []ThiefResumes
<1>1. IInv => ThiefResumes BY DEF IInv
<1> QED BY <1>1, InvariantHolds, PTL

=============================================================================
