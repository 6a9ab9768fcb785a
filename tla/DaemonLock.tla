------------------------------ MODULE DaemonLock ------------------------------
(***************************************************************************)
(* Who holds a store: the lock file of core/src/daemonLock.ts, claimed by  *)
(* every daemon before it opens the store and by every delete before it    *)
(* removes one.  Nothing but the file system relates the processes, so     *)
(* each call of node:fs is a step of its own and another process may move  *)
(* between any two of them.                                                *)
(*                                                                         *)
(* A process is one run of a program and makes one claim; its token and    *)
(* its identity are its name here, so "the file names p" says the file     *)
(* carries p's token.  A custom store directory is the owner's and is      *)
(* emptied file by file; a default one is moved aside whole.               *)
(***************************************************************************)
EXTENDS Naturals, FiniteSets

CONSTANTS
  Daemons,      \* runs of the daemon on this store
  Deletes,      \* runs of a delete of this store
  NoOne,        \* the lock file is absent
  Attempts,     \* CLAIM_ATTEMPTS
  MaxDeaths,    \* processes killed where they stand (a bound of the model)
  MaxFaults     \* removals the file system refuses (a bound of the model)

ASSUME ProcessesAreDistinct ==
  /\ Daemons \cap Deletes = {}
  /\ NoOne \notin Daemons \cup Deletes
ASSUME AttemptsAreMade == Attempts \in Nat \ {0}
ASSUME BoundsAreNumbers == MaxDeaths \in Nat /\ MaxFaults \in Nat

Processes == Daemons \cup Deletes

Role(p) == IF p \in Deletes THEN "delete" ELSE "daemon"

VARIABLES
  custom,   \* the directory is the owner's (fixed)
  lock,     \* the process the lock file names, or NoOne
  staged,   \* processes whose staging file is in the directory
  pc,       \* where each process stands
  attempt,  \* the claim loop's counter
  saw,      \* what a claim read before it steals
  stolen,   \* stolenRole: the role of the last holder stolen from, or "none"
  owed,     \* a delete died before it had removed the store
  taken,    \* a lock was removed by a process that had not read it (history)
  asked,    \* daemons with a request let in and not yet answered
  last,     \* the daemon that let a request in last (history)
  retired,  \* daemons that let one in before another did (history)
  deaths, faults

claimVars == <<staged, attempt, saw, stolen>>
answerVars == <<asked, last, retired>>
bounds == <<deaths, faults>>
vars == <<custom, lock, claimVars, pc, owed, taken, answerVars, bounds>>

Stations ==
  {"idle", "link", "read", "steal", "over", "lost",          \* claimLock
   "claimed", "resuming", "open", "serving",                 \* a daemon
   "removing",                                               \* a delete
   "cut", "releasing", "unlinking", "closing", "gone", "dead"}

Alive(p) == pc[p] \notin {"gone", "dead"}

\* lockHolderAlive of the lock file as it stands; unread, absent or dead is no.
HolderLives == lock # NoOne /\ Alive(lock)

\* A claim made and not yet given up: a daemon that stops keeps its own until the
\* requests under way have settled.
Claiming == {p \in Processes : pc[p] \in
               {"claimed", "resuming", "open", "serving", "removing",
                "cut", "releasing"}}

\* The daemons working on the store they opened.  One that stops goes on with the
\* requests it let in, then gives its lock up and closes the store after.
Working == {p \in Daemons : pc[p] \in {"open", "serving"}} \cup asked

At(p, station) == pc[p] = station
Go(p, station) == pc' = [pc EXCEPT ![p] = station]

Init ==
  /\ custom \in BOOLEAN
  /\ lock = NoOne
  /\ staged = {}
  /\ pc = [p \in Processes |-> "idle"]
  /\ attempt = [p \in Processes |-> 0]
  /\ saw = [p \in Processes |-> NoOne]
  /\ stolen = [p \in Processes |-> "none"]
  /\ owed = FALSE
  /\ taken = FALSE
  /\ asked = {}
  /\ last = NoOne
  /\ retired = {}
  /\ deaths = 0
  /\ faults = 0

-----------------------------------------------------------------------------
(* claimLock. *)

\* The staging file is written whole before anything is linked.
Stage(p) ==
  /\ At(p, "idle")
  /\ staged' = staged \cup {p}
  /\ Go(p, "link")
  /\ UNCHANGED <<custom, lock, attempt, saw, stolen, owed, taken,
                 answerVars, bounds>>

\* Another round, or the loop is over and its staging file removed.
Again(p, withStaging) ==
  /\ attempt' = [attempt EXCEPT ![p] = @ + 1]
  /\ IF attempt[p] + 1 < Attempts
       THEN Go(p, "link") /\ staged' = withStaging
       ELSE Go(p, "over") /\ staged' = withStaging \ {p}

\* As if the lock were written over whatever is there.
LinkLandsOver(p) ==
  /\ At(p, "link") /\ p \in staged
  /\ lock' = p
  /\ staged' = staged \ {p}
  /\ Go(p, IF p \in Deletes THEN "removing" ELSE "claimed")
  /\ UNCHANGED <<custom, attempt, saw, stolen, owed, taken, answerVars, bounds>>

\* linkSync lands whole: the one step that makes a claim.
LinkLands(p) ==
  /\ At(p, "link") /\ p \in staged /\ lock = NoOne
  /\ lock' = p
  /\ staged' = staged \ {p}
  /\ Go(p, IF p \in Deletes THEN "removing" ELSE "claimed")
  /\ UNCHANGED <<custom, attempt, saw, stolen, owed, taken, answerVars, bounds>>

\* ENOENT: the directory was moved or emptied, the staging file with it.  What
\* an earlier round read and stole from is of no account any more.
LinkMissing(p) ==
  /\ At(p, "link") /\ p \notin staged
  /\ stolen' = [stolen EXCEPT ![p] = "none"]
  /\ saw' = [saw EXCEPT ![p] = NoOne]
  /\ Again(p, staged \cup {p})
  /\ UNCHANGED <<custom, lock, owed, taken, answerVars, bounds>>

\* EEXIST: read who is there.
LinkRefused(p) ==
  /\ At(p, "link") /\ p \in staged /\ lock # NoOne
  /\ Go(p, "read")
  /\ UNCHANGED <<custom, lock, claimVars, owed, taken, answerVars, bounds>>

\* As if losing skipped the finally block.
ReadAliveLeavingStaging(p) ==
  /\ At(p, "read") /\ HolderLives
  /\ Go(p, "lost")
  /\ UNCHANGED <<custom, lock, claimVars, owed, taken, answerVars, bounds>>

\* A live holder ends the claim.
ReadAlive(p) ==
  /\ At(p, "read") /\ HolderLives
  /\ staged' = staged \ {p}
  /\ Go(p, "lost")
  /\ UNCHANGED <<custom, lock, attempt, saw, stolen, owed, taken,
                 answerVars, bounds>>

\* As if the dead holder's role were not looked at.
ReadStaleAsDaemon(p) ==
  /\ At(p, "read") /\ ~HolderLives
  /\ saw' = [saw EXCEPT ![p] = lock]
  /\ stolen' = [stolen EXCEPT ![p] = "daemon"]
  /\ Go(p, "steal")
  /\ UNCHANGED <<custom, lock, staged, attempt, owed, taken, answerVars, bounds>>

\* A dead holder, or none any more, is to be stolen from.
ReadStale(p) ==
  /\ At(p, "read") /\ ~HolderLives
  /\ saw' = [saw EXCEPT ![p] = lock]
  /\ stolen' = [stolen EXCEPT ![p] = IF lock = NoOne THEN "daemon"
                                                     ELSE Role(lock)]
  /\ Go(p, "steal")
  /\ UNCHANGED <<custom, lock, staged, attempt, owed, taken, answerVars, bounds>>

\* The lock file goes; unread is a lock other than the one its remover knows of.
Removing(known) ==
  /\ lock' = NoOne
  /\ taken' = IF lock \in {known, NoOne} THEN taken ELSE TRUE

\* The rename takes whatever file has the name by now; with none there it
\* throws, and the claim goes round again all the same.
Steal(p) ==
  /\ At(p, "steal")
  /\ Removing(saw[p])
  /\ Again(p, staged)
  /\ UNCHANGED <<custom, saw, stolen, owed, answerVars, bounds>>

\* Every round lost: the holder is named, or the claim throws.
Over(p) ==
  /\ At(p, "over")
  /\ Go(p, "lost")
  /\ UNCHANGED <<custom, lock, claimVars, owed, taken, answerVars, bounds>>

\* A process that lost its claim exits.
Leave(p) ==
  /\ At(p, "lost")
  /\ Go(p, "gone")
  /\ UNCHANGED <<custom, lock, claimVars, owed, taken, answerVars, bounds>>

-----------------------------------------------------------------------------
(* A daemon. *)

\* resumeAbandonedDelete finds an inherited delete ...
Inherit(p) ==
  /\ At(p, "claimed") /\ stolen[p] = "delete"
  /\ Go(p, "resuming")
  /\ UNCHANGED <<custom, lock, claimVars, owed, taken, answerVars, bounds>>

\* ... and finishes it.  A default directory is emptied of everything but the
\* lock, the staging files of waiting claims included.
Resume(p) ==
  /\ At(p, "resuming")
  /\ owed' = FALSE
  /\ staged' = IF custom THEN staged ELSE {}
  /\ Go(p, "open")
  /\ UNCHANGED <<custom, lock, attempt, saw, stolen, taken, answerVars, bounds>>

Open(p) ==
  /\ At(p, "claimed") /\ stolen[p] # "delete"
  /\ Go(p, "open")
  /\ UNCHANGED <<custom, lock, claimVars, owed, taken, answerVars, bounds>>

\* setHandle: until here a request is told the daemon is starting, and the
\* lock is not looked at.
Publish(p) ==
  /\ At(p, "open")
  /\ Go(p, "serving")
  /\ UNCHANGED <<custom, lock, claimVars, owed, taken, answerVars, bounds>>

\* As if a request only asked whether there is a lock.
LetInUnderAnyLock(p) ==
  /\ At(p, "serving") /\ lock # NoOne
  /\ asked' = asked \cup {p}
  /\ last' = p
  /\ retired' = retired \cup ({last} \ {p, NoOne})
  /\ UNCHANGED <<custom, lock, claimVars, pc, owed, taken, bounds>>

\* A request reads the lock, once: held, the handler begins in the same turn.
LetIn(p) ==
  /\ At(p, "serving") /\ lock = p
  /\ asked' = asked \cup {p}
  /\ last' = p
  /\ retired' = retired \cup ({last} \ {p, NoOne})
  /\ UNCHANGED <<custom, lock, claimVars, pc, owed, taken, bounds>>

\* The last of the requests under way has its answer, after whatever it awaited:
\* the gate, providers.  Nobody looks at the lock again.
Answer(p) ==
  /\ p \in asked /\ pc[p] \in {"serving", "releasing"}
  /\ asked' = asked \ {p}
  /\ UNCHANGED <<custom, lock, claimVars, pc, owed, taken, last, retired, bounds>>

\* As if a successor's lock were not a loss.
FindLostOnlyWhenGone(p) ==
  /\ At(p, "serving") \/ (At(p, "releasing") /\ p \in asked)
  /\ lock = NoOne
  /\ Go(p, "cut")
  /\ UNCHANGED <<custom, lock, claimVars, owed, taken, answerVars, bounds>>

\* A request finds the lock gone or another's: onLockLost shuts down and every
\* connection is cut.  What was let in goes on, its answer reaching nobody.
FindLost(p) ==
  /\ At(p, "serving") \/ (At(p, "releasing") /\ p \in asked)
  /\ lock # p
  /\ Go(p, "cut")
  /\ UNCHANGED <<custom, lock, claimVars, owed, taken, answerVars, bounds>>

\* A signal, the shutdown request, the linger, a startup that throws: no request
\* is let in any more, and those under way are waited for.
Shutdown(p) ==
  /\ p \in Daemons
  /\ pc[p] \in {"claimed", "resuming", "open", "serving"}
  /\ Go(p, "releasing")
  /\ UNCHANGED <<custom, lock, claimVars, owed, taken, answerVars, bounds>>

-----------------------------------------------------------------------------
(* A delete. *)

\* A default directory leaves its name in one rename, and takes the lock file
\* and every staging file along; a custom one is emptied under the lock.
Remove(p) ==
  /\ At(p, "removing")
  /\ owed' = FALSE
  /\ IF custom
       THEN /\ Go(p, "releasing")
            /\ UNCHANGED <<lock, staged, taken>>
       ELSE /\ Go(p, "gone")
            /\ Removing(p)
            /\ staged' = {}
  /\ UNCHANGED <<custom, attempt, saw, stolen, answerVars, bounds>>

\* The file system refuses: the lock is released and the reason answered.
RemoveFails(p) ==
  /\ At(p, "removing") /\ faults < MaxFaults
  /\ faults' = faults + 1
  /\ Go(p, "releasing")
  /\ UNCHANGED <<custom, lock, claimVars, owed, taken, answerVars, deaths>>

-----------------------------------------------------------------------------
(* releaseLock reads, then removes; a daemon closes its store after it. *)

\* The requests have settled or SETTLE_LIMIT_MS is over; the turn that takes the
\* lock away cuts every connection, so what still runs answers nobody.
ReleaseReads(p) ==
  /\ pc[p] \in {"cut", "releasing"}
  /\ asked' = asked \ {p}
  /\ Go(p, IF lock = p THEN "unlinking" ELSE "closing")
  /\ UNCHANGED <<custom, lock, claimVars, owed, taken, last, retired, bounds>>

ReleaseRemoves(p) ==
  /\ At(p, "unlinking")
  /\ Removing(p)
  /\ Go(p, "closing")
  /\ UNCHANGED <<custom, claimVars, owed, answerVars, bounds>>

Close(p) ==
  /\ At(p, "closing")
  /\ Go(p, "gone")
  /\ UNCHANGED <<custom, lock, claimVars, owed, taken, answerVars, bounds>>

\* Killed where it stands: the files stay.
Die(p) ==
  /\ Alive(p) /\ ~At(p, "idle") /\ deaths < MaxDeaths
  /\ deaths' = deaths + 1
  /\ owed' = IF At(p, "removing") THEN TRUE ELSE owed
  /\ asked' = asked \ {p}
  /\ Go(p, "dead")
  /\ UNCHANGED <<custom, lock, claimVars, taken, last, retired, faults>>

-----------------------------------------------------------------------------
Claim(p) ==
  \/ LinkLands(p) \/ LinkMissing(p) \/ LinkRefused(p)
  \/ ReadAlive(p) \/ ReadStale(p) \/ Steal(p) \/ Over(p) \/ Leave(p)

Serve(p) == Inherit(p) \/ Resume(p) \/ Open(p) \/ Publish(p) \/ FindLost(p)

GiveUp(p) == ReleaseReads(p) \/ ReleaseRemoves(p) \/ Close(p)

\* What a process does by itself once it has begun.
Proceed(p) == Claim(p) \/ Serve(p) \/ Remove(p) \/ GiveUp(p)

Next ==
  \E p \in Processes :
    \/ Stage(p) \/ Proceed(p) \/ LetIn(p) \/ Answer(p)
    \/ Shutdown(p) \/ RemoveFails(p) \/ Die(p)

Spec == Init /\ [][Next]_vars

\* A started process is not suspended forever, and a served daemon keeps being
\* asked: clients reconnect and the linger retires a daemon nobody asks.
FairSpec == Spec /\ \A p \in Processes : WF_vars(Proceed(p))

-----------------------------------------------------------------------------
(* Properties. *)

\* Every variable keeps its type.  A staging file's owner is still claiming or
\* died while it was: a claim that ends, either way, removes its file.  A request
\* is under way only in a daemon that published its handler and lives.
TypeOK ==
  /\ custom \in BOOLEAN
  /\ lock \in Processes \cup {NoOne}
  /\ pc \in [Processes -> Stations]
  /\ staged \subseteq Processes
  /\ \A p \in staged : pc[p] \in {"link", "read", "steal", "dead"}
  /\ attempt \in [Processes -> 0..Attempts]
  /\ saw \in [Processes -> Processes \cup {NoOne}]
  /\ stolen \in [Processes -> {"none", "daemon", "delete"}]
  /\ owed \in BOOLEAN /\ taken \in BOOLEAN
  /\ asked \subseteq {p \in Daemons : pc[p] \in {"serving", "cut", "releasing"}}
  /\ last \in Daemons \cup {NoOne}
  /\ retired \subseteq Daemons
  /\ deaths \in 0..MaxDeaths /\ faults \in 0..MaxFaults

\* While every lock removed was the one its remover had last read, the lock file
\* names every process that acts on its claim, so there is at most one: through
\* crashes, steals, stops and deletes alike.
ClaimsAreNamed == taken \/ \A p \in Claiming : lock = p

\* A daemon whose claim last stole from a delete never opens the store over what
\* that delete left, whoever else claims, moves the directory or dies meanwhile.
ThiefResumes ==
  (owed /\ ~taken) => \A p \in Working : saw[p] \notin Deletes

\* The lock is read before a request is let in and never when it is answered.  Even
\* so, once another daemon has let a request in a daemon never lets one in again:
\* its answers that may still come are to requests let in before.  And while every
\* lock removed was the one its remover had read, whoever may still answer holds
\* the store, a daemon that is stopping included.
RequestsInOrder ==
  /\ last \notin retired
  /\ taken \/ \A p \in asked : lock = p

\* Two daemons do not go on working side by side: whoever's claim was taken finds
\* out at its next request and closes.
Heals == <>[](Cardinality(Working) <= 1)

\* One process at a time acts on a claim: "A daemon claims before it opens the
\* store and a delete claims before it removes one, so the two cannot overlap:
\* whichever links first holds the file" (daemonLock.ts:3).
OneClaim == Cardinality(Claiming) <= 1

\* No daemon works on the store of a delete that died unfinished: "A dead delete
\* is resumed, never abandoned, before the store opens." (daemonCli.ts:381).
DeleteIsResumed == owed => Working = {}

=============================================================================
