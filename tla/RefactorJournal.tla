-------------------------- MODULE RefactorJournal --------------------------
(***************************************************************************)
(* Refactor transactions: the journal (src/core/src/transactions.ts), the  *)
(* step executor over it (src/core/src/refactorStep.ts) and the daemon's   *)
(* startup recovery (src/core/src/daemonCli.ts).                           *)
(*                                                                         *)
(* Every request here runs under the exclusive gate, so the daemon does    *)
(* one at a time: `op` is what it is in the middle of.  One action is one  *)
(* durable effect, a journal transaction or a file replacement, with the   *)
(* checks made on the way to it.  Between two of them an editor may save   *)
(* any file and the daemon may die; after a restart `recover` reads only   *)
(* the journal and the disk.                                               *)
(*                                                                         *)
(* A content stands for the bytes and their hash.  Links, directories and  *)
(* guarded files are the ways a restore can be `blocked` or `failed`.      *)
(* Subject rebinds, issues and the `edited` marker, which decide nothing   *)
(* here, are left out.                                                     *)
(***************************************************************************)
EXTENDS Naturals, FiniteSets, Sequences, SequencesExt, FiniteSetsExt

CONSTANTS
    Modules,    \* the files
    Texts,      \* the contents a file may have
    Absent,     \* what a missing file holds
    None,       \* no row, no value
    MaxSaves,   \* bound: saves by editors or the fix command
    MaxRequests, \* bound: steps, gated writes and notes
    MaxCrashes, \* bound: daemon deaths
    MaxFaults,  \* bound: throws inside a step or a gated write, restores that fail
    MaxTroubles \* bound: saves, crashes and faults together

ASSUME ConstantsAssumption ==
    /\ IsFiniteSet(Modules)
    /\ Absent \notin Texts
    /\ None \notin Texts \cup {Absent} \cup Modules
    /\ None \notin [before : Texts \cup {Absent}, after : Texts \cup {None}]
    /\ {MaxSaves, MaxRequests, MaxCrashes, MaxFaults, MaxTroubles} \subseteq Nat

Contents == Texts \cup {Absent}
Rows     == Contents \cup {None}

VARIABLES
    disk,     \* what each file holds
    tx,       \* the open transaction's origin, or "none"
    baseline, \* its opening images
    known,    \* its known states
    steps,    \* its steps in order: number, finalized, image per module
    intent,   \* its recovery intent
    op,       \* volatile: what the daemon is doing
    strange,  \* history: files whose content the journal need not describe
    due,      \* history: files the transaction must track
    used      \* how much of each bound is spent

journal == <<tx, baseline, known, steps, intent>>
vars == <<disk, tx, baseline, known, steps, intent, op, strange, due, used>>

Images == [before : Contents, after : Texts \cup {None}]
Steps  == [no : Nat, done : BOOLEAN, image : [Modules -> Images \cup {None}]]

NoRows   == [m \in Modules |-> None]
NoIntent == [kind |-> "none", no |-> 0, seen |-> NoRows]
Intents  == [kind : {"none", "undo", "revert"}, no : Nat, seen : [Modules -> Rows]]

\* pc: where; hold, text, base, before, fresh: the step being run; todo: modules left in this
\* loop; cur: restored and not yet remembered; at: the step being unwound; clash: a conflict
\* stands in the way; kept: recovery retained a step; then: who asked.
Idle == [pc |-> "idle", then |-> "rpc", hold |-> "joined", text |-> NoRows, base |-> NoRows,
         before |-> NoRows, fresh |-> {}, todo |-> {}, cur |-> None, at |-> 0,
         clash |-> FALSE, kept |-> FALSE]
Down == [Idle EXCEPT !.pc = "down"]

Ops == [pc : {"down", "idle", "putting", "noting", "checked", "journaling", "writing", "releasing",
              "restamping", "settling", "finishing", "committing", "refusing",
              "restoring", "recovering", "unwinding"},
        then : {"rpc", "step", "recover"}, hold : {"joined", "own"},
        text : [Modules -> Rows], base : [Modules -> Rows], before : [Modules -> Rows],
        fresh : SUBSET Modules, todo : SUBSET Modules, cur : Modules \cup {None},
        at : Nat, clash : BOOLEAN, kept : BOOLEAN]

Bounds == {"saves", "requests", "crashes", "faults"}

\* One type invariant: the journal rows, the intent and the operation have their types.
TypeOK ==
    /\ disk \in [Modules -> Contents]
    /\ tx \in {"none", "explicit", "own"}
    /\ baseline \in [Modules -> Rows] /\ known \in [Modules -> Rows]
    /\ steps \in Seq(Steps)
    /\ intent \in Intents
    /\ op \in Ops
    /\ strange \subseteq Modules /\ due \subseteq Modules
    /\ used \in [Bounds -> Nat]

Init ==
    /\ disk \in [Modules -> Contents]
    /\ tx = "none" /\ baseline = NoRows /\ known = NoRows /\ steps = <<>> /\ intent = NoIntent
    /\ op = Idle
    /\ strange = {} /\ due = {}
    /\ used = [b \in Bounds |-> 0]

-----------------------------------------------------------------------------
(***************************************************************************)
(* Helpers                                                                 *)
(***************************************************************************)
Troubles == {"saves", "crashes", "faults"}

Spend(bound, max) ==
    /\ used[bound] < max
    /\ bound \in Troubles => used["saves"] + used["crashes"] + used["faults"] < MaxTroubles
    /\ used' = [used EXCEPT ![bound] = @ + 1]

Tracked == {m \in Modules : baseline[m] # None}

\* unwritten(): the step left the module as found; nothing of the step is there to restore.
Unwritten(image) == image.before # Absent /\ image.after = image.before

Covered(step)    == {m \in Modules : step.image[m] # None}
ToRestore(step)  == {m \in Covered(step) : ~ Unwritten(step.image[m])}
Written          == {m \in Modules : op.text[m] # None}

Top           == steps[Len(steps)]
Position(no)  == CHOOSE i \in DOMAIN steps : steps[i].no = no
Numbered(no)  == steps[Position(no)]
Without(no)   == RemoveAt(steps, Position(no))
Unfinished    == {s.no : s \in {s \in ToSet(steps) : ~ s.done}}
Planned       == Covered(Top)
SetImage(m, image) == [steps EXCEPT ![Len(steps)].image[m] = image]

\* nextStepNo(): one past the highest stored.
NextStepNo == IF steps = <<>> THEN 1 ELSE Top.no + 1

\* The known state of m becomes c; the file is no longer strange once that is what it holds.
Know(m, c) ==
    /\ known' = [known EXCEPT ![m] = c]
    /\ strange' = IF disk[m] = c THEN strange \ {m} ELSE strange

\* claimBaseline(): the opening image and the known state, in one journal write.
ClaimBaseline(m, c) == baseline' = [baseline EXCEPT ![m] = c] /\ Know(m, c)

\* drop(): the one terminal path; every row of the transaction goes in one journal write.
Drop ==
    /\ tx' = "none" /\ baseline' = NoRows /\ known' = NoRows
    /\ steps' = <<>> /\ intent' = NoIntent
    /\ due' = {}

\* recover() begins: unfinished steps numbered below `at` are still to be unwound.
RecoverFrom(no) == [Idle EXCEPT !.pc = "recovering", !.then = "recover", !.at = no]
StartRecovery   == RecoverFrom(NextStepNo)

\* An own step that is refused: it reverts its transaction.
RefuseOwn == [Idle EXCEPT !.pc = "refusing", !.then = "step", !.hold = "own"]

\* What follows a finished undo: recovery's end, a refused step's revert, or the answer.
AfterUndo == CASE op.then = "recover" -> RecoverFrom(0)
               [] op.then = "step" /\ op.hold = "own" -> RefuseOwn
               [] OTHER -> Idle

-----------------------------------------------------------------------------
(***************************************************************************)
(* The world: editors (and the fix command) save, the daemon dies          *)
(***************************************************************************)
Save(m, c) ==
    /\ c # disk[m]
    /\ Spend("saves", MaxSaves)
    /\ disk' = [disk EXCEPT ![m] = c]
    /\ strange' = strange \cup {m}
    /\ UNCHANGED <<journal, op, due>>

\* Volatile state goes.  A gated write that reached disk and was not noted leaves drift.
Crash ==
    /\ op.pc # "down"
    /\ Spend("crashes", MaxCrashes)
    /\ op' = Down
    /\ strange' = IF op.pc = "noting" THEN strange \cup op.todo ELSE strange
    /\ UNCHANGED <<disk, journal, due>>

\* Startup recovery, before the daemon serves.
Startup ==
    /\ op.pc = "down"
    /\ op' = IF tx = "none" THEN Idle ELSE StartRecovery
    /\ UNCHANGED <<disk, journal, strange, due, used>>

-----------------------------------------------------------------------------
(***************************************************************************)
(* start, track, noteWrite, writeFile, commit                              *)
(***************************************************************************)
Start ==
    /\ op.pc = "idle" /\ tx = "none"
    /\ tx' = "explicit"
    /\ UNCHANGED <<disk, baseline, known, steps, intent, op, strange, due, used>>

Track(m) ==
    /\ op.pc = "idle" /\ tx # "none" /\ baseline[m] = None
    /\ ClaimBaseline(m, disk[m])
    /\ due' = due \cup {m}
    /\ UNCHANGED <<disk, tx, steps, intent, op, used>>

\* A note that does not match the disk is refused, so it says what is there.
NoteWrite(m) ==
    /\ op.pc = "idle" /\ known[m] # None
    /\ Spend("requests", MaxRequests)
    /\ Know(m, disk[m])
    /\ UNCHANGED <<disk, tx, baseline, steps, intent, op, due>>

\* writeFile() up to its disk write: `expect` is the content found; with a refactor open the file
\* is tracked first.
WriteFile(m, c) ==
    /\ op.pc = "idle"
    /\ Spend("requests", MaxRequests)
    /\ op' = [Idle EXCEPT !.pc = "putting", !.todo = {m}, !.text[m] = c]
    /\ IF tx # "none" /\ baseline[m] = None
       THEN ClaimBaseline(m, disk[m])
       ELSE UNCHANGED <<baseline, known, strange>>
    /\ UNCHANGED <<disk, tx, steps, intent, due>>

PutFile(m) ==
    /\ op.pc = "putting" /\ m \in op.todo
    /\ disk' = [disk EXCEPT ![m] = op.text[m]]
    /\ op' = IF tx = "none" THEN Idle ELSE [op EXCEPT !.pc = "noting"]
    /\ due' = IF tx = "none" THEN due ELSE due \cup {m}
    /\ UNCHANGED <<journal, strange, used>>

PutThrows ==
    /\ op.pc = "putting"
    /\ Spend("faults", MaxFaults)
    /\ op' = Idle
    /\ due' = IF tx = "none" THEN due ELSE due \cup op.todo
    /\ UNCHANGED <<disk, journal, strange>>

\* noteKnown() after the write.
NoteKnown(m) ==
    /\ op.pc = "noting" /\ m \in op.todo
    /\ Know(m, op.text[m])
    /\ op' = Idle
    /\ UNCHANGED <<disk, tx, baseline, steps, intent, due, used>>

\* commit(), refused while a recovery is pending.
Commit ==
    /\ op.pc = "idle" /\ tx # "none" /\ intent = NoIntent
    /\ Drop
    /\ UNCHANGED <<disk, op, strange, used>>

-----------------------------------------------------------------------------
(***************************************************************************)
(* A step: checked, journaled, written, settled                            *)
(***************************************************************************)
\* writeStep() up to its checks: it joins the open transaction or opens its own, and every base
\* is the content found.
OpenStep(text) ==
    /\ op.pc = "idle"
    /\ Spend("requests", MaxRequests)
    /\ op' = [Idle EXCEPT !.pc = "checked", !.then = "step",
                          !.hold = IF tx = "none" THEN "own" ELSE "joined",
                          !.text = text,
                          !.base = [m \in Modules |-> IF text[m] = None THEN None ELSE disk[m]]]
    /\ tx' = IF tx = "none" THEN "own" ELSE tx
    /\ UNCHANGED <<disk, baseline, known, steps, intent, strange, due>>

\* A moved base, a stale plan, a cancel or an unexpected base: refused before anything is journaled.
RefusePlan ==
    /\ op.pc = "checked"
    /\ op' = IF op.hold = "own" THEN RefuseOwn ELSE Idle
    /\ UNCHANGED <<disk, journal, strange, due, used>>

\* beginStep(): every planned module, those only reindexed included, is read before the step row.
BeginStep(mods) ==
    /\ op.pc = "checked" /\ Written \subseteq mods
    /\ steps' = Append(steps, [no |-> NextStepNo, done |-> FALSE, image |-> NoRows])
    /\ op' = [op EXCEPT !.pc = "journaling", !.todo = mods, !.fresh = mods \ Tracked,
                        !.before = [m \in Modules |-> IF m \in mods THEN disk[m] ELSE None]]
    /\ UNCHANGED <<disk, tx, baseline, known, intent, strange, due, used>>

\* Mutant of JournalImage: the step's output is not journaled before the write.
JournalImageWithoutOutput(m) ==
    /\ op.pc = "journaling" /\ m \in op.todo
    /\ LET was == op.before[m] IN
       /\ steps' = SetImage(m, [before |-> was, after |-> None])
       /\ IF baseline[m] = None THEN ClaimBaseline(m, was)
          ELSE UNCHANGED <<baseline, known, strange>>
    /\ op' = IF op.todo = {m} THEN [op EXCEPT !.pc = "writing", !.todo = Written, !.before = NoRows]
             ELSE [op EXCEPT !.todo = @ \ {m}]
    /\ UNCHANGED <<disk, tx, intent, due, used>>

\* Its loop: a baseline for a module that has none, then the step image, planned output included.
JournalImage(m) ==
    /\ op.pc = "journaling" /\ m \in op.todo
    /\ LET was == op.before[m] IN
       /\ steps' = SetImage(m, [before |-> was,
                                after |-> IF op.text[m] # None THEN op.text[m]
                                          ELSE IF was # Absent THEN was ELSE None])
       /\ IF baseline[m] = None THEN ClaimBaseline(m, was)
          ELSE UNCHANGED <<baseline, known, strange>>
    /\ op' = IF op.todo = {m} THEN [op EXCEPT !.pc = "writing", !.todo = Written, !.before = NoRows]
             ELSE [op EXCEPT !.todo = @ \ {m}]
    /\ UNCHANGED <<disk, tx, intent, due, used>>

\* writeModule(): replaces the file when disk still matches the base.
WriteModule(m) ==
    /\ op.pc = "writing" /\ m \in op.todo
    /\ disk[m] = op.base[m]
    /\ disk' = [disk EXCEPT ![m] = op.text[m]]
    /\ op' = [op EXCEPT !.todo = @ \ {m}]
    /\ due' = due \cup {m}
    /\ UNCHANGED <<journal, strange, used>>

\* The modules that did not land are released; one whose write threw is left for undo to judge.
Fail(landed, threw) == [Idle EXCEPT !.pc = "releasing", !.then = "step", !.hold = op.hold,
                                    !.fresh = op.fresh, !.todo = Planned \ (landed \cup threw)]

\* Mutant of WriteRefused: the modules that landed are released as well.
WriteRefusedReleasingAll(m) ==
    /\ op.pc = "writing" /\ m \in op.todo
    /\ disk[m] # op.base[m]
    /\ op' = Fail({}, {})
    /\ UNCHANGED <<disk, journal, strange, due, used>>

\* An editor changed the file first.
WriteRefused(m) ==
    /\ op.pc = "writing" /\ m \in op.todo
    /\ disk[m] # op.base[m]
    /\ op' = Fail(Written \ op.todo, {})
    /\ UNCHANGED <<disk, journal, strange, due, used>>

WriteThrows(m) ==
    /\ op.pc = "writing" /\ m \in op.todo
    /\ disk[m] = op.base[m]
    /\ Spend("faults", MaxFaults)
    /\ op' = Fail(Written \ op.todo, {m})
    /\ due' = due \cup {m}
    /\ UNCHANGED <<disk, journal, strange>>

\* An exact step finds its output changed by someone.
NotAsPlanned ==
    /\ op.pc = "writing" /\ op.todo = {}
    /\ \E m \in Written : disk[m] # op.text[m]
    /\ op' = Fail(Written, {})
    /\ UNCHANGED <<disk, journal, strange, due, used>>

\* Everything is written.  The fix command ran (its writes are saves), or there is none.
FixWritten(ran) ==
    /\ op.pc = "writing" /\ op.todo = {}
    /\ op' = [Idle EXCEPT !.pc = IF ran THEN "restamping" ELSE "settling", !.then = "step", !.hold = op.hold,
                          !.todo = IF ran THEN Written ELSE Planned]
    /\ UNCHANGED <<disk, journal, strange, due, used>>

\* restampAfter(): the file's text is the step's output; a file the command removed keeps the plan's.
RestampAfter(m) ==
    /\ op.pc = "restamping" /\ m \in op.todo
    /\ steps' = IF disk[m] = Absent THEN steps ELSE SetImage(m, [Top.image[m] EXCEPT !.after = disk[m]])
    /\ op' = IF op.todo = {m} THEN [op EXCEPT !.pc = "settling", !.todo = Planned]
             ELSE [op EXCEPT !.todo = @ \ {m}]
    /\ UNCHANGED <<disk, tx, baseline, known, intent, strange, due, used>>

\* Mutant of CompleteModule: absence is recorded as an output with a hash.
CompleteModuleHashingAbsence(m) ==
    /\ op.pc = "settling" /\ m \in op.todo
    /\ Know(m, disk[m])
    /\ steps' = SetImage(m, [Top.image[m] EXCEPT !.after = disk[m]])
    /\ op' = IF op.todo = {m} THEN [op EXCEPT !.pc = "finishing", !.todo = {}]
             ELSE [op EXCEPT !.todo = @ \ {m}]
    /\ UNCHANGED <<disk, tx, baseline, intent, due, used>>

\* completeStep("written"): a recorded output is the known state, otherwise what is on disk is both.
CompleteModule(m) ==
    /\ op.pc = "settling" /\ m \in op.todo
    /\ LET image == Top.image[m] IN
       IF image.after # None
       THEN Know(m, image.after) /\ UNCHANGED steps
       ELSE /\ Know(m, disk[m])
            /\ steps' = SetImage(m, [image EXCEPT !.after = IF disk[m] = Absent THEN None ELSE disk[m]])
    /\ op' = IF op.todo = {m} THEN [op EXCEPT !.pc = "finishing", !.todo = {}]
             ELSE [op EXCEPT !.todo = @ \ {m}]
    /\ UNCHANGED <<disk, tx, baseline, intent, due, used>>

\* After the reindex: completeStep("finalized"); a joined step is over.
Finalize ==
    /\ op.pc = "finishing"
    /\ steps' = [steps EXCEPT ![Len(steps)].done = TRUE]
    /\ due' = due \cup Planned
    /\ op' = IF op.hold = "own" THEN [Idle EXCEPT !.pc = "committing", !.then = "step", !.hold = "own"] ELSE Idle
    /\ UNCHANGED <<disk, tx, baseline, known, intent, strange, used>>

\* An own step closes its transaction before it answers.
CommitOwn ==
    /\ op.pc = "committing"
    /\ Drop
    /\ op' = Idle
    /\ UNCHANGED <<disk, strange, used>>

\* A throw elsewhere in the step: an own step settles as recovery would, a joined one stays unfinished.
StepThrows ==
    /\ op.pc \in {"journaling", "restamping", "settling", "finishing", "committing"}
    /\ Spend("faults", MaxFaults)
    /\ op' = IF op.hold = "own" THEN StartRecovery ELSE Idle
    /\ UNCHANGED <<disk, journal, strange, due>>

-----------------------------------------------------------------------------
(***************************************************************************)
(* Unwinding: release, undo, revert                                        *)
(***************************************************************************)
\* Mutant of Release: the module keeps its claimed baseline.
ReleaseKeepingTrack(m) ==
    /\ op.pc = "releasing" /\ m \in op.todo
    /\ steps' = SetImage(m, None)
    /\ op' = [op EXCEPT !.todo = @ \ {m}]
    /\ UNCHANGED <<disk, tx, baseline, known, intent, strange, due, used>>

\* releaseModule(): its step image goes, and its baseline when the step claimed it.
Release(m) ==
    /\ op.pc = "releasing" /\ m \in op.todo
    /\ steps' = SetImage(m, None)
    /\ IF m \in op.fresh
       THEN /\ baseline' = [baseline EXCEPT ![m] = None]
            /\ known' = [known EXCEPT ![m] = None]
       ELSE UNCHANGED <<baseline, known>>
    /\ op' = [op EXCEPT !.todo = @ \ {m}]
    /\ UNCHANGED <<disk, tx, intent, strange, due, used>>

\* Who may call undo(): a client, or a step that failed and has released its modules.
UndoAsked == op.pc = "idle" \/ (op.pc = "releasing" /\ op.todo = {})

\* The check before the intent: a written file holds the step's output or its before-image.
UndoAllowed ==
    \A m \in ToRestore(Top) :
        LET image == Top.image[m] IN image.after # None => disk[m] \in {image.before, image.after}

Restoring(todo) == [Idle EXCEPT !.pc = "restoring", !.then = op.then, !.hold = op.hold, !.todo = todo]

\* undo(), fresh: the newest step.
Undo ==
    /\ UndoAsked /\ tx # "none" /\ steps # <<>> /\ intent = NoIntent
    /\ UndoAllowed
    /\ intent' = [NoIntent EXCEPT !.kind = "undo", !.no = Top.no]
    /\ op' = Restoring(ToRestore(Top))
    /\ UNCHANGED <<disk, tx, baseline, known, steps, strange, due, used>>

\* undo(), a recorded one resumed without its check.
ResumeUndo ==
    /\ UndoAsked /\ intent.kind = "undo"
    /\ op' = Restoring(ToRestore(Numbered(intent.no)))
    /\ UNCHANGED <<disk, journal, strange, due, used>>

\* A failed step's undo refuses: an own step settles as recovery would, a joined one is left.
UndoRefused ==
    /\ op.pc = "releasing" /\ op.todo = {}
    /\ intent = NoIntent => ~ UndoAllowed
    /\ intent.kind # "undo"
    /\ op' = IF op.hold = "own" THEN StartRecovery ELSE Idle
    /\ UNCHANGED <<disk, journal, strange, due, used>>

\* Mutant of Revert: only the files that drifted from their known state are restored.
RevertOnlyDrifted ==
    /\ op.pc \in {"idle", "refusing"} /\ tx # "none" /\ intent = NoIntent
    /\ intent' = [NoIntent EXCEPT !.kind = "revert",
                                  !.seen = [m \in Modules |-> IF m \in Tracked THEN disk[m] ELSE None]]
    /\ op' = Restoring({m \in Tracked : known[m] # disk[m]})
    /\ UNCHANGED <<disk, tx, baseline, known, steps, strange, due, used>>

\* revert(), fresh: the drift shown is the drift observed, and each tracked path's state is recorded.
\* A refused own step calls it with whatever drift there is.
Revert ==
    /\ op.pc \in {"idle", "refusing"} /\ tx # "none" /\ intent = NoIntent
    /\ intent' = [NoIntent EXCEPT !.kind = "revert",
                                  !.seen = [m \in Modules |-> IF m \in Tracked THEN disk[m] ELSE None]]
    /\ op' = Restoring(Tracked)
    /\ UNCHANGED <<disk, tx, baseline, known, steps, strange, due, used>>

ResumeRevert ==
    /\ op.pc = "idle" /\ intent.kind = "revert"
    /\ op' = Restoring(Tracked)
    /\ UNCHANGED <<disk, journal, strange, due, used>>

\* The content a restore puts back.
ImageOf(m) == IF op.pc = "unwinding" THEN Numbered(op.at).image[m].before
              ELSE IF intent.kind = "revert" THEN baseline[m]
              ELSE Numbered(intent.no).image[m].before

\* restoreAll(): a revert restores a path only in its recorded state or already at its baseline.
Movable(m) == intent.kind = "revert" => disk[m] \in {intent.seen[m], baseline[m]}

Restore(m) ==
    /\ op.pc = "restoring" /\ op.cur = None /\ m \in op.todo
    /\ Movable(m)
    /\ disk' = [disk EXCEPT ![m] = ImageOf(m)]
    /\ op' = [op EXCEPT !.cur = m, !.todo = @ \ {m}]
    /\ UNCHANGED <<journal, strange, due, used>>

Conflict(m) ==
    /\ op.pc = "restoring" /\ op.cur = None /\ m \in op.todo
    /\ ~ Movable(m)
    /\ op' = [op EXCEPT !.clash = TRUE, !.todo = @ \ {m}]
    /\ UNCHANGED <<disk, journal, strange, due, used>>

\* A directory, a guarded file or a disk error is in the way.
RestoreFails(m) ==
    /\ op.pc = "restoring" /\ op.cur = None /\ m \in op.todo
    /\ Spend("faults", MaxFaults)
    /\ op' = [op EXCEPT !.clash = TRUE, !.todo = @ \ {m}]
    /\ UNCHANGED <<disk, journal, strange, due>>

\* Mutant of Remember: the known state is left as it was.
RememberNothing ==
    /\ op.cur # None
    /\ op' = [op EXCEPT !.cur = None]
    /\ UNCHANGED <<disk, journal, strange, due, used>>

\* rememberRestored(): what was put back is the known state.
Remember ==
    /\ op.cur # None
    /\ Know(op.cur, ImageOf(op.cur))
    /\ op' = [op EXCEPT !.cur = None]
    /\ UNCHANGED <<disk, tx, baseline, steps, intent, due, used>>

RestoresOver == op.pc = "restoring" /\ op.cur = None /\ op.todo = {}

\* Restores in the way: the intent stays.  An own step whose undo got stuck settles by recovery.
Unrestored ==
    /\ RestoresOver /\ op.clash
    /\ op' = IF op.then = "step" /\ op.hold = "own" /\ intent.kind = "undo" THEN StartRecovery
             ELSE Idle
    /\ UNCHANGED <<disk, journal, strange, due, used>>

\* Mutant of FinalizeUndo: conflicts do not keep the intent.
FinalizeUndoAnyway ==
    /\ RestoresOver /\ intent.kind = "undo"
    /\ steps' = Without(intent.no)
    /\ intent' = NoIntent
    /\ op' = AfterUndo
    /\ UNCHANGED <<disk, tx, baseline, known, strange, due, used>>

\* Mutant of FinalizeUndo: the intent outlives its step.
FinalizeUndoKeepingIntent ==
    /\ RestoresOver /\ ~ op.clash /\ intent.kind = "undo"
    /\ steps' = Without(intent.no)
    /\ op' = AfterUndo
    /\ UNCHANGED <<disk, tx, baseline, known, intent, strange, due, used>>

\* finalizeUndo(): the step and its intent go in one journal write.  A refused own step then awaits
\* the reindex of what was put back, and reverts its transaction.
FinalizeUndo ==
    /\ RestoresOver /\ ~ op.clash /\ intent.kind = "undo"
    /\ steps' = Without(intent.no)
    /\ intent' = NoIntent
    /\ op' = AfterUndo
    /\ UNCHANGED <<disk, tx, baseline, known, strange, due, used>>

\* finalizeRevert(): the transaction settles as reverted.
FinalizeRevert ==
    /\ RestoresOver /\ ~ op.clash /\ intent.kind = "revert"
    /\ Drop
    /\ op' = Idle
    /\ UNCHANGED <<disk, strange, used>>

-----------------------------------------------------------------------------
(***************************************************************************)
(* recover(): a pending intent first, or the unfinished steps newest first *)
(***************************************************************************)
RecoverIntent ==
    /\ op.pc = "recovering" /\ intent # NoIntent
    /\ op' = Restoring(IF intent.kind = "revert" THEN Tracked ELSE ToRestore(Numbered(intent.no)))
    /\ UNCHANGED <<disk, journal, strange, due, used>>

ToUnwind == {no \in Unfinished : no < op.at}

UnwindStep ==
    /\ op.pc = "recovering" /\ intent = NoIntent /\ ToUnwind # {}
    /\ op' = [op EXCEPT !.pc = "unwinding", !.at = Max(ToUnwind), !.clash = FALSE,
                        !.todo = ToRestore(Numbered(Max(ToUnwind)))]
    /\ UNCHANGED <<disk, journal, strange, due, used>>

Unwinding(m) == op.pc = "unwinding" /\ op.cur = None /\ m \in op.todo

\* The step's output on disk, and not its before-image.
OutputOnDisk(image, m) == image.after # None /\ disk[m] = image.after /\ disk[m] # image.before

\* Mutant of UnwindFound: the loop does not get past a module it finds restored.
UnwindFoundAgain(m) ==
    /\ Unwinding(m)
    /\ disk[m] = ImageOf(m)
    /\ Know(m, disk[m])
    /\ UNCHANGED <<disk, tx, baseline, steps, intent, op, due, used>>

\* Already at the before-image.
UnwindFound(m) ==
    /\ Unwinding(m)
    /\ disk[m] = ImageOf(m)
    /\ Know(m, disk[m])
    /\ op' = [op EXCEPT !.todo = @ \ {m}]
    /\ UNCHANGED <<disk, tx, baseline, steps, intent, due, used>>

UnwindRestore(m) ==
    /\ Unwinding(m)
    /\ OutputOnDisk(Numbered(op.at).image[m], m)
    /\ disk' = [disk EXCEPT ![m] = ImageOf(m)]
    /\ op' = [op EXCEPT !.cur = m, !.todo = @ \ {m}]
    /\ UNCHANGED <<journal, strange, due, used>>

\* Neither image: a conflict, and it stays on disk.
UnwindConflict(m) ==
    /\ Unwinding(m)
    /\ disk[m] # ImageOf(m) /\ ~ OutputOnDisk(Numbered(op.at).image[m], m)
    /\ op' = [op EXCEPT !.todo = @ \ {m}]
    /\ UNCHANGED <<disk, journal, strange, due, used>>

\* A disk error keeps the step for the next recovery.
UnwindFails(m) ==
    /\ Unwinding(m)
    /\ Spend("faults", MaxFaults)
    /\ op' = [op EXCEPT !.clash = TRUE, !.todo = @ \ {m}]
    /\ UNCHANGED <<disk, journal, strange, due>>

\* A path in the way is reported as a conflict, and the step is dropped all the same.
UnwindBlocked(m) ==
    /\ Unwinding(m)
    /\ OutputOnDisk(Numbered(op.at).image[m], m)
    /\ Spend("faults", MaxFaults)
    /\ op' = [op EXCEPT !.todo = @ \ {m}]
    /\ strange' = strange \cup {m}
    /\ UNCHANGED <<disk, journal, due>>

UnwindOver ==
    /\ op.pc = "unwinding" /\ op.cur = None /\ op.todo = {}
    /\ steps' = IF op.clash THEN steps ELSE Without(op.at)
    /\ op' = [op EXCEPT !.pc = "recovering", !.clash = FALSE, !.kept = @ \/ op.clash]
    /\ UNCHANGED <<disk, tx, baseline, known, intent, strange, due, used>>

\* Mutant of RecoverEnd: an own transaction is left open.
RecoverEndLeavingOwn ==
    /\ op.pc = "recovering" /\ intent = NoIntent /\ ToUnwind = {}
    /\ op' = Idle
    /\ UNCHANGED <<disk, journal, strange, due, used>>

\* Nobody holds an own transaction after this: it is closed unless a disk error kept a step.
RecoverEnd ==
    /\ op.pc = "recovering" /\ intent = NoIntent /\ ToUnwind = {}
    /\ IF tx = "own" /\ ~ op.kept THEN Drop ELSE UNCHANGED <<journal, due>>
    /\ op' = Idle
    /\ UNCHANGED <<disk, strange, used>>

-----------------------------------------------------------------------------
\* A client asks, and the gate is free.
Request ==
    /\ op.pc = "idle"
    /\ \/ Start \/ Commit \/ Undo \/ ResumeUndo \/ Revert \/ ResumeRevert
       \/ \E m \in Modules : Track(m) \/ NoteWrite(m) \/ \E c \in Contents \ {disk[m]} : WriteFile(m, c)
       \/ \E text \in [Modules -> Texts \cup {None}] : text # NoRows /\ OpenStep(text)

\* What the daemon does next of an operation it is in.
Proceed ==
    \/ RefusePlan \/ \E mods \in SUBSET Modules : BeginStep(mods)
    \/ NotAsPlanned \/ FixWritten(TRUE) \/ FixWritten(FALSE) \/ Finalize \/ CommitOwn
    \/ op.pc = "releasing" /\ (Undo \/ ResumeUndo)
    \/ op.pc = "refusing" /\ Revert
    \/ UndoRefused \/ Remember \/ Unrestored \/ FinalizeUndo \/ FinalizeRevert
    \/ RecoverIntent \/ UnwindStep \/ UnwindOver \/ RecoverEnd
    \/ \E m \in Modules :
          \/ PutFile(m) \/ NoteKnown(m)
          \/ JournalImage(m) \/ WriteModule(m) \/ WriteRefused(m) \/ RestampAfter(m) \/ CompleteModule(m)
          \/ Release(m) \/ Restore(m) \/ Conflict(m)
          \/ UnwindFound(m) \/ UnwindRestore(m) \/ UnwindConflict(m)

Fault ==
    \/ PutThrows \/ StepThrows
    \/ \E m \in Modules : WriteThrows(m) \/ RestoreFails(m) \/ UnwindFails(m) \/ UnwindBlocked(m)

Next ==
    \/ Request \/ Proceed \/ Fault \/ Crash \/ Startup
    \/ \E m \in Modules, c \in Contents : Save(m, c)

Spec == Init /\ [][Next]_vars

\* The daemon goes on with what it does (a reindex is bounded by its own timeouts), and a client
\* starts another when it is gone.  Nobody has to ask it for anything.
FairSpec == Spec /\ WF_vars(Proceed) /\ WF_vars(Startup)

-----------------------------------------------------------------------------
(***************************************************************************)
(* Properties                                                              *)
(***************************************************************************)
\* Revert can put back whatever the transaction wrote or was asked to hold: those files are tracked,
\* whatever was released, undone or lost to a crash in between (architecture.md "Gated writes").
WrittenIsTracked == tx # "none" => due \subseteq Tracked

\* A step that did not write a module does not leave it tracked, or Revert would erase later edits to
\* it (refactorStep.ts:258).  A crash or fault may: recovery leaves the baselines it finds.
NothingElseTracked ==
    op.pc = "idle" /\ used["crashes"] = 0 /\ used["faults"] = 0 => Tracked \subseteq due

\* Between requests, with no step unfinished and no recovery pending, the known state of a tracked
\* file is what it holds, unless an editor saved it unnoted or a crash cut a gated write from its
\* note: drift is never the daemon's own work (transactions.ts:419, 875, 1521).
KnownIsOnDisk ==
    op.pc = "idle" /\ intent = NoIntent /\ Unfinished = {} =>
        \A m \in Tracked \ strange : known[m] = disk[m]

\* An own step, or a recovery, that is over leaves no own transaction open, except for a recovery
\* still pending or a step kept for one (architecture.md "Recovery and paths").
OwnIsSettled ==
    [][(op.then = "recover" \/ op.hold = "own") /\ op'.pc = "idle" /\ tx' = "own" =>
          intent' # NoIntent \/ Unfinished' # {}]_vars

\* An undo intent names a step of the journal, so it can always be resumed.
IntentHasItsStep == intent.kind = "undo" => \E s \in ToSet(steps) : s.no = intent.no

\* A finished Undo has put back every file the step wrote, across crashes and retries, but for those
\* saved since (transactions.ts:1012-1061).
UndoRestores ==
    [][intent.kind = "undo" /\ intent' = NoIntent =>
          \A m \in ToRestore(Numbered(intent.no)) \ strange :
              disk[m] = Numbered(intent.no).image[m].before]_vars

\* A finished Revert has put back every tracked file, likewise (transactions.ts:1064-1114).
RevertRestores ==
    [][intent.kind = "revert" /\ intent' = NoIntent => \A m \in Tracked \ strange : disk[m] = baseline[m]]_vars

\* Every request is answered and every recovery ends, from wherever the daemon died.
AlwaysAnswered == op.pc # "idle" ~> op.pc = "idle"

(***************************************************************************)
(* With no other writer of the files, a transaction implements AtomicSteps *)
(* across crashes.  A step counts once it is finalized, an Undo or Revert  *)
(* once its intent is journaled; an own transaction is its one step.       *)
(***************************************************************************)
Recorded(step) == [m \in Modules |-> IF m \in ToRestore(step) THEN step.image[m].before ELSE None]

\* The newest step is unfinished or being undone; no older one is.
Untaken == steps # <<>> /\ (~ Top.done \/ (intent.kind = "undo" /\ intent.no = Top.no))
Taken   == IF Untaken THEN Front(steps) ELSE steps

Shown(m) ==
    IF intent.kind = "revert" THEN IF m \in Tracked THEN baseline[m] ELSE disk[m]
    ELSE IF Untaken /\ m \in ToRestore(Top) THEN Top.image[m].before
         ELSE disk[m]

\* The new content the request under way gives a file: the plan's, then the journaled one.
Asked(m) ==
    IF op.pc \in {"putting", "checked", "journaling", "writing"} /\ op.text[m] # Shown(m) THEN op.text[m]
    ELSE IF op.pc \in {"restamping", "settling", "finishing"} /\ m \in ToRestore(Top) THEN Top.image[m].after
    ELSE None

InTx    == tx = "explicit" /\ intent.kind # "revert"
Files   == [m \in Modules |-> Shown(m)]
Opening == IF InTx THEN baseline ELSE NoRows
Stack   == IF InTx THEN [i \in 1..Len(Taken) |-> Recorded(Taken[i])] ELSE <<>>
Asking  == [m \in Modules |-> Asked(m)]

Atomic == INSTANCE AtomicSteps
    WITH files <- Files, open <- InTx, opening <- Opening, stack <- Stack, asked <- Asking

ImplementsAtomicSteps == Atomic!Spec

\* The doc of undo() (transactions.ts:1011): it restores the newest step.
UndoTakesTheNewest ==
    [][intent.kind = "undo" /\ intent' = NoIntent => intent.no = Top.no]_vars

\* "A file matching neither image cannot be safely restored" (refactorStep.ts:267): refusing an own
\* step never replaces what an editor saved since the step wrote the file.
RefusalKeepsSaves ==
    [][op.then = "step" /\ intent.kind = "revert" /\ op'.cur \in strange \ {op.cur} =>
          disk[op'.cur] = baseline[op'.cur]]_vars
=============================================================================
