------------------------ MODULE RefactorJournal_proofs ------------------------
(***************************************************************************)
(* What the refactor journal promises of the files, for any files,         *)
(* contents, saves, requests, deaths and failed writes.                    *)
(*                                                                         *)
(* The argument has six layers over Shape, each proved on top of the ones  *)
(* before it that it needs.                                                *)
(*   Tracking: what was written is tracked, and what a failed step         *)
(*             releases was claimed by that step and never written.        *)
(*   Clean:    without a death or a fault, what is tracked was written, or *)
(*             is about to be, or is about to be released.                 *)
(*   Disk and  what each phase knows of the files, and that a tracked file *)
(*   Drift:    differs from its known state only as far as an editor, the  *)
(*             operation under way, a step not finished or an undo not     *)
(*             completed accounts for it.                                  *)
(*   Kept:     a step that recovery could not unwind is still there.       *)
(*   Quiet:    with no other writer and no failure, only the newest step   *)
(*             is ever in between, and each of its files holds one of its  *)
(*             two contents, by how far the step is.                       *)
(*   Atomic:   then every step of the journal is one of AtomicSteps, or    *)
(*             shows nothing.                                              *)
(***************************************************************************)
EXTENDS RefactorShape_proofs

-----------------------------------------------------------------------------
(***************************************************************************)
(* The invariants                                                          *)
(***************************************************************************)
\* Whatever was written, or has an image in the journal, is tracked; `fresh` is what the step under
\* way claimed itself.
TrackingInv ==
    /\ due \subseteq Tracked
    /\ \A s \in ToSet(steps) : Covered(s) \subseteq Tracked
    /\ op.pc \in {"putting", "noting"} /\ tx # "none" => op.todo \subseteq Tracked
    /\ op.pc = "noting" => op.todo \subseteq due
    /\ op.pc = "journaling" => op.todo \ op.fresh \subseteq Tracked
    /\ op.pc \in {"journaling", "writing", "releasing"} => \A s \in Below : Covered(s) \cap op.fresh = {}
    /\ op.pc = "journaling" => op.fresh \cap due = {} /\ op.fresh \subseteq op.todo \cup Planned
    /\ op.pc = "writing" => /\ op.fresh \cap due \subseteq Written \ op.todo
                            /\ op.fresh \subseteq Planned
                            /\ Written \ op.todo \subseteq due
    /\ op.pc = "releasing" => op.fresh \cap op.todo \cap due = {}

\* What the operation under way has claimed and not yet written.
Claimed ==
    IF op.pc = "putting" THEN op.todo
    ELSE IF op.pc \in {"journaling", "writing"} THEN op.fresh
    ELSE IF op.pc = "releasing" THEN op.fresh \cap op.todo
    ELSE IF op.pc \in {"restamping", "settling", "finishing"} THEN Planned
    ELSE {}

CleanInv == used["crashes"] = 0 /\ used["faults"] = 0 => Tracked \subseteq due \cup Claimed

Known(m) == known[m] = disk[m]
Steady   == Tracked \ strange

\* The step s accounts for what m holds: it is not finished, or it is being undone.
Excuses(s, m) ==
    /\ m \in ToRestore(s)
    /\ \/ ~ s.done /\ disk[m] \in {s.image[m].before, s.image[m].after}
       \/ intent.kind = "undo" /\ s.no = intent.no

Explained(m)        == Known(m) \/ \E s \in ToSet(steps) : Excuses(s, m)
ExplainedBut(m, no) == Known(m) \/ \E s \in ToSet(steps) : s.no # no /\ Excuses(s, m)

\* Every difference between a steady file and its known state is accounted for.
AllExplained == \A m \in Steady : Explained(m) \/ (op.pc = "noting" /\ m \in op.todo)

\* And not by a step that is done with the file, or has not come to it.
PhaseDrift ==
    /\ op.pc = "journaling" => \A m \in Steady : ExplainedBut(m, Top.no)
    /\ op.pc = "writing" => \A m \in Steady \ (Written \ op.todo) : ExplainedBut(m, Top.no)
    /\ op.pc = "releasing" => \A m \in Steady \cap op.todo : ExplainedBut(m, Top.no)
    /\ op.pc \in {"settling", "finishing"} =>
          \A m \in (Steady \cap Planned) \ op.todo : Known(m)
    /\ op.pc = "restoring" /\ intent.kind = "undo" /\ ~ op.clash =>
          \A s \in ToSet(steps) : s.no = intent.no =>
              \A m \in (Steady \cap ToRestore(s)) \ Handled : Known(m)
    /\ op.pc = "unwinding" /\ ~ op.clash =>
          \A s \in ToSet(steps) : s.no = op.at =>
              \A m \in (Steady \cap ToRestore(s)) \ Handled : ExplainedBut(m, op.at)

DriftInv == intent.kind # "revert" => AllExplained /\ PhaseDrift

\* What each phase knows of the files no editor has touched.
DiskInv ==
    /\ op.pc = "noting" => tx # "none" /\ \A m \in op.todo \ strange : disk[m] = op.text[m]
    /\ op.pc = "journaling" =>
          /\ \A m \in op.todo \ strange : disk[m] = op.before[m]
          /\ \A m \in Planned \ strange : disk[m] = Top.image[m].before
    /\ op.pc \in {"journaling", "writing"} => \A m \in Planned \ Written :
          Top.image[m].after = IF Top.image[m].before = Absent THEN None ELSE Top.image[m].before
    /\ op.pc = "writing" =>
          /\ \A m \in Planned \ (strange \cup (Written \ op.todo)) : disk[m] = Top.image[m].before
          /\ \A m \in Written \ (strange \cup op.todo) : disk[m] = op.text[m]
    /\ op.pc \in {"restamping", "settling"} =>
          \A m \in Planned \ strange : Top.image[m].after # None => disk[m] = Top.image[m].after
    /\ op.pc = "restoring" /\ intent.kind = "undo" /\ ~ op.clash =>
          \A s \in ToSet(steps) : s.no = intent.no =>
              \A m \in ToRestore(s) \ (strange \cup op.todo) : disk[m] = s.image[m].before
    /\ op.pc = "restoring" /\ intent.kind = "revert" /\ ~ op.clash =>
          \A m \in Tracked \ (strange \cup op.todo) : disk[m] = baseline[m]
    /\ op.cur \notin strange \cup {None} => disk[op.cur] = ImageOf(op.cur)

\* A step that a disk error kept is numbered above those still to be unwound.
KeptInv ==
    op.kept => /\ op.pc = "recovering" => \E s \in ToSet(steps) : ~ s.done /\ s.no >= op.at
               /\ op.pc = "unwinding" => \E s \in ToSet(steps) : ~ s.done /\ s.no > op.at

-----------------------------------------------------------------------------
(***************************************************************************)
(* Tracking                                                                *)
(***************************************************************************)
\* Which files are tracked after each action that writes a baseline.
LEMMA TrackedAfter ==
  ASSUME Shape, NEW m \in Modules
  PROVE  /\ Track(m) => Tracked' = Tracked \cup {m}
         /\ JournalImage(m) => Tracked' = Tracked \cup {m}
         /\ \A c \in Contents : WriteFile(m, c) =>
               Tracked' = IF tx = "none" THEN Tracked ELSE Tracked \cup {m}
         /\ Release(m) => Tracked' = IF m \in op.fresh THEN Tracked \ {m} ELSE Tracked
<1>0. baseline \in [Modules -> Rows]
  BY DEF Shape, TypeOK
<1>1. disk[m] # None /\ (JournalImage(m) => op.before[m] # None)
  BY NotedTyped, ConstantsAssumption DEF Contents
<1>2. baseline' = [baseline EXCEPT ![m] = disk[m]] => Tracked' = Tracked \cup {m}
  BY <1>0, <1>1 DEF Tracked
<1>3. baseline' = baseline => Tracked' = Tracked
  BY DEF Tracked
<1>4. Track(m) => Tracked' = Tracked \cup {m}
  BY <1>2 DEF Track, ClaimBaseline
<1>5. ASSUME JournalImage(m) PROVE Tracked' = Tracked \cup {m}
  <2>1. \/ baseline' = [baseline EXCEPT ![m] = op.before[m]]
        \/ baseline' = baseline /\ m \in Tracked
    BY <1>5 DEF JournalImage, ClaimBaseline, Tracked
  <2> QED
    BY <1>0, <1>1, <1>3, <1>5, <2>1 DEF Tracked
<1>6. ASSUME NEW c \in Contents, WriteFile(m, c)
      PROVE  Tracked' = IF tx = "none" THEN Tracked ELSE Tracked \cup {m}
  <2>1. \/ tx # "none" /\ baseline' = [baseline EXCEPT ![m] = disk[m]]
        \/ tx # "none" /\ baseline' = baseline /\ m \in Tracked
        \/ tx = "none" /\ baseline' = baseline
    BY <1>6 DEF WriteFile, ClaimBaseline, Tracked
  <2> QED
    BY <1>2, <1>3, <2>1
<1>7. Release(m) => Tracked' = IF m \in op.fresh THEN Tracked \ {m} ELSE Tracked
  BY <1>0, <1>3 DEF Release, Tracked
<1> QED
  BY <1>4, <1>5, <1>6, <1>7

\* A dropped transaction tracks nothing and owes nothing.
LEMMA DropEmpties ==
  ASSUME Drop
  PROVE  Tracked' = {} /\ due' = {} /\ steps' = <<>> /\ ToSet(steps') = {}
<1>1. Tracked' = {} /\ due' = {} /\ steps' = <<>>
  BY DEF Drop, Tracked, NoRows
<1> QED
  BY <1>1, EmptySeq DEF ToSet

\* A tracked file stays tracked, but for drop() and a release.
LEMMA StaysTracked ==
  ASSUME Shape, [Next]_vars
  PROVE  Tracked \subseteq Tracked' \/ Drop \/ \E m \in Modules : Release(m)
<1>1. UNCHANGED baseline => Tracked' = Tracked
  BY DEF Tracked
<1> QED
  BY <1>1, WhoTracks, TrackedAfter

\* A release takes from what is tracked at most a module of the newest step that the step claimed.
LEMMA ReleaseTracked ==
  ASSUME Shape, TrackingInv, NEW m \in Modules, Release(m)
  PROVE  /\ due \subseteq Tracked'
         /\ \A s \in ToSet(steps') : Covered(s) \subseteq Tracked'
<1>1. /\ op.pc = "releasing" /\ m \in op.todo
  BY DEF Release
<1>2. /\ due \subseteq Tracked /\ \A s \in ToSet(steps) : Covered(s) \subseteq Tracked
      /\ \A s \in Below : Covered(s) \cap op.fresh = {}
      /\ op.fresh \cap op.todo \cap due = {}
  BY <1>1 DEF TrackingInv
<1>3. Tracked' = IF m \in op.fresh THEN Tracked \ {m} ELSE Tracked
  BY TrackedAfter
<1>4. ToSet(steps') = Below \cup {Top'} /\ Planned' = Planned \ {m} /\ steps # <<>>
  BY ImageReleased
<1>5. Top \in ToSet(steps) /\ Below \subseteq ToSet(steps) /\ TypeOK /\ Ascending(steps)
  BY <1>4, StepFacts DEF Shape, JournalShape, Below
<1>6. Covered(Top') = Planned' /\ Covered(Top) = Planned
  BY DEF Planned, Covered
<1> QED
  BY <1>1, <1>2, <1>3, <1>4, <1>5, <1>6

\* What the transaction must track is tracked after each step.
LEMMA DueTracked ==
  ASSUME Shape, [Next]_vars, TrackingInv
  PROVE  due' \subseteq Tracked'
<1>1. due \subseteq Tracked
  BY DEF TrackingInv
<1>2. CASE Drop
  BY <1>2, DropEmpties
<1>3. ASSUME NEW m \in Modules, Release(m) PROVE due' \subseteq Tracked'
  BY <1>3, ReleaseTracked DEF Release
<1>4. CASE Tracked \subseteq Tracked'
  <2>1. CASE UNCHANGED due
    BY <1>1, <1>4, <2>1
  <2>2. CASE PutThrows
    <3>1. op.pc = "putting" /\ (due' = due \/ (tx # "none" /\ due' = due \cup op.todo))
      BY <2>2 DEF PutThrows
    <3> QED
      BY <1>1, <1>4, <3>1 DEF TrackingInv
  <2>3. CASE Finalize
    <3>1. due' = due \cup Planned /\ steps # <<>> /\ TypeOK /\ Ascending(steps)
      BY <2>3, TopFinalized DEF Finalize, Shape, JournalShape
    <3>2. Planned \subseteq Tracked
      BY <3>1, StepFacts DEF TrackingInv, Planned
    <3> QED
      BY <1>1, <1>4, <3>1, <3>2
  <2>4. ASSUME NEW m \in Modules, Track(m) PROVE due' \subseteq Tracked'
    BY <1>1, <2>4, TrackedAfter DEF Track
  <2>5. ASSUME NEW m \in Modules, PutFile(m) PROVE due' \subseteq Tracked'
    BY <1>1, <1>4, <2>5 DEF PutFile, TrackingInv
  <2>6. ASSUME NEW m \in Modules, WriteModule(m) \/ WriteThrows(m) PROVE due' \subseteq Tracked'
    <3>1. op.pc = "writing" /\ m \in op.todo /\ due' = due \cup {m}
      BY <2>6 DEF WriteModule, WriteThrows
    <3>2. m \in Planned /\ steps # <<>> /\ TypeOK /\ Ascending(steps)
      BY <3>1 DEF Shape, JournalShape, OpShape, PhaseShape, Stepping
    <3>3. m \in Tracked
      BY <3>2, StepFacts DEF TrackingInv, Planned
    <3> QED
      BY <1>1, <1>4, <3>1, <3>3
  <2> QED
    BY <1>2, <2>1, <2>2, <2>3, <2>4, <2>5, <2>6, WhoOwes
<1> QED
  BY <1>2, <1>3, <1>4, StaysTracked

\* Every module with an image in the journal is tracked.
LEMMA ImagesTracked ==
  ASSUME Shape, [Next]_vars, TrackingInv
  PROVE  \A s \in ToSet(steps') : Covered(s) \subseteq Tracked'
<1> DEFINE Goal == \A s \in ToSet(steps') : Covered(s) \subseteq Tracked'
<1>0. TypeOK /\ Ascending(steps) /\ \A s \in ToSet(steps) : Covered(s) \subseteq Tracked
  BY DEF Shape, JournalShape, TrackingInv
<1>1. CASE Drop
  BY <1>1, DropEmpties
<1>2. ASSUME NEW m \in Modules, Release(m) PROVE Goal
  BY <1>2, ReleaseTracked
<1>3. ASSUME Tracked \subseteq Tracked', ToSet(steps') \subseteq ToSet(steps) PROVE Goal
  BY <1>0, <1>3
<1>4. ASSUME Tracked \subseteq Tracked', steps # <<>>, ToSet(steps') = Below \cup {Top'}, Planned' \subseteq Tracked'
      PROVE  Goal
  BY <1>0, <1>4 DEF Planned, Below
<1>5. steps # <<>> => Planned \subseteq Tracked
  BY <1>0, StepFacts DEF Planned
<1>6. ASSUME Finalize, Tracked \subseteq Tracked' PROVE Goal
  BY <1>4, <1>5, <1>6, TopFinalized
<1>7. ASSUME FinalizeUndo \/ UnwindOver, Tracked \subseteq Tracked' PROVE Goal
  BY <1>0, <1>3, <1>7, Restored, StepDropped DEF FinalizeUndo, UnwindOver
<1>8. ASSUME NEW mods \in SUBSET Modules, BeginStep(mods), Tracked \subseteq Tracked' PROVE Goal
  BY <1>0, <1>8, TopBegun DEF Planned
<1>9. ASSUME NEW m \in Modules, JournalImage(m), Tracked \subseteq Tracked' PROVE Goal
  BY <1>4, <1>5, <1>9, ImageJournaled, TrackedAfter
<1>10. ASSUME NEW m \in Modules, RestampAfter(m) \/ CompleteModule(m), Tracked \subseteq Tracked' PROVE Goal
  BY <1>4, <1>5, <1>10, ImageStamped
<1> QED
  BY <1>1, <1>2, <1>3, <1>6, <1>7, <1>8, <1>9, <1>10, StaysTracked, WhoJournals

\* What a gated write still has to write or note is tracked.
LEMMA GatedTracked ==
  ASSUME Shape, [Next]_vars, TrackingInv, op'.pc \in {"putting", "noting"}
  PROVE  (tx' # "none" => op'.todo \subseteq Tracked') /\ (op'.pc = "noting" => op'.todo \subseteq due')
<1>0. op \in Ops
  BY DEF Shape, TypeOK
<1>1. CASE Still
  BY <1>1 DEF Still, Save, vars, journal, TrackingInv, Tracked
<1>2. ASSUME NEW m \in Modules, NEW c \in Contents, WriteFile(m, c)
      PROVE  tx' # "none" => op'.todo \subseteq Tracked'
  <2>1. tx' = tx /\ op'.todo = {m}
    BY <1>2 DEF WriteFile, Idle
  <2> QED
    BY <1>2, <2>1, TrackedAfter
<1>3. ASSUME NEW m \in Modules, PutFile(m), op'.pc = "noting"
      PROVE  op'.todo \subseteq Tracked' /\ op'.todo \subseteq due'
  <2>1. /\ op.pc = "putting" /\ m \in op.todo /\ tx # "none" /\ op'.todo = op.todo /\ due' = due \cup {m}
        /\ baseline' = baseline
    BY <1>0, <1>3, Fields DEF PutFile, journal, Ops
  <2>2. \E n \in Modules : op.todo = {n}
    BY <2>1 DEF Shape, OpShape
  <2> QED
    BY <2>1, <2>2 DEF TrackingInv, Tracked
<1>4. ASSUME op'.pc = "putting" PROVE op'.pc # "noting"
  BY <1>4
<1> QED
  BY <1>1, <1>2, <1>3, <1>4, IntoPutting, IntoNoting

\* What a step claims it has not written, and no step under it has an image of it.
LEMMA StepTracked ==
  ASSUME Shape, [Next]_vars, TrackingInv, op'.pc \in {"journaling", "writing", "releasing"}
  PROVE  TrackingInv'
<1>0. op \in Ops
  BY DEF Shape, TypeOK
<1>a. due' \subseteq Tracked' /\ \A s \in ToSet(steps') : Covered(s) \subseteq Tracked'
  BY DueTracked, ImagesTracked
<1>1. CASE Still
  BY <1>1 DEF Still, Save, vars, journal, TrackingInv, Tracked, Below, Top, Planned, Written
<1>2. ASSUME NEW mods \in SUBSET Modules, BeginStep(mods) PROVE TrackingInv'
  <2>1. op'.pc = "journaling" /\ op'.todo = mods /\ op'.fresh = mods \ Tracked /\ due' = due /\ Tracked' = Tracked
    BY <1>0, <1>2 DEF BeginStep, Ops, Tracked
  <2>2. Below' = ToSet(steps) /\ Planned' = {}
    BY <1>2, TopBegun
  <2> QED
    BY <1>a, <2>1, <2>2 DEF TrackingInv
<1>3. ASSUME NEW m \in Modules, JournalImage(m) PROVE TrackingInv'
  <2>1. /\ op.pc = "journaling" /\ m \in op.todo /\ op'.fresh = op.fresh /\ due' = due /\ op'.text = op.text
        /\ \/ op'.pc = "journaling" /\ op'.todo = op.todo \ {m}
           \/ op'.pc = "writing" /\ op.todo = {m} /\ op'.todo = Written
    BY <1>0, <1>3 DEF JournalImage, Ops
  <2>2. Below' = Below /\ Planned' = Planned \cup {m} /\ Tracked' = Tracked \cup {m} /\ Written' = Written
    BY <1>3, <2>1, ImageJournaled, TrackedAfter DEF Written
  <2>3. /\ \A s \in Below : Covered(s) \cap op.fresh = {}
        /\ op.fresh \cap due = {} /\ op.fresh \subseteq op.todo \cup Planned
        /\ op.todo \ op.fresh \subseteq Tracked
    BY <2>1 DEF TrackingInv
  <2> QED
    BY <1>a, <2>1, <2>2, <2>3 DEF TrackingInv
<1>4. ASSUME NEW m \in Modules, WriteModule(m) PROVE TrackingInv'
  <2>1. /\ op.pc = "writing" /\ m \in op.todo /\ op'.fresh = op.fresh /\ due' = due \cup {m} /\ op'.text = op.text
        /\ op'.pc = "writing" /\ op'.todo = op.todo \ {m} /\ steps' = steps
    BY <1>0, <1>4 DEF WriteModule, Ops, journal
  <2>2. Below' = Below /\ Planned' = Planned /\ Written' = Written
    BY <2>1 DEF Below, Planned, Top, Written
  <2>3. m \in Written
    BY <2>1 DEF Shape, PhaseShape
  <2> QED
    BY <1>a, <2>1, <2>2, <2>3 DEF TrackingInv
<1>5. ASSUME NotAsPlanned \/ \E m \in Modules : WriteRefused(m) \/ WriteThrows(m) PROVE TrackingInv'
  <2>1. \E landed, threw : /\ op.pc = "writing" /\ op' = Fail(landed, threw) /\ steps' = steps
                            /\ Written \ op.todo \subseteq landed
                            /\ due' = due \cup threw
    <3>1. ASSUME NotAsPlanned
          PROVE  op.pc = "writing" /\ op' = Fail(Written, {}) /\ steps' = steps /\ due' = due
      BY <3>1 DEF NotAsPlanned, journal
    <3>2. ASSUME NEW m \in Modules, WriteRefused(m)
          PROVE  op.pc = "writing" /\ op' = Fail(Written \ op.todo, {}) /\ steps' = steps /\ due' = due
      BY <3>2 DEF WriteRefused, journal
    <3>3. ASSUME NEW m \in Modules, WriteThrows(m)
          PROVE  op.pc = "writing" /\ op' = Fail(Written \ op.todo, {m}) /\ steps' = steps /\ due' = due \cup {m}
      BY <3>3 DEF WriteThrows, journal
    <3>4. due = due \cup {} /\ Written \ op.todo \subseteq Written
      OBVIOUS
    <3> QED
      BY <1>5, <3>1, <3>2, <3>3, <3>4
  <2>5. PICK landed, threw : /\ op.pc = "writing" /\ op' = Fail(landed, threw) /\ steps' = steps
                             /\ Written \ op.todo \subseteq landed
                             /\ due' = due \cup threw
    BY <2>1
  <2>2. op'.pc = "releasing" /\ op'.fresh = op.fresh /\ op'.todo = Planned \ (landed \cup threw)
    BY <2>5 DEF Fail, Idle
  <2>3. Below' = Below
    BY <2>5 DEF Below, Top
  <2> QED
    BY <1>a, <2>5, <2>2, <2>3 DEF TrackingInv
<1>6. ASSUME NEW m \in Modules, Release(m) PROVE TrackingInv'
  <2>1. /\ op.pc = "releasing" /\ op'.pc = "releasing" /\ op'.fresh = op.fresh /\ op'.todo = op.todo \ {m}
        /\ due' = due
    BY <1>0, <1>6 DEF Release, Ops
  <2>2. Below' = Below
    BY <1>6, ImageReleased
  <2> QED
    BY <1>a, <2>1, <2>2 DEF TrackingInv
<1> QED
  BY <1>1, <1>2, <1>3, <1>4, <1>5, <1>6, IntoJournaling, IntoWriting, IntoReleasing

\* TrackingInv is inductive on top of Shape.
LEMMA TrackingKept ==
  ASSUME Shape, [Next]_vars, TrackingInv
  PROVE  TrackingInv'
<1>1. due' \subseteq Tracked' /\ \A s \in ToSet(steps') : Covered(s) \subseteq Tracked'
  BY DueTracked, ImagesTracked
<1> QED
  BY <1>1, GatedTracked, StepTracked DEF TrackingInv

\* Nothing is tracked or owed at first.
LEMMA TrackingInit == Init => TrackingInv
<1> SUFFICES ASSUME Init PROVE TrackingInv
  OBVIOUS
<1>1. op.pc = "idle" /\ due = {} /\ ToSet(steps) = {}
  BY Fields, EmptySeq DEF Init, ToSet
<1> QED
  BY <1>1 DEF TrackingInv

\* Revert can put back whatever the transaction wrote or was asked to hold: those files are tracked,
\* whatever was released, undone or lost to a death in between.
THEOREM WritesAreTracked == Spec => []WrittenIsTracked
<1>1. TrackingInv /\ Shape /\ [Next]_vars => TrackingInv'
  BY TrackingKept
<1>2. TrackingInv => WrittenIsTracked
  BY DEF TrackingInv, WrittenIsTracked
<1> QED
  BY <1>1, <1>2, TrackingInit, ShapeCorrect, PTL DEF Spec

-----------------------------------------------------------------------------
(***************************************************************************)
(* Clean: nothing else is tracked                                          *)
(***************************************************************************)
\* No death and no fault so far.
Unharmed == used["crashes"] = 0 /\ used["faults"] = 0

\* A run that has had no death and no fault so far had none before.
LEMMA StaysUnharmed ==
  ASSUME Shape, [Next]_vars, Unharmed'
  PROVE  /\ Unharmed
         /\ ~ Crash /\ ~ PutThrows /\ ~ StepThrows
         /\ \A m \in Modules : ~ WriteThrows(m)
<1>0. used \in [Bounds -> Nat] /\ "crashes" \in Bounds /\ "faults" \in Bounds
  BY DEF Shape, TypeOK, Bounds
<1>1. ASSUME NEW max, Spend("crashes", max) PROVE FALSE
  <2>1. used'["crashes"] = used["crashes"] + 1
    BY <1>0, <1>1 DEF Spend
  <2> QED
    BY <1>0, <2>1 DEF Unharmed
<1>2. ASSUME NEW max, Spend("faults", max) PROVE FALSE
  <2>1. used'["faults"] = used["faults"] + 1
    BY <1>0, <1>2 DEF Spend
  <2> QED
    BY <1>0, <2>1 DEF Unharmed
<1>3. ASSUME NEW bound \in {"saves", "requests"}, NEW max, Spend(bound, max) PROVE Unharmed
  BY <1>0, <1>3 DEF Spend, Unharmed, Bounds
<1>4. ~ Crash
  BY <1>1 DEF Crash
<1>5. ~ PutThrows /\ ~ StepThrows
  BY <1>2 DEF PutThrows, StepThrows
<1>6. \A m \in Modules : ~ WriteThrows(m) /\ ~ RestoreFails(m) /\ ~ UnwindFails(m) /\ ~ UnwindBlocked(m)
  BY <1>2 DEF WriteThrows, RestoreFails, UnwindFails, UnwindBlocked
<1>7. Unharmed
  <2>1. UNCHANGED used => Unharmed
    BY DEF Unharmed
  <2>2. \A m \in Modules, c \in Contents : Save(m, c) \/ WriteFile(m, c) => Unharmed
    BY <1>3 DEF Save, WriteFile
  <2>3. \A m \in Modules : NoteWrite(m) => Unharmed
    BY <1>3 DEF NoteWrite
  <2>4. \A text \in [Modules -> Texts \cup {None}] : OpenStep(text) => Unharmed
    BY <1>3 DEF OpenStep
  <2> QED
    BY <1>4, <1>5, <1>6, <2>1, <2>2, <2>3, <2>4, WhoSpends
<1> QED
  BY <1>4, <1>5, <1>6, <1>7

\* What is tracked and not due, after a step, was so before, or the step claimed it.
LEMMA CleanOfGated ==
  ASSUME Shape, [Next]_vars, Unharmed', Tracked \subseteq due \cup Claimed,
         op'.pc \in {"idle", "down", "putting", "noting", "checked"}
  PROVE  Tracked' \subseteq due' \cup Claimed'
<1> DEFINE Goal == Tracked' \subseteq due' \cup Claimed'
<1>0. op \in Ops /\ Unharmed
  BY StaysUnharmed DEF Shape, TypeOK
<1>1. CASE Still
  BY <1>1 DEF Still, Save, vars, journal, Tracked, Claimed, Planned, Top
<1>2. CASE Drop
  BY <1>2, DropEmpties
<1>3. ASSUME baseline' = baseline, due \subseteq due', Claimed \subseteq due' PROVE Goal
  BY <1>3 DEF Tracked
<1>4. ASSUME NEW m \in Modules, NEW c \in Contents, WriteFile(m, c) PROVE Goal
  <2>1. op.pc = "idle" /\ op'.pc = "putting" /\ op'.todo = {m} /\ due' = due
    BY <1>4 DEF WriteFile, Idle
  <2> QED
    BY <1>4, <2>1, TrackedAfter DEF Claimed
<1>5. ASSUME NEW m \in Modules, PutFile(m) PROVE Goal
  <2>1. CASE tx = "none"
    <3>1. Tracked = {} /\ baseline' = baseline
      BY <1>5, <2>1 DEF PutFile, journal, Shape, JournalShape, Tracked, NoRows
    <3> QED
      BY <3>1 DEF Tracked
  <2>2. CASE tx # "none"
    <3>1. /\ op.pc = "putting" /\ m \in op.todo /\ due' = due \cup {m} /\ baseline' = baseline
      BY <1>5, <2>2 DEF PutFile, journal
    <3>2. op.todo = {m}
      BY <3>1 DEF Shape, OpShape
    <3> QED
      BY <1>3, <3>1, <3>2 DEF Claimed
  <2> QED
    BY <2>1, <2>2
<1>6. ASSUME NEW text \in [Modules -> Texts \cup {None}], OpenStep(text) PROVE Goal
  BY <1>3, <1>6 DEF OpenStep, Claimed
<1>7. ASSUME op'.pc \in {"idle", "down"} PROVE Goal
  <2>1. ASSUME Startup \/ RefusePlan \/ RecoverEnd \/ Commit \/ Start \/ Unrestored \/ FinalizeUndo PROVE Goal
    BY <1>2, <1>3, <2>1 DEF Startup, RefusePlan, RecoverEnd, Commit, Start, Unrestored, FinalizeUndo,
       RestoresOver, journal, Claimed
  <2>2. ASSUME UndoRefused PROVE Goal
    BY <1>3, <2>2 DEF UndoRefused, journal, Claimed
  <2>3. ASSUME Finalize PROVE Goal
    BY <1>3, <2>3 DEF Finalize, Claimed
  <2>4. ASSUME NEW m \in Modules, Track(m) PROVE Goal
    BY <2>4, TrackedAfter DEF Track, Claimed
  <2>5. ASSUME NEW m \in Modules, NoteWrite(m) \/ NoteKnown(m) PROVE Goal
    BY <1>3, <2>5 DEF NoteWrite, NoteKnown, Claimed
  <2>6. CommitOwn \/ FinalizeRevert => Drop
    BY DEF CommitOwn, FinalizeRevert
  <2> QED
    BY <1>1, <1>2, <1>5, <1>7, <2>1, <2>2, <2>3, <2>4, <2>5, <2>6, StaysUnharmed, PhaseAfter
       DEF Next, Request, Proceed, Fault, Still, vars, Save
<1> QED
  BY <1>1, <1>4, <1>5, <1>6, <1>7, IntoPutting, IntoNoting, IntoChecked

\* The phases of a step.
LEMMA CleanOfStep ==
  ASSUME Shape, [Next]_vars, TrackingInv, Unharmed', Tracked \subseteq due \cup Claimed,
         op'.pc \in Stepping \cup {"committing", "refusing"}
  PROVE  Tracked' \subseteq due' \cup Claimed'
<1> DEFINE Goal == Tracked' \subseteq due' \cup Claimed'
<1>0. op \in Ops /\ Unharmed /\ \A m \in Modules : ~ WriteThrows(m)
  BY StaysUnharmed DEF Shape, TypeOK
<1>1. CASE Still
  BY <1>1 DEF Still, Save, vars, journal, Tracked, Claimed, Planned, Top
<1>3. ASSUME baseline' = baseline, due \subseteq due', Claimed \subseteq due' \cup Claimed' PROVE Goal
  BY <1>3 DEF Tracked
<1>4. ASSUME NEW mods \in SUBSET Modules, BeginStep(mods) PROVE Goal
  BY <1>3, <1>4 DEF BeginStep, Claimed
<1>5. ASSUME NEW m \in Modules, JournalImage(m) PROVE Goal
  <2>1. /\ op.pc = "journaling" /\ m \in op.todo /\ op'.fresh = op.fresh /\ due' = due
        /\ op'.pc \in {"journaling", "writing"}
    BY <1>0, <1>5 DEF JournalImage, Ops
  <2>2. Tracked' = Tracked \cup {m}
    BY <1>5, TrackedAfter
  <2>3. op.todo \ op.fresh \subseteq Tracked
    BY <2>1 DEF TrackingInv
  <2> QED
    BY <2>1, <2>2, <2>3 DEF Claimed
<1>6. ASSUME NEW m \in Modules, WriteModule(m) PROVE Goal
  <2>1. op.pc = "writing" /\ op'.pc = "writing" /\ op'.fresh = op.fresh /\ due \subseteq due' /\ baseline' = baseline
    BY <1>0, <1>6 DEF WriteModule, journal, Ops
  <2> QED
    BY <1>3, <2>1 DEF Claimed
<1>7. ASSUME NotAsPlanned \/ \E m \in Modules : WriteRefused(m) PROVE Goal
  <2>1. op.pc = "writing" /\ op' = Fail(Written \ op.todo, {}) /\ baseline' = baseline /\ due' = due
    BY <1>7 DEF NotAsPlanned, WriteRefused, journal
  <2>2. op'.pc = "releasing" /\ op'.fresh = op.fresh /\ op'.todo = Planned \ (Written \ op.todo)
    BY <2>1 DEF Fail, Idle
  <2>3. op.fresh \subseteq Planned /\ Written \ op.todo \subseteq due
    BY <2>1 DEF TrackingInv
  <2> QED
    BY <1>3, <2>1, <2>2, <2>3 DEF Claimed
<1>8. ASSUME NEW m \in Modules, Release(m) PROVE Goal
  <2>1. /\ op.pc = "releasing" /\ op'.pc = "releasing" /\ op'.fresh = op.fresh /\ op'.todo = op.todo \ {m}
        /\ due' = due
    BY <1>0, <1>8 DEF Release, Ops
  <2>2. Tracked' = IF m \in op.fresh THEN Tracked \ {m} ELSE Tracked
    BY <1>8, TrackedAfter
  <2> QED
    BY <2>1, <2>2 DEF Claimed
<1>9. ASSUME NEW ran \in BOOLEAN, FixWritten(ran) PROVE Goal
  <2>1. op.pc = "writing" /\ op'.pc \in {"restamping", "settling"} /\ baseline' = baseline /\ due' = due /\ steps' = steps
    BY <1>9 DEF FixWritten, journal, Idle
  <2>2. op.fresh \subseteq Planned /\ Planned' = Planned
    BY <2>1 DEF TrackingInv, Planned, Top
  <2> QED
    BY <1>3, <2>1, <2>2 DEF Claimed
<1>10. ASSUME NEW m \in Modules, RestampAfter(m) \/ CompleteModule(m) PROVE Goal
  <2>1. /\ op.pc \in {"restamping", "settling"} /\ op'.pc \in {"restamping", "settling", "finishing"}
        /\ baseline' = baseline /\ due' = due
    BY <1>10, PhaseAfter DEF RestampAfter, CompleteModule
  <2>2. Planned' = Planned
    BY <1>10, ImageStamped
  <2> QED
    BY <1>3, <2>1, <2>2 DEF Claimed
<1>11. ASSUME Finalize PROVE Goal
  BY <1>3, <1>11 DEF Finalize, Claimed
<1>12. ASSUME RefusePlan \/ FinalizeUndo PROVE Goal
  BY <1>3, <1>12 DEF RefusePlan, FinalizeUndo, RestoresOver, journal, Claimed
<1> QED
  BY <1>0, <1>1, <1>4, <1>5, <1>6, <1>7, <1>8, <1>9, <1>10, <1>11, <1>12, IntoJournaling, IntoWriting,
     IntoReleasing, IntoRestamping, IntoSettling, IntoFinishing, IntoCommitting, IntoRefusing DEF Stepping

\* Undo, revert and recovery.
LEMMA CleanOfRecovery ==
  ASSUME Shape, [Next]_vars, Unharmed', Tracked \subseteq due \cup Claimed,
         op'.pc \in {"restoring", "recovering", "unwinding"}
  PROVE  Tracked' \subseteq due' \cup Claimed'
<1> DEFINE Goal == Tracked' \subseteq due' \cup Claimed'
<1>1. CASE Still
  BY <1>1 DEF Still, Save, vars, journal, Tracked, Claimed, Planned, Top
<1>2. ASSUME baseline' = baseline, due' = due, Claimed = {} PROVE Goal
  BY <1>2 DEF Tracked
<1>3. ASSUME Undo \/ ResumeUndo \/ Revert \/ ResumeRevert \/ RecoverIntent PROVE Goal
  BY <1>2, <1>3 DEF Undo, ResumeUndo, Revert, ResumeRevert, RecoverIntent, UndoAsked, journal, Claimed
<1>4. ASSUME NEW m \in Modules, Restore(m) \/ Conflict(m) \/ RestoreFails(m) PROVE Goal
  BY <1>2, <1>4 DEF Restore, Conflict, RestoreFails, journal, Claimed
<1>5. ASSUME Remember PROVE Goal
  <2>1. op.pc \in {"restoring", "unwinding"}
    BY <1>5 DEF Remember, Shape, OpShape
  <2> QED
    BY <1>2, <1>5, <2>1 DEF Remember, Claimed
<1>6. ASSUME Startup \/ UndoRefused \/ Unrestored \/ FinalizeUndo PROVE Goal
  BY <1>2, <1>6 DEF Startup, UndoRefused, Unrestored, FinalizeUndo, RestoresOver, journal, Claimed
<1>7. ASSUME UnwindOver \/ UnwindStep PROVE Goal
  BY <1>2, <1>7 DEF UnwindOver, UnwindStep, journal, Claimed
<1>8. ASSUME NEW m \in Modules,
             UnwindFound(m) \/ UnwindRestore(m) \/ UnwindConflict(m) \/ UnwindFails(m) \/ UnwindBlocked(m)
      PROVE  Goal
  BY <1>2, <1>8 DEF UnwindFound, UnwindRestore, UnwindConflict, UnwindFails, UnwindBlocked, Unwinding, journal,
     Claimed
<1> QED
  BY <1>1, <1>3, <1>4, <1>5, <1>6, <1>7, <1>8, IntoRestoring, IntoUnwinding, IntoRecovering, StaysUnharmed

\* CleanInv is inductive on top of Shape and TrackingInv.
LEMMA CleanKept ==
  ASSUME Shape, [Next]_vars, TrackingInv, CleanInv
  PROVE  CleanInv'
<1> SUFFICES ASSUME Unharmed' PROVE Tracked' \subseteq due' \cup Claimed'
  BY DEF CleanInv, Unharmed
<1>1. Tracked \subseteq due \cup Claimed
  BY StaysUnharmed DEF CleanInv, Unharmed
<1>2. op'.pc \in {"down", "idle", "putting", "noting", "checked", "journaling", "writing", "releasing",
                  "restamping", "settling", "finishing", "committing", "refusing",
                  "restoring", "recovering", "unwinding"}
  BY OpTyped DEF Ops
<1> QED
  BY <1>1, <1>2, CleanOfGated, CleanOfStep, CleanOfRecovery DEF Stepping

\* Nothing is tracked at first.
LEMMA CleanInit == Init => CleanInv
BY DEF Init, CleanInv, Tracked, NoRows

\* Unless the daemon died or a write failed, no file is tracked between requests that was neither
\* written nor claimed: a step that did not write a module has released it.
THEOREM OnlyWritesAreTracked == Spec => []NothingElseTracked
<1>1. CleanInv /\ TrackingInv /\ Shape /\ [Next]_vars => CleanInv'
  BY CleanKept
<1>2. CleanInv => NothingElseTracked
  BY DEF CleanInv, NothingElseTracked, Claimed
<1>3. TrackingInv /\ Shape /\ [Next]_vars => TrackingInv'
  BY TrackingKept
<1> QED
  BY <1>1, <1>2, <1>3, CleanInit, TrackingInit, ShapeCorrect, PTL DEF Spec

-----------------------------------------------------------------------------
(***************************************************************************)
(* Kept: recovery settles an own transaction                               *)
(***************************************************************************)
LEMMA KeptKept ==
  ASSUME Shape, [Next]_vars, KeptInv
  PROVE  KeptInv'
<1>0. op \in Ops /\ TypeOK /\ Ascending(steps)
  BY DEF Shape, JournalShape, TypeOK
<1>a. \A s \in ToSet(steps) : s.no \in Nat
  BY <1>0, StepFacts DEF Steps
<1>1. CASE Still
  BY <1>1 DEF Still, Save, vars, journal, KeptInv
<1>2. ASSUME Startup \/ StepThrows \/ UndoRefused \/ Unrestored \/ FinalizeUndo, op'.pc = "recovering"
      PROVE  KeptInv'
  <2>1. \E no \in {0, NextStepNo} : op' = RecoverFrom(no)
    BY <1>2, Fields DEF Startup, StepThrows, UndoRefused, Unrestored, FinalizeUndo, AfterUndo, StartRecovery
  <2> QED
    BY <2>1, Fields DEF KeptInv
<1>3. ASSUME UnwindOver PROVE KeptInv'
  <2>1. /\ op.pc = "unwinding" /\ op'.pc = "recovering" /\ op'.at = op.at
        /\ op'.kept => op.kept \/ op.clash
        /\ steps' = IF op.clash THEN steps ELSE Without(op.at)
    BY <1>0, <1>3 DEF UnwindOver, Ops
  <2>2. PICK s \in ToSet(steps) : s.no = op.at /\ ~ s.done
    BY <2>1 DEF Shape, PhaseShape
  <2>3. CASE op.clash
    BY <1>a, <2>1, <2>2, <2>3 DEF KeptInv
  <2>4. CASE ~ op.clash /\ op.kept
    <3>1. PICK t \in ToSet(steps) : ~ t.done /\ t.no > op.at
      BY <2>1, <2>4 DEF KeptInv
    <3>2. ToSet(steps') = {u \in ToSet(steps) : u.no # op.at}
      BY <1>0, <2>1, <2>2, <2>4, StepDropped
    <3>3. t \in ToSet(steps') /\ t.no >= op.at
      BY <1>a, <2>2, <3>1, <3>2
    <3> QED
      BY <2>1, <3>1, <3>3 DEF KeptInv
  <2> QED
    BY <2>1, <2>3, <2>4 DEF KeptInv
<1>4. ASSUME UnwindStep PROVE KeptInv'
  <2>1. /\ op.pc = "recovering" /\ op'.pc = "unwinding" /\ op'.at = Max(ToUnwind) /\ op'.kept = op.kept
        /\ steps' = steps /\ ToUnwind # {}
    BY <1>0, <1>4 DEF UnwindStep, journal, Ops
  <2>2. op'.at \in Nat /\ op'.at < op.at /\ op.at \in Nat
    BY <1>0, <2>1, NextUnwound DEF Ops
  <2> QED
    BY <1>a, <2>1, <2>2 DEF KeptInv
<1>5. ASSUME op.pc = "unwinding", op'.at = op.at, op'.kept = op.kept, steps' = steps, op'.pc = "unwinding"
      PROVE  KeptInv'
  BY <1>5 DEF KeptInv
<1>6. ASSUME Remember, op'.pc = "unwinding" PROVE KeptInv'
  BY <1>0, <1>5, <1>6 DEF Remember, Ops
<1>7. ASSUME NEW m \in Modules,
             UnwindFound(m) \/ UnwindRestore(m) \/ UnwindConflict(m) \/ UnwindFails(m) \/ UnwindBlocked(m)
      PROVE  KeptInv'
  BY <1>0, <1>5, <1>7 DEF UnwindFound, UnwindRestore, UnwindConflict, UnwindFails, UnwindBlocked, Unwinding,
     journal, Ops
<1> QED
  BY <1>1, <1>2, <1>3, <1>4, <1>6, <1>7, IntoUnwinding, IntoRecovering DEF KeptInv

\* Nothing but recovery's end, or a restore that is still pending, answers for an own step or a recovery.
LEMMA OwnSettles ==
  ASSUME Shape, [Next]_vars, KeptInv, op.then = "recover" \/ op.hold = "own", op'.pc = "idle", tx' = "own"
  PROVE  intent' # NoIntent \/ Unfinished' # {}
<1> DEFINE Goal == intent' # NoIntent \/ Unfinished' # {}
<1>0. op \in Ops /\ (op.hold = "own" => op.then = "step") /\ op.pc # "idle" /\ op.pc # "down" /\ op.then # "rpc"
  BY Fields DEF Shape, OpShape, TypeOK, Own
<1>1. ~ Drop
  BY DEF Drop
<1>2. ASSUME RefusePlan \/ Finalize \/ StepThrows \/ UndoRefused PROVE FALSE
  <2>1. op.pc # "recovering" /\ op.pc # "unwinding"
    BY <1>2 DEF RefusePlan, Finalize, StepThrows, UndoRefused
  <2>2. op.then = "step"
    BY <1>2 DEF Shape, OpShape, Stepping, RefusePlan, Finalize, StepThrows, UndoRefused
  <2>3. op.hold = "own"
    BY <2>2
  <2> QED
    BY <1>2, <2>3, Fields, PhaseAfter, ZenonT(40) DEF RefusePlan, Finalize, StepThrows, UndoRefused, StartRecovery, Idle
<1>3. ASSUME Unrestored PROVE Goal
  <2>1. op.pc = "restoring" /\ intent' = intent
    BY <1>3 DEF Unrestored, RestoresOver, journal
  <2>2. intent.kind # "none"
    BY <2>1 DEF Shape, PhaseShape
  <2> QED
    BY <2>1, <2>2 DEF NoIntent
<1>4. ASSUME FinalizeUndo PROVE FALSE
  BY <1>0, <1>4, Fields DEF FinalizeUndo, AfterUndo
<1>5. ASSUME RecoverEnd PROVE Goal
  <2>1. op.pc = "recovering" /\ op.kept /\ steps' = steps
    BY <1>1, <1>5 DEF RecoverEnd, journal, Drop
  <2>2. PICK s \in ToSet(steps) : ~ s.done
    BY <2>1 DEF KeptInv
  <2>3. s.no \in Unfinished'
    BY <2>1, <2>2 DEF Unfinished
  <2> QED
    BY <2>3
<1>6. ASSUME NEW m \in Modules, PutFile(m) \/ NoteKnown(m) PROVE FALSE
  BY <1>0, <1>6 DEF PutFile, NoteKnown, Shape, OpShape
<1>7. PutThrows => FALSE
  BY <1>0 DEF PutThrows, Shape, OpShape
<1>8. CommitOwn \/ FinalizeRevert \/ Commit => Drop
  BY DEF CommitOwn, FinalizeRevert, Commit
<1>9. op' # op
  BY <1>0
<1> QED
  BY <1>0, <1>1, <1>2, <1>3, <1>4, <1>5, <1>6, <1>7, <1>8, <1>9, PhaseAfter
     DEF Next, Request, Proceed, Fault, vars, Save, Startup

\* Nothing is kept at first.
LEMMA KeptInit == Init => KeptInv
BY Fields DEF Init, KeptInv

\* An own step, or a recovery, that is over leaves no own transaction open, except for a recovery
\* still pending or a step kept for one.
THEOREM OwnsAreSettled == Spec => OwnIsSettled
<1>1. KeptInv /\ Shape /\ [Next]_vars => KeptInv'
  BY KeptKept
<1>2. KeptInv /\ Shape /\ [Next]_vars =>
        [(op.then = "recover" \/ op.hold = "own") /\ op'.pc = "idle" /\ tx' = "own" =>
            intent' # NoIntent \/ Unfinished' # {}]_vars
  BY OwnSettles
<1> QED
  BY <1>1, <1>2, KeptInit, ShapeCorrect, PTL DEF Spec, OwnIsSettled

-----------------------------------------------------------------------------
(***************************************************************************)
(* Disk: what each phase knows of the files                                *)
(***************************************************************************)
\* What a save, or nothing, leaves of the files no editor has touched.
LEMMA StillDisk ==
  ASSUME Shape, Still
  PROVE  /\ UNCHANGED <<journal, op, due>> /\ strange \subseteq strange'
         /\ \A m \in Modules \ strange' : disk'[m] = disk[m]
<1>1. CASE UNCHANGED vars
  BY <1>1 DEF vars, journal
<1>2. ASSUME NEW m \in Modules, NEW c \in Contents, Save(m, c)
      PROVE  /\ UNCHANGED <<journal, op, due>> /\ strange \subseteq strange'
             /\ \A n \in Modules \ strange' : disk'[n] = disk[n]
  BY <1>2 DEF Save, Shape, TypeOK
<1> QED
  BY <1>1, <1>2 DEF Still

\* Knowing what a file holds ends its strangeness, and nothing else does.
LEMMA KnowSteadies ==
  ASSUME Shape, NEW m \in Modules, NEW c, Know(m, c)
  PROVE  /\ \A n \in Modules \ {m} : known'[n] = known[n] /\ (n \in strange' <=> n \in strange)
         /\ known'[m] = c
         /\ m \notin strange' => m \notin strange \/ disk[m] = c
BY DEF Know, Shape, TypeOK

\* What journaling an image does to what is known.
LEMMA JournalKnows ==
  ASSUME Shape, NEW m \in Modules, JournalImage(m)
  PROVE  /\ disk' = disk /\ strange' \subseteq strange
         /\ \A n \in Modules \ {m} : known'[n] = known[n] /\ (n \in strange' <=> n \in strange)
         /\ m \notin strange' => m \notin strange \/ disk[m] = op.before[m]
         /\ \/ m \in Tracked /\ known'[m] = known[m] /\ (m \in strange' <=> m \in strange)
            \/ known'[m] = op.before[m]
<1>1. disk' = disk
  BY DEF JournalImage
<1>2. CASE baseline[m] = None
  <2>1. Know(m, op.before[m])
    BY <1>2 DEF JournalImage, ClaimBaseline
  <2> QED
    BY <1>1, <2>1, KnowSteadies DEF Know
<1>3. CASE baseline[m] # None
  <2>1. known' = known /\ strange' = strange
    BY <1>3 DEF JournalImage
  <2> QED
    BY <1>1, <1>3, <2>1 DEF Tracked
<1> QED
  BY <1>2, <1>3

\* A gated write is noted after it is on disk.
LEMMA DiskOfNoting ==
  ASSUME Shape, [Next]_vars, DiskInv, op'.pc = "noting"
  PROVE  tx' # "none" /\ \A m \in op'.todo \ strange' : disk'[m] = op'.text[m]
<1>0. op \in Ops /\ op' \in Ops /\ disk \in [Modules -> Contents]
  BY OpTyped DEF Shape, TypeOK
<1>1. CASE Still
  BY <1>0, <1>1, StillDisk DEF journal, DiskInv, Ops
<1>2. ASSUME NEW m \in Modules, PutFile(m)
      PROVE  tx' # "none" /\ \A n \in op'.todo \ strange' : disk'[n] = op'.text[n]
  <2>1. /\ op.pc = "putting" /\ m \in op.todo /\ tx # "none" /\ tx' = tx
        /\ disk' = [disk EXCEPT ![m] = op.text[m]] /\ op'.text = op.text /\ op'.todo = op.todo
    BY <1>0, <1>2, Fields DEF PutFile, journal, Ops
  <2>2. op.todo = {m}
    BY <2>1 DEF Shape, OpShape
  <2> QED
    BY <1>0, <2>1, <2>2
<1> QED
  BY <1>1, <1>2, IntoNoting

\* While images are journaled, the files still to be journaled hold what was read, and the others
\* their before-image.
LEMMA DiskOfImaging ==
  ASSUME Shape, DiskInv, NEW m \in Modules, JournalImage(m)
  PROVE  /\ \A n \in op.todo \ (strange' \cup {m}) : disk'[n] = op.before[n]
         /\ \A n \in Planned' \ strange' : disk'[n] = Top'.image[n].before
         /\ \A n \in Planned' \ Written :
               Top'.image[n].after = IF Top'.image[n].before = Absent THEN None ELSE Top'.image[n].before
<1>1. op.pc = "journaling" /\ op \in Ops
  BY DEF JournalImage, Shape, TypeOK
<1>2. /\ m \in op.todo /\ m \notin Planned /\ op.todo \subseteq Modules /\ Planned \subseteq Modules
      /\ Top'.image[m].before = op.before[m]
      /\ Top'.image[m].after = IF op.text[m] # None THEN op.text[m]
                               ELSE IF op.before[m] # Absent THEN op.before[m] ELSE None
      /\ \A n \in Modules \ {m} : Top'.image[n] = Top.image[n]
      /\ Planned' = Planned \cup {m}
  BY <1>1, ImageJournaled, ModuleSets DEF Ops
<1>3. /\ disk' = disk /\ \A n \in Modules \ {m} : n \in strange' <=> n \in strange
      /\ m \notin strange' => m \notin strange \/ disk[m] = op.before[m]
  BY JournalKnows
<1>4. /\ \A n \in op.todo \ strange : disk[n] = op.before[n]
      /\ \A n \in Planned \ strange : disk[n] = Top.image[n].before
      /\ \A n \in Planned \ Written :
            Top.image[n].after = IF Top.image[n].before = Absent THEN None ELSE Top.image[n].before
  BY <1>1 DEF DiskInv
<1>5. \A n \in op.todo \ (strange' \cup {m}) : disk'[n] = op.before[n]
  BY <1>2, <1>3, <1>4
<1>6. \A n \in Planned' \ strange' : disk'[n] = Top'.image[n].before
  BY <1>2, <1>3, <1>4
<1>7. \A n \in Planned' \ Written :
         Top'.image[n].after = IF Top'.image[n].before = Absent THEN None ELSE Top'.image[n].before
  BY <1>2, <1>4 DEF Written
<1> QED
  BY <1>5, <1>6, <1>7

\* The part of DiskInv that is about a step.
StepDisk ==
    /\ op.pc = "journaling" =>
          /\ \A m \in op.todo \ strange : disk[m] = op.before[m]
          /\ \A m \in Planned \ strange : disk[m] = Top.image[m].before
    /\ op.pc \in {"journaling", "writing"} => \A m \in Planned \ Written :
          Top.image[m].after = IF Top.image[m].before = Absent THEN None ELSE Top.image[m].before
    /\ op.pc = "writing" =>
          /\ \A m \in Planned \ (strange \cup (Written \ op.todo)) : disk[m] = Top.image[m].before
          /\ \A m \in Written \ (strange \cup op.todo) : disk[m] = op.text[m]
    /\ op.pc \in {"restamping", "settling"} =>
          \A m \in Planned \ strange : Top.image[m].after # None => disk[m] = Top.image[m].after

\* What a step's phases know.
LEMMA DiskOfStep ==
  ASSUME Shape, [Next]_vars, DiskInv, op'.pc \in {"journaling", "writing", "restamping", "settling"}
  PROVE  StepDisk'
<1>0. op \in Ops /\ disk \in [Modules -> Contents] /\ op.todo \subseteq Modules
  BY DEF Shape, TypeOK, Ops
<1>a. StepDisk
  BY DEF DiskInv, StepDisk
<1>b. Planned \subseteq Modules /\ Written \subseteq Modules
  BY ModuleSets
<1>1. CASE Still
  <2>1. /\ op' = op /\ Planned' = Planned /\ Top' = Top /\ Written' = Written
        /\ strange \subseteq strange' /\ \A m \in Modules \ strange' : disk'[m] = disk[m]
    BY <1>1, StillDisk DEF journal, Planned, Top, Written
  <2> QED
    BY <1>0, <1>a, <1>b, <2>1 DEF StepDisk
<1>2. ASSUME NEW mods \in SUBSET Modules, BeginStep(mods) PROVE StepDisk'
  <2>1. /\ op'.pc = "journaling" /\ op'.todo = mods /\ disk' = disk /\ \A m \in mods : op'.before[m] = disk[m]
    BY <1>0, <1>2 DEF BeginStep, Ops
  <2>2. Planned' = {}
    BY <1>2, TopBegun
  <2> QED
    BY <2>1, <2>2 DEF StepDisk
<1>3. ASSUME NEW m \in Modules, JournalImage(m) PROVE StepDisk'
  <2>1. /\ op'.text = op.text
        /\ \/ op'.pc = "journaling" /\ op'.todo = op.todo \ {m} /\ op'.before = op.before
           \/ op'.pc = "writing" /\ op'.todo = Written
    BY <1>0, <1>3 DEF JournalImage, Ops
  <2>2. Written' = Written
    BY <2>1 DEF Written
  <2>3. /\ \A n \in op.todo \ (strange' \cup {m}) : disk'[n] = op.before[n]
        /\ \A n \in Planned' \ strange' : disk'[n] = Top'.image[n].before
        /\ \A n \in Planned' \ Written :
              Top'.image[n].after = IF Top'.image[n].before = Absent THEN None ELSE Top'.image[n].before
    BY <1>3, DiskOfImaging
  <2> QED
    BY <2>1, <2>2, <2>3 DEF StepDisk
<1>4. ASSUME NEW m \in Modules, WriteModule(m) PROVE StepDisk'
  <2>1. /\ op.pc = "writing" /\ m \in op.todo /\ disk' = [disk EXCEPT ![m] = op.text[m]]
        /\ op'.pc = "writing" /\ op'.todo = op.todo \ {m} /\ op'.text = op.text
        /\ steps' = steps /\ strange' = strange
    BY <1>0, <1>4 DEF WriteModule, journal, Ops
  <2>2. Written' = Written /\ Planned' = Planned /\ Top' = Top /\ m \in Written
    BY <2>1 DEF Written, Planned, Top, Shape, PhaseShape
  <2>3. \A n \in Modules : disk'[n] = IF n = m THEN op.text[m] ELSE disk[n]
    BY <1>0, <2>1
  <2> QED
    BY <1>a, <1>b, <2>1, <2>2, <2>3 DEF StepDisk
<1>5. ASSUME NEW ran \in BOOLEAN, FixWritten(ran) PROVE StepDisk'
  <2>1. /\ op.pc = "writing" /\ op.todo = {} /\ op'.pc \in {"restamping", "settling"}
        /\ disk' = disk /\ steps' = steps /\ strange' = strange
    BY <1>5 DEF FixWritten, journal, Idle
  <2>2. Planned' = Planned /\ Top' = Top
    BY <2>1 DEF Planned, Top
  <2>3. \A m \in Written : Top.image[m].after = op.text[m]
    BY <2>1 DEF Shape, PhaseShape
  <2>4. ASSUME NEW m \in Planned, m \notin strange, Top.image[m].after # None
        PROVE  disk[m] = Top.image[m].after
    BY <1>a, <2>1, <2>3, <2>4 DEF StepDisk
  <2> QED
    BY <2>1, <2>2, <2>4 DEF StepDisk
<1>6. ASSUME NEW m \in Modules, RestampAfter(m) PROVE StepDisk'
  <2>1. op.pc = "restamping" /\ op'.pc \in {"restamping", "settling"} /\ disk' = disk /\ strange' = strange
    BY <1>6, PhaseAfter DEF RestampAfter
  <2>2. /\ Planned' = Planned /\ \A n \in Modules \ {m} : Top'.image[n] = Top.image[n]
        /\ Top'.image[m].after = IF disk[m] = Absent THEN Top.image[m].after ELSE disk[m]
    BY <1>6, ImageStamped
  <2> QED
    BY <1>a, <1>b, <2>1, <2>2 DEF StepDisk
<1>7. ASSUME NEW m \in Modules, CompleteModule(m) PROVE StepDisk'
  <2>1. op.pc = "settling" /\ op'.pc \in {"settling", "finishing"} /\ disk' = disk
    BY <1>7, PhaseAfter DEF CompleteModule
  <2>2. /\ Planned' = Planned /\ \A n \in Modules \ {m} : Top'.image[n] = Top.image[n]
        /\ Top'.image[m].after = IF Top.image[m].after # None THEN Top.image[m].after
                                 ELSE IF disk[m] = Absent THEN None ELSE disk[m]
    BY <1>7, ImageStamped
  <2>3. Know(m, IF Top.image[m].after # None THEN Top.image[m].after ELSE disk[m])
    BY <1>7 DEF CompleteModule
  <2>4. /\ \A n \in Modules \ {m} : n \in strange' <=> n \in strange
        /\ m \notin strange' => \/ m \notin strange
                                \/ disk[m] = IF Top.image[m].after # None THEN Top.image[m].after ELSE disk[m]
    BY <2>3, KnowSteadies
  <2> QED
    BY <1>a, <1>b, <2>1, <2>2, <2>4 DEF StepDisk
<1> QED
  BY <1>1, <1>2, <1>3, <1>4, <1>5, <1>6, <1>7, IntoJournaling, IntoWriting, IntoRestamping, IntoSettling

\* The part of DiskInv that is about an undo or a revert.
RestoreDisk ==
    /\ op.pc = "restoring" /\ intent.kind = "undo" /\ ~ op.clash =>
          \A s \in ToSet(steps) : s.no = intent.no =>
              \A m \in ToRestore(s) \ (strange \cup op.todo) : disk[m] = s.image[m].before
    /\ op.pc = "restoring" /\ intent.kind = "revert" /\ ~ op.clash =>
          \A m \in Tracked \ (strange \cup op.todo) : disk[m] = baseline[m]

\* The image a restore puts back is the step's, or the baseline.
LEMMA RestoredImage ==
  ASSUME Shape
  PROVE  /\ op.pc = "restoring" /\ intent.kind = "undo" =>
               \A s \in ToSet(steps) : s.no = intent.no => \A m : ImageOf(m) = s.image[m].before
         /\ op.pc = "restoring" /\ intent.kind = "revert" => \A m : ImageOf(m) = baseline[m]
         /\ op.pc = "unwinding" =>
               \A s \in ToSet(steps) : s.no = op.at => \A m : ImageOf(m) = s.image[m].before
<1>1. \A s \in ToSet(steps) : Numbered(s.no) = s
  BY StepFacts DEF Shape, JournalShape
<1> QED
  BY <1>1 DEF ImageOf

\* What an undo or a revert knows: the files it is done with are back.
LEMMA DiskOfRestore ==
  ASSUME Shape, [Next]_vars, DiskInv, op'.pc = "restoring"
  PROVE  RestoreDisk'
<1>0. /\ op \in Ops /\ disk \in [Modules -> Contents] /\ op.todo \subseteq Modules /\ TypeOK /\ Ascending(steps)
      /\ Tracked \subseteq Modules /\ \A s : ToRestore(s) \subseteq Modules
  BY ModuleSets DEF Shape, JournalShape, TypeOK, Ops
<1>a. RestoreDisk
  BY DEF DiskInv, RestoreDisk
<1>1. CASE Still
  <2>1. /\ op' = op /\ steps' = steps /\ intent' = intent /\ baseline' = baseline
        /\ strange \subseteq strange' /\ \A m \in Modules \ strange' : disk'[m] = disk[m]
    BY <1>1, StillDisk DEF journal
  <2>2. Tracked' = Tracked
    BY <2>1 DEF Tracked
  <2> QED
    BY <1>0, <1>a, <2>1, <2>2 DEF RestoreDisk
<1>2. ASSUME \/ Handled' = op'.todo /\ intent'.kind = "revert" /\ op'.todo = Tracked'
             \/ intent'.kind = "undo" /\ \A s \in ToSet(steps') : s.no = intent'.no => op'.todo = ToRestore(s)
      PROVE  RestoreDisk'
  BY <1>2 DEF RestoreDisk
<1>3. ASSUME NEW todo, op' = Restoring(todo) PROVE Handled' = op'.todo /\ op'.todo = todo
  BY <1>3 DEF Restoring, Idle, Handled
<1>4. CASE Undo
  <2>1. op' = Restoring(ToRestore(Top)) /\ steps' = steps /\ steps # <<>> /\ intent'.kind = "undo" /\ intent'.no = Top.no
    BY <1>4 DEF Undo, NoIntent
  <2>2. \A s \in ToSet(steps') : s.no = intent'.no => s = Top
    BY <1>0, <2>1, StepFacts
  <2> QED
    BY <1>2, <1>3, <2>1, <2>2
<1>5. ASSUME op' = Restoring(ToRestore(Numbered(intent.no))), intent.kind = "undo", steps' = steps, intent' = intent
      PROVE  RestoreDisk'
  <2>1. \A s \in ToSet(steps) : s.no = intent.no => s = Numbered(intent.no)
    BY <1>0, StepFacts
  <2> QED
    BY <1>2, <1>3, <1>5, <2>1
<1>6. ASSUME op' = Restoring(Tracked), intent'.kind = "revert", baseline' = baseline
      PROVE  RestoreDisk'
  <2>1. Tracked' = Tracked
    BY <1>6 DEF Tracked
  <2> QED
    BY <1>2, <1>3, <1>6, <2>1
<1>7. CASE ResumeUndo
  BY <1>5, <1>7 DEF ResumeUndo, journal
<1>8. CASE Revert
  BY <1>6, <1>8 DEF Revert, NoIntent
<1>9. CASE ResumeRevert
  BY <1>6, <1>9 DEF ResumeRevert, journal
<1>10. CASE RecoverIntent
  <2>1. intent.kind \in {"undo", "revert"}
    BY <1>0, <1>10 DEF RecoverIntent, Shape, JournalShape, TypeOK, Intents
  <2> QED
    BY <1>5, <1>6, <1>10, <2>1 DEF RecoverIntent, journal
<1>11. ASSUME NEW m \in Modules, Conflict(m) \/ RestoreFails(m) PROVE RestoreDisk'
  BY <1>0, <1>11 DEF Conflict, RestoreFails, RestoreDisk, Ops
<1>12. ASSUME NEW m \in Modules, Restore(m) PROVE RestoreDisk'
  <2>1. /\ op.pc = "restoring" /\ m \in op.todo /\ disk' = [disk EXCEPT ![m] = ImageOf(m)]
        /\ op'.pc = "restoring" /\ op'.todo = op.todo \ {m} /\ op'.clash = op.clash
        /\ steps' = steps /\ intent' = intent /\ baseline' = baseline /\ strange' = strange
    BY <1>0, <1>12 DEF Restore, journal, Ops
  <2>2. \A n \in Modules : disk'[n] = IF n = m THEN ImageOf(m) ELSE disk[n]
    BY <1>0, <2>1
  <2>3. Tracked' = Tracked
    BY <2>1 DEF Tracked
  <2> QED
    BY <1>0, <1>a, <2>1, <2>2, <2>3, RestoredImage DEF RestoreDisk
<1>13. CASE Remember
  <2>1. /\ op.pc = "restoring" /\ op'.pc = "restoring" /\ op'.todo = op.todo /\ op'.clash = op.clash
        /\ steps' = steps /\ intent' = intent /\ baseline' = baseline /\ disk' = disk
        /\ op.cur \in Modules /\ Know(op.cur, ImageOf(op.cur))
    BY <1>0, <1>13 DEF Remember, Ops
  <2>2. /\ \A n \in Modules \ {op.cur} : n \in strange' <=> n \in strange
        /\ op.cur \notin strange' => op.cur \notin strange \/ disk[op.cur] = ImageOf(op.cur)
    BY <2>1, KnowSteadies
  <2>3. Tracked' = Tracked
    BY <2>1 DEF Tracked
  <2>4. op.cur \notin strange' => disk[op.cur] = ImageOf(op.cur)
    BY <2>1, <2>2, ConstantsAssumption DEF DiskInv
  <2> QED
    BY <1>0, <1>a, <2>1, <2>2, <2>3, <2>4, RestoredImage DEF RestoreDisk
<1> QED
  BY <1>1, <1>4, <1>7, <1>8, <1>9, <1>10, <1>11, <1>12, <1>13, IntoRestoring

\* What was just put back is on disk.
LEMMA DiskOfRestored ==
  ASSUME Shape, [Next]_vars, DiskInv, Shape', op'.cur \notin strange' \cup {None}
  PROVE  disk'[op'.cur] = ImageOf(op.cur)'
<1>0. op \in Ops /\ disk \in [Modules -> Contents] /\ op' \in Ops /\ op'.cur \in Modules
  BY OpTyped DEF Shape, TypeOK, Ops
<1>1. op'.pc \in {"restoring", "unwinding"}
  BY DEF Shape, OpShape
<1>2. CASE Still
  <2>1. /\ op' = op /\ steps' = steps /\ intent' = intent /\ baseline' = baseline
        /\ strange \subseteq strange' /\ \A m \in Modules \ strange' : disk'[m] = disk[m]
    BY <1>2, StillDisk DEF journal
  <2>2. ImageOf(op.cur)' = ImageOf(op.cur)
    BY <2>1 DEF ImageOf, Numbered, Position
  <2> QED
    BY <1>0, <2>1, <2>2 DEF DiskInv
<1>3. ASSUME op'.cur = None PROVE FALSE
  BY <1>3
<1>4. ASSUME NEW m \in Modules, Restore(m) \/ UnwindRestore(m) PROVE disk'[op'.cur] = ImageOf(op.cur)'
  <2>1. /\ op'.cur = m /\ disk' = [disk EXCEPT ![m] = ImageOf(m)] /\ op'.pc = op.pc /\ op'.at = op.at
        /\ steps' = steps /\ intent' = intent /\ baseline' = baseline
    BY <1>0, <1>4 DEF Restore, UnwindRestore, journal, Ops
  <2>2. ImageOf(op.cur)' = ImageOf(m)
    BY <2>1 DEF ImageOf, Numbered, Position
  <2> QED
    BY <1>0, <2>1, <2>2
<1>5. ASSUME NEW m \in Modules,
             Conflict(m) \/ RestoreFails(m) \/ UnwindFound(m) \/ UnwindConflict(m) \/ UnwindFails(m) \/ UnwindBlocked(m)
      PROVE  FALSE
  <2>1. op'.cur = op.cur /\ op.cur = None
    BY <1>0, <1>5 DEF Conflict, RestoreFails, UnwindFound, UnwindConflict, UnwindFails, UnwindBlocked, Unwinding, Ops
  <2> QED
    BY <2>1
<1>6. ASSUME Remember PROVE FALSE
  BY <1>0, <1>6 DEF Remember, Ops
<1>7. ASSUME Undo \/ ResumeUndo \/ Revert \/ ResumeRevert \/ RecoverIntent PROVE FALSE
  BY <1>7 DEF Undo, ResumeUndo, Revert, ResumeRevert, RecoverIntent, Restoring, Idle
<1>8. ASSUME UnwindStep PROVE FALSE
  BY <1>0, <1>8 DEF UnwindStep, Shape, OpShape, Ops
<1> QED
  BY <1>1, <1>2, <1>4, <1>5, <1>6, <1>7, <1>8, IntoRestoring, IntoUnwinding

\* DiskInv is inductive on top of Shape.
LEMMA DiskKept ==
  ASSUME Shape, [Next]_vars, DiskInv
  PROVE  DiskInv'
<1>1. StepDisk'
  <2>1. CASE op'.pc \in {"journaling", "writing", "restamping", "settling"}
    BY <2>1, DiskOfStep
  <2>2. CASE op'.pc \notin {"journaling", "writing", "restamping", "settling"}
    BY <2>2 DEF StepDisk
  <2> QED
    BY <2>1, <2>2
<1>2. RestoreDisk'
  BY DiskOfRestore DEF RestoreDisk
<1>3. op'.cur \notin strange' \cup {None} => disk'[op'.cur] = ImageOf(op.cur)'
  BY ShapeKept, DiskOfRestored
<1> QED
  BY <1>1, <1>2, <1>3, DiskOfNoting DEF DiskInv, StepDisk, RestoreDisk

\* No phase is under way at first.
LEMMA DiskInit == Init => DiskInv
BY Fields DEF Init, DiskInv

\* Only a commit, a finished revert and recovery's end drop a transaction that is open.
LEMMA WhoDrops ==
  ASSUME Shape, [Next]_vars, Drop, intent # NoIntent
  PROVE  Commit \/ CommitOwn \/ FinalizeRevert \/ RecoverEnd
<1>1. tx # "none"
  BY DEF Shape, JournalShape
<1>2. tx' = "none"
  BY DEF Drop
<1> QED
  BY <1>1, <1>2, WhoCloses

\* A finished Undo has put back every file the step wrote, across deaths and retries, but for those
\* saved since.
THEOREM UndosRestore == Spec => UndoRestores
<1>1. DiskInv /\ Shape /\ [Next]_vars => DiskInv'
  BY DiskKept
<1>2. ASSUME DiskInv, Shape, [Next]_vars, intent.kind = "undo", intent' = NoIntent,
             NEW m \in ToRestore(Numbered(intent.no)) \ strange
      PROVE  disk[m] = Numbered(intent.no).image[m].before
  <2>1. intent # NoIntent /\ intent' # intent
    BY <1>2 DEF NoIntent
  <2>2. ~ Commit /\ ~ CommitOwn /\ ~ RecoverEnd /\ ~ FinalizeRevert /\ ~ Undo /\ ~ Revert
    BY <1>2, <2>1 DEF Commit, CommitOwn, RecoverEnd, FinalizeRevert, Undo, Revert, Shape, OpShape, Own
  <2>3. FinalizeUndo
    BY <1>2, <2>1, <2>2, WhoDrops, WhoIntends
  <2>4. op.pc = "restoring" /\ op.todo = {} /\ ~ op.clash
    BY <2>3 DEF FinalizeUndo, RestoresOver
  <2>5. Numbered(intent.no) \in ToSet(steps) /\ Numbered(intent.no).no = intent.no
    BY <1>2, Restored
  <2> QED
    BY <1>2, <2>4, <2>5 DEF DiskInv
<1>3. DiskInv /\ Shape /\ [Next]_vars =>
        [intent.kind = "undo" /\ intent' = NoIntent =>
            \A m \in ToRestore(Numbered(intent.no)) \ strange :
                disk[m] = Numbered(intent.no).image[m].before]_vars
  BY <1>2
<1> QED
  BY <1>1, <1>3, DiskInit, ShapeCorrect, PTL DEF Spec, UndoRestores

\* A finished Revert has put back every tracked file, but for those saved since.
THEOREM RevertsRestore == Spec => RevertRestores
<1>1. DiskInv /\ Shape /\ [Next]_vars => DiskInv'
  BY DiskKept
<1>2. ASSUME DiskInv, Shape, [Next]_vars, intent.kind = "revert", intent' = NoIntent, NEW m \in Tracked \ strange
      PROVE  disk[m] = baseline[m]
  <2>1. intent # NoIntent /\ intent' # intent
    BY <1>2 DEF NoIntent
  <2>2. ~ Commit /\ ~ CommitOwn /\ ~ RecoverEnd /\ ~ FinalizeUndo /\ ~ Undo /\ ~ Revert
    BY <1>2, <2>1 DEF Commit, CommitOwn, RecoverEnd, FinalizeUndo, Undo, Revert, Shape, OpShape, Own
  <2>3. FinalizeRevert
    BY <1>2, <2>1, <2>2, WhoDrops, WhoIntends
  <2>4. op.pc = "restoring" /\ op.todo = {} /\ ~ op.clash
    BY <2>3 DEF FinalizeRevert, RestoresOver
  <2> QED
    BY <1>2, <2>4 DEF DiskInv
<1>3. DiskInv /\ Shape /\ [Next]_vars =>
        [intent.kind = "revert" /\ intent' = NoIntent => \A m \in Tracked \ strange : disk[m] = baseline[m]]_vars
  BY <1>2
<1> QED
  BY <1>1, <1>3, DiskInit, ShapeCorrect, PTL DEF Spec, RevertRestores

-----------------------------------------------------------------------------
(***************************************************************************)
(* Drift: what accounts for a file that is not in its known state          *)
(***************************************************************************)
\* A step that accounted for a file still does while the file, the step and the intent stay.
LEMMA ExcusesSame ==
  ASSUME NEW s, NEW m, disk'[m] = disk[m], intent' = intent, Excuses(s, m)
  PROVE  Excuses(s, m)'
BY DEF Excuses

\* The newest step still accounts for a file whose image and content stay.
LEMMA TopExcuses ==
  ASSUME NEW m \in Modules, Top'.no = Top.no, Top'.done = Top.done, Top'.image[m] = Top.image[m],
         Top' \in ToSet(steps'), intent' = intent, disk'[m] = disk[m], Excuses(Top, m)
  PROVE  \E t \in ToSet(steps') : Excuses(t, m)'
<1>1. PICK t : t = Top'
  OBVIOUS
<1>2. Excuses(t, m)'
  BY <1>1 DEF Excuses, ToRestore, Covered
<1> QED
  BY <1>1, <1>2

\* The accounts of a file that nothing of the step under way concerns.
LEMMA Carried ==
  ASSUME NEW m, Explained(m), known'[m] = known[m], disk'[m] = disk[m], intent' = intent,
         \A s \in ToSet(steps) : Excuses(s, m) => s \in ToSet(steps') \/ \E t \in ToSet(steps') : Excuses(t, m)'
  PROVE  Explained(m)'
<1>1. CASE Known(m)
  BY <1>1 DEF Explained, Known
<1>2. ASSUME NEW s \in ToSet(steps), Excuses(s, m) PROVE \E t \in ToSet(steps') : Excuses(t, m)'
  BY <1>2, ExcusesSame
<1> QED
  BY <1>1, <1>2 DEF Explained

\* Likewise for the accounts of the other steps.
LEMMA CarriedBut ==
  ASSUME NEW m, NEW no, ExplainedBut(m, no), known'[m] = known[m], disk'[m] = disk[m], intent' = intent,
         \A s \in ToSet(steps) : s.no # no => s \in ToSet(steps')
  PROVE  ExplainedBut(m, no)'
<1>1. CASE Known(m)
  BY <1>1 DEF ExplainedBut, Known
<1>2. ASSUME NEW s \in ToSet(steps), s.no # no, Excuses(s, m) PROVE Excuses(s, m)' /\ s \in ToSet(steps')
  BY <1>2, ExcusesSame
<1> QED
  BY <1>1, <1>2 DEF ExplainedBut

\* A change of the newest step that leaves a file's image leaves the file's accounts.
LEMMA TopCarried ==
  ASSUME Shape, NEW m \in Modules, Explained(m), steps # <<>>, ToSet(steps') = Below \cup {Top'},
         Top'.no = Top.no, Top'.done = Top.done, Top'.image[m] = Top.image[m],
         known'[m] = known[m], disk'[m] = disk[m], intent' = intent
  PROVE  Explained(m)'
<1>1. ToSet(steps) = Below \cup {Top}
  BY StepFacts DEF Shape, JournalShape
<1>2. Top' \in ToSet(steps') /\ \A s \in Below : s \in ToSet(steps')
  OBVIOUS
<1> QED
  BY <1>1, <1>2, Carried, TopExcuses

\* A file whose known state is what it holds, or that somebody else accounts for, is explained.
LEMMA ExplainedAnyway ==
  ASSUME NEW m
  PROVE  /\ Known(m) => Explained(m) /\ \A no : ExplainedBut(m, no)
         /\ \A no : ExplainedBut(m, no) => Explained(m)
BY DEF Explained, ExplainedBut

\* What is on disk and known needs no account.
LEMMA NowKnown ==
  ASSUME NEW m, known'[m] = disk'[m]
  PROVE  Explained(m)' /\ \A no : ExplainedBut(m, no)'
BY DEF Explained, ExplainedBut, Known

\* An account by another step is an account.
LEMMA NowAnyway ==
  ASSUME NEW m, NEW no, ExplainedBut(m, no)'
  PROVE  Explained(m)'
BY DEF Explained, ExplainedBut

\* Nothing but the operation changes, or editors save.
LEMMA DriftFrame ==
  ASSUME Shape, AllExplained, UNCHANGED <<baseline, known, steps, intent>>, strange \subseteq strange',
         \A m \in Modules \ strange' : disk'[m] = disk[m],
         op.pc = "noting" => op.todo \subseteq strange' \/ (op'.pc = "noting" /\ op'.todo = op.todo)
  PROVE  AllExplained'
<1> SUFFICES ASSUME NEW m \in Steady'
             PROVE  Explained(m)' \/ (op'.pc = "noting" /\ m \in op'.todo)
  BY DEF AllExplained
<1>1. m \in Steady /\ m \in Modules /\ m \notin strange'
  BY DEF Steady, Tracked
<1>2. CASE Explained(m)
  BY <1>1, <1>2, Carried
<1>3. CASE op.pc = "noting" /\ m \in op.todo
  BY <1>1, <1>3
<1> QED
  BY <1>1, <1>2, <1>3 DEF AllExplained

\* The daemon takes what a file holds for its known state.
LEMMA DriftKnown ==
  ASSUME Shape, AllExplained, NEW m \in Modules, NEW c, Know(m, c), m \notin strange => disk[m] = c,
         disk' = disk, steps' = steps, intent' = intent, Tracked' \subseteq Tracked \cup {m},
         op.pc = "noting" => op.todo \subseteq {m}
  PROVE  AllExplained'
<1> SUFFICES ASSUME NEW n \in Steady'
             PROVE  Explained(n)'
  BY DEF AllExplained
<1>0. /\ \A o \in Modules \ {m} : known'[o] = known[o] /\ (o \in strange' <=> o \in strange)
      /\ known'[m] = c
      /\ m \notin strange' => disk[m] = c
  BY KnowSteadies
<1>1. n \in Modules /\ n \notin strange' /\ n \in Tracked \cup {m}
  BY DEF Steady, Tracked
<1>2. CASE n = m
  BY <1>0, <1>1, <1>2, NowKnown
<1>3. CASE n # m
  <2>1. n \in Steady /\ ~ (op.pc = "noting" /\ n \in op.todo)
    BY <1>0, <1>1, <1>3 DEF Steady
  <2>2. Explained(n)
    BY <2>1 DEF AllExplained
  <2> QED
    BY <1>0, <1>1, <1>3, <2>2, Carried
<1> QED
  BY <1>2, <1>3

\* A journaled module is accounted for by a step under the newest one, if by any.
LEMMA DriftImaging ==
  ASSUME Shape, DiskInv, NEW m \in Modules, JournalImage(m), \A n \in Steady : ExplainedBut(n, Top.no)
  PROVE  \A n \in Steady' : ExplainedBut(n, Top.no)'
<1>1. op.pc = "journaling" /\ intent' = intent
  BY DEF JournalImage
<1>2. /\ m \in op.todo /\ Top'.no = Top.no /\ ToSet(steps') = Below \cup {Top'} /\ Tracked' = Tracked \cup {m}
      /\ \A s \in ToSet(steps) : s.no # Top.no => s \in ToSet(steps')
  BY ImageJournaled, TrackedAfter DEF Below
<1>3. /\ disk' = disk
      /\ \A n \in Modules \ {m} : known'[n] = known[n] /\ (n \in strange' <=> n \in strange)
      /\ m \notin strange' => m \notin strange \/ disk[m] = op.before[m]
      /\ \/ m \in Tracked /\ known'[m] = known[m] /\ (m \in strange' <=> m \in strange)
         \/ known'[m] = op.before[m]
  BY JournalKnows
<1>4. m \notin strange => disk[m] = op.before[m]
  BY <1>1, <1>2 DEF DiskInv
<1>5. ASSUME NEW n \in Steady' PROVE ExplainedBut(n, Top.no)'
  <2>1. n \in Modules /\ n \notin strange' /\ n \in Tracked'
    BY DEF Steady, Tracked
  <2>2. CASE n \in Steady /\ known'[n] = known[n]
    <3>1. ExplainedBut(n, Top.no)
      BY <2>2
    <3>2. PICK no : no = Top.no
      OBVIOUS
    <3>3. ExplainedBut(n, no)'
      BY <1>1, <1>2, <1>3, <2>2, <3>1, <3>2, CarriedBut
    <3> QED
      BY <1>2, <3>2, <3>3 DEF ExplainedBut
  <2>3. CASE n = m /\ known'[m] = op.before[m]
    <3>1. known'[n] = disk'[n]
      BY <1>3, <1>4, <2>1, <2>3
    <3> QED
      BY <3>1 DEF ExplainedBut, Known
  <2> QED
    BY <1>2, <1>3, <2>1, <2>2, <2>3 DEF Steady
<1> QED
  BY <1>5

\* A dropped transaction leaves no file to account for.
LEMMA DriftDropped ==
  ASSUME Drop
  PROVE  AllExplained' /\ PhaseDrift'
<1>1. Steady' = {}
  BY DropEmpties DEF Steady
<1> QED
  BY <1>1 DEF AllExplained, PhaseDrift

\* A revert's intent goes only with its transaction.
LEMMA RevertEnds ==
  ASSUME Shape, [Next]_vars, intent.kind = "revert", intent'.kind # "revert"
  PROVE  Drop
<1>1. intent # NoIntent
  BY DEF NoIntent
<1> QED
  BY <1>1, WhoIntends DEF Undo, Revert, FinalizeUndo

\* What every step knows of the accounts before it.
Accounted == Shape /\ DiskInv /\ AllExplained /\ PhaseDrift

\* A gated write, a note, a tracked file.
LEMMA ExplainedByGated ==
  ASSUME Accounted, NEW m \in Modules,
         Track(m) \/ NoteWrite(m) \/ PutFile(m) \/ NoteKnown(m) \/ \E c \in Contents : WriteFile(m, c)
  PROVE  AllExplained'
<1>0. Shape /\ DiskInv /\ AllExplained /\ op \in Ops /\ disk \in [Modules -> Contents]
  BY DEF Accounted, Shape, TypeOK
<1>1. CASE Track(m)
  <2>1. Know(m, disk[m]) /\ disk' = disk /\ steps' = steps /\ intent' = intent /\ op.pc = "idle"
    BY <1>1 DEF Track, ClaimBaseline
  <2> QED
    BY <1>0, <1>1, <2>1, TrackedAfter, DriftKnown
<1>2. CASE NoteWrite(m)
  <2>1. /\ Know(m, disk[m]) /\ disk' = disk /\ steps' = steps /\ intent' = intent /\ op.pc = "idle"
        /\ Tracked' = Tracked
    BY <1>2 DEF NoteWrite, Tracked
  <2> QED
    BY <1>0, <2>1, DriftKnown
<1>3. CASE NoteKnown(m)
  <2>1. /\ Know(m, op.text[m]) /\ disk' = disk /\ steps' = steps /\ intent' = intent
        /\ op.pc = "noting" /\ m \in op.todo /\ Tracked' = Tracked
    BY <1>3 DEF NoteKnown, Tracked
  <2>2. op.todo = {m} /\ (m \notin strange => disk[m] = op.text[m])
    BY <1>0, <2>1 DEF Shape, OpShape, DiskInv
  <2> QED
    BY <1>0, <2>1, <2>2, DriftKnown
<1>4. ASSUME NEW c \in Contents, WriteFile(m, c) PROVE AllExplained'
  <2>1. /\ disk' = disk /\ steps' = steps /\ intent' = intent /\ op.pc = "idle"
        /\ \/ Know(m, disk[m])
           \/ baseline' = baseline /\ known' = known /\ strange' = strange
    BY <1>4 DEF WriteFile, ClaimBaseline
  <2>2. Tracked' \subseteq Tracked \cup {m}
    BY <1>0, <1>4, TrackedAfter
  <2>3. CASE Know(m, disk[m])
    BY <1>0, <2>1, <2>2, <2>3, DriftKnown
  <2>4. CASE baseline' = baseline /\ known' = known /\ strange' = strange
    BY <1>0, <2>1, <2>4, DriftFrame
  <2> QED
    BY <2>1, <2>3, <2>4
<1>5. CASE PutFile(m)
  <2>1. CASE tx = "none"
    <3>1. baseline' = NoRows
      BY <1>0, <1>5, <2>1 DEF PutFile, journal, Shape, JournalShape
    <3> QED
      BY <3>1 DEF AllExplained, Steady, Tracked, NoRows
  <2>2. CASE tx # "none"
    <3>1. /\ op.pc = "putting" /\ m \in op.todo /\ op'.pc = "noting" /\ op'.todo = op.todo
          /\ disk' = [disk EXCEPT ![m] = op.text[m]] /\ strange' = strange
          /\ UNCHANGED <<baseline, known, steps, intent>>
      BY <1>0, <1>5, <2>2 DEF PutFile, journal, Ops
    <3>2. \A n \in Modules \ {m} : disk'[n] = disk[n]
      BY <1>0, <3>1
    <3>3. ASSUME NEW n \in Steady', n # m PROVE Explained(n)'
      <4>1. n \in Steady /\ n \in Modules /\ Explained(n)
        BY <1>0, <3>1 DEF Steady, Tracked, AllExplained
      <4> QED
        BY <3>1, <3>2, <3>3, <4>1, Carried
    <3> QED
      BY <3>1, <3>3 DEF AllExplained
  <2> QED
    BY <2>1, <2>2
<1> QED
  BY <1>1, <1>2, <1>3, <1>4, <1>5

\* A step's journal rows and writes.
LEMMA ExplainedByWrites ==
  ASSUME Accounted, intent.kind # "revert", NEW m \in Modules, JournalImage(m) \/ WriteModule(m)
  PROVE  AllExplained'
<1>0. Shape /\ DiskInv /\ AllExplained /\ PhaseDrift /\ op \in Ops /\ disk \in [Modules -> Contents]
  BY DEF Accounted, Shape, TypeOK
<1>1. CASE JournalImage(m)
  <2>1. \A n \in Steady : ExplainedBut(n, Top.no)
    BY <1>0, <1>1 DEF JournalImage, PhaseDrift
  <2>2. \A n \in Steady' : ExplainedBut(n, Top.no)'
    BY <1>0, <1>1, <2>1, DriftImaging
  <2> QED
    BY <2>2 DEF AllExplained, Explained, ExplainedBut
<1>2. CASE WriteModule(m)
  <2>1. /\ op.pc = "writing" /\ m \in op.todo /\ disk' = [disk EXCEPT ![m] = op.text[m]]
        /\ UNCHANGED <<baseline, known, steps, intent, strange>>
    BY <1>2 DEF WriteModule, journal
  <2>2. \A n \in Modules : disk'[n] = IF n = m THEN op.text[m] ELSE disk[n]
    BY <1>0, <2>1
  <2>3. Steady' = Steady /\ Steady \subseteq Modules
    BY <2>1 DEF Steady, Tracked
  <2>4. ASSUME NEW n \in Steady, n # m PROVE Explained(n)'
    BY <1>0, <2>1, <2>2, <2>3, <2>4, Carried DEF AllExplained
  <2>5. ASSUME m \in Steady PROVE Explained(m)'
    <3>1. /\ steps # <<>> /\ ~ Top.done /\ m \in Written /\ m \in Planned /\ op.text[m] \in Texts \cup {None}
          /\ Top.image[m].after = op.text[m] /\ op.text[m] # None
      BY <1>0, <2>1 DEF Shape, OpShape, PhaseShape, Stepping, Written
    <3>2. disk[m] = Top.image[m].before
      BY <1>0, <2>1, <2>5, <3>1 DEF DiskInv, Steady
    <3>3. Top \in ToSet(steps)
      BY <1>0, <3>1, StepFacts DEF Shape, JournalShape
    <3>4. CASE Unwritten(Top.image[m])
      <4>1. disk'[m] = disk[m]
        BY <2>2, <3>1, <3>2, <3>4 DEF Unwritten
      <4>2. Explained(m)
        BY <1>0, <2>1, <2>5 DEF AllExplained
      <4> QED
        BY <2>1, <4>1, <4>2, Carried
    <3>5. CASE ~ Unwritten(Top.image[m])
      <4>1. m \in ToRestore(Top)
        BY <3>1, <3>5 DEF ToRestore, Planned
      <4>2. PICK t : t = Top
        OBVIOUS
      <4>3. Excuses(t, m)'
        BY <2>2, <3>1, <4>1, <4>2 DEF Excuses
      <4> QED
        BY <2>1, <3>3, <4>2, <4>3 DEF Explained
    <3> QED
      BY <3>4, <3>5
  <2> QED
    BY <2>3, <2>4, <2>5 DEF AllExplained
<1> QED
  BY <1>1, <1>2

\* A restamp leaves the images of steady files as they are.
LEMMA RestampSteady ==
  ASSUME Accounted, NEW m \in Modules, RestampAfter(m)
  PROVE  \A n \in Steady \cap Planned : Top'.image[n] = Top.image[n]
<1>0. /\ Shape /\ DiskInv /\ steps # <<>> /\ Top \in Steps /\ Top' \in Steps /\ m \in Planned /\ Planned' = Planned
      /\ Top'.image[m].before = Top.image[m].before
      /\ Top'.image[m].after = IF disk[m] = Absent THEN Top.image[m].after ELSE disk[m]
      /\ \A n \in Modules \ {m} : Top'.image[n] = Top.image[n]
  BY ImageStamped DEF Accounted
<1>1. op.pc = "restamping" /\ m \in op.todo
  BY DEF RestampAfter
<1>2. Top.image[m].after # None
  BY <1>0, <1>1 DEF Shape, PhaseShape
<1>3. m \in Steady => disk[m] = Top.image[m].after
  BY <1>0, <1>1, <1>2 DEF DiskInv, Steady
<1>4. m \in Steady => Top'.image[m].after = Top.image[m].after
  BY <1>0, <1>3
<1>5. Top.image[m] \in Images /\ Top'.image[m] \in Images
  BY <1>0, CoveredImage DEF Planned
<1>6. m \in Steady => Top'.image[m] = Top.image[m]
  BY <1>0, <1>4, <1>5 DEF Images
<1> QED
  BY <1>0, <1>6, ModuleSets

\* A step's settling.
LEMMA ExplainedBySettling ==
  ASSUME Accounted, intent.kind # "revert",
         Finalize \/ \E m \in Modules : RestampAfter(m) \/ CompleteModule(m)
  PROVE  AllExplained'
<1>0. Shape /\ DiskInv /\ AllExplained /\ PhaseDrift /\ TypeOK /\ Ascending(steps)
  BY DEF Accounted, Shape, JournalShape
<1>1. ASSUME NEW m \in Modules, RestampAfter(m) PROVE AllExplained'
  <2>1. /\ op.pc = "restamping" /\ UNCHANGED <<disk, baseline, known, intent, strange>>
    BY <1>1 DEF RestampAfter
  <2>2. /\ steps # <<>> /\ ToSet(steps') = Below \cup {Top'} /\ Top'.no = Top.no /\ Top'.done = Top.done
        /\ \A n \in Modules \ {m} : Top'.image[n] = Top.image[n]
        /\ m \in Planned
    BY <1>0, <1>1, ImageStamped
  <2>3. ASSUME NEW n \in Steady' PROVE Explained(n)'
    <3>1. n \in Steady /\ n \in Modules
      BY <2>1 DEF Steady, Tracked
    <3>2. Explained(n)
      BY <1>0, <2>1, <3>1 DEF AllExplained
    <3>3. Top'.image[n] = Top.image[n]
      BY <1>1, <2>2, <3>1, RestampSteady
    <3> QED
      BY <1>0, <2>1, <2>2, <3>1, <3>2, <3>3, TopCarried
  <2> QED
    BY <2>3 DEF AllExplained
<1>2. ASSUME NEW m \in Modules, CompleteModule(m) PROVE AllExplained'
  <2>1. /\ op.pc = "settling" /\ UNCHANGED <<disk, baseline, intent>>
        /\ Know(m, IF Top.image[m].after # None THEN Top.image[m].after ELSE disk[m])
    BY <1>2 DEF CompleteModule
  <2>2. /\ steps # <<>> /\ ToSet(steps') = Below \cup {Top'} /\ Top'.no = Top.no /\ Top'.done = Top.done
        /\ \A n \in Modules \ {m} : Top'.image[n] = Top.image[n]
        /\ m \in Planned
    BY <1>0, <1>2, ImageStamped
  <2>3. /\ \A n \in Modules \ {m} : known'[n] = known[n] /\ (n \in strange' <=> n \in strange)
        /\ known'[m] = IF Top.image[m].after # None THEN Top.image[m].after ELSE disk[m]
        /\ m \notin strange' => m \notin strange \/ disk[m] = known'[m]
    BY <1>0, <2>1, KnowSteadies
  <2>4. m \notin strange /\ Top.image[m].after # None => disk[m] = Top.image[m].after
    BY <1>0, <2>1, <2>2 DEF DiskInv
  <2>5. ASSUME NEW n \in Steady' PROVE Explained(n)'
    <3>1. n \in Tracked /\ n \notin strange' /\ n \in Modules
      BY <2>1 DEF Steady, Tracked
    <3>2. CASE n = m
      BY <2>1, <2>3, <2>4, <3>1, <3>2, NowKnown
    <3>3. CASE n # m
      <4>1. Explained(n)
        BY <1>0, <2>1, <2>3, <3>1, <3>3 DEF AllExplained, Steady
      <4> QED
        BY <1>0, <2>1, <2>2, <2>3, <3>1, <3>3, <4>1, TopCarried
    <3> QED
      BY <3>2, <3>3
  <2> QED
    BY <2>5 DEF AllExplained
<1>3. CASE Finalize
  <2>1. /\ op.pc = "finishing" /\ UNCHANGED <<disk, baseline, known, intent, strange>>
    BY <1>3 DEF Finalize
  <2>2. /\ steps # <<>> /\ ToSet(steps') = Below \cup {Top'} /\ Top'.no = Top.no /\ Top'.image = Top.image
        /\ ToSet(steps) = Below \cup {Top}
    BY <1>0, <1>3, TopFinalized, StepFacts
  <2>3. op.todo = {}
    BY <1>0, <2>1 DEF Shape, PhaseShape
  <2>4. ASSUME NEW n \in Steady' PROVE Explained(n)'
    <3>1. n \in Steady /\ n \in Modules
      BY <2>1 DEF Steady, Tracked
    <3>2. Explained(n)
      BY <1>0, <2>1, <3>1 DEF AllExplained
    <3>3. CASE n \in Planned
      <4>1. Known(n)
        BY <1>0, <2>1, <2>3, <3>1, <3>3 DEF PhaseDrift
      <4> QED
        BY <2>1, <4>1 DEF Known, Explained
    <3>4. CASE n \notin Planned
      <4>1. ~ Excuses(Top, n)
        BY <3>4, ModuleSets DEF Excuses, Planned
      <4> QED
        BY <2>1, <2>2, <3>2, <4>1, Carried
    <3> QED
      BY <3>3, <3>4
  <2> QED
    BY <2>4 DEF AllExplained
<1> QED
  BY <1>1, <1>2, <1>3

\* A new step, and a failed step's release.
LEMMA ExplainedByRelease ==
  ASSUME Accounted, intent.kind # "revert",
         (\E mods \in SUBSET Modules : BeginStep(mods)) \/ \E m \in Modules : Release(m)
  PROVE  AllExplained'
<1>0. Shape /\ AllExplained /\ PhaseDrift /\ TypeOK /\ Ascending(steps)
  BY DEF Accounted, Shape, JournalShape
<1>1. ASSUME NEW mods \in SUBSET Modules, BeginStep(mods) PROVE AllExplained'
  <2>1. op.pc = "checked" /\ UNCHANGED <<disk, baseline, known, intent, strange>>
    BY <1>1 DEF BeginStep
  <2>2. ToSet(steps) \subseteq ToSet(steps')
    BY <1>0, <1>1, TopBegun
  <2>3. ASSUME NEW n \in Steady' PROVE Explained(n)'
    <3>1. Explained(n)
      BY <1>0, <2>1 DEF AllExplained, Steady, Tracked
    <3> QED
      BY <2>1, <2>2, <3>1, Carried
  <2> QED
    BY <2>3, SMTT(30) DEF AllExplained
<1>2. ASSUME NEW m \in Modules, Release(m) PROVE AllExplained'
  <2>1. /\ op.pc = "releasing" /\ m \in op.todo /\ UNCHANGED <<disk, intent, strange>>
    BY <1>2 DEF Release
  <2>2. /\ steps # <<>> /\ ToSet(steps') = Below \cup {Top'} /\ Top'.no = Top.no /\ Top'.done = Top.done
        /\ \A n \in Modules \ {m} : Top'.image[n] = Top.image[n]
    BY <1>0, <1>2, ImageReleased
  <2>3. /\ Tracked' = IF m \in op.fresh THEN Tracked \ {m} ELSE Tracked
        /\ \A n \in Tracked' : known'[n] = known[n]
    <3>1. Tracked' = IF m \in op.fresh THEN Tracked \ {m} ELSE Tracked
      BY <1>0, <1>2, TrackedAfter
    <3>2. \A n \in Modules : (n = m /\ m \in op.fresh) \/ known'[n] = known[n]
      BY <1>0, <1>2 DEF Release, TypeOK
    <3> QED
      BY <3>1, <3>2 DEF Tracked
  <2>4. ASSUME NEW n \in Steady' PROVE Explained(n)'
    <3>1. n \in Steady /\ n \in Modules /\ known'[n] = known[n]
      BY <2>1, <2>3 DEF Steady, Tracked
    <3>2. CASE n = m
      <4>1. ExplainedBut(n, Top.no)
        BY <1>0, <2>1, <3>1, <3>2 DEF PhaseDrift
      <4>2. \A s \in ToSet(steps) : s.no # Top.no => s \in ToSet(steps')
        BY <2>2 DEF Below
      <4>3. PICK no : no = Top.no
        OBVIOUS
      <4> QED
        BY <2>1, <3>1, <4>1, <4>2, <4>3, CarriedBut, NowAnyway
    <3>3. CASE n # m
      <4>1. Explained(n)
        BY <1>0, <2>1, <3>1 DEF AllExplained
      <4> QED
        BY <1>0, <2>1, <2>2, <3>1, <3>3, <4>1, TopCarried
    <3> QED
      BY <3>2, <3>3
  <2> QED
    BY <2>4 DEF AllExplained
<1> QED
  BY <1>1, <1>2


\* A gated write between its write and its note is noted, or the daemon dies.
LEMMA WhoLeavesNoting ==
  ASSUME Shape, [Next]_vars, op.pc = "noting"
  PROVE  Still \/ Crash \/ \E m \in Modules : NoteKnown(m)
<1>1. op.cur = None
  BY DEF Shape, OpShape
<1> QED
  BY <1>1 DEF Still, Next, Request, Proceed, Fault, vars, Save,
       Startup, Start, Track, NoteWrite, WriteFile, PutFile, PutThrows, NoteKnown, Commit, OpenStep,
       RefusePlan, BeginStep, JournalImage, WriteModule, WriteRefused, WriteThrows, NotAsPlanned,
       FixWritten, RestampAfter, CompleteModule, Finalize, CommitOwn, StepThrows, Release, Undo, UndoAsked,
       ResumeUndo, UndoRefused, Revert, ResumeRevert, Restore, Conflict, RestoreFails, Remember, RestoresOver,
       Unrestored, FinalizeUndo, FinalizeRevert, RecoverIntent, UnwindStep, UnwindFound, UnwindRestore,
       Unwinding, UnwindConflict, UnwindFails, UnwindBlocked, UnwindOver, RecoverEnd

\* What changes a row or writes a file; every other step only saves, estranges, or moves the operation on.
Accounting ==
    \/ Drop \/ Undo \/ Revert \/ FinalizeUndo \/ Finalize \/ UnwindOver \/ Remember
    \/ \E mods \in SUBSET Modules : BeginStep(mods)
    \/ \E m \in Modules :
          \/ Track(m) \/ NoteWrite(m) \/ PutFile(m) \/ NoteKnown(m) \/ \E c \in Contents : WriteFile(m, c)
          \/ JournalImage(m) \/ WriteModule(m) \/ RestampAfter(m) \/ CompleteModule(m) \/ Release(m)
          \/ Restore(m) \/ UnwindFound(m) \/ UnwindRestore(m)

\* What every other step leaves alone.
LEMMA NotAccounting ==
  ASSUME Shape, [Next]_vars, ~ Accounting
  PROVE  /\ UNCHANGED <<baseline, known, steps, intent>> /\ strange \subseteq strange'
         /\ \A m \in Modules \ strange' : disk'[m] = disk[m]
<1>1. UNCHANGED baseline /\ UNCHANGED known
  BY WhoTracks, WhoNotes DEF Accounting
<1>2. UNCHANGED steps /\ UNCHANGED intent
  BY WhoJournals, WhoIntends DEF Accounting
<1>3. strange \subseteq strange'
  BY WhoEstranges DEF Accounting, Save, Crash, UnwindBlocked
<1>4. ASSUME NEW m \in Modules \ strange' PROVE disk'[m] = disk[m]
  <2>1. \/ UNCHANGED disk
        \/ \E n \in Modules, c \in Contents : Save(n, c)
    BY WhoWrites DEF Accounting
  <2>2. disk \in [Modules -> Contents]
    BY DEF Shape, TypeOK
  <2> QED
    BY <1>4, <2>1, <2>2 DEF Save
<1> QED
  BY <1>1, <1>2, <1>3, <1>4

\* The steps that change no row and write no file.
LEMMA ExplainedOtherwise ==
  ASSUME Accounted, [Next]_vars, ~ Accounting
  PROVE  AllExplained'
<1>0. Shape /\ AllExplained
  BY DEF Accounted
<1>1. op.pc = "noting" => op.todo \subseteq strange' \/ (op'.pc = "noting" /\ op'.todo = op.todo)
  BY <1>0, WhoLeavesNoting DEF Still, Crash, Accounting
<1> QED
  BY <1>0, <1>1, NotAccounting, DriftFrame

\* An undo begins: until it is over, it accounts for what its step wrote.
LEMMA ExplainedByUndo ==
  ASSUME Accounted, Undo
  PROVE  AllExplained'
<1>1. /\ intent = NoIntent /\ UNCHANGED <<disk, baseline, known, steps, strange>> /\ op.pc # "noting"
  BY DEF Undo, UndoAsked
<1>2. intent.kind = "none"
  BY <1>1 DEF NoIntent
<1>3. ASSUME NEW n \in Steady' PROVE Explained(n)'
  <2>1. n \in Steady /\ Explained(n)
    BY <1>1 DEF Steady, Tracked, Accounted, AllExplained
  <2>2. CASE Known(n)
    BY <1>1, <2>2 DEF Explained, Known
  <2>3. ASSUME NEW s \in ToSet(steps), Excuses(s, n) PROVE Explained(n)'
    <3>1. Excuses(s, n)' /\ s \in ToSet(steps')
      BY <1>1, <1>2, <2>3 DEF Excuses
    <3> QED
      BY <3>1 DEF Explained
  <2> QED
    BY <2>1, <2>2, <2>3 DEF Explained
<1> QED
  BY <1>3 DEF AllExplained

\* A file is put back, by an undo or by recovery: the step still accounts for it.
LEMMA ExplainedByRestore ==
  ASSUME Accounted, intent.kind # "revert", NEW m \in Modules, Restore(m) \/ UnwindRestore(m)
  PROVE  AllExplained'
<1>0. Shape /\ AllExplained /\ op \in Ops /\ disk \in [Modules -> Contents] /\ TypeOK /\ Ascending(steps)
  BY DEF Accounted, Shape, TypeOK, JournalShape
<1>1. /\ disk' = [disk EXCEPT ![m] = ImageOf(m)] /\ m \in op.todo /\ op.pc \in {"restoring", "unwinding"}
      /\ UNCHANGED <<baseline, known, steps, intent, strange>>
  BY DEF Restore, UnwindRestore, Unwinding, journal
<1>2. \A n \in Modules : disk'[n] = IF n = m THEN ImageOf(m) ELSE disk[n]
  BY <1>0, <1>1
<1>3. \E s \in ToSet(steps) : Excuses(s, m)'
  <2>1. CASE op.pc = "restoring"
    <3>1. intent.kind = "undo"
      BY <1>0, <2>1 DEF Shape, PhaseShape, TypeOK, Intents
    <3>2. PICK s \in ToSet(steps) : s.no = intent.no
      BY <1>0, <3>1 DEF Shape, JournalShape, IntentHasItsStep
    <3>3. m \in ToRestore(s)
      BY <1>0, <1>1, <2>1, <3>1, <3>2 DEF Shape, PhaseShape, Handled
    <3> QED
      BY <1>1, <3>1, <3>2, <3>3 DEF Excuses
  <2>2. CASE op.pc = "unwinding"
    <3>1. PICK s \in ToSet(steps) : s.no = op.at /\ ~ s.done
      BY <1>0, <2>2 DEF Shape, PhaseShape
    <3>2. m \in ToRestore(s)
      BY <1>0, <1>1, <2>2, <3>1 DEF Shape, PhaseShape, Handled
    <3>3. disk'[m] = s.image[m].before
      BY <1>0, <1>2, <2>2, <3>1, RestoredImage
    <3> QED
      BY <3>1, <3>2, <3>3 DEF Excuses
  <2> QED
    BY <1>1, <2>1, <2>2
<1>4. ASSUME NEW n \in Steady' PROVE Explained(n)'
  <2>1. n \in Steady /\ n \in Modules /\ Explained(n)
    BY <1>0, <1>1 DEF Steady, Tracked, AllExplained
  <2>2. CASE n = m
    BY <1>1, <1>3, <2>2 DEF Explained
  <2>3. CASE n # m
    BY <1>1, <1>2, <2>1, <2>3, Carried
  <2> QED
    BY <2>2, <2>3
<1> QED
  BY <1>4 DEF AllExplained

\* What was put back, or found so, is the known state.
LEMMA ExplainedByKnowing ==
  ASSUME Accounted, Remember \/ \E m \in Modules : UnwindFound(m)
  PROVE  AllExplained'
<1>0. Shape /\ AllExplained /\ DiskInv /\ op \in Ops
  BY DEF Accounted, Shape, TypeOK
<1>1. CASE Remember
  <2>1. /\ op.cur \in Modules /\ op.cur # None /\ Know(op.cur, ImageOf(op.cur)) /\ op.pc # "noting"
        /\ disk' = disk /\ steps' = steps /\ intent' = intent /\ Tracked' = Tracked
    BY <1>0, <1>1 DEF Remember, Tracked, Ops, Shape, OpShape
  <2>2. op.cur \notin strange => disk[op.cur] = ImageOf(op.cur)
    BY <1>0, <2>1 DEF DiskInv
  <2> QED
    BY <1>0, <2>1, <2>2, DriftKnown
<1>2. ASSUME NEW m \in Modules, UnwindFound(m) PROVE AllExplained'
  <2>1. /\ Know(m, disk[m]) /\ op.pc = "unwinding"
        /\ disk' = disk /\ steps' = steps /\ intent' = intent /\ Tracked' = Tracked
    BY <1>2 DEF UnwindFound, Unwinding, Tracked
  <2> QED
    BY <1>0, <2>1, DriftKnown
<1> QED
  BY <1>1, <1>2

\* An undone step leaves nothing of its own: what it wrote is in its known state, or another step
\* accounts for it.
LEMMA ExplainedByUndone ==
  ASSUME Accounted, FinalizeUndo \/ UnwindOver
  PROVE  AllExplained'
<1>0. Shape /\ AllExplained /\ PhaseDrift /\ TypeOK /\ Ascending(steps) /\ op \in Ops
  BY DEF Accounted, Shape, TypeOK, JournalShape
<1>1. CASE FinalizeUndo
  <2>1. /\ op.pc = "restoring" /\ op.todo = {} /\ op.cur = None /\ ~ op.clash /\ intent.kind = "undo"
        /\ steps' = Without(intent.no) /\ intent' = NoIntent /\ UNCHANGED <<disk, baseline, known, strange>>
    BY <1>1 DEF FinalizeUndo, RestoresOver
  <2>2. PICK s \in ToSet(steps) : s.no = intent.no
    BY <1>0, <2>1 DEF Shape, JournalShape, IntentHasItsStep
  <2>3. ToSet(steps') = {t \in ToSet(steps) : t.no # s.no}
    BY <1>0, <2>1, <2>2, StepDropped
  <2>4. Handled = {}
    BY <2>1 DEF Handled
  <2>5. ASSUME NEW n \in Steady' PROVE Explained(n)'
    <3>1. n \in Steady /\ Explained(n)
      BY <1>0, <2>1 DEF Steady, Tracked, AllExplained
    <3>2. Known(n) => Explained(n)'
      BY <2>1 DEF Known, Explained
    <3>3. ASSUME NEW t \in ToSet(steps), Excuses(t, n) PROVE Explained(n)'
      <4>1. CASE t.no = s.no
        BY <1>0, <2>1, <2>2, <2>4, <3>1, <3>2, <3>3, <4>1 DEF PhaseDrift, Excuses
      <4>2. CASE t.no # s.no
        <5>1. Excuses(t, n)' /\ t \in ToSet(steps')
          BY <2>1, <2>2, <2>3, <3>3, <4>2 DEF Excuses
        <5> QED
          BY <5>1 DEF Explained
      <4> QED
        BY <4>1, <4>2
    <3> QED
      BY <3>1, <3>2, <3>3 DEF Explained
  <2> QED
    BY <2>5 DEF AllExplained
<1>2. CASE UnwindOver
  <2>1. /\ op.pc = "unwinding" /\ op.todo = {} /\ op.cur = None
        /\ steps' = IF op.clash THEN steps ELSE Without(op.at)
        /\ UNCHANGED <<disk, baseline, known, intent, strange>>
    BY <1>2 DEF UnwindOver
  <2>2. PICK s \in ToSet(steps) : s.no = op.at
    BY <1>0, <2>1 DEF Shape, PhaseShape
  <2>3. Handled = {}
    BY <2>1 DEF Handled
  <2>4. CASE op.clash
    BY <1>0, <2>1, <2>4, DriftFrame
  <2>5. CASE ~ op.clash
    <3>1. ToSet(steps') = {t \in ToSet(steps) : t.no # s.no}
      BY <1>0, <2>1, <2>2, <2>5, StepDropped
    <3>2. ASSUME NEW n \in Steady' PROVE Explained(n)'
      <4>1. n \in Steady /\ Explained(n)
        BY <1>0, <2>1 DEF Steady, Tracked, AllExplained
      <4>2. ASSUME ExplainedBut(n, op.at) PROVE Explained(n)'
        <5>1. PICK no : no = op.at
          OBVIOUS
        <5>2. ExplainedBut(n, no)'
          BY <2>1, <2>2, <3>1, <4>2, <5>1, CarriedBut
        <5> QED
          BY <5>2, NowAnyway
      <4>3. CASE n \in ToRestore(s)
        BY <1>0, <2>1, <2>2, <2>3, <2>5, <4>1, <4>2, <4>3 DEF PhaseDrift
      <4>4. CASE n \notin ToRestore(s)
        <5>1. \A t \in ToSet(steps) : Excuses(t, n) => t.no # op.at
          BY <1>0, <2>2, <4>4, StepFacts DEF Excuses
        <5> QED
          BY <4>1, <4>2, <5>1 DEF Explained, ExplainedBut
      <4> QED
        BY <4>3, <4>4
    <3> QED
      BY <3>2 DEF AllExplained
  <2> QED
    BY <2>4, <2>5
<1> QED
  BY <1>1, <1>2

\* Every difference stays accounted for.
LEMMA AllStayExplained ==
  ASSUME Accounted, [Next]_vars, intent.kind # "revert", intent'.kind # "revert"
  PROVE  AllExplained'
<1>1. ~ Revert
  BY DEF Revert, NoIntent
<1> QED
  BY <1>1, ExplainedOtherwise, DriftDropped, ExplainedByUndo, ExplainedByRestore, ExplainedByKnowing,
     ExplainedByUndone, ExplainedByGated, ExplainedByWrites, ExplainedBySettling, ExplainedByRelease
     DEF Accounting

\* Nobody but the step under way accounts for what it has come to: journaling, writing, releasing.
LEMMA CarriedButTop ==
  ASSUME NEW m, ExplainedBut(m, Top.no), known'[m] = known[m], disk'[m] = disk[m], intent' = intent,
         Top'.no = Top.no, \A s \in Below : s \in ToSet(steps')
  PROVE  ExplainedBut(m, Top.no)'
<1>1. PICK no : no = Top.no
  OBVIOUS
<1>2. ExplainedBut(m, no)'
  BY <1>1, CarriedBut DEF Below
<1> QED
  BY <1>1, <1>2 DEF ExplainedBut

\* What the world leaves of the accounts.
LEMMA StillSteady ==
  ASSUME Shape, Still
  PROVE  /\ UNCHANGED <<journal, op>> /\ Planned' = Planned /\ Top' = Top /\ Written' = Written /\ Handled' = Handled
         /\ Steady' \subseteq Steady /\ Steady' \subseteq Modules
         /\ \A m \in Steady' : known'[m] = known[m] /\ disk'[m] = disk[m]
         /\ ToSet(steps') = ToSet(steps) /\ Below \subseteq ToSet(steps)
<1>1. /\ UNCHANGED <<journal, op>> /\ strange \subseteq strange'
      /\ \A m \in Modules \ strange' : disk'[m] = disk[m]
  BY StillDisk
<1> QED
  BY <1>1 DEF journal, Planned, Top, Written, Handled, Steady, Tracked, Below

\* A step that reads and journals its files.
LEMMA DriftOfJournaling ==
  ASSUME Accounted, [Next]_vars, op'.pc = "journaling"
  PROVE  \A n \in Steady' : ExplainedBut(n, Top.no)'
<1>0. Shape /\ DiskInv /\ AllExplained /\ PhaseDrift /\ op \in Ops
  BY DEF Accounted, Shape, TypeOK
<1>1. CASE Still
  <2>1. op.pc = "journaling" /\ intent' = intent
    BY <1>0, <1>1, StillSteady DEF journal
  <2> QED
    BY <1>0, <1>1, <2>1, StillSteady, CarriedButTop DEF PhaseDrift
<1>2. ASSUME NEW mods \in SUBSET Modules, BeginStep(mods) PROVE \A n \in Steady' : ExplainedBut(n, Top.no)'
  <2>1. op.pc = "checked" /\ UNCHANGED <<disk, baseline, known, intent, strange>>
    BY <1>2 DEF BeginStep
  <2>2. /\ ToSet(steps) \subseteq ToSet(steps') /\ Below' = ToSet(steps)
    BY <1>0, <1>2, TopBegun
  <2>3. \A s \in ToSet(steps) : s.no # Top'.no
    BY <2>2 DEF Below
  <2>4. ASSUME NEW n \in Steady' PROVE ExplainedBut(n, Top.no)'
    <3>1. Explained(n)
      BY <1>0, <2>1 DEF Steady, Tracked, AllExplained
    <3>2. \A s \in ToSet(steps) : Excuses(s, n) => Excuses(s, n)'
      BY <2>1, ExcusesSame
    <3> QED
      BY <2>1, <2>2, <2>3, <3>1, <3>2 DEF Explained, ExplainedBut, Known
  <2> QED
    BY <2>4
<1>3. ASSUME NEW m \in Modules, JournalImage(m) PROVE \A n \in Steady' : ExplainedBut(n, Top.no)'
  BY <1>0, <1>3, DriftImaging DEF PhaseDrift, JournalImage
<1> QED
  BY <1>0, <1>1, <1>2, <1>3, IntoJournaling

\* A step accounts only for the files it has written.
LEMMA DriftOfWriting ==
  ASSUME Accounted, [Next]_vars, op'.pc = "writing"
  PROVE  \A n \in Steady' \ (Written' \ op'.todo) : ExplainedBut(n, Top.no)'
<1>0. Shape /\ DiskInv /\ AllExplained /\ PhaseDrift /\ op \in Ops /\ disk \in [Modules -> Contents]
  BY DEF Accounted, Shape, TypeOK
<1>1. CASE Still
  <2>1. op.pc = "writing" /\ intent' = intent /\ op'.todo = op.todo
    BY <1>0, <1>1, StillSteady DEF journal
  <2> QED
    BY <1>0, <1>1, <2>1, StillSteady, CarriedButTop DEF PhaseDrift
<1>2. ASSUME NEW m \in Modules, JournalImage(m) PROVE \A n \in Steady' : ExplainedBut(n, Top.no)'
  BY <1>0, <1>2, DriftImaging DEF PhaseDrift, JournalImage
<1>3. ASSUME NEW m \in Modules, WriteModule(m)
      PROVE  \A n \in Steady' \ (Written' \ op'.todo) : ExplainedBut(n, Top.no)'
  <2>1. /\ op.pc = "writing" /\ m \in op.todo /\ disk' = [disk EXCEPT ![m] = op.text[m]]
        /\ op'.todo = op.todo \ {m} /\ op'.text = op.text
        /\ UNCHANGED <<baseline, known, steps, intent, strange>>
    BY <1>0, <1>3 DEF WriteModule, journal, Ops
  <2>2. /\ Top' = Top /\ Below \subseteq ToSet(steps') /\ Written' = Written /\ m \in Written
        /\ Steady' = Steady /\ Steady \subseteq Modules
    BY <1>0, <2>1 DEF Top, Below, Written, Steady, Tracked, Shape, PhaseShape
  <2>3. ASSUME NEW n \in Steady' \ (Written' \ op'.todo) PROVE ExplainedBut(n, Top.no)'
    <3>1. n \in Steady \ (Written \ op.todo) /\ n # m
      BY <2>1, <2>2
    <3>2. ExplainedBut(n, Top.no)
      BY <1>0, <2>1, <3>1 DEF PhaseDrift
    <3>3. disk'[n] = disk[n]
      BY <1>0, <2>1, <2>2, <3>1
    <3> QED
      BY <2>1, <2>2, <3>2, <3>3, CarriedButTop
  <2> QED
    BY <2>3
<1> QED
  BY <1>0, <1>1, <1>2, <1>3, IntoWriting

\* Nor does it for the files it releases.
LEMMA DriftOfReleasing ==
  ASSUME Accounted, [Next]_vars, op'.pc = "releasing"
  PROVE  \A n \in Steady' \cap op'.todo : ExplainedBut(n, Top.no)'
<1>0. Shape /\ DiskInv /\ AllExplained /\ PhaseDrift /\ op \in Ops
  BY DEF Accounted, Shape, TypeOK
<1>1. CASE Still
  <2>1. op.pc = "releasing" /\ intent' = intent /\ op'.todo = op.todo
    BY <1>0, <1>1, StillSteady DEF journal
  <2> QED
    BY <1>0, <1>1, <2>1, StillSteady, CarriedButTop DEF PhaseDrift
<1>2. ASSUME NEW landed, NEW threw, Written \ op.todo \subseteq landed, op' = Fail(landed, threw),
             op.pc = "writing", UNCHANGED <<disk, journal, strange>>
      PROVE  \A n \in Steady' \cap op'.todo : ExplainedBut(n, Top.no)'
  <2>1. op'.todo = Planned \ (landed \cup threw)
    BY <1>2 DEF Fail, Idle
  <2>2. Top' = Top /\ Below \subseteq ToSet(steps') /\ Steady' = Steady /\ UNCHANGED <<disk, known, intent>>
    BY <1>2 DEF Top, Below, Steady, Tracked, journal
  <2>3. ASSUME NEW n \in Steady' \cap op'.todo PROVE ExplainedBut(n, Top.no)'
    <3>1. n \in Steady \ (Written \ op.todo)
      BY <1>2, <2>1, <2>2
    <3>2. ExplainedBut(n, Top.no)
      BY <1>0, <1>2, <3>1 DEF PhaseDrift
    <3> QED
      BY <2>2, <3>2, CarriedButTop
  <2> QED
    BY <2>3
<1>3. CASE NotAsPlanned
  <2>1. /\ op' = Fail(Written, {}) /\ op.pc = "writing" /\ UNCHANGED <<disk, journal, strange>>
        /\ Written \ op.todo \subseteq Written
    BY <1>3 DEF NotAsPlanned
  <2> QED
    BY <1>2, <2>1
<1>4. ASSUME NEW m \in Modules, WriteRefused(m) PROVE \A n \in Steady' \cap op'.todo : ExplainedBut(n, Top.no)'
  <2>1. op' = Fail(Written \ op.todo, {}) /\ op.pc = "writing" /\ UNCHANGED <<disk, journal, strange>>
    BY <1>4 DEF WriteRefused
  <2> QED
    BY <1>2, <2>1
<1>5. ASSUME NEW m \in Modules, WriteThrows(m) PROVE \A n \in Steady' \cap op'.todo : ExplainedBut(n, Top.no)'
  <2>1. op' = Fail(Written \ op.todo, {m}) /\ op.pc = "writing" /\ UNCHANGED <<disk, journal, strange>>
    BY <1>5 DEF WriteThrows
  <2> QED
    BY <1>2, <2>1
<1>6. ASSUME NEW m \in Modules, Release(m) PROVE \A n \in Steady' \cap op'.todo : ExplainedBut(n, Top.no)'
  <2>1. /\ op.pc = "releasing" /\ m \in op.todo /\ op'.todo = op.todo \ {m} /\ UNCHANGED <<disk, intent, strange>>
    BY <1>0, <1>6 DEF Release, Ops
  <2>2. ToSet(steps') = Below \cup {Top'} /\ Top'.no = Top.no
    BY <1>0, <1>6, ImageReleased
  <2>3. Tracked' \subseteq Tracked /\ \A n \in Modules \ {m} : known'[n] = known[n]
    BY <1>0, <1>6, TrackedAfter DEF Release, Shape, TypeOK
  <2>4. ASSUME NEW n \in Steady' \cap op'.todo PROVE ExplainedBut(n, Top.no)'
    <3>1. n \in Steady \cap op.todo /\ n # m /\ n \in Modules
      BY <2>1, <2>3 DEF Steady, Tracked
    <3>2. ExplainedBut(n, Top.no)
      BY <1>0, <2>1, <3>1 DEF PhaseDrift
    <3> QED
      BY <2>1, <2>2, <2>3, <3>1, <3>2, CarriedButTop
  <2> QED
    BY <2>4
<1> QED
  BY <1>0, <1>1, <1>3, <1>4, <1>5, <1>6, IntoReleasing

\* A step that settles knows what the modules it is done with hold.
LEMMA DriftOfSettling ==
  ASSUME Accounted, [Next]_vars, op'.pc \in {"settling", "finishing"}
  PROVE  \A n \in (Steady' \cap Planned') \ op'.todo : Known(n)'
<1>0. Shape /\ DiskInv /\ AllExplained /\ PhaseDrift /\ op \in Ops
  BY DEF Accounted, Shape, TypeOK
<1>1. CASE Still
  BY <1>0, <1>1, StillSteady DEF PhaseDrift, Known
<1>2. ASSUME NEW ran \in BOOLEAN, FixWritten(ran), op'.pc = "settling" PROVE Planned' \subseteq op'.todo
  BY <1>2 DEF FixWritten, Idle, journal, Planned, Top
<1>3. ASSUME NEW m \in Modules, RestampAfter(m), op'.pc = "settling" PROVE Planned' \subseteq op'.todo
  <2>1. Planned' = Planned
    BY <1>0, <1>3, ImageStamped
  <2> QED
    BY <1>0, <1>3, <2>1 DEF RestampAfter, Ops
<1>4. ASSUME NEW m \in Modules, CompleteModule(m)
      PROVE  \A n \in (Steady' \cap Planned') \ op'.todo : Known(n)'
  <2>1. /\ op.pc = "settling" /\ m \in op.todo /\ UNCHANGED <<disk, baseline, intent>>
        /\ Know(m, IF Top.image[m].after # None THEN Top.image[m].after ELSE disk[m])
        /\ op'.todo = op.todo \ {m}
    BY <1>0, <1>4 DEF CompleteModule, Ops
  <2>2. Planned' = Planned /\ m \in Planned
    BY <1>0, <1>4, ImageStamped
  <2>3. /\ \A n \in Modules \ {m} : known'[n] = known[n] /\ (n \in strange' <=> n \in strange)
        /\ known'[m] = IF Top.image[m].after # None THEN Top.image[m].after ELSE disk[m]
        /\ m \notin strange' => m \notin strange \/ disk[m] = known'[m]
    BY <1>0, <2>1, KnowSteadies
  <2>4. m \notin strange /\ Top.image[m].after # None => disk[m] = Top.image[m].after
    BY <1>0, <2>1, <2>2 DEF DiskInv
  <2>5. ASSUME NEW n \in (Steady' \cap Planned') \ op'.todo PROVE Known(n)'
    <3>1. n \in Tracked /\ n \notin strange' /\ n \in Modules /\ n \in Planned
      BY <2>1, <2>2 DEF Steady, Tracked
    <3>2. CASE n = m
      BY <2>1, <2>3, <2>4, <3>1, <3>2 DEF Known
    <3>3. CASE n # m
      <4>1. n \in (Steady \cap Planned) \ op.todo
        BY <2>1, <2>3, <3>1, <3>3 DEF Steady
      <4>2. Known(n)
        BY <1>0, <2>1, <4>1 DEF PhaseDrift
      <4> QED
        BY <2>1, <2>3, <3>1, <3>3, <4>2 DEF Known
    <3> QED
      BY <3>2, <3>3
  <2> QED
    BY <2>5
<1> QED
  BY <1>0, <1>1, <1>2, <1>3, <1>4, IntoSettling, IntoFinishing

\* An undo knows what the files it is done with hold, unless one was in the way.
LEMMA DriftOfUndo ==
  ASSUME Accounted, [Next]_vars, op'.pc = "restoring", intent'.kind = "undo", ~ op'.clash,
         NEW s \in ToSet(steps'), s.no = intent'.no, NEW n \in (Steady' \cap ToRestore(s)) \ Handled'
  PROVE  Known(n)'
<1>0. /\ Shape /\ DiskInv /\ AllExplained /\ PhaseDrift /\ op \in Ops /\ disk \in [Modules -> Contents]
      /\ TypeOK /\ Ascending(steps)
  BY DEF Accounted, Shape, TypeOK, JournalShape
<1>1. CASE Still
  <2>1. /\ op' = op /\ intent' = intent /\ steps' = steps /\ n \in Steady
        /\ known'[n] = known[n] /\ disk'[n] = disk[n] /\ Handled' = Handled
    BY <1>0, <1>1, StillSteady DEF journal
  <2>2. Known(n)
    BY <1>0, <2>1 DEF PhaseDrift
  <2> QED
    BY <2>1, <2>2 DEF Known
<1>2. ASSUME op' = Restoring(ToRestore(Numbered(intent'.no))), steps' = steps PROVE FALSE
  <2>1. Numbered(s.no) = s
    BY <1>0, <1>2, StepFacts
  <2>2. op'.todo = ToRestore(s)
    BY <1>2, <2>1 DEF Restoring, Idle
  <2> QED
    BY <2>2 DEF Handled
<1>3. CASE Undo
  <2>1. op' = Restoring(ToRestore(Top)) /\ steps' = steps /\ steps # <<>> /\ intent'.no = Top.no
    BY <1>3 DEF Undo, NoIntent
  <2>2. Numbered(Top.no) = Top
    BY <1>0, <2>1, StepFacts
  <2> QED
    BY <1>2, <2>1, <2>2
<1>4. CASE ResumeUndo \/ RecoverIntent
  <2>1. op' = Restoring(ToRestore(Numbered(intent'.no))) /\ steps' = steps
    BY <1>4 DEF ResumeUndo, RecoverIntent, journal
  <2> QED
    BY <1>2, <2>1
<1>5. CASE Revert \/ ResumeRevert
  BY <1>5 DEF Revert, ResumeRevert, NoIntent, journal
<1>6. ASSUME NEW m \in Modules, Restore(m) PROVE Known(n)'
  <2>1. /\ op.pc = "restoring" /\ op.cur = None /\ m \in op.todo /\ disk' = [disk EXCEPT ![m] = ImageOf(m)]
        /\ op'.cur = m /\ op'.todo = op.todo \ {m} /\ op'.clash = op.clash
        /\ UNCHANGED <<baseline, known, steps, intent, strange>>
    BY <1>0, <1>6 DEF Restore, journal, Ops
  <2>2. n # m /\ n \notin Handled /\ n \in Modules /\ n \in Steady
    BY <2>1, ConstantsAssumption DEF Handled, Steady, Tracked
  <2>3. Known(n)
    BY <1>0, <2>1, <2>2 DEF PhaseDrift
  <2> QED
    BY <1>0, <2>1, <2>2, <2>3 DEF Known
<1>7. ASSUME NEW m \in Modules, Conflict(m) \/ RestoreFails(m) PROVE FALSE
  BY <1>0, <1>7 DEF Conflict, RestoreFails, Ops
<1>8. CASE Remember
  <2>1. /\ op.pc = "restoring" /\ op.cur # None /\ op.cur \in Modules /\ Know(op.cur, ImageOf(op.cur))
        /\ op'.todo = op.todo /\ op'.cur = None /\ op'.clash = op.clash
        /\ UNCHANGED <<disk, baseline, steps, intent>>
    BY <1>0, <1>8 DEF Remember, Ops
  <2>2. /\ \A o \in Modules \ {op.cur} : known'[o] = known[o] /\ (o \in strange' <=> o \in strange)
        /\ known'[op.cur] = ImageOf(op.cur)
        /\ op.cur \notin strange' => op.cur \notin strange \/ disk[op.cur] = ImageOf(op.cur)
    BY <1>0, <2>1, KnowSteadies
  <2>3. op.cur \notin strange => disk[op.cur] = ImageOf(op.cur)
    BY <1>0, <2>1 DEF DiskInv
  <2>4. n \in Tracked /\ n \in Modules /\ n \notin strange' /\ n \notin op.todo
    BY <2>1 DEF Steady, Tracked, Handled
  <2>5. CASE n = op.cur
    BY <2>1, <2>2, <2>3, <2>4, <2>5 DEF Known
  <2>6. CASE n # op.cur
    <3>1. n \in (Steady \cap ToRestore(s)) \ Handled
      BY <2>1, <2>2, <2>4, <2>6 DEF Steady, Handled
    <3>2. Known(n)
      BY <1>0, <2>1, <3>1 DEF PhaseDrift
    <3> QED
      BY <2>1, <2>2, <2>4, <2>6, <3>2 DEF Known
  <2> QED
    BY <2>5, <2>6
<1> QED
  BY <1>0, <1>1, <1>3, <1>4, <1>5, <1>6, <1>7, <1>8, IntoRestoring

\* The file of a conflict holds neither image, so the step being unwound does not account for it.
LEMMA ConflictElsewhere ==
  ASSUME Accounted, NEW m \in Modules, UnwindConflict(m), m \in Steady
  PROVE  ExplainedBut(m, op.at)
<1>0. Shape /\ AllExplained /\ TypeOK /\ Ascending(steps)
  BY DEF Accounted, Shape, JournalShape
<1>1. /\ op.pc = "unwinding" /\ intent = NoIntent /\ disk[m] # ImageOf(m)
      /\ ~ OutputOnDisk(Numbered(op.at).image[m], m)
  BY <1>0 DEF UnwindConflict, Unwinding, Shape, PhaseShape
<1>2. Explained(m)
  BY <1>0, <1>1 DEF AllExplained
<1>3. disk[m] # None
  BY <1>0, ConstantsAssumption DEF TypeOK, Contents
<1>4. ASSUME NEW s \in ToSet(steps), Excuses(s, m) PROVE s.no # op.at
  <2> SUFFICES ASSUME s.no = op.at
               PROVE  FALSE
    OBVIOUS
  <2>1. Numbered(op.at) = s
    BY <1>0, StepFacts
  <2>2. disk[m] # s.image[m].before /\ (s.image[m].after # None => disk[m] # s.image[m].after)
    BY <1>0, <1>1, <2>1, RestoredImage DEF OutputOnDisk
  <2>3. intent.kind # "undo"
    BY <1>1 DEF NoIntent
  <2> QED
    BY <1>3, <1>4, <2>2, <2>3 DEF Excuses
<1> QED
  BY <1>2, <1>4 DEF Explained, ExplainedBut

\* Recovery leaves no account of the step it unwinds for the files it is done with.
LEMMA DriftOfUnwind ==
  ASSUME Accounted, [Next]_vars, op'.pc = "unwinding", ~ op'.clash,
         NEW s \in ToSet(steps'), s.no = op'.at, NEW n \in (Steady' \cap ToRestore(s)) \ Handled'
  PROVE  ExplainedBut(n, op.at)'
<1>0. /\ Shape /\ DiskInv /\ AllExplained /\ PhaseDrift /\ op \in Ops /\ disk \in [Modules -> Contents]
      /\ TypeOK /\ Ascending(steps)
  BY DEF Accounted, Shape, TypeOK, JournalShape
<1>a. n \in Tracked' /\ n \in Modules /\ n \notin strange'
  BY DEF Steady, Tracked
<1>1. ASSUME steps' = steps, intent' = intent, op'.at = op.at, known'[n] = known[n], disk'[n] = disk[n],
             ExplainedBut(n, op.at)
      PROVE  ExplainedBut(n, op.at)'
  <2>1. PICK no : no = op.at
    OBVIOUS
  <2>2. ExplainedBut(n, no)'
    BY <1>1, <2>1, CarriedBut
  <2> QED
    BY <1>1, <2>1, <2>2 DEF ExplainedBut
<1>2. CASE Still
  <2>1. /\ op' = op /\ intent' = intent /\ steps' = steps /\ n \in Steady
        /\ known'[n] = known[n] /\ disk'[n] = disk[n] /\ Handled' = Handled
    BY <1>0, <1>2, StillSteady DEF journal
  <2>2. ExplainedBut(n, op.at)
    BY <1>0, <2>1 DEF PhaseDrift
  <2> QED
    BY <1>1, <2>1, <2>2
<1>3. CASE UnwindStep
  <2>1. op'.at = Max(ToUnwind) /\ op'.todo = ToRestore(Numbered(Max(ToUnwind))) /\ steps' = steps
    BY <1>0, <1>3 DEF UnwindStep, journal, Ops
  <2>2. Numbered(s.no) = s
    BY <1>0, <2>1, StepFacts
  <2> QED
    BY <2>1, <2>2 DEF Handled
<1>4. ASSUME NEW m \in Modules,
             UnwindFound(m) \/ UnwindRestore(m) \/ UnwindConflict(m) \/ UnwindBlocked(m), n # m
      PROVE  ExplainedBut(n, op.at)'
  <2>1. /\ op.pc = "unwinding" /\ op.cur = None /\ m \in op.todo
        /\ op'.todo = op.todo \ {m} /\ op'.clash = op.clash /\ op'.at = op.at
        /\ UNCHANGED <<baseline, steps, intent>>
    BY <1>0, <1>4 DEF UnwindFound, UnwindRestore, UnwindConflict, UnwindBlocked, Unwinding, journal, Ops
  <2>2. op'.cur \in {m, None}
    BY <1>0, <1>4, <2>1 DEF UnwindFound, UnwindRestore, UnwindConflict, UnwindBlocked, Ops
  <2>3. disk'[n] = disk[n] /\ known'[n] = known[n] /\ n \notin strange
    <3>1. CASE UnwindFound(m)
      <4>1. Know(m, disk[m]) /\ disk' = disk
        BY <3>1 DEF UnwindFound
      <4> QED
        BY <1>0, <1>4, <1>a, <4>1, KnowSteadies
    <3>2. CASE UnwindRestore(m) \/ UnwindConflict(m) \/ UnwindBlocked(m)
      BY <1>0, <1>4, <1>a, <3>2 DEF UnwindRestore, UnwindConflict, UnwindBlocked, journal
    <3> QED
      BY <1>4, <3>1, <3>2
  <2>4. n \in (Steady \cap ToRestore(s)) \ Handled
    BY <1>4, <1>a, <2>1, <2>2, <2>3 DEF Steady, Tracked, Handled
  <2>5. ExplainedBut(n, op.at)
    BY <1>0, <2>1, <2>4 DEF PhaseDrift
  <2> QED
    BY <1>1, <2>1, <2>3, <2>5
<1>5. ASSUME UnwindFound(n) PROVE ExplainedBut(n, op.at)'
  <2>1. Know(n, disk[n]) /\ disk' = disk
    BY <1>5 DEF UnwindFound
  <2>2. known'[n] = disk'[n]
    BY <1>0, <1>a, <2>1, KnowSteadies
  <2> QED
    BY <2>2 DEF ExplainedBut, Known
<1>6. ASSUME UnwindRestore(n) PROVE FALSE
  <2>1. op'.cur = n /\ n # None
    BY <1>0, <1>6, <1>a, ConstantsAssumption DEF UnwindRestore, Ops
  <2> QED
    BY <2>1 DEF Handled
<1>7. ASSUME UnwindConflict(n) PROVE ExplainedBut(n, op.at)'
  <2>1. op'.at = op.at /\ UNCHANGED <<disk, baseline, known, steps, intent, strange>>
    BY <1>0, <1>7 DEF UnwindConflict, journal, Ops
  <2>2. n \in Steady
    BY <1>a, <2>1 DEF Steady, Tracked
  <2>3. ExplainedBut(n, op.at)
    BY <1>7, <1>a, <2>2, ConflictElsewhere
  <2> QED
    BY <1>1, <2>1, <2>3
<1>8. ASSUME UnwindBlocked(n) PROVE FALSE
  BY <1>8, <1>a DEF UnwindBlocked
<1>9. ASSUME NEW m \in Modules, UnwindFails(m) PROVE FALSE
  BY <1>0, <1>9 DEF UnwindFails, Ops
<1>10. CASE Remember
  <2>1. /\ op.pc = "unwinding" /\ op.cur # None /\ op.cur \in Modules /\ Know(op.cur, ImageOf(op.cur))
        /\ op'.todo = op.todo /\ op'.cur = None /\ op'.clash = op.clash /\ op'.at = op.at
        /\ UNCHANGED <<disk, baseline, steps, intent>>
    BY <1>0, <1>10 DEF Remember, Ops
  <2>2. /\ \A o \in Modules \ {op.cur} : known'[o] = known[o] /\ (o \in strange' <=> o \in strange)
        /\ known'[op.cur] = ImageOf(op.cur)
        /\ op.cur \notin strange' => op.cur \notin strange \/ disk[op.cur] = ImageOf(op.cur)
    BY <1>0, <2>1, KnowSteadies
  <2>3. op.cur \notin strange => disk[op.cur] = ImageOf(op.cur)
    BY <1>0, <2>1 DEF DiskInv
  <2>4. CASE n = op.cur
    BY <1>a, <2>1, <2>2, <2>3, <2>4 DEF ExplainedBut, Known
  <2>5. CASE n # op.cur
    <3>1. n \in (Steady \cap ToRestore(s)) \ Handled
      BY <1>a, <2>1, <2>2, <2>5 DEF Steady, Tracked, Handled
    <3>2. ExplainedBut(n, op.at)
      BY <1>0, <2>1, <3>1 DEF PhaseDrift
    <3> QED
      BY <1>1, <1>a, <2>1, <2>2, <2>5, <3>2
  <2> QED
    BY <2>4, <2>5
<1> QED
  BY <1>0, <1>2, <1>3, <1>4, <1>5, <1>6, <1>7, <1>8, <1>9, <1>10, IntoUnwinding

\* A revert overrides every account; once it is over there is nothing to account for.
LEMMA DriftKept ==
  ASSUME Shape, [Next]_vars, DiskInv, DriftInv
  PROVE  DriftInv'
<1> SUFFICES ASSUME intent'.kind # "revert"
             PROVE  AllExplained' /\ PhaseDrift'
  BY DEF DriftInv
<1>1. CASE intent.kind = "revert"
  BY <1>1, RevertEnds, DriftDropped
<1>2. CASE intent.kind # "revert"
  <2>1. Accounted
    BY <1>2 DEF DriftInv, Accounted
  <2>2. AllExplained'
    BY <1>2, <2>1, AllStayExplained
  <2> QED
    BY <2>1, <2>2, DriftOfJournaling, DriftOfWriting, DriftOfReleasing, DriftOfSettling, DriftOfUndo, DriftOfUnwind
       DEF PhaseDrift
<1> QED
  BY <1>1, <1>2

\* Nothing is tracked at first.
LEMMA DriftInit == Init => DriftInv
<1> SUFFICES ASSUME Init
             PROVE  DriftInv
  OBVIOUS
<1>1. Tracked = {} /\ op.pc = "idle"
  BY Fields DEF Init, Tracked, NoRows
<1> QED
  BY <1>1 DEF DriftInv, AllExplained, PhaseDrift, Steady

\* Drift is never the daemon's own work: between requests, with nothing unfinished or pending, a
\* tracked file that no editor touched is in its known state.
THEOREM KnownStatesAreOnDisk == Spec => []KnownIsOnDisk
<1>1. DiskInv /\ Shape /\ [Next]_vars => DiskInv'
  BY DiskKept
<1>2. DriftInv /\ DiskInv /\ Shape /\ [Next]_vars => DriftInv'
  BY DriftKept
<1>3. DriftInv /\ Shape => KnownIsOnDisk
  <2> SUFFICES ASSUME DriftInv, op.pc = "idle", intent = NoIntent, Unfinished = {}, NEW m \in Tracked \ strange
               PROVE  known[m] = disk[m]
    BY DEF KnownIsOnDisk
  <2>1. intent.kind = "none"
    BY DEF NoIntent
  <2>2. \A s \in ToSet(steps) : s.done
    BY DEF Unfinished
  <2>3. \A s \in ToSet(steps) : ~ Excuses(s, m)
    BY <2>1, <2>2 DEF Excuses
  <2>4. Explained(m)
    BY <2>1 DEF DriftInv, AllExplained, Steady
  <2> QED
    BY <2>3, <2>4 DEF Explained, Known
<1> QED
  BY <1>1, <1>2, <1>3, DiskInit, DriftInit, ShapeCorrect, PTL DEF Spec

-----------------------------------------------------------------------------
(***************************************************************************)
(* Quiet: nobody but the daemon writes the files, and nothing fails        *)
(* Then nothing is ever in the way of an operation: of the steps only the  *)
(* newest is unfinished or undone, and each of its files holds what it did *)
(* before the step or what the step puts there, by how far the step is.    *)
(***************************************************************************)
\* Nobody but the daemon writes the files, and nothing it does fails.
Undisturbed == used["saves"] = 0 /\ used["faults"] = 0

Image(m) == Top.image[m]

\* No step is unfinished.
AllDone == steps # <<>> => Top.done

\* Only the newest step is ever unfinished, or undone; an intent, or a free gate, finds it finished.
QuietJournal ==
    /\ \A s \in Below : s.done
    /\ op.pc \notin Stepping \cup {"down", "recovering", "unwinding"} => AllDone
    /\ intent # NoIntent => op.pc \in {"restoring", "down", "recovering"} /\ AllDone
    /\ intent.kind = "undo" => intent.no = Top.no
    /\ intent.kind = "revert" => \A m \in Tracked : disk[m] \in {intent.seen[m], baseline[m]}

\* Nothing is in the way of an operation, and an own transaction is that of the step under way.
QuietOp ==
    /\ op.pc # "releasing" /\ ~ op.clash /\ ~ op.kept
    /\ op.pc # "down" /\ op.then # "recover" => (tx = "own" <=> Own)
    /\ op.pc \in {"checked", "refusing"} /\ Own => baseline = NoRows /\ steps = <<>>
    /\ op.pc = "restoring" /\ op.then = "step" => intent.kind = "revert"
    /\ op.pc = "recovering" /\ ~ AllDone => Top.no < op.at
    /\ op.pc = "unwinding" => op.at = Top.no
    /\ op.pc = "putting" => Written \subseteq op.todo

\* What the files hold while a step runs, and after it died.
QuietStep ==
    /\ op.pc \in {"checked", "journaling", "writing"} =>
          \A m \in Written : disk[m] = op.base[m] \/ (op.pc = "writing" /\ m \notin op.todo)
    /\ op.pc = "journaling" =>
          /\ \A m \in op.todo : disk[m] = op.before[m]
          /\ \A m \in Planned : disk[m] = Image(m).before
    /\ op.pc \in {"journaling", "writing"} => \A m \in Planned \ Written :
          Image(m).after = IF Image(m).before = Absent THEN None ELSE Image(m).before
    /\ op.pc = "writing" =>
          /\ \A m \in Planned \ (Written \ op.todo) : disk[m] = Image(m).before
          /\ \A m \in Written \ op.todo : disk[m] = Image(m).after
    /\ op.pc \in {"restamping", "settling", "finishing"} => \A m \in Planned :
          IF Image(m).after = None THEN disk[m] = Absent /\ Image(m).before = Absent
          ELSE disk[m] = Image(m).after
    /\ op.pc \in {"down", "recovering", "unwinding"} /\ ~ AllDone =>
          \A m \in Planned : disk[m] \in {Image(m).before, Image(m).after}

\* What is put back so far.
QuietRestore ==
    /\ op.pc = "restoring" /\ intent.kind = "revert" => \A m \in Tracked \ op.todo : disk[m] = baseline[m]
    /\ op.pc = "unwinding" \/ (op.pc = "restoring" /\ intent.kind = "undo") =>
          \A m \in ToRestore(Top) \ op.todo : disk[m] = Image(m).before

QuietInv == QuietJournal /\ QuietOp /\ QuietStep /\ QuietRestore


\* A sequence without its last element.
LEMMA FrontIs ==
  ASSUME NEW S, NEW q \in Seq(S), q # <<>>
  PROVE  /\ Front(q) \in Seq(S) /\ Len(Front(q)) = Len(q) - 1
         /\ \A i \in 1..(Len(q) - 1) : Front(q)[i] = q[i]
<1>1. Len(q) \in Nat /\ Len(q) # 0 /\ \A i \in 1..Len(q) : q[i] \in S
  BY LenProperties, ElementOfSeq, EmptySeq
<1>2. PICK k \in Nat : k = Len(q) - 1
  BY <1>1
<1>3. k - 1 + 1 = k /\ (IF 1 <= k THEN k - 1 + 1 ELSE 0) = k /\ \A i \in 1..k : 1 + i - 1 = i /\ q[i] \in S
  BY <1>1, <1>2
<1> DEFINE r == SubSeq(q, 1, k)
<1>4. /\ r \in Seq(S) /\ Len(r) = IF 1 <= k THEN k - 1 + 1 ELSE 0
      /\ \A i \in 1..(k - 1 + 1) : r[i] = q[1 + i - 1]
  BY <1>2, <1>3, SubSeqProperties
<1> HIDE DEF r
<1>5. r \in Seq(S) /\ Len(r) = k /\ \A i \in 1..k : r[i] = q[i]
  BY <1>3, <1>4
<1>6. Front(q) = r
  BY <1>2 DEF Front, r
<1> QED
  BY <1>2, <1>5, <1>6

\* Changing, adding or dropping the newest step leaves the others.
LEMMA FrontOfChanged ==
  ASSUME NEW q \in Seq(Steps), q # <<>>, NEW r \in Seq(Steps), Len(r) = Len(q),
         \A i \in 1..(Len(q) - 1) : r[i] = q[i]
  PROVE  r # <<>> /\ Front(r) = Front(q)
<1>1. Len(q) \in Nat /\ Len(q) # 0
  BY LenProperties, EmptySeq
<1>2. r # <<>>
  BY <1>1, EmptySeq
<1>3. /\ Front(r) \in Seq(Steps) /\ Len(Front(r)) = Len(q) - 1 /\ \A i \in 1..(Len(q) - 1) : Front(r)[i] = r[i]
  BY <1>2, FrontIs
<1>4. /\ Front(q) \in Seq(Steps) /\ Len(Front(q)) = Len(q) - 1 /\ \A i \in 1..(Len(q) - 1) : Front(q)[i] = q[i]
  BY FrontIs
<1> QED
  BY <1>2, <1>3, <1>4, SeqEqual

\* A new step lies on the ones there were.
LEMMA FrontOfAppended ==
  ASSUME NEW q \in Seq(Steps), NEW s \in Steps
  PROVE  Append(q, s) # <<>> /\ Front(Append(q, s)) = q
<1>1. PICK r : r = Append(q, s)
  OBVIOUS
<1>2. r \in Seq(Steps) /\ r # <<>> /\ Len(r) = Len(q) + 1 /\ \A i \in 1..Len(q) : r[i] = q[i]
  BY <1>1, AppendProperties, ZenonT(40)
<1>3. Len(q) \in Nat
  BY LenProperties
<1>a. Len(r) - 1 = Len(q)
  BY <1>2, <1>3
<1>4. Front(r) \in Seq(Steps) /\ Len(Front(r)) = Len(q) /\ \A i \in 1..Len(q) : Front(r)[i] = q[i]
  BY <1>2, <1>a, FrontIs
<1>5. Front(r) = q
  BY <1>4, SeqEqual
<1> QED
  BY <1>1, <1>2, <1>5

\* Dropping the newest step by its number leaves the others.
LEMMA FrontByDropping ==
  ASSUME TypeOK, Ascending(steps), steps # <<>>
  PROVE  Without(Top.no) = Front(steps)
<1>0. steps \in Seq(Steps) /\ Len(steps) \in 1..Len(steps) /\ Len(steps) \in Nat
  BY ToSetIs, LenProperties DEF TypeOK
<1>1. Position(Top.no) = Len(steps)
  <2>1. Position(Top.no) \in 1..Len(steps) /\ steps[Position(Top.no)] = Top
    BY StepFacts DEF Numbered
  <2> QED
    BY <1>0, <2>1, OneOfANumber DEF Top
<1>2. Without(Top.no) = SubSeq(steps, 1, Len(steps) - 1) \o SubSeq(steps, Len(steps) + 1, Len(steps))
  BY <1>1 DEF Without, RemoveAt
<1>3. SubSeq(steps, Len(steps) + 1, Len(steps)) = <<>>
  BY <1>0, SubSeqEmpty
<1>4. Front(steps) \in Seq(Steps) /\ Front(steps) = SubSeq(steps, 1, Len(steps) - 1)
  BY <1>0, FrontIs DEF Front
<1>5. Without(Top.no) = Front(steps) \o <<>>
  BY <1>2, <1>3, <1>4
<1> QED
  BY <1>4, <1>5, ConcatEmptySeq

\* The newest step, and the images it has.
LEMMA TopStep ==
  ASSUME Shape
  PROVE  /\ steps \in Seq(Steps) /\ Ascending(steps) /\ TypeOK /\ op \in Ops
         /\ disk \in [Modules -> Contents] /\ None \notin Contents
         /\ steps # <<>> =>
               /\ Top \in Steps /\ Top \in ToSet(steps) /\ Numbered(Top.no) = Top
               /\ \A s \in ToSet(steps) : s = Top \/ s \in Below
               /\ \A s \in ToSet(steps) : s.no = Top.no => s = Top
         /\ steps # <<>> => \A m \in Planned : /\ m \in Modules /\ Image(m) \in Images
                                               /\ Image(m).before \in Contents
                                               /\ Image(m).after \in Texts \cup {None}
         /\ ToRestore(Top) \subseteq Planned
         /\ \A m \in Planned \ ToRestore(Top) : Image(m).before # Absent /\ Image(m).after = Image(m).before
<1>0. TypeOK /\ Ascending(steps)
  BY DEF Shape, JournalShape
<1>1. steps \in Seq(Steps) /\ op \in Ops /\ disk \in [Modules -> Contents] /\ None \notin Contents
  BY <1>0, ConstantsAssumption DEF TypeOK, Contents
<1>2. ASSUME steps # <<>>
      PROVE  /\ Top \in Steps /\ Top \in ToSet(steps) /\ Numbered(Top.no) = Top
             /\ \A s \in ToSet(steps) : s = Top \/ s \in Below
             /\ \A s \in ToSet(steps) : s.no = Top.no => s = Top
  BY <1>0, <1>2, StepFacts
<1>3. ASSUME steps # <<>>, NEW m \in Planned
      PROVE  /\ m \in Modules /\ Image(m) \in Images
             /\ Image(m).before \in Contents /\ Image(m).after \in Texts \cup {None}
  <2>1. m \in Modules /\ Top.image[m] # None
    BY DEF Planned, Covered
  <2>2. Top.image[m] \in Images \cup {None}
    BY <1>2, <1>3, <2>1 DEF Steps
  <2> QED
    BY <2>1, <2>2 DEF Images, Image
<1>4. /\ ToRestore(Top) \subseteq Planned
      /\ \A m \in Planned \ ToRestore(Top) : Image(m).before # Absent /\ Image(m).after = Image(m).before
  BY DEF ToRestore, Planned, Unwritten, Image
<1> QED
  BY <1>0, <1>1, <1>2, <1>3, <1>4

\* What the daemon does undisturbed: nothing fails, and nothing it finds stops it.
CalmJournal ==
    \/ Start \/ Commit \/ Undo \/ Revert \/ Finalize \/ CommitOwn \/ FinalizeUndo \/ FinalizeRevert
    \/ UnwindOver \/ RecoverEnd
    \/ \E mods \in SUBSET Modules : BeginStep(mods)
    \/ \E text \in [Modules -> Texts \cup {None}] : OpenStep(text)
    \/ \E m \in Modules : Track(m) \/ JournalImage(m) \/ RestampAfter(m) \/ CompleteModule(m)
    \/ \E m \in Modules : \E c \in Contents \ {disk[m]} : WriteFile(m, c)

CalmDisk == \E m \in Modules : PutFile(m) \/ WriteModule(m) \/ Restore(m) \/ UnwindRestore(m)

CalmOp ==
    \/ RefusePlan \/ FixWritten(TRUE) \/ FixWritten(FALSE) \/ Remember \/ RecoverIntent \/ UnwindStep
    \/ Crash \/ Startup
    \/ \E m \in Modules : NoteWrite(m) \/ NoteKnown(m) \/ UnwindFound(m)

\* What is disturbed is counted.
LEMMA NothingSpent ==
  ASSUME Shape, Undisturbed'
  PROVE  /\ \A m \in Modules, c \in Contents : ~ Save(m, c)
         /\ ~ PutThrows /\ ~ StepThrows
         /\ \A m \in Modules : ~ WriteThrows(m) /\ ~ RestoreFails(m) /\ ~ UnwindFails(m) /\ ~ UnwindBlocked(m)
<1>1. used \in [Bounds -> Nat]
  BY DEF Shape, TypeOK
<1>2. \A max : ~ Spend("saves", max) /\ ~ Spend("faults", max)
  BY <1>1 DEF Spend, Undisturbed, Bounds
<1> QED
  BY <1>2 DEF Save, PutThrows, StepThrows, WriteThrows, RestoreFails, UnwindFails, UnwindBlocked

\* No restore conflicts, no write finds another base, and nothing is left to be resumed or released.
LEMMA NothingInTheWay ==
  ASSUME Shape, QuietInv
  PROVE  /\ ~ NotAsPlanned /\ ~ UndoRefused /\ ~ ResumeUndo /\ ~ ResumeRevert /\ ~ Unrestored
         /\ \A m \in Modules : ~ WriteRefused(m) /\ ~ Release(m) /\ ~ Conflict(m) /\ ~ UnwindConflict(m)
<1>0. op.pc # "releasing" /\ ~ op.clash
  BY DEF QuietInv, QuietOp
<1>1. ~ UndoRefused /\ ~ Unrestored /\ \A m \in Modules : ~ Release(m)
  BY <1>0 DEF UndoRefused, Unrestored, Release
<1>2. op.pc = "idle" => intent = NoIntent
  BY DEF QuietInv, QuietJournal
<1>3. ~ ResumeUndo /\ ~ ResumeRevert
  BY <1>0, <1>2 DEF ResumeUndo, UndoAsked, ResumeRevert, NoIntent
<1>4. ASSUME NEW m \in Modules, WriteRefused(m) PROVE FALSE
  <2>1. op.pc = "writing" /\ m \in op.todo /\ disk[m] # op.base[m]
    BY <1>4 DEF WriteRefused
  <2>2. m \in Written
    BY <2>1 DEF Shape, PhaseShape
  <2> QED
    BY <2>1, <2>2 DEF QuietInv, QuietStep
<1>5. ASSUME NotAsPlanned PROVE FALSE
  <2>1. op.pc = "writing" /\ op.todo = {}
    BY <1>5 DEF NotAsPlanned
  <2>2. PICK m \in Written : disk[m] # op.text[m]
    BY <1>5 DEF NotAsPlanned
  <2>3. Top.image[m].after = op.text[m]
    BY <2>1 DEF Shape, PhaseShape
  <2> QED
    BY <2>1, <2>2, <2>3 DEF QuietInv, QuietStep, Image
<1>6. ASSUME NEW m \in Modules, Conflict(m) PROVE FALSE
  <2>1. op.pc = "restoring" /\ m \in op.todo /\ intent.kind = "revert" /\ disk[m] \notin {intent.seen[m], baseline[m]}
    BY <1>6 DEF Conflict, Movable
  <2>2. m \in Tracked
    BY <2>1 DEF Shape, PhaseShape, Handled
  <2> QED
    BY <2>1, <2>2 DEF QuietInv, QuietJournal
<1>7. ASSUME NEW m \in Modules, UnwindConflict(m) PROVE FALSE
  <2>1. op.pc = "unwinding" /\ m \in op.todo /\ disk[m] # ImageOf(m) /\ ~ OutputOnDisk(Numbered(op.at).image[m], m)
    BY <1>7 DEF UnwindConflict, Unwinding
  <2>2. PICK s \in ToSet(steps) : s.no = op.at /\ ~ s.done
    BY <2>1 DEF Shape, PhaseShape
  <2>3. s \notin Below
    BY <2>2 DEF QuietInv, QuietJournal
  <2>4. s = Top /\ Numbered(op.at) = Top /\ steps # <<>>
    BY <2>2, <2>3, TopStep, StepFacts
  <2>5. m \in ToRestore(Top)
    BY <2>1, <2>2, <2>4 DEF Shape, PhaseShape, Handled
  <2>6. disk[m] \in {Image(m).before, Image(m).after} /\ disk[m] \in Contents
    BY <2>1, <2>2, <2>4, <2>5, TopStep DEF QuietInv, QuietStep, AllDone
  <2>7. ImageOf(m) = Image(m).before
    BY <2>1, <2>4 DEF ImageOf, Image
  <2> QED
    BY <2>1, <2>4, <2>6, <2>7, TopStep DEF OutputOnDisk, Image
<1> QED
  BY <1>1, <1>3, <1>4, <1>5, <1>6, <1>7

\* So these are all the steps there are.
LEMMA CalmSteps ==
  ASSUME Shape, QuietInv, [Next]_vars, Undisturbed'
  PROVE  UNCHANGED vars \/ CalmJournal \/ CalmDisk \/ CalmOp
<1>1. CASE UNCHANGED vars
  BY <1>1
<1>2. CASE Request
  BY <1>2, NothingInTheWay DEF Request, CalmJournal, CalmDisk, CalmOp
<1>3. CASE Proceed
  BY <1>3, NothingInTheWay DEF Proceed, CalmJournal, CalmDisk, CalmOp
<1>4. CASE Fault
  BY <1>4, NothingSpent DEF Fault
<1>5. CASE Crash \/ Startup
  BY <1>5 DEF CalmOp
<1>6. ASSUME NEW m \in Modules, NEW c \in Contents, Save(m, c) PROVE FALSE
  BY <1>6, NothingSpent
<1> QED
  BY <1>1, <1>2, <1>3, <1>4, <1>5, <1>6 DEF Next


\* What the newest step is, is the journal's.
LEMMA SameSteps ==
  ASSUME steps' = steps
  PROVE  /\ Top' = Top /\ Below' = Below /\ AllDone' = AllDone /\ Planned' = Planned
         /\ ToRestore(Top)' = ToRestore(Top) /\ \A m : Image(m)' = Image(m)
<1>1. Top' = Top
  BY DEF Top
<1> QED
  BY <1>1 DEF Below, AllDone, Planned, Image, Covered, ToRestore, Unwritten

\* What a step's phases, and its remains, know of the files.
LEMMA QuietJournalSame ==
  ASSUME Shape, QuietInv, UNCHANGED <<disk, baseline, steps, intent>>,
         AllDone \/ op'.pc \in Stepping \cup {"down", "recovering", "unwinding"},
         intent = NoIntent \/ op'.pc \in {"restoring", "down", "recovering"}
  PROVE  QuietJournal'
<1>1. /\ Top' = Top /\ Below' = Below /\ AllDone' = AllDone /\ intent' = intent /\ disk' = disk /\ baseline' = baseline
      /\ steps' = steps
  BY SameSteps
<1>2. Tracked' = Tracked
  BY <1>1 DEF Tracked
<1>3. QuietJournal
  BY DEF QuietInv
<1> QED
  BY <1>1, <1>2, <1>3 DEF QuietJournal

\* A phase that knows nothing of the files.
LEMMA QuietElsewhere ==
  ASSUME op'.pc \notin {"checked", "journaling", "writing", "restamping", "settling", "finishing",
                        "down", "recovering", "unwinding", "restoring"}
  PROVE  QuietStep' /\ QuietRestore'
BY DEF QuietStep, QuietRestore

\* The other fields of the operations the daemon begins with.
LEMMA ClearOps ==
  /\ Idle.clash = FALSE /\ Idle.kept = FALSE /\ Down.clash = FALSE /\ Down.kept = FALSE
  /\ RefuseOwn.clash = FALSE /\ RefuseOwn.kept = FALSE
  /\ \A no : RecoverFrom(no).clash = FALSE /\ RecoverFrom(no).kept = FALSE
  /\ \A todo : /\ Restoring(todo).clash = FALSE /\ Restoring(todo).kept = FALSE
               /\ Restoring(todo).pc = "restoring" /\ Restoring(todo).then = op.then
               /\ Restoring(todo).hold = op.hold /\ Restoring(todo).todo = todo /\ Restoring(todo).cur = None
<1>1. Idle.clash = FALSE /\ Idle.kept = FALSE
  BY DEF Idle
<1>2. Down.clash = FALSE /\ Down.kept = FALSE
  BY DEF Idle, Down
<1>3. RefuseOwn.clash = FALSE /\ RefuseOwn.kept = FALSE
  BY DEF Idle, RefuseOwn
<1>4. ASSUME NEW no PROVE RecoverFrom(no).clash = FALSE /\ RecoverFrom(no).kept = FALSE
  BY DEF Idle, RecoverFrom
<1>5. ASSUME NEW todo
      PROVE  /\ Restoring(todo).clash = FALSE /\ Restoring(todo).kept = FALSE
             /\ Restoring(todo).pc = "restoring" /\ Restoring(todo).then = op.then
             /\ Restoring(todo).hold = op.hold /\ Restoring(todo).todo = todo /\ Restoring(todo).cur = None
  BY DEF Idle, Restoring
<1> QED
  BY <1>1, <1>2, <1>3, <1>4, <1>5

\* A refused plan.
LEMMA QuietOfRefused ==
  ASSUME Shape, QuietInv, RefusePlan
  PROVE  QuietInv'
<1>1. op.pc = "checked" /\ op.then = "step" /\ UNCHANGED <<disk, journal>>
  BY DEF RefusePlan, Shape, OpShape
<1>2. op' = IF Own THEN RefuseOwn ELSE Idle
  BY DEF RefusePlan, Own
<1>3. AllDone /\ intent = NoIntent /\ (tx = "own" <=> Own) /\ (Own => baseline = NoRows /\ steps = <<>>)
  BY <1>1 DEF QuietInv, QuietJournal, QuietOp, Stepping
<1>4. QuietJournal'
  BY <1>1, <1>3, QuietJournalSame DEF journal
<1>5. op'.pc \in {"refusing", "idle"}
  BY <1>2, Fields
<1>6. QuietOp'
  <2>1. CASE Own
    BY <1>1, <1>2, <1>3, <2>1, Fields, ClearOps DEF QuietOp, Own, journal
  <2>2. CASE ~ Own
    BY <1>1, <1>2, <1>3, <2>2, Fields, ClearOps DEF QuietOp, Own, journal
  <2> QED
    BY <2>1, <2>2
<1> QED
  BY <1>4, <1>5, <1>6, QuietElsewhere DEF QuietInv

\* The step is all written.
LEMMA QuietOfFixed ==
  ASSUME Shape, QuietInv, NEW ran \in BOOLEAN, FixWritten(ran)
  PROVE  QuietInv'
<1>1. op.pc = "writing" /\ op.todo = {} /\ UNCHANGED <<disk, journal>> /\ op.then = "step"
  BY DEF FixWritten, Shape, OpShape, Stepping
<1>2. /\ op'.pc \in {"restamping", "settling"} /\ op'.then = "step" /\ op'.hold = op.hold
      /\ op'.clash = FALSE /\ op'.kept = FALSE
  BY DEF FixWritten, Idle
<1>3. intent = NoIntent /\ steps # <<>> /\ ~ Top.done /\ Written \subseteq Planned
  BY <1>1 DEF QuietInv, QuietJournal, Shape, OpShape, PhaseShape, Stepping
<1>4. QuietJournal'
  BY <1>1, <1>2, <1>3, QuietJournalSame DEF journal, Stepping
<1>5. QuietOp'
  BY <1>1, <1>2, TopStep DEF QuietInv, QuietOp, Own, journal
<1>6. ASSUME NEW m \in Planned
      PROVE  IF Image(m).after = None THEN disk[m] = Absent /\ Image(m).before = Absent ELSE disk[m] = Image(m).after
  <2>1. CASE m \in Written
    <3>1. Image(m).after = op.text[m] /\ op.text[m] # None /\ disk[m] = Image(m).after
      BY <1>1, <1>3, <2>1 DEF QuietInv, QuietStep, Shape, PhaseShape, Image, Written
    <3> QED
      BY <3>1
  <2>2. CASE m \notin Written
    <3>1. /\ disk[m] = Image(m).before
          /\ Image(m).after = IF Image(m).before = Absent THEN None ELSE Image(m).before
      BY <1>1, <2>2 DEF QuietInv, QuietStep
    <3> QED
      BY <1>3, <3>1, TopStep
  <2> QED
    BY <2>1, <2>2
<1>7. Planned' = Planned /\ disk' = disk /\ \A m : Image(m)' = Image(m)
  BY <1>1, SameSteps DEF journal
<1>8. QuietStep'
  BY <1>2, <1>6, <1>7 DEF QuietStep
<1>9. QuietRestore'
  BY <1>2 DEF QuietRestore
<1> QED
  BY <1>4, <1>5, <1>8, <1>9 DEF QuietInv

\* The daemon dies: a step it was in leaves each file with one of its images.
LEMMA QuietOfCrash ==
  ASSUME Shape, QuietInv, Crash
  PROVE  QuietInv'
<1>1. op' = Down /\ op'.pc = "down" /\ UNCHANGED <<disk, journal>>
  BY Fields DEF Crash
<1>2. QuietJournal'
  BY <1>1, QuietJournalSame DEF journal
<1>3. QuietOp'
  BY <1>1, ClearOps DEF QuietOp
<1>4. ASSUME ~ AllDone, NEW m \in Planned PROVE disk[m] \in {Image(m).before, Image(m).after}
  <2>1. op.pc \in Stepping \cup {"down", "recovering", "unwinding"} /\ op.pc # "releasing"
    BY <1>4 DEF QuietInv, QuietJournal, QuietOp
  <2>2. CASE op.pc \in {"down", "recovering", "unwinding"}
    BY <1>4, <2>2 DEF QuietInv, QuietStep
  <2>3. CASE op.pc = "journaling"
    BY <1>4, <2>3 DEF QuietInv, QuietStep
  <2>4. CASE op.pc = "writing"
    BY <1>4, <2>4 DEF QuietInv, QuietStep
  <2>5. CASE op.pc \in {"restamping", "settling", "finishing"}
    BY <1>4, <2>5 DEF QuietInv, QuietStep
  <2> QED
    BY <2>1, <2>2, <2>3, <2>4, <2>5 DEF Stepping
<1>5. Planned' = Planned /\ disk' = disk /\ AllDone' = AllDone /\ \A m : Image(m)' = Image(m)
  BY <1>1, SameSteps DEF journal
<1>6. QuietStep'
  BY <1>1, <1>4, <1>5 DEF QuietStep
<1>7. QuietRestore'
  BY <1>1 DEF QuietRestore
<1> QED
  BY <1>2, <1>3, <1>6, <1>7 DEF QuietInv

\* The daemon starts again.
LEMMA QuietOfStartup ==
  ASSUME Shape, QuietInv, Startup
  PROVE  QuietInv'
<1>1. op.pc = "down" /\ UNCHANGED <<disk, journal>> /\ op' = IF tx = "none" THEN Idle ELSE StartRecovery
  BY DEF Startup
<1>2. CASE tx = "none"
  <2>1. op' = Idle /\ intent = NoIntent /\ AllDone
    BY <1>1, <1>2 DEF Shape, JournalShape, AllDone
  <2>2. QuietJournal'
    BY <1>1, <2>1, QuietJournalSame DEF journal
  <2>3. QuietOp'
    BY <1>1, <1>2, <2>1, Fields, ClearOps DEF QuietOp, Own, journal
  <2> QED
    BY <2>1, <2>2, <2>3, Fields, QuietElsewhere DEF QuietInv
<1>3. CASE tx # "none"
  <2>1. op' = RecoverFrom(NextStepNo) /\ op'.pc = "recovering" /\ op'.then = "recover" /\ op'.at = NextStepNo
        /\ op'.clash = FALSE /\ op'.kept = FALSE
    BY <1>1, <1>3, Fields, ClearOps DEF StartRecovery
  <2>2. QuietJournal'
    BY <1>1, <2>1, QuietJournalSame DEF journal
  <2>3. ~ AllDone => Top.no < NextStepNo
    BY TopStep DEF AllDone, NextStepNo, Steps
  <2>4. Top' = Top /\ Planned' = Planned /\ disk' = disk /\ AllDone' = AllDone /\ \A m : Image(m)' = Image(m)
    BY <1>1, SameSteps DEF journal
  <2>5. QuietOp'
    BY <2>1, <2>3, <2>4 DEF QuietOp
  <2>6. QuietStep' /\ QuietRestore'
    BY <1>1, <2>1, <2>4 DEF QuietInv, QuietStep, QuietRestore
  <2> QED
    BY <2>2, <2>5, <2>6 DEF QuietInv
<1> QED
  BY <1>2, <1>3

\* What recovery begins with.
LEMMA QuietOfRecoverIntent ==
  ASSUME Shape, QuietInv, RecoverIntent
  PROVE  QuietInv'
<1>1. /\ op.pc = "recovering" /\ op.then = "recover" /\ intent # NoIntent /\ UNCHANGED <<disk, journal>>
      /\ op' = Restoring(IF intent.kind = "revert" THEN Tracked ELSE ToRestore(Numbered(intent.no)))
  BY DEF RecoverIntent, Shape, OpShape
<1>2. /\ op'.pc = "restoring" /\ op'.then = "recover" /\ op'.clash = FALSE /\ op'.kept = FALSE
      /\ op'.todo = IF intent.kind = "revert" THEN Tracked ELSE ToRestore(Numbered(intent.no))
  BY <1>1, ClearOps
<1>3. AllDone /\ (intent.kind = "undo" => intent.no = Top.no /\ steps # <<>>)
  BY <1>1, EmptySeq DEF QuietInv, QuietJournal, Shape, JournalShape, IntentHasItsStep, ToSet
<1>4. QuietJournal'
  BY <1>1, <1>2, <1>3, QuietJournalSame DEF journal
<1>5. QuietOp'
  BY <1>2 DEF QuietOp
<1>6. intent.kind = "undo" => op'.todo = ToRestore(Top)
  BY <1>2, <1>3, TopStep
<1>7. ToRestore(Top)' = ToRestore(Top) /\ intent' = intent /\ Tracked' = Tracked
  BY <1>1, SameSteps DEF journal, Tracked
<1>8. QuietStep' /\ QuietRestore'
  BY <1>2, <1>6, <1>7 DEF QuietStep, QuietRestore
<1> QED
  BY <1>4, <1>5, <1>8 DEF QuietInv

\* Nothing the invariant speaks of changes.
LEMMA QuietAside ==
  ASSUME Shape, QuietInv, UNCHANGED <<disk, tx, baseline, steps, intent>>,
         op'.pc = op.pc, op'.then = op.then, op'.hold = op.hold, op'.todo = op.todo, op'.text = op.text,
         op'.base = op.base, op'.before = op.before, op'.at = op.at, op'.clash = op.clash, op'.kept = op.kept
  PROVE  QuietInv'
<1>1. /\ Top' = Top /\ Below' = Below /\ AllDone' = AllDone /\ Planned' = Planned
      /\ ToRestore(Top)' = ToRestore(Top) /\ \A m : Image(m)' = Image(m)
  BY SameSteps
<1>2. Tracked' = Tracked /\ Written' = Written /\ Own' = Own
  BY DEF Tracked, Written, Own
<1>3. QuietJournal'
  BY <1>1, <1>2 DEF QuietInv, QuietJournal
<1>4. QuietOp'
  BY <1>1, <1>2 DEF QuietInv, QuietOp
<1>5. QuietStep'
  BY <1>1, <1>2 DEF QuietInv, QuietStep
<1>6. QuietRestore'
  BY <1>1, <1>2 DEF QuietInv, QuietRestore
<1> QED
  BY <1>3, <1>4, <1>5, <1>6 DEF QuietInv

\* What becomes known is nothing to it.
LEMMA QuietOfKnowing ==
  ASSUME Shape, QuietInv, Remember \/ \E m \in Modules : NoteWrite(m) \/ NoteKnown(m)
  PROVE  QuietInv'
<1>1. UNCHANGED <<disk, tx, baseline, steps, intent>>
  BY DEF Remember, NoteWrite, NoteKnown
<1>2. CASE Remember
  BY <1>1, <1>2, TopStep, QuietAside DEF Remember, Ops
<1>3. CASE \E m \in Modules : NoteWrite(m)
  BY <1>1, <1>3, QuietAside DEF NoteWrite
<1>4. CASE \E m \in Modules : NoteKnown(m)
  <2>1. op.pc = "noting" /\ op.then = "rpc" /\ op' = Idle
    BY <1>4 DEF NoteKnown, Shape, OpShape
  <2>2. AllDone /\ intent = NoIntent /\ (tx = "own" <=> Own)
    BY <2>1 DEF QuietInv, QuietJournal, QuietOp, Stepping
  <2>3. QuietJournal'
    BY <1>1, <2>2, QuietJournalSame
  <2>4. ~ Own
    BY <2>1 DEF Shape, OpShape
  <2>5. QuietOp'
    BY <1>1, <2>1, <2>2, <2>4, Fields, ClearOps DEF QuietOp, Own
  <2> QED
    BY <2>1, <2>3, <2>5, Fields, QuietElsewhere DEF QuietInv
<1> QED
  BY <1>2, <1>3, <1>4

\* Recovery takes up the unfinished step, the newest one.
LEMMA QuietOfUnwindStep ==
  ASSUME Shape, QuietInv, UnwindStep
  PROVE  QuietInv'
<1>1. /\ op.pc = "recovering" /\ op.then = "recover" /\ intent = NoIntent /\ UNCHANGED <<disk, journal>>
      /\ ToUnwind # {}
  BY DEF UnwindStep, Shape, OpShape
<1>2. /\ op'.pc = "unwinding" /\ op'.then = "recover" /\ op'.at = Max(ToUnwind) /\ op'.clash = FALSE
      /\ op'.kept = op.kept /\ op'.todo = ToRestore(Numbered(Max(ToUnwind)))
  BY <1>1, TopStep DEF UnwindStep, Ops
<1>3. PICK s \in ToSet(steps) : s.no = Max(ToUnwind) /\ ~ s.done
  BY <1>1, TopStep, NextUnwound
<1>4. s = Top /\ steps # <<>>
  BY <1>3, TopStep, StepFacts DEF QuietInv, QuietJournal
<1>5. op'.at = Top.no /\ op'.todo = ToRestore(Top)
  BY <1>2, <1>3, <1>4, TopStep
<1>6. Top' = Top /\ Planned' = Planned /\ AllDone' = AllDone /\ ToRestore(Top)' = ToRestore(Top) /\ disk' = disk
      /\ \A m : Image(m)' = Image(m)
  BY <1>1, SameSteps DEF journal
<1>7. QuietJournal'
  BY <1>1, <1>2, QuietJournalSame DEF journal
<1>8. QuietOp'
  BY <1>2, <1>5, <1>6 DEF QuietInv, QuietOp
<1>9. QuietStep'
  BY <1>1, <1>2, <1>6 DEF QuietInv, QuietStep
<1>10. QuietRestore'
  BY <1>2, <1>5, <1>6 DEF QuietRestore
<1> QED
  BY <1>7, <1>8, <1>9, <1>10 DEF QuietInv

\* The step being unwound is the newest.
LEMMA UnwoundIsTop ==
  ASSUME Shape, QuietInv, op.pc = "unwinding"
  PROVE  /\ steps # <<>> /\ ~ Top.done /\ op.at = Top.no /\ Numbered(op.at) = Top /\ intent = NoIntent
         /\ Handled \subseteq ToRestore(Top) /\ \A m : ImageOf(m) = Image(m).before
<1>1. op.at = Top.no /\ intent = NoIntent /\ op.then = "recover"
  BY DEF QuietInv, QuietOp, Shape, PhaseShape, OpShape
<1>2. PICK s \in ToSet(steps) : s.no = op.at /\ ~ s.done
  BY DEF Shape, PhaseShape
<1>3. steps # <<>>
  BY <1>2, EmptySeq DEF ToSet
<1>4. s = Top /\ Numbered(Top.no) = Top
  BY <1>1, <1>2, <1>3, TopStep
<1>5. Handled \subseteq ToRestore(Top)
  BY <1>2, <1>4 DEF Shape, PhaseShape
<1> QED
  BY <1>1, <1>2, <1>3, <1>4, <1>5 DEF ImageOf, Image

\* A file is found as it was before the step, or is put back.
LEMMA QuietOfUnwound ==
  ASSUME Shape, QuietInv, NEW m \in Modules, UnwindFound(m) \/ UnwindRestore(m)
  PROVE  QuietInv'
<1>1. /\ op.pc = "unwinding" /\ m \in op.todo /\ UNCHANGED <<tx, baseline, steps, intent>>
      /\ \A n \in Modules : disk'[n] = IF n = m THEN ImageOf(m) ELSE disk[n]
  BY TopStep DEF UnwindFound, UnwindRestore, Unwinding, journal
<1>2. /\ op'.pc = "unwinding" /\ op'.then = op.then /\ op'.hold = op.hold /\ op'.todo = op.todo \ {m}
      /\ op'.clash = op.clash /\ op'.kept = op.kept /\ op'.at = op.at
  BY <1>1, TopStep DEF UnwindFound, UnwindRestore, Ops
<1>3. /\ steps # <<>> /\ ~ Top.done /\ op.at = Top.no /\ intent = NoIntent /\ op.then = "recover"
      /\ m \in ToRestore(Top) /\ ImageOf(m) = Image(m).before
  BY <1>1, UnwoundIsTop DEF Handled, Shape, OpShape
<1>4. /\ Top' = Top /\ Below' = Below /\ AllDone' = AllDone /\ Planned' = Planned
      /\ ToRestore(Top)' = ToRestore(Top) /\ \A n : Image(n)' = Image(n)
  BY <1>1, SameSteps
<1>5. QuietJournal'
  BY <1>1, <1>2, <1>3, <1>4 DEF QuietInv, QuietJournal, Stepping, NoIntent
<1>6. QuietOp'
  BY <1>1, <1>2, <1>3, <1>4 DEF QuietInv, QuietOp
<1>7. Planned \subseteq Modules
  BY <1>3, TopStep
<1>8. QuietStep'
  <2>1. ~ AllDone
    BY <1>3 DEF AllDone
  <2>2. \A n \in Planned : disk[n] \in {Image(n).before, Image(n).after}
    BY <1>1, <2>1 DEF QuietInv, QuietStep
  <2>3. \A n \in Planned : disk'[n] \in {Image(n).before, Image(n).after}
    BY <1>1, <1>3, <1>7, <2>2
  <2> QED
    BY <1>2, <1>4, <2>3 DEF QuietStep
<1>9. QuietRestore'
  <2>1. \A n \in ToRestore(Top) \ op.todo : disk[n] = Image(n).before
    BY <1>1 DEF QuietInv, QuietRestore
  <2>2. \A n \in ToRestore(Top) \ (op.todo \ {m}) : disk'[n] = Image(n).before
    BY <1>1, <1>3, <1>7, <2>1, TopStep
  <2> QED
    BY <1>2, <1>4, <2>2 DEF QuietRestore
<1> QED
  BY <1>5, <1>6, <1>8, <1>9 DEF QuietInv

\* A gated write reaches the disk.
LEMMA QuietOfPut ==
  ASSUME Shape, QuietInv, NEW m \in Modules, PutFile(m)
  PROVE  QuietInv'
<1>1. op.pc = "putting" /\ op.then = "rpc" /\ UNCHANGED journal
  BY DEF PutFile, Shape, OpShape
<1>2. AllDone /\ intent = NoIntent /\ (tx = "own" <=> Own) /\ ~ Own
  BY <1>1 DEF QuietInv, QuietJournal, QuietOp, Stepping, Shape, OpShape
<1>3. /\ op'.pc \in {"idle", "noting"} /\ op'.then = "rpc" /\ op'.hold # "own"
      /\ op'.clash = FALSE /\ op'.kept = FALSE
  <2>1. op.clash = FALSE /\ op.kept = FALSE
    BY TopStep DEF QuietInv, QuietOp, Ops
  <2>2. CASE tx = "none"
    BY <2>2, Fields, ClearOps DEF PutFile
  <2>3. CASE tx # "none"
    <3>1. op' = [op EXCEPT !.pc = "noting"]
      BY <2>3 DEF PutFile
    <3> QED
      BY <1>1, <1>2, <2>1, <3>1, TopStep DEF Ops, Own
  <2> QED
    BY <2>2, <2>3
<1>4. Below' = Below /\ AllDone' = AllDone /\ intent' = intent /\ tx' = tx
  BY <1>1, SameSteps DEF journal
<1>5. QuietJournal'
  BY <1>2, <1>4 DEF QuietInv, QuietJournal, NoIntent
<1>6. QuietOp'
  BY <1>2, <1>3, <1>4 DEF QuietOp, Own
<1> QED
  BY <1>3, <1>5, <1>6, QuietElsewhere DEF QuietInv

\* A step's file reaches the disk.
LEMMA QuietOfWrite ==
  ASSUME Shape, QuietInv, NEW m \in Modules, WriteModule(m)
  PROVE  QuietInv'
<1>1. /\ op.pc = "writing" /\ m \in op.todo /\ UNCHANGED journal
      /\ \A n \in Modules : disk'[n] = IF n = m THEN op.text[m] ELSE disk[n]
  BY TopStep DEF WriteModule
<1>2. /\ op'.pc = "writing" /\ op'.then = op.then /\ op'.hold = op.hold /\ op'.todo = op.todo \ {m}
      /\ op'.clash = op.clash /\ op'.kept = op.kept /\ op'.text = op.text /\ op'.base = op.base
  BY <1>1, TopStep DEF WriteModule, Ops
<1>3. /\ steps # <<>> /\ ~ Top.done /\ intent = NoIntent
      /\ Written \subseteq Planned /\ op.todo \subseteq Written /\ \A n \in Written : Image(n).after = op.text[n]
  BY <1>1 DEF QuietInv, QuietJournal, Shape, OpShape, PhaseShape, Stepping, Image
<1>4. /\ Below' = Below /\ AllDone' = AllDone /\ Planned' = Planned
      /\ \A n : Image(n)' = Image(n)
  BY <1>1, SameSteps DEF journal
<1>5. Written' = Written /\ Own' = Own
  BY <1>2 DEF Written, Own
<1>6. QuietJournal'
  BY <1>1, <1>2, <1>3, <1>4 DEF QuietInv, QuietJournal, Stepping, NoIntent, journal
<1>7. QuietOp'
  BY <1>1, <1>2, <1>5 DEF QuietInv, QuietOp, journal
<1>8. QuietStep'
  <2>0. Planned \subseteq Modules /\ Written \subseteq Modules
    BY ModuleSets
  <2>1. /\ \A n \in Written : disk[n] = op.base[n] \/ n \notin op.todo
        /\ \A n \in Planned \ Written :
              Image(n).after = IF Image(n).before = Absent THEN None ELSE Image(n).before
        /\ \A n \in Planned \ (Written \ op.todo) : disk[n] = Image(n).before
        /\ \A n \in Written \ op.todo : disk[n] = Image(n).after
    BY <1>1 DEF QuietInv, QuietStep
  <2>2. \A n \in Written : disk'[n] = op'.base[n] \/ n \notin op'.todo
    BY <1>1, <1>2, <2>0, <2>1
  <2>3. \A n \in Planned \ (Written \ op'.todo) : disk'[n] = Image(n).before
    BY <1>1, <1>2, <1>3, <2>0, <2>1
  <2>4. \A n \in Written \ op'.todo : disk'[n] = Image(n).after
    BY <1>1, <1>2, <1>3, <2>0, <2>1
  <2> QED
    BY <1>2, <1>4, <1>5, <2>1, <2>2, <2>3, <2>4 DEF QuietStep
<1>9. QuietRestore'
  BY <1>2 DEF QuietRestore
<1> QED
  BY <1>6, <1>7, <1>8, <1>9 DEF QuietInv

\* An undo intent names the newest step.
LEMMA UndoneIsTop ==
  ASSUME Shape, QuietInv, intent.kind = "undo"
  PROVE  /\ steps # <<>> /\ Top.done /\ intent.no = Top.no /\ Numbered(intent.no) = Top
         /\ op.pc = "restoring" => Handled \subseteq ToRestore(Top) /\ \A m : ImageOf(m) = Image(m).before
<1>1. PICK s \in ToSet(steps) : s.no = intent.no
  BY DEF Shape, JournalShape, IntentHasItsStep
<1>2. steps # <<>> /\ intent.no = Top.no /\ Top.done
  BY <1>1, EmptySeq DEF ToSet, QuietInv, QuietJournal, NoIntent, AllDone
<1>3. Numbered(intent.no) = Top /\ Top \in ToSet(steps)
  BY <1>2, TopStep
<1>4. op.pc = "restoring" => Handled \subseteq ToRestore(Top)
  BY <1>2, <1>3 DEF Shape, PhaseShape
<1>5. op.pc = "restoring" => \A m : ImageOf(m) = Image(m).before
  BY <1>3 DEF ImageOf, Image
<1> QED
  BY <1>2, <1>3, <1>4, <1>5

\* An undo or a revert puts a file back.
LEMMA QuietOfRestore ==
  ASSUME Shape, QuietInv, NEW m \in Modules, Restore(m)
  PROVE  QuietInv'
<1>1. /\ op.pc = "restoring" /\ m \in op.todo /\ UNCHANGED journal
      /\ \A n \in Modules : disk'[n] = IF n = m THEN ImageOf(m) ELSE disk[n]
  BY TopStep DEF Restore
<1>2. /\ op'.pc = "restoring" /\ op'.then = op.then /\ op'.hold = op.hold /\ op'.todo = op.todo \ {m}
      /\ op'.clash = op.clash /\ op'.kept = op.kept
  BY <1>1, TopStep DEF Restore, Ops
<1>3. /\ Below' = Below /\ AllDone' = AllDone /\ intent' = intent /\ baseline' = baseline /\ tx' = tx /\ Top' = Top
      /\ ToRestore(Top)' = ToRestore(Top) /\ \A n : Image(n)' = Image(n)
  BY <1>1, SameSteps DEF journal
<1>4. Tracked' = Tracked /\ Tracked \subseteq Modules /\ Own' = Own
  BY <1>2, <1>3 DEF Tracked, Own
<1>5. intent.kind = "revert" => ImageOf(m) = baseline[m]
  BY <1>1 DEF ImageOf
<1>6. QuietJournal'
  <2>1. QuietJournal
    BY DEF QuietInv
  <2>2. intent.kind = "revert" => \A n \in Tracked : disk'[n] \in {intent.seen[n], baseline[n]}
    BY <1>1, <1>4, <1>5, <2>1 DEF QuietJournal
  <2> QED
    BY <1>1, <1>2, <1>3, <1>4, <2>1, <2>2 DEF QuietJournal
<1>7. QuietOp'
  BY <1>1, <1>2, <1>3, <1>4 DEF QuietInv, QuietOp
<1>8. QuietStep'
  BY <1>2 DEF QuietStep
<1>9. QuietRestore'
  <2>1. ASSUME intent.kind = "revert", NEW n \in Tracked \ (op.todo \ {m}) PROVE disk'[n] = baseline[n]
    BY <1>1, <1>4, <1>5, <2>1 DEF QuietInv, QuietRestore
  <2>2. ASSUME intent.kind = "undo", NEW n \in ToRestore(Top) \ (op.todo \ {m}) PROVE disk'[n] = Image(n).before
    <3>1. ImageOf(m) = Image(m).before /\ n \in Modules
      BY <1>1, <2>2, UndoneIsTop, TopStep
    <3> QED
      BY <1>1, <2>2, <3>1 DEF QuietInv, QuietRestore
  <2> QED
    BY <1>2, <1>3, <1>4, <2>1, <2>2 DEF QuietRestore
<1> QED
  BY <1>6, <1>7, <1>8, <1>9 DEF QuietInv

\* Where an operation has its answer, or asks for one.
LEMMA QuietGate ==
  ASSUME Shape, QuietInv, op.pc \in {"idle", "checked", "refusing", "committing"}
  PROVE  AllDone /\ intent = NoIntent /\ (tx = "own" <=> Own) /\ (op.pc = "idle" => op = Idle /\ ~ Own)
<1>1. op.pc \in {"idle", "checked", "refusing", "committing"} => op.then # "recover" /\ (op.pc = "idle" => op = Idle)
  BY Fields DEF Shape, OpShape
<1> QED
  BY <1>1, Fields DEF QuietInv, QuietJournal, QuietOp, Stepping, Own

\* A transaction closes.
LEMMA QuietOfDrop ==
  ASSUME Shape, QuietInv, Drop, op' = Idle
  PROVE  QuietInv'
<1>1. tx' = "none" /\ steps' = <<>> /\ intent' = NoIntent
  BY DEF Drop
<1>2. Below' = {} /\ AllDone'
  BY <1>1, EmptySeq DEF Below, AllDone, ToSet
<1>3. QuietJournal'
  BY <1>1, <1>2 DEF QuietJournal, NoIntent
<1>4. QuietOp'
  BY <1>1, Fields, ClearOps DEF QuietOp, Own
<1> QED
  BY <1>3, <1>4, Fields, QuietElsewhere DEF QuietInv

\* The three ways a transaction closes.
LEMMA QuietOfClosing ==
  ASSUME Shape, QuietInv, Commit \/ CommitOwn \/ FinalizeRevert
  PROVE  QuietInv'
<1>1. CASE Commit
  BY <1>1, QuietGate, QuietOfDrop DEF Commit
<1>2. CASE CommitOwn
  BY <1>2, QuietOfDrop DEF CommitOwn
<1>3. CASE FinalizeRevert
  BY <1>3, QuietOfDrop DEF FinalizeRevert
<1> QED
  BY <1>1, <1>2, <1>3

\* A client opens a transaction, has a file tracked, or asks for a gated write.
LEMMA QuietOfAsking ==
  ASSUME Shape, QuietInv,
         Start \/ (\E m \in Modules : Track(m)) \/ \E m \in Modules, c \in Contents : WriteFile(m, c)
  PROVE  QuietInv'
<1>1. op.pc = "idle" /\ UNCHANGED <<disk, steps, intent>>
  BY DEF Start, Track, WriteFile
<1>2. AllDone /\ intent = NoIntent /\ tx # "own" /\ op = Idle
  BY <1>1, QuietGate
<1>3. tx' # "own"
  BY <1>2 DEF Start, Track, WriteFile
<1>4. /\ op'.pc \in {"idle", "putting"} /\ op'.then = "rpc" /\ op'.hold = "joined"
      /\ op'.clash = FALSE /\ op'.kept = FALSE
  <2>1. CASE Start \/ \E m \in Modules : Track(m)
    BY <1>2, <2>1, Fields, ClearOps DEF Start, Track
  <2>2. ASSUME NEW m \in Modules, NEW c \in Contents, WriteFile(m, c)
        PROVE  /\ op'.pc \in {"idle", "putting"} /\ op'.then = "rpc" /\ op'.hold = "joined"
               /\ op'.clash = FALSE /\ op'.kept = FALSE
    BY <2>2 DEF WriteFile, Idle
  <2> QED
    BY <2>1, <2>2
<1>5. Below' = Below /\ AllDone'
  BY <1>1, <1>2, SameSteps
<1>6. QuietJournal'
  BY <1>1, <1>2, <1>5 DEF QuietInv, QuietJournal, NoIntent
<1>7. op'.pc = "putting" => Written' \subseteq op'.todo
  <2>1. CASE Start \/ \E m \in Modules : Track(m)
    BY <1>2, <2>1, Fields DEF Start, Track
  <2>2. ASSUME NEW m \in Modules, NEW c \in Contents, WriteFile(m, c) PROVE Written' \subseteq op'.todo
    <3>1. op'.todo = {m} /\ op'.text = [NoRows EXCEPT ![m] = c]
      BY <2>2 DEF WriteFile, Idle
    <3> QED
      BY <3>1 DEF Written, NoRows
  <2> QED
    BY <2>1, <2>2
<1>8. QuietOp'
  BY <1>3, <1>4, <1>7 DEF QuietOp, Own
<1> QED
  BY <1>4, <1>6, <1>8, QuietElsewhere DEF QuietInv

\* A step is asked for.
LEMMA QuietOfOpen ==
  ASSUME Shape, QuietInv, NEW text \in [Modules -> Texts \cup {None}], OpenStep(text)
  PROVE  QuietInv'
<1>1. op.pc = "idle" /\ UNCHANGED <<disk, baseline, steps, intent>>
  BY DEF OpenStep
<1>2. AllDone /\ intent = NoIntent /\ tx # "own"
  BY <1>1, QuietGate
<1>3. /\ op'.pc = "checked" /\ op'.then = "step" /\ op'.hold = (IF tx = "none" THEN "own" ELSE "joined")
      /\ op'.clash = FALSE /\ op'.kept = FALSE /\ op'.text = text
      /\ op'.base = [m \in Modules |-> IF text[m] = None THEN None ELSE disk[m]]
      /\ tx' = IF tx = "none" THEN "own" ELSE tx
  BY DEF OpenStep, Idle
<1>4. QuietJournal'
  BY <1>1, <1>2, QuietJournalSame
<1>5. Own' => baseline' = NoRows /\ steps' = <<>>
  BY <1>1, <1>3 DEF Own, Shape, JournalShape
<1>6. QuietOp'
  BY <1>2, <1>3, <1>5 DEF QuietOp, Own
<1>7. \A m \in Written' : disk'[m] = op'.base[m]
  BY <1>1, <1>3 DEF Written
<1>8. QuietStep'
  BY <1>3, <1>7 DEF QuietStep
<1>9. QuietRestore'
  BY <1>3 DEF QuietRestore
<1> QED
  BY <1>4, <1>6, <1>8, <1>9 DEF QuietInv

\* A step is journaled on top of the finished ones.
LEMMA QuietOfBegin ==
  ASSUME Shape, QuietInv, NEW mods \in SUBSET Modules, BeginStep(mods)
  PROVE  QuietInv'
<1>1. op.pc = "checked" /\ op.then = "step" /\ UNCHANGED <<disk, tx, baseline, intent>>
  BY DEF BeginStep, Shape, OpShape
<1>2. AllDone /\ intent = NoIntent /\ (tx = "own" <=> Own)
  BY <1>1, QuietGate
<1>3. /\ op'.pc = "journaling" /\ op'.then = op.then /\ op'.hold = op.hold /\ op'.todo = mods
      /\ op'.clash = op.clash /\ op'.kept = op.kept /\ op'.text = op.text /\ op'.base = op.base
      /\ op'.before = [m \in Modules |-> IF m \in mods THEN disk[m] ELSE None]
  BY TopStep DEF BeginStep, Ops
<1>4. Below' = ToSet(steps) /\ Planned' = {}
  BY TopBegun
<1>5. \A s \in Below' : s.done
  BY <1>2, <1>4, TopStep, EmptySeq DEF QuietInv, QuietJournal, AllDone, ToSet
<1>6. QuietJournal'
  BY <1>1, <1>2, <1>3, <1>5 DEF QuietJournal, Stepping, NoIntent
<1>7. Own' = Own /\ Written' = Written
  BY <1>3 DEF Own, Written
<1>8. QuietOp'
  BY <1>1, <1>2, <1>3, <1>7 DEF QuietInv, QuietOp
<1>9. QuietStep'
  <2>1. \A m \in Written : disk[m] = op.base[m]
    BY <1>1 DEF QuietInv, QuietStep
  <2> QED
    BY <1>1, <1>3, <1>4, <1>7, <2>1 DEF QuietStep
<1>10. QuietRestore'
  BY <1>3 DEF QuietRestore
<1> QED
  BY <1>6, <1>8, <1>9, <1>10 DEF QuietInv

\* An image is journaled.
LEMMA QuietOfImage ==
  ASSUME Shape, QuietInv, NEW m \in Modules, JournalImage(m)
  PROVE  QuietInv'
<1>1. op.pc = "journaling" /\ m \in op.todo /\ op.then = "step" /\ UNCHANGED <<disk, tx, intent>>
  BY DEF JournalImage, Shape, OpShape, Stepping
<1>2. /\ op'.then = op.then /\ op'.hold = op.hold /\ op'.clash = op.clash /\ op'.kept = op.kept
      /\ op'.text = op.text /\ op'.base = op.base
      /\ \/ op'.pc = "journaling" /\ op'.todo = op.todo \ {m} /\ op'.before = op.before
         \/ op'.pc = "writing" /\ op'.todo = Written /\ op.todo = {m}
  BY TopStep DEF JournalImage, Ops
<1>3. intent = NoIntent
  BY <1>1 DEF QuietInv, QuietJournal
<1>4. /\ Below' = Below /\ Planned' = Planned \cup {m} /\ m \notin Planned
      /\ Image(m)'.before = op.before[m]
      /\ Image(m)'.after = IF op.text[m] # None THEN op.text[m]
                           ELSE IF op.before[m] # Absent THEN op.before[m] ELSE None
      /\ \A n \in Modules \ {m} : Image(n)' = Image(n)
  BY ImageJournaled DEF Image
<1>5. Own' = Own /\ Written' = Written /\ Planned \subseteq Modules /\ Written \subseteq Modules
  BY <1>2, ModuleSets DEF Own, Written
<1>6. QuietJournal'
  BY <1>1, <1>2, <1>3, <1>4 DEF QuietInv, QuietJournal, Stepping, NoIntent
<1>7. QuietOp'
  BY <1>1, <1>2, <1>5 DEF QuietInv, QuietOp
<1>8. /\ \A n \in Written : disk[n] = op.base[n]
      /\ \A n \in op.todo : disk[n] = op.before[n]
      /\ \A n \in Planned : disk[n] = Image(n).before
      /\ \A n \in Planned \ Written :
            Image(n).after = IF Image(n).before = Absent THEN None ELSE Image(n).before
  BY <1>1 DEF QuietInv, QuietStep
<1>9. \A n \in Planned' : disk[n] = Image(n)'.before
  BY <1>1, <1>4, <1>5, <1>8
<1>10. \A n \in Planned' \ Written :
          Image(n)'.after = IF Image(n)'.before = Absent THEN None ELSE Image(n)'.before
  BY <1>4, <1>5, <1>8 DEF Written
<1>11. QuietStep'
  <2>1. CASE op'.pc = "journaling"
    BY <1>1, <1>2, <1>5, <1>8, <1>9, <1>10, <2>1 DEF QuietStep
  <2>2. CASE op'.pc = "writing"
    <3>1. op'.todo = Written
      BY <1>2, <2>2
    <3> QED
      BY <1>1, <1>2, <1>5, <1>8, <1>9, <1>10, <2>2, <3>1 DEF QuietStep
  <2> QED
    BY <1>2, <2>1, <2>2
<1>12. QuietRestore'
  BY <1>2 DEF QuietRestore
<1> QED
  BY <1>6, <1>7, <1>11, <1>12 DEF QuietInv

\* Undisturbed, restamping and settling find each file as the step wrote it.
LEMMA StampsAgree ==
  ASSUME Shape, QuietInv, NEW m \in Modules, RestampAfter(m) \/ CompleteModule(m)
  PROVE  /\ Below' = Below /\ Planned' = Planned /\ ~ AllDone' /\ steps # <<>> /\ steps' # <<>>
         /\ \A n \in Planned : Image(n)'.before = Image(n).before /\ Image(n)'.after = Image(n).after
<1>1. /\ steps # <<>> /\ Top'.done = Top.done /\ Planned' = Planned /\ Below' = Below /\ m \in Planned
      /\ Top'.image[m].before = Top.image[m].before
      /\ \A n \in Modules \ {m} : Top'.image[n] = Top.image[n]
      /\ RestampAfter(m) => Top'.image[m].after = IF disk[m] = Absent THEN Top.image[m].after ELSE disk[m]
      /\ CompleteModule(m) =>
            Top'.image[m].after = IF Top.image[m].after # None THEN Top.image[m].after
                                  ELSE IF disk[m] = Absent THEN None ELSE disk[m]
  BY ImageStamped
<1>2. op.pc \in {"restamping", "settling"}
  BY DEF RestampAfter, CompleteModule
<1>3. ~ Top.done /\ steps' # <<>> /\ Planned \subseteq Modules
  BY <1>2, TopStaysOpen, ModuleSets DEF Shape, OpShape, Stepping
<1>4. IF Image(m).after = None THEN disk[m] = Absent /\ Image(m).before = Absent ELSE disk[m] = Image(m).after
  BY <1>1, <1>2 DEF QuietInv, QuietStep
<1>5. Top'.image[m].after = Top.image[m].after
  BY <1>1, <1>4 DEF Image
<1> QED
  BY <1>1, <1>3, <1>5 DEF Image, AllDone

\* A file is restamped, or settled.
LEMMA QuietOfStamp ==
  ASSUME Shape, QuietInv, NEW m \in Modules, RestampAfter(m) \/ CompleteModule(m)
  PROVE  QuietInv'
<1>1. op.pc \in {"restamping", "settling"} /\ op.then = "step" /\ UNCHANGED <<disk, tx, intent>>
  BY DEF RestampAfter, CompleteModule, Shape, OpShape, Stepping
<1>2. /\ op'.pc \in {"restamping", "settling", "finishing"} /\ op'.then = op.then /\ op'.hold = op.hold
      /\ op'.clash = op.clash /\ op'.kept = op.kept
  BY TopStep, ZenonT(40) DEF RestampAfter, CompleteModule, Ops
<1>3. intent = NoIntent
  BY <1>1 DEF QuietInv, QuietJournal
<1>4. /\ Below' = Below /\ Planned' = Planned
      /\ \A n \in Planned : Image(n)'.before = Image(n).before /\ Image(n)'.after = Image(n).after
  BY StampsAgree
<1>5. QuietJournal'
  BY <1>1, <1>2, <1>3, <1>4 DEF QuietInv, QuietJournal, Stepping, NoIntent
<1>6. Own' = Own
  BY <1>2 DEF Own
<1>7. QuietOp'
  BY <1>1, <1>2, <1>6 DEF QuietInv, QuietOp
<1>8. \A n \in Planned : IF Image(n).after = None THEN disk[n] = Absent /\ Image(n).before = Absent
                         ELSE disk[n] = Image(n).after
  BY <1>1 DEF QuietInv, QuietStep
<1>9. QuietStep'
  BY <1>1, <1>2, <1>4, <1>8 DEF QuietStep
<1>10. QuietRestore'
  BY <1>2 DEF QuietRestore
<1> QED
  BY <1>5, <1>7, <1>9, <1>10 DEF QuietInv

\* A step is finished.
LEMMA QuietOfFinalize ==
  ASSUME Shape, QuietInv, Finalize
  PROVE  QuietInv'
<1>1. op.pc = "finishing" /\ op.then = "step" /\ UNCHANGED <<disk, tx, intent>>
  BY DEF Finalize, Shape, OpShape, Stepping
<1>2. intent = NoIntent /\ (tx = "own" <=> Own)
  BY <1>1 DEF QuietInv, QuietJournal, QuietOp
<1>3. /\ op'.pc \in {"idle", "committing"} /\ op'.clash = FALSE /\ op'.kept = FALSE /\ (Own' <=> Own)
  BY DEF Finalize, Idle, Own
<1>4. Below' = Below /\ AllDone'
  BY TopFinalized DEF AllDone
<1>5. QuietJournal'
  BY <1>1, <1>2, <1>4 DEF QuietInv, QuietJournal, NoIntent
<1>6. QuietOp'
  BY <1>1, <1>2, <1>3 DEF QuietOp
<1> QED
  BY <1>3, <1>5, <1>6, QuietElsewhere DEF QuietInv

\* An undo or a revert begins.
LEMMA QuietOfUndo ==
  ASSUME Shape, QuietInv, Undo
  PROVE  QuietInv'
<1>1. op.pc = "idle" /\ op.then = "rpc" /\ steps # <<>> /\ UNCHANGED <<disk, tx, baseline, steps>>
  BY Fields DEF Undo, UndoAsked, QuietInv, QuietOp, Shape, OpShape
<1>2. intent'.kind = "undo" /\ intent'.no = Top.no
  BY DEF Undo, NoIntent
<1>3. AllDone /\ (tx = "own" <=> Own)
  BY <1>1, QuietGate
<1>4. /\ op'.pc = "restoring" /\ op'.then = "rpc" /\ op'.hold = op.hold /\ op'.todo = ToRestore(Top)
      /\ op'.clash = FALSE /\ op'.kept = FALSE
  BY <1>1, ClearOps DEF Undo
<1>5. Top' = Top /\ Below' = Below /\ AllDone' = AllDone /\ ToRestore(Top)' = ToRestore(Top) /\ Own' = Own
  BY <1>1, <1>4, SameSteps DEF Own
<1>6. QuietJournal'
  BY <1>2, <1>3, <1>4, <1>5 DEF QuietInv, QuietJournal
<1>7. QuietOp'
  BY <1>1, <1>3, <1>4, <1>5 DEF QuietOp
<1>8. QuietStep' /\ QuietRestore'
  BY <1>2, <1>4, <1>5 DEF QuietStep, QuietRestore
<1> QED
  BY <1>6, <1>7, <1>8 DEF QuietInv

\* A revert begins.
LEMMA QuietOfRevert ==
  ASSUME Shape, QuietInv, Revert
  PROVE  QuietInv'
<1>1. op.pc \in {"idle", "refusing"} /\ UNCHANGED <<disk, tx, baseline, steps>>
  BY DEF Revert
<1>2. /\ intent'.kind = "revert"
      /\ intent'.seen = [m \in Modules |-> IF m \in Tracked THEN disk[m] ELSE None]
  BY DEF Revert, NoIntent
<1>3. AllDone /\ (tx = "own" <=> Own)
  BY <1>1, QuietGate
<1>4. /\ op'.pc = "restoring" /\ op'.hold = op.hold /\ op'.todo = Tracked
      /\ op'.clash = FALSE /\ op'.kept = FALSE
  BY ClearOps DEF Revert
<1>5. Below' = Below /\ AllDone' = AllDone /\ Own' = Own /\ Tracked' = Tracked /\ Tracked \subseteq Modules
  BY <1>1, <1>4, SameSteps DEF Own, Tracked
<1>6. QuietJournal'
  BY <1>1, <1>2, <1>3, <1>4, <1>5 DEF QuietInv, QuietJournal
<1>7. QuietOp'
  BY <1>1, <1>2, <1>3, <1>4, <1>5 DEF QuietOp
<1>8. QuietStep' /\ QuietRestore'
  BY <1>2, <1>4, <1>5 DEF QuietStep, QuietRestore
<1> QED
  BY <1>6, <1>7, <1>8 DEF QuietInv

\* The newest step goes, and only finished ones are left.
LEMMA TopGone ==
  ASSUME Shape, QuietInv, steps # <<>>, steps' = Without(Top.no)
  PROVE  /\ steps' = Front(steps) /\ steps' \in Seq(Steps)
         /\ AllDone' /\ \A s \in Below' : s.done
<1>1. steps' = Front(steps) /\ steps' \in Seq(Steps)
  BY TopStep, FrontByDropping, FrontIs
<1>2. ToSet(steps') = Below
  BY TopStep, StepDropped DEF Below
<1>3. \A s \in ToSet(steps') : s.done
  BY <1>2 DEF QuietInv, QuietJournal
<1>4. steps' # <<>> => Top' \in ToSet(steps')
  BY <1>1, ToSetIs DEF Top
<1> QED
  BY <1>1, <1>3, <1>4 DEF AllDone, Below

\* An undo is over.
LEMMA QuietOfUndone ==
  ASSUME Shape, QuietInv, FinalizeUndo
  PROVE  QuietInv'
<1>1. /\ op.pc = "restoring" /\ intent.kind = "undo" /\ intent' = NoIntent /\ UNCHANGED <<disk, tx, baseline>>
      /\ steps' = Without(Top.no) /\ steps # <<>>
  BY UndoneIsTop DEF FinalizeUndo, RestoresOver
<1>2. AllDone' /\ \A s \in Below' : s.done
  BY <1>1, TopGone
<1>3. op.then \in {"rpc", "recover"} /\ ~ Own
  BY <1>1, TopStep DEF QuietInv, QuietOp, Ops, Shape, OpShape
<1>4. op' = IF op.then = "recover" THEN RecoverFrom(0) ELSE Idle
  BY <1>3 DEF FinalizeUndo, AfterUndo
<1>5. QuietJournal'
  BY <1>1, <1>2 DEF QuietJournal, NoIntent
<1>6. op.then = "rpc" => tx # "own"
  BY <1>1, <1>3 DEF QuietInv, QuietOp
<1>7. CASE op.then = "rpc"
  <2>1. op' = Idle
    BY <1>4, <1>7
  <2>2. QuietOp'
    BY <1>1, <1>6, <1>7, <2>1, Fields, ClearOps DEF QuietOp, Own
  <2> QED
    BY <1>5, <2>1, <2>2, Fields, QuietElsewhere DEF QuietInv
<1>8. CASE op.then = "recover"
  <2>1. op' = RecoverFrom(0)
    BY <1>4, <1>8
  <2>2. op'.pc = "recovering" /\ op'.then = "recover" /\ op'.clash = FALSE /\ op'.kept = FALSE
    BY <2>1, Fields, ClearOps
  <2>3. QuietOp' /\ QuietStep' /\ QuietRestore'
    BY <1>2, <2>2 DEF QuietOp, QuietStep, QuietRestore
  <2> QED
    BY <1>5, <2>3 DEF QuietInv
<1> QED
  BY <1>3, <1>7, <1>8

\* A step is unwound.
LEMMA QuietOfUnwindOver ==
  ASSUME Shape, QuietInv, UnwindOver
  PROVE  QuietInv'
<1>1. op.pc = "unwinding" /\ op.then = "recover" /\ UNCHANGED <<disk, tx, baseline, intent>> /\ op.clash = FALSE /\ op.kept = FALSE
  BY TopStep DEF UnwindOver, Shape, OpShape, QuietInv, QuietOp, Ops
<1>2. steps # <<>> /\ op.at = Top.no /\ intent = NoIntent
  BY <1>1, UnwoundIsTop
<1>3. steps' = Without(Top.no)
  BY <1>1, <1>2 DEF UnwindOver
<1>4. AllDone' /\ \A s \in Below' : s.done
  BY <1>2, <1>3, TopGone
<1>5. op'.pc = "recovering" /\ op'.then = "recover" /\ op'.clash = FALSE /\ op'.kept = FALSE
  BY <1>1, TopStep DEF UnwindOver, Ops
<1>6. QuietJournal'
  BY <1>1, <1>2, <1>4 DEF QuietJournal, NoIntent
<1>7. QuietOp' /\ QuietStep' /\ QuietRestore'
  BY <1>4, <1>5 DEF QuietOp, QuietStep, QuietRestore
<1> QED
  BY <1>6, <1>7 DEF QuietInv

\* Nothing is left to recover.
LEMMA NothingToUnwind ==
  ASSUME Shape, QuietInv, RecoverEnd
  PROVE  AllDone /\ intent = NoIntent /\ ~ op.kept
<1>1. op.pc = "recovering" /\ intent = NoIntent /\ ToUnwind = {}
  BY DEF RecoverEnd
<1>2. ASSUME ~ AllDone PROVE FALSE
  <2>1. steps # <<>> /\ ~ Top.done /\ Top.no < op.at
    BY <1>1, <1>2 DEF AllDone, QuietInv, QuietOp
  <2>2. Top.no \in ToUnwind
    BY <2>1, TopStep DEF ToUnwind, Unfinished
  <2> QED
    BY <1>1, <2>2
<1> QED
  BY <1>1, <1>2 DEF QuietInv, QuietOp

\* A recovery is over.
LEMMA QuietOfRecovered ==
  ASSUME Shape, QuietInv, RecoverEnd
  PROVE  QuietInv'
<1>1. op' = Idle /\ UNCHANGED disk /\ AllDone /\ intent = NoIntent /\ ~ op.kept
  BY NothingToUnwind DEF RecoverEnd
<1>2. CASE tx = "own"
  BY <1>1, <1>2, QuietOfDrop DEF RecoverEnd
<1>3. CASE tx # "own"
  <2>1. UNCHANGED journal
    BY <1>3 DEF RecoverEnd
  <2>2. QuietJournal'
    BY <1>1, <2>1, QuietJournalSame DEF journal
  <2>3. QuietOp'
    BY <1>1, <1>3, <2>1, Fields, ClearOps DEF QuietOp, Own, journal
  <2> QED
    BY <1>1, <2>2, <2>3, Fields, QuietElsewhere DEF QuietInv
<1> QED
  BY <1>2, <1>3

\* Undisturbed, all of it is kept.
LEMMA QuietKept ==
  ASSUME Shape, QuietInv, [Next]_vars, Undisturbed'
  PROVE  QuietInv'
<1>1. CASE UNCHANGED vars
  BY <1>1, QuietAside DEF vars, journal
<1>2. CASE CalmJournal
  BY <1>2, QuietOfClosing, QuietOfAsking, QuietOfOpen, QuietOfBegin, QuietOfImage, QuietOfStamp, QuietOfFinalize,
     QuietOfUndo, QuietOfRevert, QuietOfUndone, QuietOfUnwindOver, QuietOfRecovered DEF CalmJournal
<1>3. CASE CalmDisk
  BY <1>3, QuietOfPut, QuietOfWrite, QuietOfRestore, QuietOfUnwound DEF CalmDisk
<1>4. CASE CalmOp
  BY <1>4, QuietOfRefused, QuietOfFixed, QuietOfKnowing, QuietOfRecoverIntent, QuietOfUnwindStep, QuietOfCrash,
     QuietOfStartup, QuietOfUnwound DEF CalmOp
<1> QED
  BY <1>1, <1>2, <1>3, <1>4, CalmSteps

\* It holds when the daemon first starts.
LEMMA QuietInit == Init => QuietInv
<1> SUFFICES ASSUME Init PROVE QuietInv
  OBVIOUS
<1>1. op = Idle /\ steps = <<>> /\ intent = NoIntent /\ tx = "none"
  BY DEF Init
<1>2. Below = {} /\ AllDone
  BY <1>1, EmptySeq DEF Below, AllDone, ToSet
<1>3. QuietJournal
  BY <1>1, <1>2 DEF QuietJournal, NoIntent
<1>4. QuietOp
  BY <1>1, Fields, ClearOps DEF QuietOp, Own
<1>5. QuietStep /\ QuietRestore
  BY <1>1, Fields DEF QuietStep, QuietRestore
<1> QED
  BY <1>3, <1>4, <1>5 DEF QuietInv

-----------------------------------------------------------------------------
(***************************************************************************)
(* Atomic: then the journal implements AtomicSteps                         *)
(* What a client is shown (Files) changes where a step is finalized and    *)
(* where an undo or a revert is recorded, and nowhere in between.          *)
(***************************************************************************)
\* The phases of a step once it is journaled.
Journaled == {"journaling", "writing", "restamping", "settling", "finishing"}

\* What a client is shown, by what the newest step and the intent are.
MappedAs ==
    /\ AllDone /\ intent = NoIntent => Taken = steps /\ \A m \in Modules : Shown(m) = disk[m]
    /\ intent.kind = "revert" => \A m \in Modules : Shown(m) = IF m \in Tracked THEN baseline[m] ELSE disk[m]
    /\ ~ AllDone \/ intent.kind = "undo" =>
          /\ steps # <<>> /\ Taken = Front(steps)
          /\ \A m \in Modules : Shown(m) = IF m \in ToRestore(Top) THEN Image(m).before ELSE disk[m]
    /\ op.pc \in Journaled => /\ ~ AllDone /\ intent = NoIntent
                              /\ \A m \in Modules : Shown(m) = IF m \in Planned THEN Image(m).before ELSE disk[m]
    /\ op.pc \in Journaled \ {"journaling"} =>
          \A m \in Modules : Asked(m) = IF m \in ToRestore(Top) THEN Image(m).after ELSE None
    /\ op.pc \notin Journaled \cup {"putting", "checked"} => Asking = NoRows

\* The three first of them, whatever the operation is.
LEMMA ShownAs ==
  ASSUME Shape, QuietInv
  PROVE  /\ AllDone /\ intent = NoIntent => Taken = steps /\ \A m \in Modules : Shown(m) = disk[m]
         /\ intent.kind = "revert" => \A m \in Modules : Shown(m) = IF m \in Tracked THEN baseline[m] ELSE disk[m]
         /\ ~ AllDone \/ intent.kind = "undo" =>
               /\ steps # <<>> /\ Taken = Front(steps)
               /\ \A m \in Modules : Shown(m) = IF m \in ToRestore(Top) THEN Image(m).before ELSE disk[m]
<1>1. ASSUME AllDone, intent = NoIntent PROVE Taken = steps /\ \A m \in Modules : Shown(m) = disk[m]
  <2>1. ~ Untaken /\ intent.kind # "revert"
    BY <1>1 DEF Untaken, AllDone, NoIntent
  <2> QED
    BY <2>1 DEF Taken, Shown
<1>2. intent.kind = "revert" => \A m \in Modules : Shown(m) = IF m \in Tracked THEN baseline[m] ELSE disk[m]
  BY DEF Shown
<1>3. ASSUME ~ AllDone \/ intent.kind = "undo"
      PROVE  /\ steps # <<>> /\ Taken = Front(steps)
             /\ \A m \in Modules : Shown(m) = IF m \in ToRestore(Top) THEN Image(m).before ELSE disk[m]
  <2>1. Untaken /\ intent.kind # "revert"
    <3>1. CASE ~ AllDone
      BY <3>1 DEF Untaken, AllDone, QuietInv, QuietJournal, NoIntent
    <3>2. CASE intent.kind = "undo"
      BY <3>2, UndoneIsTop DEF Untaken
    <3> QED
      BY <1>3, <3>1, <3>2
  <2> QED
    BY <2>1 DEF Taken, Shown, Untaken, Image
<1> QED
  BY <1>1, <1>2, <1>3

\* Of a journaled step, nothing is shown yet.
LEMMA StepIsHidden ==
  ASSUME Shape, QuietInv, op.pc \in Journaled
  PROVE  /\ ~ AllDone /\ steps # <<>> /\ intent = NoIntent
         /\ \A m \in Modules : Shown(m) = IF m \in Planned THEN Image(m).before ELSE disk[m]
<1>1. steps # <<>> /\ ~ AllDone /\ intent = NoIntent
  BY DEF Shape, OpShape, Stepping, Journaled, AllDone, QuietInv, QuietJournal
<1>2. \A m \in Modules : Shown(m) = IF m \in ToRestore(Top) THEN Image(m).before ELSE disk[m]
  BY <1>1, ShownAs
<1>3. /\ ToRestore(Top) \subseteq Planned
      /\ \A m \in Planned \ ToRestore(Top) : Image(m).before # Absent /\ Image(m).after = Image(m).before
  BY TopStep
<1>4. ASSUME NEW m \in Planned, m \notin ToRestore(Top) PROVE disk[m] = Image(m).before
  <2>1. Image(m).before # Absent /\ Image(m).after = Image(m).before /\ Image(m).before \in Contents
    BY <1>1, <1>3, <1>4, TopStep
  <2>2. CASE op.pc = "journaling"
    BY <1>4, <2>2 DEF QuietInv, QuietStep
  <2>3. CASE op.pc = "writing"
    BY <1>4, <2>1, <2>3 DEF QuietInv, QuietStep
  <2>4. CASE op.pc \in {"restamping", "settling", "finishing"}
    BY <1>4, <2>1, <2>4, TopStep DEF QuietInv, QuietStep
  <2> QED
    BY <2>2, <2>3, <2>4 DEF Journaled
<1> QED
  BY <1>1, <1>2, <1>3, <1>4

\* The journaled output is what the request asks for.
LEMMA OutputIsAsked ==
  ASSUME Shape, QuietInv, op.pc \in Journaled \ {"journaling"}, NEW m \in Modules
  PROVE  Asked(m) = IF m \in ToRestore(Top) THEN Image(m).after ELSE None
<1>1. CASE op.pc # "writing"
  BY <1>1 DEF Asked, Journaled, Image
<1>2. CASE op.pc = "writing"
  <2>1. Asked(m) = IF op.text[m] # Shown(m) THEN op.text[m] ELSE None
    BY <1>2 DEF Asked
  <2>2. steps # <<>> /\ Shown(m) = IF m \in Planned THEN Image(m).before ELSE disk[m]
    BY <1>2, StepIsHidden
  <2>3. op.text[m] \in Texts \cup {None} /\ Written \subseteq Planned /\ \A n \in Written : Image(n).after = op.text[n]
    BY <1>2 DEF Shape, OpShape, PhaseShape, Image
  <2>4. CASE m \in Written
    <3>1. m \in Planned /\ Image(m).after = op.text[m] /\ op.text[m] \in Texts /\ op.text[m] # Absent
      BY <2>3, <2>4, ConstantsAssumption DEF Written
    <3>2. m \in ToRestore(Top) <=> Image(m).after # Image(m).before
      BY <3>1 DEF ToRestore, Planned, Unwritten, Image
    <3> QED
      BY <2>1, <2>2, <3>1, <3>2
  <2>5. CASE m \notin Written
    <3>1. op.text[m] = None
      BY <2>5 DEF Written
    <3>2. m \in ToRestore(Top) => Image(m).after = None
      <4>1. m \in Planned => Image(m).after = IF Image(m).before = Absent THEN None ELSE Image(m).before
        BY <1>2, <2>5 DEF QuietInv, QuietStep
      <4> QED
        BY <4>1 DEF ToRestore, Planned, Unwritten, Image
    <3> QED
      BY <2>1, <3>1, <3>2
  <2> QED
    BY <2>4, <2>5
<1> QED
  BY <1>1, <1>2

\* All of them, before a step and after it.
LEMMA Mapped == Shape /\ QuietInv => MappedAs
<1> SUFFICES ASSUME Shape, QuietInv PROVE MappedAs
  OBVIOUS
<1>1. op.pc \notin Journaled \cup {"putting", "checked"} => Asking = NoRows
  BY DEF Asking, Asked, NoRows, Journaled
<1>2. op.pc \in Journaled \ {"journaling"} =>
          \A m \in Modules : Asked(m) = IF m \in ToRestore(Top) THEN Image(m).after ELSE None
  BY OutputIsAsked
<1> QED
  BY <1>1, <1>2, ShownAs, StepIsHidden DEF MappedAs

LEMMA MappedNext ==
  ASSUME Shape', QuietInv'
  PROVE  MappedAs'
BY Mapped, PTL
\* A step of the journal is one of AtomicSteps, or none.
Simulated == [Atomic!Next]_(Atomic!vars)

Ready == Shape /\ TrackingInv /\ QuietInv /\ MappedAs

\* A step that shows nothing: what was asked for is still, or is given up.
LEMMA Hidden ==
  ASSUME Files' = Files, InTx' = InTx, Opening' = Opening, Stack' = Stack, Asking' = Asking \/ Asking' = NoRows
  PROVE  Simulated
<1>1. CASE Asking' = Asking
  BY <1>1 DEF Simulated, Atomic!vars
<1>2. CASE Asking' = NoRows
  <2>1. Atomic!GiveUp
    BY <1>2 DEF Atomic!GiveUp, Atomic!Nothing, NoRows
  <2> QED
    BY <2>1 DEF Simulated, Atomic!Next
<1> QED
  BY <1>1, <1>2

\* The same steps taken are the same stack.
LEMMA SameStack ==
  ASSUME InTx' = InTx, Taken' = Taken
  PROVE  Stack' = Stack
BY DEF Stack, Recorded, ToRestore, Covered, Unwritten

\* What is shown is the journal's and the disk's.
LEMMA SameView ==
  ASSUME UNCHANGED <<disk, tx, baseline, steps, intent>>
  PROVE  Files' = Files /\ InTx' = InTx /\ Opening' = Opening /\ Stack' = Stack
<1>1. Top' = Top /\ ToRestore(Top)' = ToRestore(Top)
  BY SameSteps
<1>2. Untaken' = Untaken
  BY <1>1 DEF Untaken
<1>3. Taken' = Taken
  BY <1>2 DEF Taken
<1>4. Tracked' = Tracked
  BY DEF Tracked
<1>5. \A m \in Modules : Shown(m)' = Shown(m)
  BY <1>1, <1>2, <1>4 DEF Shown
<1>6. InTx' = InTx
  BY DEF InTx
<1>7. Opening' = Opening
  BY <1>6 DEF Opening
<1> QED
  BY <1>3, <1>5, <1>6, <1>7, SameStack DEF Files

\* What touches neither the files nor the steps shows nothing.
LEMMA CalmIsHidden ==
  ASSUME Ready, Ready', CalmOp
  PROVE  Simulated
<1> DEFINE asks == Journaled \cup {"putting", "checked"}
<1>1. UNCHANGED <<disk, tx, baseline, steps, intent>>
  BY DEF CalmOp, RefusePlan, FixWritten, Remember, RecoverIntent, UnwindStep, Crash, Startup, NoteWrite, NoteKnown,
         UnwindFound, journal
<1>2. CASE \E ran \in BOOLEAN : FixWritten(ran)
  <2>1. op.pc = "writing" /\ op'.pc \in {"restamping", "settling"}
    BY <1>2 DEF FixWritten, Idle
  <2>2. ToRestore(Top)' = ToRestore(Top) /\ \A m : Image(m)' = Image(m)
    BY <1>1, SameSteps
  <2>3. \A m \in Modules : Asked(m)' = Asked(m)
    BY <2>1, <2>2 DEF Ready, MappedAs, Journaled
  <2>4. Asking' = Asking
    BY <2>3 DEF Asking
  <2> QED
    BY <1>1, <2>4, SameView, Hidden
<1>3. CASE op'.pc \notin asks
  <2>1. Asking' = NoRows
    BY <1>3 DEF Ready, MappedAs
  <2> QED
    BY <1>1, <2>1, SameView, Hidden
<1>4. CASE RefusePlan
  <2>1. op'.pc \in {"refusing", "idle"}
    BY <1>4, Fields DEF RefusePlan
  <2> QED
    BY <1>3, <2>1 DEF Journaled
<1>5. CASE Remember
  <2>1. op'.pc = op.pc /\ op.pc \in {"restoring", "unwinding"}
    BY <1>5, TopStep DEF Remember, Ops, Ready, Shape, OpShape
  <2> QED
    BY <1>3, <2>1 DEF Journaled
<1>6. CASE RecoverIntent \/ UnwindStep
  <2>1. op'.pc \in {"restoring", "unwinding"}
    <3>1. op \in Ops
      BY TopStep DEF Ready
    <3>2. CASE RecoverIntent
      BY <3>2, ClearOps DEF RecoverIntent
    <3>3. CASE UnwindStep
      BY <3>1, <3>3 DEF UnwindStep, Ops
    <3> QED
      BY <1>6, <3>2, <3>3
  <2> QED
    BY <1>3, <2>1 DEF Journaled
<1>7. CASE Crash \/ Startup
  <2>1. op'.pc \in {"down", "idle", "recovering"}
    BY <1>7, Fields DEF Crash, Startup, StartRecovery
  <2> QED
    BY <1>3, <2>1 DEF Journaled
<1>8. ASSUME NEW m \in Modules, NoteWrite(m) \/ NoteKnown(m) \/ UnwindFound(m) PROVE Simulated
  <2>1. op'.pc \in {"idle", "unwinding"}
    BY <1>8, Fields, TopStep DEF NoteWrite, NoteKnown, UnwindFound, Unwinding, Ready, Ops
  <2> QED
    BY <1>3, <2>1 DEF Journaled
<1> QED
  BY <1>2, <1>4, <1>5, <1>6, <1>7, <1>8 DEF CalmOp

\* What is asked for is what changes.
LEMMA Changed ==
  ASSUME \A m \in Modules : Shown(m)' = IF Asked(m) # None THEN Asked(m) ELSE Shown(m), Asking' = NoRows
  PROVE  Atomic!Change
<1>1. \A m \in Modules : m \in Atomic!ToChange <=> Asked(m) # None
  BY DEF Atomic!ToChange, Asking
<1>2. \A m \in Modules : Shown(m)' = IF m \in Atomic!ToChange THEN Asking[m] ELSE Files[m]
  BY <1>1 DEF Asking, Files
<1>3. Files' = [m \in Modules |-> IF m \in Atomic!ToChange THEN Asking[m] ELSE Files[m]]
  BY <1>2 DEF Files
<1> QED
  BY <1>3 DEF Atomic!Change, Atomic!Nothing, NoRows

\* A gated write is one step.
LEMMA PutIsWrite ==
  ASSUME Ready, Ready', NEW m \in Modules, PutFile(m)
  PROVE  Simulated
<1>1. op.pc = "putting" /\ UNCHANGED journal /\ \A n \in Modules : disk'[n] = IF n = m THEN op.text[m] ELSE disk[n]
  BY TopStep DEF PutFile, Ready
<1>2. AllDone /\ intent = NoIntent /\ AllDone' /\ intent' = NoIntent
  BY <1>1, SameSteps DEF Ready, QuietInv, QuietJournal, Stepping, journal
<1>3. \A n \in Modules : Shown(n) = disk[n] /\ Shown(n)' = disk'[n]
  BY <1>2 DEF Ready, MappedAs
<1>4. InTx' = InTx /\ Opening' = Opening /\ Stack' = Stack
  <2>1. InTx' = InTx
    BY <1>1 DEF InTx, journal
  <2>2. Taken' = Taken
    BY <1>1, <1>2 DEF Ready, MappedAs, journal
  <2> QED
    BY <1>1, <2>1, <2>2, SameStack DEF Opening, journal
<1>5. op.todo = {m} /\ op.text[m] # None /\ \A n \in Modules \ {m} : op.text[n] = None
  <2>1. op.todo = {m} /\ op.text[m] # None
    BY <1>1 DEF PutFile, Ready, Shape, OpShape
  <2> QED
    BY <1>1, <2>1 DEF Ready, QuietInv, QuietOp, Written
<1>6. \A n \in Modules : Asked(n) = IF n = m /\ op.text[n] # disk[n] THEN op.text[n] ELSE None
  BY <1>1, <1>3, <1>5 DEF Asked
<1>7. Asking' = NoRows
  <2>1. op'.pc \in {"idle", "noting"}
    BY TopStep, Fields DEF PutFile, Ready, Ops
  <2> QED
    BY <2>1 DEF Ready, MappedAs, Journaled
<1>8. InTx => \A n \in Atomic!ToChange : Opening[n] # None
  <2>1. InTx => m \in Tracked
    BY <1>1, <1>5 DEF InTx, Ready, TrackingInv
  <2>2. Atomic!ToChange \subseteq {m}
    BY <1>6 DEF Atomic!ToChange, Asking
  <2> QED
    BY <2>1, <2>2 DEF Opening, Tracked
<1>9. Atomic!Change
  BY <1>1, <1>3, <1>5, <1>6, <1>7, Changed
<1>10. Atomic!Write
  BY <1>4, <1>8, <1>9 DEF Atomic!Write
<1> QED
  BY <1>10 DEF Simulated, Atomic!Next

\* A file of a step, or one put back, is not shown changed before all of them are.
LEMMA FileIsHidden ==
  ASSUME Ready, Ready', NEW m \in Modules, WriteModule(m) \/ Restore(m) \/ UnwindRestore(m)
  PROVE  Simulated
<1>1. /\ UNCHANGED journal /\ m \in op.todo
      /\ \A n \in Modules : n # m => disk'[n] = disk[n]
  BY TopStep DEF WriteModule, Restore, UnwindRestore, Unwinding, Ready
<1>2. /\ Top' = Top /\ AllDone' = AllDone /\ Planned' = Planned /\ Tracked' = Tracked
      /\ ToRestore(Top)' = ToRestore(Top) /\ \A n : Image(n)' = Image(n)
  BY <1>1, SameSteps DEF journal, Tracked
<1>3. InTx' = InTx /\ Opening' = Opening /\ Stack' = Stack
  <2>1. InTx' = InTx
    BY <1>1 DEF InTx, journal
  <2>2. Taken' = Taken
    BY <1>1, <1>2 DEF Taken, Untaken, journal
  <2> QED
    BY <1>1, <2>1, <2>2, SameStack DEF Opening, journal
<1>4. CASE WriteModule(m)
  <2>1. op.pc = "writing" /\ op'.pc = "writing"
    BY <1>4, TopStep DEF WriteModule, Ready, Ops
  <2>2. m \in Planned
    BY <1>1, <2>1 DEF Ready, Shape, PhaseShape
  <2>3. \A n \in Modules : Shown(n)' = Shown(n)
    BY <1>1, <1>2, <2>1, <2>2 DEF Ready, MappedAs, Journaled
  <2>4. \A n \in Modules : Asked(n)' = Asked(n)
    BY <1>2, <2>1 DEF Ready, MappedAs, Journaled
  <2>5. Files' = Files /\ Asking' = Asking
    BY <2>3, <2>4 DEF Files, Asking
  <2> QED
    BY <1>3, <2>5, Hidden
<1>5. CASE Restore(m) \/ UnwindRestore(m)
  <2>1. op'.pc = op.pc /\ op.pc \in {"restoring", "unwinding"}
    BY <1>5, TopStep DEF Restore, UnwindRestore, Unwinding, Ready, Ops
  <2>2. Asking' = NoRows
    BY <2>1 DEF Ready, MappedAs, Journaled
  <2>3. \A n \in Modules : Shown(n)' = Shown(n)
    <3>1. CASE intent.kind = "revert"
      <4>1. m \in Tracked
        BY <1>1, <2>1, <3>1 DEF Ready, Shape, PhaseShape, Handled, NoIntent
      <4>2. intent'.kind = "revert" /\ baseline' = baseline
        BY <1>1, <3>1 DEF journal
      <4> QED
        BY <1>1, <1>2, <3>1, <4>1, <4>2 DEF Ready, MappedAs
    <3>2. CASE intent.kind # "revert"
      <4>1. m \in ToRestore(Top) /\ (~ AllDone \/ intent.kind = "undo")
        <5>1. CASE op.pc = "restoring"
          <6>1. intent.kind = "undo"
            BY <3>2, <5>1 DEF Ready, Shape, PhaseShape, TypeOK, Intents
          <6> QED
            BY <1>1, <5>1, <6>1, UndoneIsTop DEF Ready, Handled
        <5>2. CASE op.pc = "unwinding"
          BY <1>1, <5>2, UnwoundIsTop DEF Ready, Handled, AllDone
        <5> QED
          BY <2>1, <5>1, <5>2
      <4>2. intent' = intent
        BY <1>1 DEF journal
      <4> QED
        BY <1>1, <1>2, <4>1, <4>2 DEF Ready, MappedAs
    <3> QED
      BY <3>1, <3>2
  <2>4. Files' = Files
    BY <2>3 DEF Files
  <2> QED
    BY <1>3, <2>2, <2>4, Hidden
<1> QED
  BY <1>4, <1>5

\* The stack of a sequence of steps.
LEMMA Records ==
  ASSUME NEW q \in Seq(Steps), NEW r, r = [i \in 1..Len(q) |-> Recorded(q[i])]
  PROVE  /\ r \in Seq([Modules -> Rows]) /\ Len(r) = Len(q)
         /\ \A i \in 1..Len(q) : r[i] = Recorded(q[i])
         /\ q = <<>> => r = <<>>
<1>1. Len(q) \in Nat /\ \A i \in 1..Len(q) : q[i] \in Steps
  BY LenProperties, ElementOfSeq
<1>2. ASSUME NEW s \in Steps PROVE Recorded(s) \in [Modules -> Rows]
  <2>1. \A m \in ToRestore(s) : s.image[m].before \in Contents
    BY <1>2 DEF ToRestore, Covered, Steps, Images
  <2> QED
    BY <2>1 DEF Recorded, Rows
<1>3. \A i \in 1..Len(q) : Recorded(q[i]) \in [Modules -> Rows]
  BY <1>1, <1>2
<1>4. PICK n \in Nat : n = Len(q)
  BY <1>1
<1>5. r \in Seq([Modules -> Rows]) /\ Len(r) = n /\ \A i \in 1..n : r[i] = Recorded(q[i])
  BY <1>3, <1>4
<1> QED
  BY <1>4, <1>5, EmptySeq

\* A step on top of the others is a row on top of theirs.
LEMMA RecordsAppended ==
  ASSUME NEW q \in Seq(Steps), NEW s \in Steps, NEW p, p = Append(q, s),
         NEW a, a = [i \in 1..Len(q) |-> Recorded(q[i])], NEW b, b = [i \in 1..Len(p) |-> Recorded(p[i])]
  PROVE  b = Append(a, Recorded(s))
<1>1. p \in Seq(Steps) /\ Len(p) = Len(q) + 1 /\ Len(q) \in Nat
      /\ \A i \in 1..Len(p) : p[i] = IF i <= Len(q) THEN q[i] ELSE s
  BY AppendProperties, LenProperties
<1>2. /\ a \in Seq([Modules -> Rows]) /\ Len(a) = Len(q) /\ \A i \in 1..Len(q) : a[i] = Recorded(q[i])
  BY Records
<1>3. /\ b \in Seq([Modules -> Rows]) /\ Len(b) = Len(p) /\ \A i \in 1..Len(p) : b[i] = Recorded(p[i])
  BY <1>1, Records
<1>4. Len(p) \in 1..Len(p) /\ p[Len(p)] = s
  BY <1>1
<1>5. PICK row : row = Recorded(s)
  OBVIOUS
<1>6. row \in [Modules -> Rows]
  BY <1>3, <1>4, <1>5, ElementOfSeq
<1>7. PICK c : c = Append(a, row)
  OBVIOUS
<1>8. c \in Seq([Modules -> Rows]) /\ Len(c) = Len(q) + 1 /\ \A i \in 1..Len(c) : c[i] = IF i <= Len(q) THEN a[i] ELSE row
  BY <1>2, <1>6, <1>7, AppendProperties
<1>9. \A i \in 1..Len(b) : b[i] = c[i]
  BY <1>1, <1>2, <1>3, <1>5, <1>8
<1>10. b = c
  BY <1>1, <1>3, <1>8, <1>9, SeqEqual
<1> QED
  BY <1>5, <1>7, <1>10

\* Without the newest step, its row goes.
LEMMA RecordsFronted ==
  ASSUME NEW q \in Seq(Steps), q # <<>>, NEW p, p = Front(q),
         NEW a, a = [i \in 1..Len(q) |-> Recorded(q[i])], NEW b, b = [i \in 1..Len(p) |-> Recorded(p[i])]
  PROVE  a # <<>> /\ Atomic!Last(a) = Recorded(q[Len(q)]) /\ b = Atomic!Front(a)
<1>1. p \in Seq(Steps) /\ Len(p) = Len(q) - 1 /\ \A i \in 1..(Len(q) - 1) : p[i] = q[i]
  BY FrontIs
<1>2. Len(q) \in Nat /\ Len(q) # 0
  BY LenProperties, EmptySeq
<1>3. /\ a \in Seq([Modules -> Rows]) /\ Len(a) = Len(q) /\ \A i \in 1..Len(q) : a[i] = Recorded(q[i])
  BY Records
<1>4. /\ b \in Seq([Modules -> Rows]) /\ Len(b) = Len(p) /\ \A i \in 1..Len(p) : b[i] = Recorded(p[i])
  BY <1>1, Records
<1>5. a # <<>>
  BY <1>2, <1>3, EmptySeq
<1>6. Atomic!Last(a) = Recorded(q[Len(q)])
  BY <1>2, <1>3 DEF Atomic!Last
<1>7. PICK S : S = [Modules -> Rows]
  OBVIOUS
<1>8. a \in Seq(S) /\ b \in Seq(S)
  BY <1>3, <1>4, <1>7, Zenon
<1>9. Front(a) \in Seq(S) /\ Len(Front(a)) = Len(a) - 1 /\ \A i \in 1..(Len(a) - 1) : Front(a)[i] = a[i]
  BY <1>5, <1>8, FrontIs, Zenon
<1>11. PICK c : c = Front(a)
  OBVIOUS
<1>12. c \in Seq(S) /\ Len(c) = Len(a) - 1 /\ \A i \in 1..(Len(a) - 1) : c[i] = a[i]
  BY <1>9, <1>11, Zenon
<1>13. b = c
  <2>a. PICK k \in Nat : k = Len(q) - 1
    BY <1>1, LenProperties
  <2>b. Len(p) = k /\ Len(b) = k /\ Len(c) = k
    BY <1>1, <1>3, <1>4, <1>12, <2>a, Zenon
  <2>c. \A i \in 1..k : i \in 1..Len(q)
    BY <1>2, <2>a
  <2>d. \A i \in 1..k : b[i] = Recorded(q[i]) /\ c[i] = Recorded(q[i])
    BY <1>1, <1>3, <1>4, <1>12, <2>a, <2>b, <2>c, Zenon
  <2>1. Len(b) = Len(c) /\ \A i \in 1..Len(b) : b[i] = c[i]
    BY <2>b, <2>d, Zenon
  <2> QED
    BY <1>8, <1>12, <2>1, SeqEqual, Zenon
<1>10. Atomic!Front(a) = Front(a)
  BY DEF Atomic!Front, Front
<1> QED
  BY <1>5, <1>6, <1>10, <1>11, <1>13

\* Where a client asks, it is shown the disk, and nothing is asked for yet.
LEMMA AtTheGate ==
  ASSUME Ready, op.pc = "idle"
  PROVE  /\ AllDone /\ intent = NoIntent /\ op = Idle /\ tx \in {"none", "explicit"}
         /\ Taken = steps /\ Asking = NoRows /\ \A m \in Modules : Shown(m) = disk[m] /\ Files[m] = disk[m]
         /\ InTx <=> tx # "none"
         /\ tx # "none" => Opening = baseline
<1>1. AllDone /\ intent = NoIntent /\ op = Idle /\ tx # "own"
  BY QuietGate DEF Ready
<1>2. tx \in {"none", "explicit"}
  BY <1>1 DEF Ready, Shape, TypeOK
<1>3. InTx <=> tx # "none"
  BY <1>1, <1>2 DEF InTx, NoIntent
<1>4. Taken = steps /\ Asking = NoRows /\ \A m \in Modules : Shown(m) = disk[m]
  BY <1>1 DEF Ready, MappedAs, Journaled
<1>5. \A m \in Modules : Files[m] = disk[m]
  BY <1>4 DEF Files
<1> QED
  BY <1>1, <1>2, <1>3, <1>4, <1>5 DEF Opening

\* A client starts a transaction, has a file tracked, asks for a gated write, or for a step.
LEMMA StartIsOpen ==
  ASSUME Ready, Ready', Start
  PROVE  Simulated
<1>1. op.pc = "idle" /\ tx = "none" /\ tx' = "explicit" /\ UNCHANGED <<disk, baseline, steps, intent, op>>
  BY DEF Start
<1>2. baseline = NoRows /\ steps = <<>>
  BY <1>1 DEF Ready, Shape, JournalShape
<1>3. AllDone /\ intent = NoIntent /\ Taken = steps /\ Asking = NoRows /\ (\A m \in Modules : Shown(m) = disk[m]) /\ ~ InTx
  BY <1>1, AtTheGate
<1>4. AllDone' /\ InTx' = TRUE
  BY <1>1, <1>3, SameSteps DEF InTx, NoIntent
<1>5. Taken' = <<>> /\ Asking' = NoRows /\ \A m \in Modules : Shown(m)' = disk[m]
  BY <1>1, <1>2, <1>3, <1>4 DEF Ready, MappedAs, Journaled
<1>6. Files' = Files
  BY <1>3, <1>5 DEF Files
<1>7. Opening = NoRows /\ Opening' = NoRows
  BY <1>1, <1>2, <1>3, <1>4 DEF Opening
<1>8. Stack = <<>>
  BY <1>3 DEF Stack
<1>9. PICK r : r = [i \in 1..Len(<<>>) |-> Recorded((<<>>)[i])]
  OBVIOUS
<1>10. r = <<>>
  BY <1>9, Records, EmptySeq
<1>11. Stack' = r
  BY <1>4, <1>5, <1>9 DEF Stack
<1>12. Atomic!Open
  BY <1>3, <1>4, <1>5, <1>6, <1>7, <1>8, <1>10, <1>11 DEF Atomic!Open
<1> QED
  BY <1>12 DEF Simulated, Atomic!Next

\* A request that leaves the files and the steps alone, and does not start or end a transaction.
LEMMA StaysInTx ==
  ASSUME Ready, Ready', op.pc = "idle", UNCHANGED <<disk, steps, intent>>, tx' = tx \/ (tx = "none" /\ tx' = "own")
  PROVE  /\ Files' = Files /\ InTx' = InTx /\ Stack' = Stack
         /\ \A m \in Modules : Shown(m)' = disk[m]
<1>1. AllDone /\ intent = NoIntent /\ Taken = steps /\ \A m \in Modules : Shown(m) = disk[m]
  BY AtTheGate
<1>2. AllDone' /\ intent' = NoIntent
  BY <1>1, SameSteps
<1>3. Taken' = Taken /\ \A m \in Modules : Shown(m)' = disk[m]
  BY <1>1, <1>2 DEF Ready, MappedAs
<1>4. InTx' = InTx
  BY DEF InTx
<1>5. Files' = Files
  BY <1>1, <1>3 DEF Files
<1> QED
  BY <1>3, <1>4, <1>5, SameStack

LEMMA TrackIsTrack ==
  ASSUME Ready, Ready', NEW m \in Modules, Track(m)
  PROVE  Simulated
<1>1. /\ op.pc = "idle" /\ tx # "none" /\ baseline[m] = None /\ UNCHANGED <<disk, tx, steps, intent, op>>
      /\ baseline' = [baseline EXCEPT ![m] = disk[m]]
  BY DEF Track, ClaimBaseline
<1>2. Files' = Files /\ InTx' = InTx /\ Stack' = Stack
  BY <1>1, StaysInTx
<1>3. Asking = NoRows /\ Asking' = NoRows
  BY <1>1 DEF Ready, MappedAs, Journaled
<1>4. InTx /\ Opening = baseline /\ Files[m] = disk[m]
  BY <1>1, AtTheGate
<1>5. Opening' = baseline'
  BY <1>2, <1>4 DEF Opening
<1>6. Atomic!Track(m)
  BY <1>1, <1>2, <1>3, <1>4, <1>5 DEF Atomic!Track
<1> QED
  BY <1>6 DEF Simulated, Atomic!Next

LEMMA WriteFileIsAskToWrite ==
  ASSUME Ready, Ready', NEW m \in Modules, NEW c \in Contents \ {disk[m]}, WriteFile(m, c)
  PROVE  Simulated
<1>1. /\ op.pc = "idle" /\ UNCHANGED <<disk, tx, steps, intent>>
      /\ op'.pc = "putting" /\ op'.text = [NoRows EXCEPT ![m] = c]
      /\ baseline' = IF tx # "none" /\ baseline[m] = None THEN [baseline EXCEPT ![m] = disk[m]] ELSE baseline
  BY DEF WriteFile, ClaimBaseline, Idle
<1>2. Files' = Files /\ InTx' = InTx /\ Stack' = Stack /\ \A n \in Modules : Shown(n)' = disk[n]
  BY <1>1, StaysInTx
<1>3. /\ Asking = NoRows /\ Files[m] = disk[m] /\ (InTx <=> tx # "none")
      /\ tx # "none" => Opening = baseline
  BY <1>1, AtTheGate
<1>4. Asking' = [Asking EXCEPT ![m] = c]
  <2>1. \A n \in Modules : Asked(n)' = IF n = m THEN c ELSE None
    BY <1>1, <1>2 DEF Asked, NoRows
  <2> QED
    BY <1>3, <2>1 DEF Asking, NoRows
<1>5. Opening' = IF InTx /\ Opening[m] = None THEN [Opening EXCEPT ![m] = Files[m]] ELSE Opening
  <2>1. CASE InTx
    <3>1. Opening' = baseline' /\ Opening = baseline
      BY <1>2, <1>3, <2>1 DEF Opening
    <3> QED
      BY <1>1, <1>3, <2>1, <3>1
  <2>2. CASE ~ InTx
    BY <1>2, <2>2 DEF Opening
  <2> QED
    BY <2>1, <2>2
<1>6. Atomic!AskToWrite(m)
  <2>1. Asking = Atomic!Nothing
    BY <1>3 DEF Atomic!Nothing, NoRows
  <2>2. c \in Contents
    OBVIOUS
  <2> QED
    BY <1>2, <1>4, <1>5, <2>1, <2>2 DEF Atomic!AskToWrite
<1> QED
  BY <1>6 DEF Simulated, Atomic!Next

LEMMA OpenStepIsAskForStep ==
  ASSUME Ready, Ready', NEW text \in [Modules -> Texts \cup {None}], OpenStep(text)
  PROVE  Simulated
<1>1. /\ op.pc = "idle" /\ UNCHANGED <<disk, baseline, steps, intent>>
      /\ tx' = tx \/ (tx = "none" /\ tx' = "own")
      /\ op'.pc = "checked" /\ op'.text = text
  BY DEF OpenStep, Idle
<1>2. Files' = Files /\ InTx' = InTx /\ Stack' = Stack
  BY <1>1, StaysInTx
<1>3. Asking = NoRows
  BY <1>1, AtTheGate
<1>4. Opening' = Opening
  BY <1>1, <1>2 DEF Opening
<1>5. Asking' \in [Modules -> Contents \cup {None}]
  <2>1. \A n \in Modules : Asked(n)' \in Contents \cup {None}
    BY <1>1 DEF Asked, Contents
  <2> QED
    BY <2>1 DEF Asking
<1>6. Atomic!AskForStep
  BY <1>2, <1>3, <1>4, <1>5 DEF Atomic!AskForStep, Atomic!Nothing, NoRows
<1> QED
  BY <1>6 DEF Simulated, Atomic!Next

\* A step is journaled, and not shown.
LEMMA BeginIsHidden ==
  ASSUME Ready, Ready', NEW mods \in SUBSET Modules, BeginStep(mods)
  PROVE  Simulated
<1>1. op.pc = "checked" /\ UNCHANGED <<disk, tx, baseline, intent>> /\ steps' = Append(steps, NewStep)
  BY DEF BeginStep, NewStep
<1>2. op'.pc = "journaling" /\ op'.text = op.text
  BY TopStep DEF BeginStep, Ready, Ops
<1>3. AllDone /\ intent = NoIntent
  BY <1>1, QuietGate DEF Ready
<1>4. Taken = steps /\ \A m \in Modules : Shown(m) = disk[m]
  BY <1>3 DEF Ready, MappedAs
<1>5. Planned' = {}
  BY TopBegun DEF Ready
<1>6. /\ Taken' = Front(steps') /\ \A m \in Modules : Shown(m)' = disk[m]
  BY <1>1, <1>2, <1>5 DEF Ready, MappedAs, Journaled
<1>7. NewStep \in Steps
  BY TopBegun DEF Ready
<1>8. Taken' = Taken
  BY <1>1, <1>4, <1>6, <1>7, FrontOfAppended, TopStep DEF Ready
<1>9. Files' = Files
  BY <1>4, <1>6 DEF Files
<1>10. Asking' = Asking
  <2>1. \A m \in Modules : Asked(m)' = Asked(m)
    BY <1>1, <1>2, <1>4, <1>6 DEF Asked
  <2> QED
    BY <2>1 DEF Asking
<1>11. InTx' = InTx
  BY <1>1 DEF InTx
<1>12. Opening' = Opening
  BY <1>1, <1>11 DEF Opening
<1> QED
  BY <1>8, <1>9, <1>10, <1>11, <1>12, SameStack, Hidden

\* An image of the newest step leaves the others.
LEMMA FrontUnderImage ==
  ASSUME Ready, Ready', steps # <<>>, NEW m \in Modules, NEW image, steps' = SetImage(m, image)
  PROVE  steps' # <<>> /\ Front(steps') = Front(steps)
<1>1. steps \in Seq(Steps) /\ steps' \in Seq(Steps)
  BY TopStep DEF Ready, Shape, TypeOK
<1>2. PICK q : q = SetImage(m, image)
  OBVIOUS
<1>3. q = steps' /\ Len(steps) \in Nat /\ DOMAIN steps = 1..Len(steps) /\ Len(steps) # 0
  BY <1>1, <1>2, LenProperties, EmptySeq
<1>4. DOMAIN q = 1..Len(steps) /\ \A i \in 1..(Len(steps) - 1) : q[i] = steps[i]
  BY <1>2, <1>3 DEF SetImage
<1>5. Len(q) = Len(steps)
  BY <1>1, <1>3, <1>4, LenProperties
<1>6. q # <<>> /\ Front(q) = Front(steps)
  BY <1>1, <1>3, <1>4, <1>5, FrontOfChanged
<1> QED
  BY <1>3, <1>6

\* An image is journaled: its file may now be tracked, and nothing else shows.
LEMMA ImageIsTrack ==
  ASSUME Ready, Ready', NEW m \in Modules, JournalImage(m)
  PROVE  Simulated
<1>1. /\ op.pc = "journaling" /\ m \in op.todo /\ UNCHANGED <<disk, tx, intent>>
      /\ baseline' = IF baseline[m] = None THEN [baseline EXCEPT ![m] = op.before[m]] ELSE baseline
      /\ \E image : steps' = SetImage(m, image)
  BY DEF JournalImage, ClaimBaseline
<1>2. op'.pc \in {"journaling", "writing"} /\ op'.text = op.text
  BY TopStep DEF JournalImage, Ready, Ops
<1>3. /\ steps # <<>> /\ m \notin Planned /\ Planned' = Planned \cup {m}
      /\ Image(m)'.before = op.before[m] /\ \A n \in Modules \ {m} : Image(n)' = Image(n)
  BY ImageJournaled DEF Ready, Image
<1>4. op.before[m] = disk[m]
  BY <1>1 DEF Ready, QuietInv, QuietStep
<1>5. \A n \in Modules : Shown(n)' = Shown(n)
  BY <1>1, <1>2, <1>3, <1>4 DEF Ready, MappedAs, Journaled
<1>6. Files' = Files /\ Files[m] = disk[m]
  BY <1>1, <1>3, <1>5 DEF Files, Ready, MappedAs, Journaled
<1>7. Asking' = Asking
  <2>1. \A n \in Modules : Asked(n)' = Asked(n)
    BY <1>1, <1>2, <1>5 DEF Asked
  <2> QED
    BY <2>1 DEF Asking
<1>8. InTx' = InTx
  BY <1>1 DEF InTx
<1>9. Stack' = Stack
  <2>1. Front(steps') = Front(steps)
    BY <1>1, <1>3, FrontUnderImage
  <2>2. Taken' = Front(steps') /\ Taken = Front(steps)
    BY <1>1, <1>2 DEF Ready, MappedAs, Journaled
  <2> QED
    BY <1>8, <2>1, <2>2, SameStack
<1>10. CASE InTx /\ baseline[m] = None
  <2>1. Opening' = baseline' /\ Opening = baseline
    BY <1>8, <1>10 DEF Opening
  <2>2. Atomic!Track(m)
    BY <1>1, <1>4, <1>6, <1>7, <1>8, <1>9, <1>10, <2>1 DEF Atomic!Track
  <2> QED
    BY <2>2 DEF Simulated, Atomic!Next
<1>11. CASE ~ (InTx /\ baseline[m] = None)
  <2>1. Opening' = Opening
    BY <1>1, <1>8, <1>11 DEF Opening
  <2> QED
    BY <1>6, <1>7, <1>8, <1>9, <2>1, Hidden
<1> QED
  BY <1>10, <1>11

\* Undisturbed, restamping and settling change no image.
LEMMA StampIsHidden ==
  ASSUME Ready, Ready', NEW m \in Modules, RestampAfter(m) \/ CompleteModule(m)
  PROVE  Simulated
<1>1. op.pc \in {"restamping", "settling"} /\ UNCHANGED <<disk, tx, baseline, intent>>
  BY DEF RestampAfter, CompleteModule
<1>2. op'.pc \in {"restamping", "settling", "finishing"}
  BY TopStep DEF RestampAfter, CompleteModule, Ready, Ops
<1>3. /\ steps # <<>> /\ Planned' = Planned
      /\ \A n \in Planned : Image(n)'.before = Image(n).before /\ Image(n)'.after = Image(n).after
  BY StampsAgree DEF Ready
<1>4. \A n \in Modules : Shown(n)' = Shown(n)
  BY <1>1, <1>2, <1>3 DEF Ready, MappedAs, Journaled
<1>5. \A n \in Modules : n \in ToRestore(Top)' <=> n \in ToRestore(Top)
  BY <1>3 DEF ToRestore, Planned, Unwritten, Image
<1>6. \A n \in Modules : Asked(n)' = Asked(n)
  <2>1. ToRestore(Top) \subseteq Planned
    BY TopStep DEF Ready
  <2> QED
    BY <1>1, <1>2, <1>3, <1>5, <2>1 DEF Ready, MappedAs, Journaled
<1>7. Files' = Files /\ Asking' = Asking
  BY <1>4, <1>6 DEF Files, Asking
<1>8. InTx' = InTx /\ Opening' = Opening
  BY <1>1 DEF InTx, Opening
<1>9. Stack' = Stack
  <2>1. Front(steps') = Front(steps)
    <3>1. steps' = steps \/ \E image : steps' = SetImage(m, image)
      BY ImagesJournaled DEF Ready
    <3> QED
      BY <1>3, <3>1, FrontUnderImage
  <2>2. Taken' = Front(steps') /\ Taken = Front(steps)
    BY <1>1, <1>2 DEF Ready, MappedAs, Journaled
  <2> QED
    BY <1>8, <2>1, <2>2, SameStack
<1> QED
  BY <1>7, <1>8, <1>9, Hidden

\* A sequence is its last element on top of the others.
LEMMA FrontThenLast ==
  ASSUME NEW q \in Seq(Steps), q # <<>>
  PROVE  q = Append(Front(q), q[Len(q)])
<1>1. /\ Front(q) \in Seq(Steps) /\ Len(Front(q)) = Len(q) - 1 /\ Len(q) \in Nat
      /\ \A i \in 1..(Len(q) - 1) : Front(q)[i] = q[i]
  BY FrontIs, LenProperties
<1>2. q[Len(q)] \in Steps /\ Len(q) # 0
  BY ToSetIs, LenProperties, EmptySeq, ElementOfSeq
<1>3. PICK f, s, r : f = Front(q) /\ s = q[Len(q)] /\ r = Append(f, s)
  OBVIOUS
<1>4. r \in Seq(Steps) /\ Len(r) = Len(f) + 1 /\ \A i \in 1..Len(r) : r[i] = IF i <= Len(f) THEN f[i] ELSE s
  BY <1>1, <1>2, <1>3, AppendProperties
<1>5. Len(r) = Len(q) /\ \A i \in 1..Len(q) : q[i] = r[i]
  BY <1>1, <1>2, <1>3, <1>4
<1>6. q = r
  BY <1>4, <1>5, SeqEqual
<1> QED
  BY <1>3, <1>6

\* A step that is done lies on those under it.
LEMMA FrontUnderDone ==
  ASSUME Ready, Ready', Finalize
  PROVE  steps' = Append(Front(steps), Top')
<1>1. steps \in Seq(Steps) /\ steps' \in Seq(Steps) /\ steps # <<>> /\ steps' # <<>>
  BY TopStep, TopFinalized DEF Ready, Shape, TypeOK
<1>2. PICK q : q = [steps EXCEPT ![Len(steps)].done = TRUE]
  OBVIOUS
<1>3. q = steps' /\ Len(steps) \in Nat /\ DOMAIN steps = 1..Len(steps) /\ Len(steps) # 0
  BY <1>1, <1>2, LenProperties, EmptySeq DEF Finalize
<1>4. DOMAIN q = 1..Len(steps) /\ \A i \in 1..(Len(steps) - 1) : q[i] = steps[i]
  BY <1>2, <1>3
<1>5. Len(q) = Len(steps)
  BY <1>1, <1>3, <1>4, LenProperties
<1>6. Front(q) = Front(steps)
  BY <1>1, <1>3, <1>4, <1>5, FrontOfChanged
<1>7. steps' = Append(Front(steps'), Top')
  BY <1>1, FrontThenLast DEF Top
<1> QED
  BY <1>3, <1>6, <1>7

\* Its files all change at once.
LEMMA FinalizeIsStep ==
  ASSUME Ready, Ready', Finalize
  PROVE  Simulated
<1> DEFINE files == ToRestore(Top)
<1>1. op.pc = "finishing" /\ UNCHANGED <<disk, tx, baseline, intent>> /\ op'.pc \in {"idle", "committing"}
  BY Fields DEF Finalize, Idle
<1>2. /\ ~ AllDone /\ intent = NoIntent /\ steps # <<>> /\ Taken = Front(steps)
      /\ \A m \in Modules : Shown(m) = IF m \in files THEN Image(m).before ELSE disk[m]
      /\ \A m \in Modules : Asked(m) = IF m \in files THEN Image(m).after ELSE None
  BY <1>1 DEF Ready, MappedAs, Journaled
<1>3. AllDone' /\ Top' \in Steps /\ Top'.image = Top.image
  BY TopFinalized DEF Ready, AllDone
<1>4. /\ Taken' = steps' /\ Asking' = NoRows /\ \A m \in Modules : Shown(m)' = disk[m]
  BY <1>1, <1>2, <1>3 DEF Ready, MappedAs, Journaled
<1>5. /\ files \subseteq Planned /\ Planned \subseteq Modules
      /\ \A m \in files : Image(m).before \in Contents
      /\ \A m \in files : IF Image(m).after = None THEN disk[m] = Absent /\ Image(m).before = Absent
                                                   ELSE disk[m] = Image(m).after
  BY <1>1, <1>2, TopStep, ModuleSets DEF Ready, QuietInv, QuietStep
<1>6. Atomic!Change
  <2>1. \A m \in Modules : Shown(m)' = IF Asked(m) # None THEN Asked(m) ELSE Shown(m)
    BY <1>2, <1>4, <1>5
  <2> QED
    BY <1>4, <2>1, Changed
<1>7. Atomic!ToChange \subseteq files
  BY <1>2 DEF Atomic!ToChange, Asking
<1>8. InTx' = InTx /\ Opening' = Opening
  BY <1>1 DEF InTx, Opening
<1>9. CASE InTx
  <2>1. \A m \in files : Opening[m] # None
    <3>1. files \subseteq Tracked
      BY <1>2, <1>5, TopStep DEF Ready, TrackingInv, Planned
    <3> QED
      BY <1>9, <3>1 DEF Opening, Tracked
  <2>2. Recorded(Top') = [m \in Modules |-> IF m \in files THEN Files[m] ELSE None]
    <3>1. Recorded(Top') = Recorded(Top)
      BY <1>3 DEF Recorded, ToRestore, Covered, Unwritten
    <3>2. Recorded(Top) = [m \in Modules |-> IF m \in files THEN Image(m).before ELSE None]
      BY DEF Recorded, Image
    <3>3. \A m \in files : Files[m] = Image(m).before
      BY <1>2, <1>5 DEF Files
    <3> QED
      BY <3>1, <3>2, <3>3
  <2>3. Stack' = Append(Stack, Recorded(Top'))
    <3>1. Stack = [i \in 1..Len(Taken) |-> Recorded(Taken[i])]
      BY <1>9 DEF Stack
    <3>2. Stack' = [i \in 1..Len(steps') |-> Recorded(steps'[i])]
      BY <1>4, <1>8, <1>9 DEF Stack
    <3>3. PICK q \in Seq(Steps) : q = Taken
      BY <1>2, FrontIs, TopStep DEF Ready
    <3>4. PICK s, p, a, b : s \in Steps /\ s = Top' /\ p = steps' /\ a = Stack /\ b = Stack'
      BY <1>3
    <3>5. p = Append(q, s)
      BY <1>2, <3>3, <3>4, FrontUnderDone
    <3>6. a = [i \in 1..Len(q) |-> Recorded(q[i])] /\ b = [i \in 1..Len(p) |-> Recorded(p[i])]
      BY <3>1, <3>2, <3>3, <3>4, Zenon
    <3>7. b = Append(a, Recorded(s))
      BY <3>5, <3>6, RecordsAppended
    <3> QED
      BY <3>4, <3>7
  <2>4. Atomic!Step(files)
    BY <1>6, <1>7, <1>8, <1>9, <2>1, <2>2, <2>3 DEF Atomic!Step
  <2>5. files \in SUBSET Modules
    BY <1>5
  <2> QED
    BY <2>4, <2>5 DEF Simulated, Atomic!Next
<1>10. CASE ~ InTx
  <2>1. Stack' = Stack
    BY <1>8, <1>10 DEF Stack
  <2>2. Atomic!Step(files)
    BY <1>6, <1>7, <1>8, <1>10, <2>1 DEF Atomic!Step
  <2>3. files \in SUBSET Modules
    BY <1>5
  <2> QED
    BY <2>2, <2>3 DEF Simulated, Atomic!Next
<1> QED
  BY <1>9, <1>10

\* An undo takes the newest step back as soon as it is recorded.
LEMMA UndoIsUndo ==
  ASSUME Ready, Ready', Undo
  PROVE  Simulated
<1>1. /\ op.pc = "idle" /\ tx # "none" /\ steps # <<>> /\ UNCHANGED <<disk, tx, baseline, steps>>
      /\ intent'.kind = "undo"
  BY DEF Undo, UndoAsked, Ready, QuietInv, QuietOp, NoIntent
<1>2. /\ Taken = steps /\ Asking = NoRows /\ InTx /\ \A m \in Modules : Files[m] = disk[m]
  BY <1>1, AtTheGate
<1>3. op'.pc = "restoring"
  BY ClearOps DEF Undo
<1>4. Top' = Top /\ ToRestore(Top)' = ToRestore(Top) /\ \A m : Image(m)' = Image(m)
  BY <1>1, SameSteps
<1>5. /\ Taken' = Front(steps)
      /\ \A m \in Modules : Shown(m)' = IF m \in ToRestore(Top) THEN Image(m).before ELSE disk[m]
  BY <1>1, <1>4 DEF Ready, MappedAs
<1>6. Asking' = Asking
  BY <1>2, <1>3 DEF Ready, MappedAs, Journaled
<1>7. InTx' = InTx
  <2>1. InTx'
    BY <1>1, <1>2 DEF InTx
  <2> QED
    BY <1>2, <2>1 DEF InTx
<1>8. Opening' = Opening
  BY <1>1, <1>7 DEF Opening
<1>9. Stack # <<>> /\ Atomic!Last(Stack) = Recorded(Top) /\ Stack' = Atomic!Front(Stack)
  <2>1. PICK q, p, a, b : q \in Seq(Steps) /\ q = steps /\ p = Front(steps) /\ a = Stack /\ b = Stack'
    BY TopStep DEF Ready
  <2>2. a = [i \in 1..Len(q) |-> Recorded(q[i])] /\ b = [i \in 1..Len(p) |-> Recorded(p[i])]
    <3>1. Stack = [i \in 1..Len(steps) |-> Recorded(steps[i])]
      BY <1>2 DEF Stack
    <3>2. Stack' = [i \in 1..Len(Front(steps)) |-> Recorded(Front(steps)[i])]
      BY <1>2, <1>5, <1>7 DEF Stack
    <3> QED
      BY <2>1, <3>1, <3>2, Zenon
  <2>3. q \in Seq(Steps) /\ q # <<>> /\ p = Front(q)
    BY <1>1, <2>1, Zenon
  <2>4. a # <<>> /\ Atomic!Last(a) = Recorded(q[Len(q)]) /\ b = Atomic!Front(a)
    BY <2>2, <2>3, RecordsFronted, Zenon
  <2> QED
    BY <2>1, <2>4, Zenon DEF Top
<1>10. Files' = [m \in Modules |-> IF Atomic!Last(Stack)[m] # None THEN Atomic!Last(Stack)[m] ELSE Files[m]]
  <2>1. \A m \in Modules : m \in ToRestore(Top) => Image(m).before \in Contents /\ Image(m).before # None
    BY <1>1, TopStep DEF Ready
  <2>2. \A m \in Modules : Recorded(Top)[m] = IF m \in ToRestore(Top) THEN Image(m).before ELSE None
    BY DEF Recorded, Image
  <2>3. \A m \in Modules : Shown(m)' = IF Recorded(Top)[m] # None THEN Recorded(Top)[m] ELSE Files[m]
    BY <1>2, <1>5, <2>1, <2>2
  <2>4. Files' = [m \in Modules |-> IF Recorded(Top)[m] # None THEN Recorded(Top)[m] ELSE Files[m]]
    BY <2>3 DEF Files
  <2> QED
    BY <1>9, <2>4
<1>11. Atomic!Undo
  BY <1>6, <1>7, <1>8, <1>9, <1>10 DEF Atomic!Undo
<1> QED
  BY <1>11 DEF Simulated, Atomic!Next

\* Without a transaction of a client's, there is nothing to settle.
LEMMA NotInTx ==
  ASSUME ~ InTx
  PROVE  Opening = NoRows /\ Stack = <<>>
BY DEF Opening, Stack

LEMMA NotInTxNext ==
  ASSUME ~ InTx'
  PROVE  Opening' = NoRows /\ Stack' = <<>>
BY DEF Opening, Stack

\* A transaction is dropped, and what was shown stays.
LEMMA DropIsHidden ==
  ASSUME Ready, Ready', Drop, op' = Idle, ~ InTx, UNCHANGED disk, \A m \in Modules : Shown(m) = disk[m]
  PROVE  Simulated
<1>1. tx' = "none" /\ steps' = <<>> /\ intent' = NoIntent
  BY DEF Drop
<1>2. ~ InTx' /\ AllDone'
  BY <1>1 DEF InTx, AllDone
<1>3. Asking' = NoRows /\ \A m \in Modules : Shown(m)' = disk[m]
  BY <1>1, <1>2, Fields DEF Ready, MappedAs, Journaled
<1>4. Files' = Files
  BY <1>3 DEF Files
<1>5. InTx' = InTx
  BY <1>2 DEF InTx
<1> QED
  BY <1>2, <1>3, <1>4, <1>5, NotInTx, NotInTxNext, Hidden

\* A client commits.
LEMMA CommitIsCommit ==
  ASSUME Ready, Ready', Commit
  PROVE  Simulated
<1>1. op.pc = "idle" /\ tx # "none" /\ Drop /\ op' = op /\ UNCHANGED disk
  BY DEF Commit
<1>2. Asking = NoRows /\ InTx /\ op = Idle /\ \A m \in Modules : Shown(m) = disk[m]
  BY <1>1, AtTheGate
<1>3. ~ InTx' /\ AllDone' /\ intent' = NoIntent
  BY <1>1 DEF Drop, InTx, AllDone
<1>4. Asking' = NoRows /\ \A m \in Modules : Shown(m)' = disk[m]
  BY <1>1, <1>2, <1>3, Fields DEF Ready, MappedAs, Journaled
<1>5. Files' = Files
  BY <1>2, <1>4 DEF Files
<1>6. InTx' = FALSE
  BY <1>3 DEF InTx
<1>7. Atomic!Commit
  BY <1>2, <1>3, <1>4, <1>5, <1>6, NotInTxNext DEF Atomic!Commit, Atomic!Settle, Atomic!Nothing, NoRows
<1> QED
  BY <1>7 DEF Simulated, Atomic!Next

\* A revert puts every tracked file back as soon as it is recorded; a refused step has none.
LEMMA RevertIsRevert ==
  ASSUME Ready, Ready', Revert
  PROVE  Simulated
<1>1. /\ op.pc \in {"idle", "refusing"} /\ tx # "none" /\ intent = NoIntent
      /\ UNCHANGED <<disk, tx, baseline, steps>> /\ intent'.kind = "revert"
  BY DEF Revert, NoIntent
<1>2. AllDone /\ (tx = "own" <=> Own)
  BY <1>1, QuietGate DEF Ready
<1>3. Asking = NoRows /\ Asking' = NoRows
  <2>1. op'.pc = "restoring"
    BY ClearOps DEF Revert
  <2> QED
    BY <1>1, <2>1 DEF Ready, MappedAs, Journaled
<1>4. /\ \A m \in Modules : Shown(m) = disk[m]
      /\ \A m \in Modules : Shown(m)' = IF m \in Tracked THEN baseline[m] ELSE disk[m]
  BY <1>1, <1>2 DEF Ready, MappedAs, Tracked
<1>5. ~ InTx' /\ InTx' = FALSE
  BY <1>1 DEF InTx
<1>6. Opening' = NoRows /\ Stack' = <<>>
  BY <1>5, NotInTxNext
<1>7. CASE tx = "own"
  <2>1. baseline = NoRows /\ ~ InTx
    BY <1>1, <1>2, <1>7, QuietGate DEF Ready, QuietInv, QuietOp, InTx
  <2>2. \A m \in Modules : Shown(m)' = Shown(m)
    BY <1>4, <2>1 DEF Tracked, NoRows
  <2>3. Files' = Files
    BY <2>2 DEF Files
  <2>4. InTx' = InTx
    BY <1>5, <2>1 DEF InTx
  <2> QED
    BY <1>3, <1>6, <2>1, <2>3, <2>4, NotInTx, Hidden
<1>8. CASE tx = "explicit"
  <2>1. InTx /\ Opening = baseline
    BY <1>1, <1>8 DEF InTx, Opening, NoIntent
  <2>2. \A m \in Modules : Shown(m)' = IF Opening[m] # None THEN Opening[m] ELSE Files[m]
    BY <1>4, <2>1 DEF Tracked, Files
  <2>3. Files' = [m \in Modules |-> IF Opening[m] # None THEN Opening[m] ELSE Files[m]]
    BY <2>2 DEF Files
  <2>4. Atomic!Revert
    BY <1>3, <1>5, <1>6, <2>1, <2>3 DEF Atomic!Revert, Atomic!Settle, Atomic!Nothing, NoRows
  <2> QED
    BY <2>4 DEF Simulated, Atomic!Next
<1> QED
  BY <1>1, <1>7, <1>8 DEF Ready, Shape, TypeOK

\* An own transaction closes, or one that was reverted: that was shown long before.
LEMMA SettledIsHidden ==
  ASSUME Ready, Ready', CommitOwn \/ FinalizeRevert \/ RecoverEnd
  PROVE  Simulated
<1>1. CASE CommitOwn
  <2>1. op.pc = "committing" /\ Drop /\ op' = Idle /\ UNCHANGED disk
    BY <1>1 DEF CommitOwn
  <2>2. AllDone /\ intent = NoIntent /\ tx = "own"
    BY <2>1, QuietGate DEF Ready, Shape, OpShape
  <2>3. ~ InTx /\ \A m \in Modules : Shown(m) = disk[m]
    BY <2>2 DEF InTx, Ready, MappedAs
  <2> QED
    BY <2>1, <2>3, DropIsHidden
<1>2. CASE FinalizeRevert
  <2>1. /\ op.pc = "restoring" /\ op.todo = {} /\ intent.kind = "revert" /\ Drop /\ op' = Idle /\ UNCHANGED disk
    BY <1>2 DEF FinalizeRevert, RestoresOver
  <2>2. \A m \in Tracked : disk[m] = baseline[m]
    BY <2>1 DEF Ready, QuietInv, QuietRestore
  <2>3. ~ InTx /\ \A m \in Modules : Shown(m) = disk[m]
    BY <2>1, <2>2 DEF InTx, Ready, MappedAs
  <2> QED
    BY <2>1, <2>3, DropIsHidden
<1>3. CASE RecoverEnd
  <2>1. AllDone /\ intent = NoIntent /\ ~ op.kept /\ op' = Idle /\ UNCHANGED disk
    BY <1>3, NothingToUnwind DEF RecoverEnd, Ready
  <2>2. CASE tx = "own"
    <3>1. Drop /\ ~ InTx /\ \A m \in Modules : Shown(m) = disk[m]
      BY <1>3, <2>1, <2>2 DEF RecoverEnd, InTx, Ready, MappedAs
    <3> QED
      BY <2>1, <3>1, DropIsHidden
  <2>3. CASE tx # "own"
    <3>1. UNCHANGED <<disk, tx, baseline, steps, intent>>
      BY <1>3, <2>3 DEF RecoverEnd, journal
    <3>2. Asking' = NoRows
      BY <2>1, Fields DEF Ready, MappedAs, Journaled
    <3> QED
      BY <3>1, <3>2, SameView, Hidden
  <2> QED
    BY <2>2, <2>3
<1> QED
  BY <1>1, <1>2, <1>3

\* A step goes when its files are as they were before it, as they were shown all along.
LEMMA GoneIsHidden ==
  ASSUME Ready, Ready', FinalizeUndo \/ UnwindOver
  PROVE  Simulated
<1>1. /\ op.todo = {} /\ steps # <<>> /\ steps' = Without(Top.no) /\ UNCHANGED <<disk, tx, baseline>>
      /\ intent' = NoIntent /\ intent.kind # "revert" /\ (~ AllDone \/ intent.kind = "undo")
      /\ \A m \in ToRestore(Top) : disk[m] = Image(m).before
  <2>1. CASE FinalizeUndo
    <3>1. op.pc = "restoring" /\ op.todo = {} /\ intent.kind = "undo"
      BY <2>1 DEF FinalizeUndo, RestoresOver
    <3>2. steps # <<>> /\ intent.no = Top.no
      BY <3>1, UndoneIsTop DEF Ready
    <3>3. \A m \in ToRestore(Top) : disk[m] = Image(m).before
      BY <3>1 DEF Ready, QuietInv, QuietRestore
    <3> QED
      BY <2>1, <3>1, <3>2, <3>3 DEF FinalizeUndo
  <2>2. CASE UnwindOver
    <3>1. op.pc = "unwinding" /\ op.todo = {} /\ ~ op.clash
      BY <2>2 DEF UnwindOver, Ready, QuietInv, QuietOp
    <3>2. steps # <<>> /\ ~ Top.done /\ op.at = Top.no /\ intent = NoIntent
      BY <3>1, UnwoundIsTop DEF Ready
    <3>3. \A m \in ToRestore(Top) : disk[m] = Image(m).before
      BY <3>1 DEF Ready, QuietInv, QuietRestore
    <3> QED
      BY <2>2, <3>1, <3>2, <3>3 DEF UnwindOver, AllDone, NoIntent
  <2> QED
    BY <2>1, <2>2
<1>2. op'.pc \in {"recovering", "refusing", "idle"}
  <2>1. CASE FinalizeUndo
    <3>1. op' \in {RecoverFrom(0), RefuseOwn, Idle}
      BY <2>1 DEF FinalizeUndo, AfterUndo
    <3> QED
      BY <3>1, Fields
  <2>2. CASE UnwindOver
    BY <2>2, TopStep DEF UnwindOver, Ready, Ops
  <2> QED
    BY <2>1, <2>2
<1>3. steps' = Front(steps) /\ AllDone'
  BY <1>1, TopGone DEF Ready
<1>4. Taken' = Taken /\ \A m \in Modules : Shown(m)' = Shown(m)
  BY <1>1, <1>3 DEF Ready, MappedAs
<1>5. Asking' = NoRows
  BY <1>2 DEF Ready, MappedAs, Journaled
<1>6. Files' = Files
  BY <1>4 DEF Files
<1>7. InTx' = InTx
  BY <1>1 DEF InTx, NoIntent
<1>8. Opening' = Opening
  BY <1>1, <1>7 DEF Opening
<1> QED
  BY <1>4, <1>5, <1>6, <1>7, <1>8, SameStack, Hidden

\* Every step of the journal is one of AtomicSteps, or none.
LEMMA StepsSimulated ==
  ASSUME Ready, Ready', [Next]_vars, Undisturbed'
  PROVE  Simulated
<1>1. CASE UNCHANGED vars
  <2>1. UNCHANGED <<disk, tx, baseline, steps, intent>> /\ op' = op
    BY <1>1 DEF vars
  <2>2. \A m \in Modules : Shown(m)' = Shown(m)
    <3>1. \A m \in Modules : Files[m] = Shown(m) /\ Files'[m] = Shown(m)'
      BY DEF Files
    <3> QED
      BY <2>1, <3>1, SameView
  <2>3. ToRestore(Top)' = ToRestore(Top) /\ Top' = Top
    BY <2>1, SameSteps
  <2>4. Asking' = Asking
    BY <2>1, <2>2, <2>3 DEF Asking, Asked
  <2> QED
    BY <2>1, <2>4, SameView, Hidden
<1>2. CASE CalmOp
  BY <1>2, CalmIsHidden
<1>3. CASE CalmDisk
  BY <1>3, PutIsWrite, FileIsHidden DEF CalmDisk
<1>4. CASE CalmJournal
  BY <1>4, StartIsOpen, TrackIsTrack, WriteFileIsAskToWrite, OpenStepIsAskForStep, BeginIsHidden, ImageIsTrack,
     StampIsHidden, FinalizeIsStep, UndoIsUndo, CommitIsCommit, RevertIsRevert, SettledIsHidden, GoneIsHidden
     DEF CalmJournal
<1> QED
  BY <1>1, <1>2, <1>3, <1>4, CalmSteps DEF Ready

\* It starts as AtomicSteps does.
LEMMA StartSimulated == Init => Atomic!Init
<1> SUFFICES ASSUME Init PROVE Atomic!Init
  OBVIOUS
<1>1. tx = "none" /\ steps = <<>> /\ intent = NoIntent /\ op = Idle /\ disk \in [Modules -> Contents]
  BY DEF Init
<1>2. \A m \in Modules : Shown(m) = disk[m]
  BY <1>1 DEF Shown, Untaken, NoIntent
<1>3. Files \in [Modules -> Contents]
  BY <1>1, <1>2 DEF Files
<1>4. ~ InTx /\ InTx = FALSE
  BY <1>1 DEF InTx
<1>5. Asking = NoRows
  BY <1>1, Fields DEF Asking, Asked, NoRows
<1> QED
  BY <1>3, <1>4, <1>5, NotInTx DEF Atomic!Init, Atomic!Nothing, NoRows

\* Nobody else writing the files and nothing failing, transactions implement AtomicSteps across any
\* number of deaths: a client never sees a step, an undo or a revert half done.
THEOREM StepsAreAtomic == Spec /\ []Undisturbed => ImplementsAtomicSteps
<1>1. Shape /\ QuietInv /\ [Next]_vars /\ Undisturbed' => QuietInv'
  BY QuietKept
<1>2. Shape /\ TrackingInv /\ [Next]_vars => TrackingInv'
  BY TrackingKept
<1>3. Shape /\ QuietInv /\ TrackingInv => Ready
  BY Mapped DEF Ready
<1>4. Ready /\ Ready' /\ [Next]_vars /\ Undisturbed' => [Atomic!Next]_(Atomic!vars)
  BY StepsSimulated DEF Simulated
<1> QED
  BY <1>1, <1>2, <1>3, <1>4, QuietInit, TrackingInit, StartSimulated, ShapeCorrect, PTL
     DEF Spec, ImplementsAtomicSteps, Atomic!Spec

\* With no saves and no faults to spend, nothing disturbs.
LEMMA NothingDisturbs ==
  ASSUME MaxSaves = 0, MaxFaults = 0
  PROVE  Spec => []Undisturbed
<1>1. Init => Undisturbed
  BY DEF Init, Undisturbed, Bounds
<1>2. ASSUME Shape, Undisturbed, [Next]_vars PROVE Undisturbed'
  <2>1. used \in [Bounds -> Nat]
    BY <1>2 DEF Shape, TypeOK
  <2>2. ~ Spend("saves", MaxSaves) /\ ~ Spend("faults", MaxFaults)
    BY <1>2, <2>1 DEF Spend, Undisturbed
  <2>3. ASSUME NEW bound \in {"crashes", "requests"}, NEW max, Spend(bound, max) PROVE Undisturbed'
    BY <1>2, <2>1, <2>3 DEF Spend, Undisturbed, Bounds
  <2>4. CASE UNCHANGED used
    BY <1>2, <2>4 DEF Undisturbed
  <2>5. CASE \E max : Spend("crashes", max) \/ Spend("requests", max)
    BY <2>3, <2>5
  <2> QED
    BY <1>2, <2>2, <2>4, <2>5, WhoSpends
       DEF Crash, PutThrows, StepThrows, Save, WriteFile, NoteWrite, WriteThrows, RestoreFails, UnwindFails,
           UnwindBlocked, OpenStep
<1> QED
  BY <1>1, <1>2, ShapeCorrect, PTL DEF Spec

\* So the instance without them, the one the run checks, implements it outright.
THEOREM StepsAreAtomicAlone ==
  ASSUME MaxSaves = 0, MaxFaults = 0
  PROVE  Spec => ImplementsAtomicSteps
BY StepsAreAtomic, NothingDisturbs, PTL
=============================================================================
