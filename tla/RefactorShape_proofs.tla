------------------------- MODULE RefactorShape_proofs -------------------------
(***************************************************************************)
(* The refactor journal, for any files, contents, saves, requests, deaths  *)
(* and failed writes: what the journal and the operation under way look    *)
(* like, and which modules each phase still has to handle.  Everything     *)
(* RefactorJournal_proofs shows of the files rests on it.                  *)
(***************************************************************************)
EXTENDS RefactorJournal, SequenceTheorems, Extrema, TLAPS

-----------------------------------------------------------------------------
(***************************************************************************)
(* The invariants                                                          *)
(***************************************************************************)
Ascending(q) == \A i, j \in 1..Len(q) : i < j => q[i].no < q[j].no

\* The steps under the newest one.
Below == {s \in ToSet(steps) : s.no # Top.no}

\* The modules a restore still has to handle, or is in the middle of.
Handled == op.todo \cup ({op.cur} \ {None})

Own == op.hold = "own"

\* The phases in which the newest step is the one under way.
Stepping == {"journaling", "writing", "releasing", "restamping", "settling", "finishing"}

\* Steps are numbered upwards, an undo intent has its step, and no transaction means no rows.
JournalShape ==
    /\ Ascending(steps)
    /\ intent.kind = "none" => intent = NoIntent
    /\ IntentHasItsStep
    /\ tx = "none" => /\ baseline = NoRows /\ steps = <<>> /\ intent = NoIntent /\ due = {}
                      /\ op.pc \in {"idle", "down", "putting"}

\* Who runs which phase, and under which intent.
OpShape ==
    /\ op.pc = "idle" => op = Idle
    /\ op.pc = "down" => op = Down
    /\ op.pc \in {"putting", "noting"} =>
          op.then = "rpc" /\ \E m \in Modules : op.todo = {m} /\ op.text[m] # None
    /\ op.pc \in {"recovering", "unwinding"} => op.then = "recover"
    /\ op.pc \in Stepping \cup {"checked", "committing", "refusing"} => op.then = "step"
    /\ op.pc \in {"committing", "refusing"} => Own
    /\ Own => op.then = "step"
    /\ Own /\ op.pc # "restoring" => intent = NoIntent
    /\ op.cur # None => op.pc \in {"restoring", "unwinding"}
    /\ op.pc \in {"checked", "journaling", "writing"} => \A m \in Modules : op.text[m] \in Texts \cup {None}
    /\ op.pc \in Stepping => steps # <<>> /\ ~ Top.done

\* What each phase has left to do is in the journal already, or about to be.
PhaseShape ==
    /\ op.pc = "journaling" => /\ \A m \in op.todo : op.before[m] # None
                               /\ op.todo \cap Planned = {}
                               /\ Written \subseteq op.todo \cup Planned
                               /\ \A m \in Written \cap Planned : Top.image[m].after = op.text[m]
    /\ op.pc = "writing" => /\ Written \subseteq Planned /\ op.todo \subseteq Written
                            /\ \A m \in Written : Top.image[m].after = op.text[m]
    /\ op.pc \in {"releasing", "restamping", "settling"} => op.todo \subseteq Planned
    /\ op.pc = "restamping" => \A m \in op.todo : Top.image[m].after # None
    /\ op.pc = "finishing" => op.todo = {}
    /\ op.pc = "restoring" =>
          /\ intent.kind # "none"
          /\ intent.kind = "revert" => Handled \subseteq Tracked
          /\ intent.kind = "undo" => \A s \in ToSet(steps) : s.no = intent.no => Handled \subseteq ToRestore(s)
    /\ op.pc = "unwinding" =>
          /\ intent = NoIntent
          /\ \E s \in ToSet(steps) : s.no = op.at /\ ~ s.done
          /\ \A s \in ToSet(steps) : s.no = op.at => Handled \subseteq ToRestore(s)

Shape == TypeOK /\ JournalShape /\ OpShape /\ PhaseShape

-----------------------------------------------------------------------------
(***************************************************************************)
(* The sequence of steps                                                   *)
(***************************************************************************)
\* The elements of a sequence, and the last of them.
LEMMA ToSetIs ==
  ASSUME NEW S, NEW q \in Seq(S)
  PROVE  /\ ToSet(q) = {q[i] : i \in 1..Len(q)}
         /\ ToSet(q) \subseteq S
         /\ q # <<>> => Len(q) \in 1..Len(q) /\ q[Len(q)] \in ToSet(q)
<1>1. DOMAIN q = 1..Len(q) /\ Len(q) \in Nat /\ \A i \in 1..Len(q) : q[i] \in S
  BY LenProperties, ElementOfSeq
<1>2. q # <<>> => Len(q) # 0
  BY EmptySeq
<1> QED
  BY <1>1, <1>2 DEF ToSet

\* A step numbered above the others goes on top.
LEMMA Appended ==
  ASSUME NEW q \in Seq(Steps), Ascending(q), NEW s \in Steps,
         q # <<>> => q[Len(q)].no < s.no
  PROVE  /\ Append(q, s) \in Seq(Steps)
         /\ Append(q, s) # <<>>
         /\ Ascending(Append(q, s))
         /\ ToSet(Append(q, s)) = ToSet(q) \cup {s}
         /\ Append(q, s)[Len(Append(q, s))] = s
         /\ \A t \in ToSet(q) : t.no < s.no
<1> DEFINE r == Append(q, s)
<1>0. Len(q) \in Nat /\ \A i \in 1..Len(q) : q[i] \in Steps
  BY LenProperties, ElementOfSeq
<1>1. r \in Seq(Steps) /\ r # <<>> /\ Len(r) = Len(q) + 1 /\ r[Len(q) + 1] = s
      /\ \A i \in 1..Len(q) : r[i] = q[i]
  BY AppendProperties
<1>2. ToSet(q) = {q[i] : i \in 1..Len(q)}
  BY ToSetIs
<1>3. ToSet(r) = {r[i] : i \in 1..Len(r)}
  BY <1>1, ToSetIs
<1>4. \A i \in 1..Len(q) : q[i].no < s.no
  <2>1. CASE q = <<>>
    BY <2>1, EmptySeq
  <2>2. CASE q # <<>>
    <3>1. Len(q) \in 1..Len(q)
      BY <2>2, ToSetIs
    <3>2. ASSUME NEW i \in 1..Len(q) PROVE q[i].no <= q[Len(q)].no
      BY <1>0, <3>1, SMTT(30) DEF Ascending, Steps
    <3> QED
      BY <1>0, <2>2, <3>1, <3>2 DEF Steps
  <2> QED
    BY <2>1, <2>2
<1> HIDE DEF r
<1>5. Ascending(r)
  BY <1>0, <1>1, <1>4 DEF Ascending
<1>6. ToSet(r) = ToSet(q) \cup {s}
  BY <1>0, <1>1, <1>2, <1>3
<1>7. \A t \in ToSet(q) : t.no < s.no
  BY <1>2, <1>4
<1> QED
  BY <1>1, <1>5, <1>6, <1>7 DEF r

\* Numbers identify steps.
LEMMA OneOfANumber ==
  ASSUME NEW q \in Seq(Steps), Ascending(q)
  PROVE  \A i, j \in 1..Len(q) : q[i].no = q[j].no => i = j
<1>0. Len(q) \in Nat /\ \A i \in 1..Len(q) : q[i] \in Steps
  BY LenProperties, ElementOfSeq
<1>1. \A i \in 1..Len(q) : q[i].no \in Nat
  BY <1>0 DEF Steps
<1> QED
  BY <1>0, <1>1 DEF Ascending

\* The newest step changes and keeps its number.
LEMMA TopChanged ==
  ASSUME NEW q \in Seq(Steps), Ascending(q), q # <<>>, NEW s \in Steps, s.no = q[Len(q)].no
  PROVE  LET r == [q EXCEPT ![Len(q)] = s] IN
         /\ r \in Seq(Steps)
         /\ r # <<>>
         /\ Ascending(r)
         /\ ToSet(r) = {t \in ToSet(q) : t.no # s.no} \cup {s}
         /\ r[Len(r)] = s
<1> DEFINE r == [q EXCEPT ![Len(q)] = s]
           n == Len(q)
<1>0. n \in 1..n /\ n \in Nat /\ \A i \in 1..n : q[i] \in Steps
  BY ToSetIs, LenProperties, ElementOfSeq
<1>1. r \in Seq(Steps) /\ Len(r) = n /\ \A i \in 1..n : r[i] = IF i = n THEN s ELSE q[i]
  BY <1>0, ExceptSeq
<1> HIDE DEF r
<1>2. r # <<>>
  BY <1>0, <1>1, EmptySeq
<1>3. Ascending(r)
  BY <1>0, <1>1 DEF Ascending
<1>4. ToSet(q) = {q[i] : i \in 1..n} /\ ToSet(r) = {r[i] : i \in 1..n}
  BY <1>1, ToSetIs
<1>5. \A i \in 1..n : q[i].no = s.no <=> i = n
  BY <1>0, OneOfANumber
<1>6. ToSet(r) = {t \in ToSet(q) : t.no # s.no} \cup {s}
  <2> HIDE DEF n
  <2>1. ASSUME NEW i \in 1..n PROVE r[i] \in {t \in ToSet(q) : t.no # s.no} \cup {s}
    BY <1>1, <1>4, <1>5
  <2>2. ASSUME NEW t \in ToSet(q), t.no # s.no PROVE t \in ToSet(r)
    BY <1>1, <1>4, <1>5, <2>2
  <2>3. s \in ToSet(r)
    BY <1>0, <1>1, <1>4
  <2> QED
    BY <1>4, <2>1, <2>2, <2>3
<1> QED
  BY <1>0, <1>1, <1>2, <1>3, <1>6 DEF r

\* A step is dropped.
LEMMA OneDropped ==
  ASSUME NEW q \in Seq(Steps), Ascending(q), NEW i \in 1..Len(q)
  PROVE  /\ RemoveAt(q, i) \in Seq(Steps)
         /\ Ascending(RemoveAt(q, i))
         /\ ToSet(RemoveAt(q, i)) = {t \in ToSet(q) : t.no # q[i].no}
<1> DEFINE r == RemoveAt(q, i)
           n == Len(q)
           a == SubSeq(q, 1, i - 1)
           b == SubSeq(q, i + 1, n)
<1>0. n \in Nat /\ i \in Nat /\ \A j \in 1..n : q[j] \in Steps
  BY LenProperties, ElementOfSeq
<1>1. a \in Seq(Steps) /\ Len(a) = i - 1 /\ \A j \in 1..(i - 1) : a[j] = q[j]
  BY <1>0, SubSeqProperties
<1>2. b \in Seq(Steps) /\ Len(b) = n - i /\ \A j \in 1..(n - i) : b[j] = q[i + j]
  BY <1>0, SubSeqProperties
<1>3. r = a \o b
  BY DEF RemoveAt
<1> HIDE DEF r, a, b
<1>4. r \in Seq(Steps) /\ Len(r) = n - 1
      /\ \A j \in 1..(n - 1) : r[j] = IF j < i THEN q[j] ELSE q[j + 1]
  <2>1. r \in Seq(Steps) /\ Len(r) = Len(a) + Len(b)
        /\ \A j \in 1..Len(r) : r[j] = IF j <= Len(a) THEN a[j] ELSE b[j - Len(a)]
    <3>1. /\ a \o b \in Seq(Steps) /\ Len(a \o b) = Len(a) + Len(b)
          /\ \A j \in 1..(Len(a) + Len(b)) : (a \o b)[j] = IF j <= Len(a) THEN a[j] ELSE b[j - Len(a)]
      BY <1>1, <1>2, ConcatProperties, Zenon
    <3> QED
      BY <1>3, <3>1, Zenon
  <2>2. Len(r) = n - 1
    BY <1>0, <1>1, <1>2, <2>1
  <2>3. ASSUME NEW j \in 1..(n - 1) PROVE r[j] = IF j < i THEN q[j] ELSE q[j + 1]
    <3>1. CASE j < i
      BY <1>0, <1>1, <2>1, <2>2, <3>1, SMTT(30)
    <3>2. CASE ~ (j < i)
      <4>1. r[j] = b[j - (i - 1)] /\ j - (i - 1) \in 1..(n - i)
        BY <1>0, <1>1, <2>1, <2>2, <3>2
      <4>2. i + (j - (i - 1)) = j + 1
        BY <1>0
      <4> QED
        BY <1>2, <3>2, <4>1, <4>2
    <3> QED
      BY <3>1, <3>2
  <2> QED
    BY <2>1, <2>2, <2>3
<1>5. Ascending(r)
  <2> DEFINE At(j) == IF j < i THEN j ELSE j + 1
  <2>1. ASSUME NEW k \in 1..(n - 1), NEW l \in 1..(n - 1), k < l PROVE r[k].no < r[l].no
    <3>1. At(k) \in 1..n /\ At(l) \in 1..n /\ At(k) < At(l)
      BY <1>0, <2>1
    <3>2. r[k] = q[At(k)] /\ r[l] = q[At(l)]
      BY <1>0, <1>4
    <3> QED
      BY <3>1, <3>2 DEF Ascending
  <2> QED
    BY <1>4, <2>1 DEF Ascending
<1>6. ToSet(q) = {q[j] : j \in 1..n} /\ ToSet(r) = {r[j] : j \in 1..(n - 1)}
  BY <1>4, ToSetIs
<1>7. \A j \in 1..n : q[j].no = q[i].no <=> j = i
  BY <1>0, OneOfANumber
<1>8. ASSUME NEW j \in 1..(n - 1) PROVE r[j] \in ToSet(q) /\ r[j].no # q[i].no
  BY <1>0, <1>4, <1>6, <1>7
<1>9. ASSUME NEW t \in ToSet(q), t.no # q[i].no PROVE t \in ToSet(r)
  <2>1. PICK j \in 1..n : t = q[j] /\ j # i
    BY <1>6, <1>9
  <2>2. CASE j < i
    <3>1. j \in 1..(n - 1) /\ r[j] = t
      BY <1>0, <1>4, <2>1, <2>2
    <3> QED
      BY <1>6, <3>1
  <2>3. CASE j > i
    <3>1. j - 1 \in 1..(n - 1) /\ r[j - 1] = t
      BY <1>0, <1>4, <2>1, <2>3
    <3> QED
      BY <1>6, <3>1
  <2> QED
    BY <1>0, <2>1, <2>2, <2>3
<1> QED
  BY <1>4, <1>5, <1>6, <1>8, <1>9 DEF r

\* The steps as a set: each has a number of its own, and Numbered finds it.
LEMMA StepFacts ==
  ASSUME TypeOK, Ascending(steps)
  PROVE  /\ ToSet(steps) \subseteq Steps
         /\ steps = <<>> => ToSet(steps) = {}
         /\ steps # <<>> => Top \in ToSet(steps) /\ ToSet(steps) = Below \cup {Top}
         /\ \A s, t \in ToSet(steps) : s.no = t.no => s = t
         /\ \A s \in ToSet(steps) : Numbered(s.no) = s /\ Position(s.no) \in 1..Len(steps)
<1>0. steps \in Seq(Steps) /\ DOMAIN steps = 1..Len(steps)
  BY LenProperties DEF TypeOK
<1>1. ToSet(steps) = {steps[i] : i \in 1..Len(steps)} /\ ToSet(steps) \subseteq Steps
  BY <1>0, ToSetIs
<1>2. steps = <<>> => ToSet(steps) = {}
  BY <1>1, EmptySeq
<1>3. \A i, j \in 1..Len(steps) : steps[i].no = steps[j].no => i = j
  BY <1>0, OneOfANumber
<1>4. \A s, t \in ToSet(steps) : s.no = t.no => s = t
  BY <1>1, <1>3
<1>5. steps # <<>> => Top \in ToSet(steps)
  BY <1>0, ToSetIs DEF Top
<1>6. steps # <<>> => ToSet(steps) = Below \cup {Top}
  BY <1>4, <1>5 DEF Below
<1>7. ASSUME NEW s \in ToSet(steps)
      PROVE  Numbered(s.no) = s /\ Position(s.no) \in 1..Len(steps)
  <2>1. PICK i \in 1..Len(steps) : s = steps[i]
    BY <1>1
  <2>2. Position(s.no) \in 1..Len(steps) /\ steps[Position(s.no)].no = s.no
    BY <1>0, <2>1 DEF Position
  <2>3. Position(s.no) = i
    BY <1>3, <2>1, <2>2
  <2> QED
    BY <2>1, <2>3 DEF Numbered
<1> QED
  BY <1>1, <1>2, <1>4, <1>5, <1>6, <1>7

\* What SetImage does.
LEMMA ImageSet ==
  ASSUME TypeOK, Ascending(steps), steps # <<>>,
         NEW m \in Modules, NEW image \in Images \cup {None}, NEW r, r = SetImage(m, image)
  PROVE  /\ r \in Seq(Steps) /\ r # <<>> /\ Ascending(r)
         /\ r[Len(r)] = [Top EXCEPT !.image = [Top.image EXCEPT ![m] = image]]
         /\ ToSet(r) = Below \cup {r[Len(r)]}
<1> DEFINE top == [Top EXCEPT !.image = [Top.image EXCEPT ![m] = image]]
<1>0. steps \in Seq(Steps) /\ Top \in Steps
  BY StepFacts DEF TypeOK
<1>1. top \in Steps /\ top.no = Top.no
  BY <1>0 DEF Steps
<1>2. r = [steps EXCEPT ![Len(steps)] = top]
  BY DEF SetImage, Top
<1>a. top.no = steps[Len(steps)].no
  BY <1>1 DEF Top
<1> HIDE DEF top
<1>3. /\ r \in Seq(Steps) /\ r # <<>> /\ Ascending(r)
      /\ ToSet(r) = {t \in ToSet(steps) : t.no # top.no} \cup {top}
      /\ r[Len(r)] = top
  BY <1>0, <1>1, <1>2, <1>a, TopChanged, ZenonT(40)
<1>4. ToSet(r) = Below \cup {top}
  BY <1>1, <1>3 DEF Below
<1> QED
  BY <1>3, <1>4 DEF top

\* What finalizing does.
LEMMA TopFinished ==
  ASSUME TypeOK, Ascending(steps), steps # <<>>, NEW r, r = [steps EXCEPT ![Len(steps)].done = TRUE]
  PROVE  /\ r \in Seq(Steps) /\ r # <<>> /\ Ascending(r)
         /\ r[Len(r)] = [Top EXCEPT !.done = TRUE]
         /\ ToSet(r) = Below \cup {r[Len(r)]}
<1> DEFINE top == [Top EXCEPT !.done = TRUE]
<1>0. steps \in Seq(Steps) /\ Top \in Steps
  BY StepFacts DEF TypeOK
<1>1. top \in Steps /\ top.no = Top.no
  BY <1>0 DEF Steps
<1>2. r = [steps EXCEPT ![Len(steps)] = top]
  BY DEF Top
<1>a. top.no = steps[Len(steps)].no
  BY <1>1 DEF Top
<1> HIDE DEF top
<1>b. PICK q : q = [steps EXCEPT ![Len(steps)] = top]
  OBVIOUS
<1>c. /\ q \in Seq(Steps) /\ q # <<>> /\ Ascending(q)
      /\ ToSet(q) = {t \in ToSet(steps) : t.no # top.no} \cup {top}
      /\ q[Len(q)] = top
  BY <1>0, <1>1, <1>a, <1>b, TopChanged, Zenon
<1>3. /\ r \in Seq(Steps) /\ r # <<>> /\ Ascending(r)
      /\ ToSet(r) = {t \in ToSet(steps) : t.no # top.no} \cup {top}
      /\ r[Len(r)] = top
  BY <1>2, <1>b, <1>c, Zenon
<1>4. ToSet(r) = Below \cup {top}
  BY <1>1, <1>3 DEF Below
<1> QED
  BY <1>3, <1>4 DEF top

\* What Without does.
LEMMA StepDropped ==
  ASSUME TypeOK, Ascending(steps), NEW s \in ToSet(steps)
  PROVE  /\ Without(s.no) \in Seq(Steps) /\ Ascending(Without(s.no))
         /\ ToSet(Without(s.no)) = {t \in ToSet(steps) : t.no # s.no}
<1>1. Position(s.no) \in 1..Len(steps) /\ steps[Position(s.no)] = s
  BY StepFacts DEF Numbered
<1>2. steps \in Seq(Steps)
  BY DEF TypeOK
<1> QED
  BY <1>1, <1>2, OneDropped DEF Without

NewStep == [no |-> NextStepNo, done |-> FALSE, image |-> NoRows]

\* What beginStep() appends.
LEMMA StepBegun ==
  ASSUME TypeOK, Ascending(steps), NEW r, r = Append(steps, NewStep)
  PROVE  /\ r \in Seq(Steps) /\ r # <<>> /\ Ascending(r)
         /\ r[Len(r)] = NewStep
         /\ ToSet(r) = ToSet(steps) \cup {NewStep}
         /\ \A s \in ToSet(steps) : s.no # NewStep.no
<1>1. steps \in Seq(Steps) /\ (steps # <<>> => Top \in Steps)
  BY StepFacts DEF TypeOK
<1>2. NextStepNo \in Nat /\ (steps # <<>> => Top.no < NextStepNo)
  BY <1>1 DEF NextStepNo, Steps
<1>3. NoRows \in [Modules -> Images \cup {None}]
  BY DEF NoRows
<1>4. NewStep \in Steps /\ NewStep.no = NextStepNo
  BY <1>2, <1>3 DEF NewStep, Steps
<1> HIDE DEF NewStep
<1>5. \A s \in ToSet(steps) : s \in Steps
  BY StepFacts
<1>6. /\ r \in Seq(Steps) /\ r # <<>> /\ Ascending(r)
      /\ r[Len(r)] = NewStep
      /\ ToSet(r) = ToSet(steps) \cup {NewStep}
      /\ \A s \in ToSet(steps) : s.no < NewStep.no
  BY <1>1, <1>2, <1>4, Appended DEF Top
<1> QED
  BY <1>4, <1>5, <1>6 DEF Steps

\* The step that recovery takes next.
LEMMA NextUnwound ==
  ASSUME TypeOK, Ascending(steps), ToUnwind # {}
  PROVE  /\ Max(ToUnwind) \in Nat /\ Max(ToUnwind) < op.at
         /\ \E s \in ToSet(steps) : s.no = Max(ToUnwind) /\ ~ s.done
<1>1. \A s \in ToSet(steps) : s.no \in Nat
  BY StepFacts DEF Steps
<1>2. Unfinished \subseteq Nat
  BY <1>1 DEF Unfinished
<1>3. op.at \in Nat
  BY DEF TypeOK, Ops
<1>4. ToUnwind \in SUBSET Nat /\ \A no \in ToUnwind : no < op.at
  BY <1>2 DEF ToUnwind
<1>a. \A no \in ToUnwind : no <= op.at
  BY <1>3, <1>4
<1>5. Max(ToUnwind) \in ToUnwind
  BY <1>3, <1>4, <1>a, MaxIsGreatest
<1>6. Max(ToUnwind) \in Unfinished /\ Max(ToUnwind) < op.at /\ Max(ToUnwind) \in Nat
  BY <1>2, <1>5 DEF ToUnwind
<1> QED
  BY <1>6 DEF Unfinished

\* Rows, and the operations the daemon begins with.
LEMMA Starts ==
  /\ NoRows \in [Modules -> Rows] /\ NoIntent \in Intents
  /\ Idle \in Ops /\ Down \in Ops /\ RefuseOwn \in Ops
  /\ \A no \in Nat : RecoverFrom(no) \in Ops
<1>1. NoRows \in [Modules -> Rows]
  BY DEF NoRows, Rows
<1>2. Idle \in Ops
  BY <1>1 DEF Idle, Ops
<1> QED
  BY <1>1, <1>2, ZenonT(40) DEF Ops, Down, RefuseOwn, RecoverFrom, Idle, NoIntent, Intents

-----------------------------------------------------------------------------
(***************************************************************************)
(* Who changes what                                                        *)
(***************************************************************************)
\* A file changes by a save, a write or a restore.
LEMMA WhoWrites ==
  ASSUME [Next]_vars
  PROVE  \/ UNCHANGED disk
         \/ \E m \in Modules, c \in Contents : Save(m, c)
         \/ \E m \in Modules : PutFile(m) \/ WriteModule(m) \/ Restore(m) \/ UnwindRestore(m)
BY ZenonT(40) DEF Next, Request, Proceed, Fault, vars, journal, Spend, Drop, Know, ClaimBaseline, Save, Crash,
       Startup, Start, Track, NoteWrite, WriteFile, PutFile, PutThrows, NoteKnown, Commit, OpenStep,
       RefusePlan, BeginStep, JournalImage, WriteModule, WriteRefused, WriteThrows, NotAsPlanned,
       FixWritten, RestampAfter, CompleteModule, Finalize, CommitOwn, StepThrows, Release, Undo,
       ResumeUndo, UndoRefused, Revert, ResumeRevert, Restore, Conflict, RestoreFails, Remember,
       Unrestored, FinalizeUndo, FinalizeRevert, RecoverIntent, UnwindStep, UnwindFound, UnwindRestore,
       UnwindConflict, UnwindFails, UnwindBlocked, UnwindOver, RecoverEnd

\* A transaction opens by start() or a step, and closes by drop().
LEMMA WhoOpens ==
  ASSUME [Next]_vars
  PROVE  \/ UNCHANGED tx
         \/ Start \/ Drop
         \/ \E text \in [Modules -> Texts \cup {None}] : OpenStep(text)
BY ZenonT(40) DEF Next, Request, Proceed, Fault, vars, journal, Spend, Drop, Know, ClaimBaseline, Save, Crash,
       Startup, Start, Track, NoteWrite, WriteFile, PutFile, PutThrows, NoteKnown, Commit, OpenStep,
       RefusePlan, BeginStep, JournalImage, WriteModule, WriteRefused, WriteThrows, NotAsPlanned,
       FixWritten, RestampAfter, CompleteModule, Finalize, CommitOwn, StepThrows, Release, Undo,
       ResumeUndo, UndoRefused, Revert, ResumeRevert, Restore, Conflict, RestoreFails, Remember,
       Unrestored, FinalizeUndo, FinalizeRevert, RecoverIntent, UnwindStep, UnwindFound, UnwindRestore,
       UnwindConflict, UnwindFails, UnwindBlocked, UnwindOver, RecoverEnd

\* Baselines are claimed by track(), a gated write or a step, and released by a failed step.
LEMMA WhoTracks ==
  ASSUME [Next]_vars
  PROVE  \/ UNCHANGED baseline
         \/ Drop
         \/ \E m \in Modules : Track(m) \/ JournalImage(m) \/ Release(m)
         \/ \E m \in Modules, c \in Contents : WriteFile(m, c)
BY ZenonT(40) DEF Next, Request, Proceed, Fault, vars, journal, Spend, Drop, Know, ClaimBaseline, Save, Crash,
       Startup, Start, Track, NoteWrite, WriteFile, PutFile, PutThrows, NoteKnown, Commit, OpenStep,
       RefusePlan, BeginStep, JournalImage, WriteModule, WriteRefused, WriteThrows, NotAsPlanned,
       FixWritten, RestampAfter, CompleteModule, Finalize, CommitOwn, StepThrows, Release, Undo,
       ResumeUndo, UndoRefused, Revert, ResumeRevert, Restore, Conflict, RestoreFails, Remember,
       Unrestored, FinalizeUndo, FinalizeRevert, RecoverIntent, UnwindStep, UnwindFound, UnwindRestore,
       UnwindConflict, UnwindFails, UnwindBlocked, UnwindOver, RecoverEnd

\* Known states.
LEMMA WhoNotes ==
  ASSUME [Next]_vars
  PROVE  \/ UNCHANGED known
         \/ Drop \/ Remember
         \/ \E m \in Modules : Track(m) \/ NoteWrite(m) \/ NoteKnown(m) \/ JournalImage(m) \/ CompleteModule(m) \/ Release(m) \/ UnwindFound(m)
         \/ \E m \in Modules, c \in Contents : WriteFile(m, c)
BY ZenonT(40) DEF Next, Request, Proceed, Fault, vars, journal, Spend, Drop, Know, ClaimBaseline, Save, Crash,
       Startup, Start, Track, NoteWrite, WriteFile, PutFile, PutThrows, NoteKnown, Commit, OpenStep,
       RefusePlan, BeginStep, JournalImage, WriteModule, WriteRefused, WriteThrows, NotAsPlanned,
       FixWritten, RestampAfter, CompleteModule, Finalize, CommitOwn, StepThrows, Release, Undo,
       ResumeUndo, UndoRefused, Revert, ResumeRevert, Restore, Conflict, RestoreFails, Remember,
       Unrestored, FinalizeUndo, FinalizeRevert, RecoverIntent, UnwindStep, UnwindFound, UnwindRestore,
       UnwindConflict, UnwindFails, UnwindBlocked, UnwindOver, RecoverEnd

\* Step rows.
LEMMA WhoJournals ==
  ASSUME [Next]_vars
  PROVE  \/ UNCHANGED steps
         \/ Drop \/ Finalize \/ FinalizeUndo \/ UnwindOver
         \/ \E mods \in SUBSET Modules : BeginStep(mods)
         \/ \E m \in Modules : JournalImage(m) \/ RestampAfter(m) \/ CompleteModule(m) \/ Release(m)
BY ZenonT(40) DEF Next, Request, Proceed, Fault, vars, journal, Spend, Drop, Know, ClaimBaseline, Save, Crash,
       Startup, Start, Track, NoteWrite, WriteFile, PutFile, PutThrows, NoteKnown, Commit, OpenStep,
       RefusePlan, BeginStep, JournalImage, WriteModule, WriteRefused, WriteThrows, NotAsPlanned,
       FixWritten, RestampAfter, CompleteModule, Finalize, CommitOwn, StepThrows, Release, Undo,
       ResumeUndo, UndoRefused, Revert, ResumeRevert, Restore, Conflict, RestoreFails, Remember,
       Unrestored, FinalizeUndo, FinalizeRevert, RecoverIntent, UnwindStep, UnwindFound, UnwindRestore,
       UnwindConflict, UnwindFails, UnwindBlocked, UnwindOver, RecoverEnd

\* The recovery intent.
LEMMA WhoIntends ==
  ASSUME [Next]_vars
  PROVE  \/ UNCHANGED intent
         \/ Drop \/ Undo \/ Revert \/ FinalizeUndo
BY ZenonT(40) DEF Next, Request, Proceed, Fault, vars, journal, Spend, Drop, Know, ClaimBaseline, Save, Crash,
       Startup, Start, Track, NoteWrite, WriteFile, PutFile, PutThrows, NoteKnown, Commit, OpenStep,
       RefusePlan, BeginStep, JournalImage, WriteModule, WriteRefused, WriteThrows, NotAsPlanned,
       FixWritten, RestampAfter, CompleteModule, Finalize, CommitOwn, StepThrows, Release, Undo,
       ResumeUndo, UndoRefused, Revert, ResumeRevert, Restore, Conflict, RestoreFails, Remember,
       Unrestored, FinalizeUndo, FinalizeRevert, RecoverIntent, UnwindStep, UnwindFound, UnwindRestore,
       UnwindConflict, UnwindFails, UnwindBlocked, UnwindOver, RecoverEnd

\* The files the journal need not describe.
LEMMA WhoEstranges ==
  ASSUME [Next]_vars
  PROVE  \/ UNCHANGED strange
         \/ Crash \/ Remember
         \/ \E m \in Modules, c \in Contents : Save(m, c) \/ WriteFile(m, c)
         \/ \E m \in Modules : Track(m) \/ NoteWrite(m) \/ NoteKnown(m) \/ JournalImage(m) \/ CompleteModule(m) \/ UnwindFound(m) \/ UnwindBlocked(m)
BY ZenonT(40) DEF Next, Request, Proceed, Fault, vars, journal, Spend, Drop, Know, ClaimBaseline, Save, Crash,
       Startup, Start, Track, NoteWrite, WriteFile, PutFile, PutThrows, NoteKnown, Commit, OpenStep,
       RefusePlan, BeginStep, JournalImage, WriteModule, WriteRefused, WriteThrows, NotAsPlanned,
       FixWritten, RestampAfter, CompleteModule, Finalize, CommitOwn, StepThrows, Release, Undo,
       ResumeUndo, UndoRefused, Revert, ResumeRevert, Restore, Conflict, RestoreFails, Remember,
       Unrestored, FinalizeUndo, FinalizeRevert, RecoverIntent, UnwindStep, UnwindFound, UnwindRestore,
       UnwindConflict, UnwindFails, UnwindBlocked, UnwindOver, RecoverEnd

\* The files the transaction must track.
LEMMA WhoOwes ==
  ASSUME [Next]_vars
  PROVE  \/ UNCHANGED due
         \/ Drop \/ PutThrows \/ Finalize
         \/ \E m \in Modules : Track(m) \/ PutFile(m) \/ WriteModule(m) \/ WriteThrows(m)
BY ZenonT(40) DEF Next, Request, Proceed, Fault, vars, journal, Spend, Drop, Know, ClaimBaseline, Save, Crash,
       Startup, Start, Track, NoteWrite, WriteFile, PutFile, PutThrows, NoteKnown, Commit, OpenStep,
       RefusePlan, BeginStep, JournalImage, WriteModule, WriteRefused, WriteThrows, NotAsPlanned,
       FixWritten, RestampAfter, CompleteModule, Finalize, CommitOwn, StepThrows, Release, Undo,
       ResumeUndo, UndoRefused, Revert, ResumeRevert, Restore, Conflict, RestoreFails, Remember,
       Unrestored, FinalizeUndo, FinalizeRevert, RecoverIntent, UnwindStep, UnwindFound, UnwindRestore,
       UnwindConflict, UnwindFails, UnwindBlocked, UnwindOver, RecoverEnd

\* The bounds.
LEMMA WhoSpends ==
  ASSUME [Next]_vars
  PROVE  \/ UNCHANGED used
         \/ Crash \/ PutThrows \/ StepThrows
         \/ \E m \in Modules, c \in Contents : Save(m, c) \/ WriteFile(m, c)
         \/ \E m \in Modules : NoteWrite(m) \/ WriteThrows(m) \/ RestoreFails(m) \/ UnwindFails(m) \/ UnwindBlocked(m)
         \/ \E text \in [Modules -> Texts \cup {None}] : OpenStep(text)
BY ZenonT(40) DEF Next, Request, Proceed, Fault, vars, journal, Spend, Drop, Know, ClaimBaseline, Save, Crash,
       Startup, Start, Track, NoteWrite, WriteFile, PutFile, PutThrows, NoteKnown, Commit, OpenStep,
       RefusePlan, BeginStep, JournalImage, WriteModule, WriteRefused, WriteThrows, NotAsPlanned,
       FixWritten, RestampAfter, CompleteModule, Finalize, CommitOwn, StepThrows, Release, Undo,
       ResumeUndo, UndoRefused, Revert, ResumeRevert, Restore, Conflict, RestoreFails, Remember,
       Unrestored, FinalizeUndo, FinalizeRevert, RecoverIntent, UnwindStep, UnwindFound, UnwindRestore,
       UnwindConflict, UnwindFails, UnwindBlocked, UnwindOver, RecoverEnd

\* A transaction that is closed at the end was so before, or is dropped.
LEMMA WhoCloses ==
  ASSUME [Next]_vars
  PROVE  \/ tx = "none" \/ tx' # "none"
         \/ Drop /\ (Commit \/ CommitOwn \/ FinalizeRevert \/ RecoverEnd)
BY DEF Next, Request, Proceed, Fault, vars, journal, Spend, Drop, Know, ClaimBaseline, Save, Crash,
       Startup, Start, Track, NoteWrite, WriteFile, PutFile, PutThrows, NoteKnown, Commit, OpenStep,
       RefusePlan, BeginStep, JournalImage, WriteModule, WriteRefused, WriteThrows, NotAsPlanned,
       FixWritten, RestampAfter, CompleteModule, Finalize, CommitOwn, StepThrows, Release, Undo,
       ResumeUndo, UndoRefused, Revert, ResumeRevert, Restore, Conflict, RestoreFails, Remember,
       Unrestored, FinalizeUndo, FinalizeRevert, RecoverIntent, UnwindStep, UnwindFound, UnwindRestore,
       UnwindConflict, UnwindFails, UnwindBlocked, UnwindOver, RecoverEnd

\* What does not touch the operation: the world, and nothing.
Still == op' = op /\ (UNCHANGED vars \/ \E m \in Modules, c \in Contents : Save(m, c))

-----------------------------------------------------------------------------
(***************************************************************************)
(* Which phase each action leads to                                        *)
(***************************************************************************)
\* The phase after each action.
LEMMA PhaseAfter ==
  ASSUME Shape
  PROVE
         /\ Crash => op'.pc = "down"
         /\ Startup => op'.pc \in {"recovering", "idle"}
         /\ Start => op'.pc = "idle"
         /\ \A m \in Modules : Track(m) => op'.pc = "idle"
         /\ \A m \in Modules : NoteWrite(m) => op'.pc = "idle"
         /\ \A m \in Modules, c \in Contents : WriteFile(m, c) => op'.pc = "putting"
         /\ \A m \in Modules : PutFile(m) => op'.pc \in {"noting", "idle"}
         /\ PutThrows => op'.pc = "idle"
         /\ \A m \in Modules : NoteKnown(m) => op'.pc = "idle"
         /\ Commit => op'.pc = "idle"
         /\ \A text \in [Modules -> Texts \cup {None}] : OpenStep(text) => op'.pc = "checked"
         /\ RefusePlan => op'.pc \in {"refusing", "idle"}
         /\ \A mods \in SUBSET Modules : BeginStep(mods) => op'.pc = "journaling"
         /\ \A m \in Modules : JournalImage(m) => op'.pc \in {"journaling", "writing"}
         /\ \A m \in Modules : WriteModule(m) => op'.pc = "writing"
         /\ \A m \in Modules : WriteRefused(m) => op'.pc = "releasing"
         /\ \A m \in Modules : WriteThrows(m) => op'.pc = "releasing"
         /\ NotAsPlanned => op'.pc = "releasing"
         /\ \A ran \in BOOLEAN : FixWritten(ran) => op'.pc \in {"restamping", "settling"}
         /\ \A m \in Modules : RestampAfter(m) => op'.pc \in {"restamping", "settling"}
         /\ \A m \in Modules : CompleteModule(m) => op'.pc \in {"settling", "finishing"}
         /\ Finalize => op'.pc \in {"committing", "idle"}
         /\ CommitOwn => op'.pc = "idle"
         /\ StepThrows => op'.pc \in {"recovering", "idle"}
         /\ \A m \in Modules : Release(m) => op'.pc = "releasing"
         /\ Undo => op'.pc = "restoring"
         /\ ResumeUndo => op'.pc = "restoring"
         /\ UndoRefused => op'.pc \in {"recovering", "idle"}
         /\ Revert => op'.pc = "restoring"
         /\ ResumeRevert => op'.pc = "restoring"
         /\ \A m \in Modules : Restore(m) => op'.pc = "restoring"
         /\ \A m \in Modules : Conflict(m) => op'.pc = "restoring"
         /\ \A m \in Modules : RestoreFails(m) => op'.pc = "restoring"
         /\ Remember => op'.pc \in {"restoring", "unwinding"}
         /\ Unrestored => op'.pc \in {"recovering", "idle"}
         /\ FinalizeUndo => op'.pc \in {"recovering", "refusing", "idle"}
         /\ FinalizeRevert => op'.pc = "idle"
         /\ RecoverIntent => op'.pc = "restoring"
         /\ UnwindStep => op'.pc = "unwinding"
         /\ \A m \in Modules : UnwindFound(m) => op'.pc = "unwinding"
         /\ \A m \in Modules : UnwindRestore(m) => op'.pc = "unwinding"
         /\ \A m \in Modules : UnwindConflict(m) => op'.pc = "unwinding"
         /\ \A m \in Modules : UnwindFails(m) => op'.pc = "unwinding"
         /\ \A m \in Modules : UnwindBlocked(m) => op'.pc = "unwinding"
         /\ UnwindOver => op'.pc = "recovering"
         /\ RecoverEnd => op'.pc = "idle"
<1>1. ASSUME Crash PROVE op'.pc = "down"
  BY <1>1 DEF Crash, Down, Idle, Shape, TypeOK, Ops
<1>2. ASSUME Startup PROVE op'.pc \in {"recovering", "idle"}
  BY <1>2 DEF Startup, Idle, StartRecovery, RecoverFrom, Shape, TypeOK, Ops
<1>3. ASSUME Start PROVE op'.pc = "idle"
  BY <1>3 DEF Start, Shape, TypeOK, Ops
<1>4. ASSUME NEW m \in Modules, Track(m) PROVE op'.pc = "idle"
  BY <1>4 DEF Track, Shape, TypeOK, Ops
<1>5. ASSUME NEW m \in Modules, NoteWrite(m) PROVE op'.pc = "idle"
  BY <1>5 DEF NoteWrite, Shape, TypeOK, Ops
<1>6. ASSUME NEW m \in Modules, NEW c \in Contents, WriteFile(m, c) PROVE op'.pc = "putting"
  BY <1>6 DEF WriteFile, Idle, Shape, TypeOK, Ops
<1>7. ASSUME NEW m \in Modules, PutFile(m) PROVE op'.pc \in {"noting", "idle"}
  BY <1>7 DEF PutFile, Idle, Shape, TypeOK, Ops
<1>8. ASSUME PutThrows PROVE op'.pc = "idle"
  BY <1>8 DEF PutThrows, Idle, Shape, TypeOK, Ops
<1>9. ASSUME NEW m \in Modules, NoteKnown(m) PROVE op'.pc = "idle"
  BY <1>9 DEF NoteKnown, Idle, Shape, TypeOK, Ops
<1>10. ASSUME Commit PROVE op'.pc = "idle"
  BY <1>10 DEF Commit, Shape, TypeOK, Ops
<1>11. ASSUME NEW text \in [Modules -> Texts \cup {None}], OpenStep(text) PROVE op'.pc = "checked"
  BY <1>11 DEF OpenStep, Idle, Shape, TypeOK, Ops
<1>12. ASSUME RefusePlan PROVE op'.pc \in {"refusing", "idle"}
  BY <1>12 DEF RefusePlan, RefuseOwn, Idle, Shape, TypeOK, Ops
<1>13. ASSUME NEW mods \in SUBSET Modules, BeginStep(mods) PROVE op'.pc = "journaling"
  BY <1>13 DEF BeginStep, Shape, TypeOK, Ops
<1>14. ASSUME NEW m \in Modules, JournalImage(m) PROVE op'.pc \in {"journaling", "writing"}
  BY <1>14 DEF JournalImage, Shape, TypeOK, Ops
<1>15. ASSUME NEW m \in Modules, WriteModule(m) PROVE op'.pc = "writing"
  BY <1>15 DEF WriteModule, Shape, TypeOK, Ops
<1>16. ASSUME NEW m \in Modules, WriteRefused(m) PROVE op'.pc = "releasing"
  BY <1>16 DEF WriteRefused, Fail, Idle, Shape, TypeOK, Ops
<1>17. ASSUME NEW m \in Modules, WriteThrows(m) PROVE op'.pc = "releasing"
  BY <1>17 DEF WriteThrows, Fail, Idle, Shape, TypeOK, Ops
<1>18. ASSUME NotAsPlanned PROVE op'.pc = "releasing"
  BY <1>18 DEF NotAsPlanned, Fail, Idle, Shape, TypeOK, Ops
<1>19. ASSUME NEW ran \in BOOLEAN, FixWritten(ran) PROVE op'.pc \in {"restamping", "settling"}
  BY <1>19 DEF FixWritten, Idle, Shape, TypeOK, Ops
<1>20. ASSUME NEW m \in Modules, RestampAfter(m) PROVE op'.pc \in {"restamping", "settling"}
  BY <1>20 DEF RestampAfter, Shape, TypeOK, Ops
<1>21. ASSUME NEW m \in Modules, CompleteModule(m) PROVE op'.pc \in {"settling", "finishing"}
  BY <1>21 DEF CompleteModule, Shape, TypeOK, Ops
<1>22. ASSUME Finalize PROVE op'.pc \in {"committing", "idle"}
  BY <1>22 DEF Finalize, Idle, Shape, TypeOK, Ops
<1>23. ASSUME CommitOwn PROVE op'.pc = "idle"
  BY <1>23 DEF CommitOwn, Idle, Shape, TypeOK, Ops
<1>24. ASSUME StepThrows PROVE op'.pc \in {"recovering", "idle"}
  BY <1>24 DEF StepThrows, StartRecovery, Idle, RecoverFrom, Shape, TypeOK, Ops
<1>25. ASSUME NEW m \in Modules, Release(m) PROVE op'.pc = "releasing"
  BY <1>25 DEF Release, Shape, TypeOK, Ops
<1>26. ASSUME Undo PROVE op'.pc = "restoring"
  BY <1>26 DEF Undo, UndoAsked, Restoring, Idle, Shape, TypeOK, Ops
<1>27. ASSUME ResumeUndo PROVE op'.pc = "restoring"
  BY <1>27 DEF ResumeUndo, UndoAsked, Restoring, Idle, Shape, TypeOK, Ops
<1>28. ASSUME UndoRefused PROVE op'.pc \in {"recovering", "idle"}
  BY <1>28 DEF UndoRefused, StartRecovery, Idle, RecoverFrom, Shape, TypeOK, Ops
<1>29. ASSUME Revert PROVE op'.pc = "restoring"
  BY <1>29 DEF Revert, Restoring, Idle, Shape, TypeOK, Ops
<1>30. ASSUME ResumeRevert PROVE op'.pc = "restoring"
  BY <1>30 DEF ResumeRevert, Restoring, Idle, Shape, TypeOK, Ops
<1>31. ASSUME NEW m \in Modules, Restore(m) PROVE op'.pc = "restoring"
  BY <1>31 DEF Restore, Shape, TypeOK, Ops
<1>32. ASSUME NEW m \in Modules, Conflict(m) PROVE op'.pc = "restoring"
  BY <1>32 DEF Conflict, Shape, TypeOK, Ops
<1>33. ASSUME NEW m \in Modules, RestoreFails(m) PROVE op'.pc = "restoring"
  BY <1>33 DEF RestoreFails, Shape, TypeOK, Ops
<1>34. ASSUME Remember PROVE op'.pc \in {"restoring", "unwinding"}
  BY <1>34 DEF Remember, Shape, TypeOK, Ops, OpShape
<1>35. ASSUME Unrestored PROVE op'.pc \in {"recovering", "idle"}
  BY <1>35 DEF Unrestored, RestoresOver, StartRecovery, Idle, RecoverFrom, Shape, TypeOK, Ops
<1>36. ASSUME FinalizeUndo PROVE op'.pc \in {"recovering", "refusing", "idle"}
  BY <1>36 DEF FinalizeUndo, RestoresOver, AfterUndo, RecoverFrom, RefuseOwn, Idle, Shape, TypeOK, Ops
<1>37. ASSUME FinalizeRevert PROVE op'.pc = "idle"
  BY <1>37 DEF FinalizeRevert, RestoresOver, Idle, Shape, TypeOK, Ops
<1>38. ASSUME RecoverIntent PROVE op'.pc = "restoring"
  BY <1>38 DEF RecoverIntent, Restoring, Idle, Shape, TypeOK, Ops
<1>39. ASSUME UnwindStep PROVE op'.pc = "unwinding"
  BY <1>39 DEF UnwindStep, Shape, TypeOK, Ops
<1>40. ASSUME NEW m \in Modules, UnwindFound(m) PROVE op'.pc = "unwinding"
  BY <1>40 DEF UnwindFound, Unwinding, Shape, TypeOK, Ops
<1>41. ASSUME NEW m \in Modules, UnwindRestore(m) PROVE op'.pc = "unwinding"
  BY <1>41 DEF UnwindRestore, Unwinding, Shape, TypeOK, Ops
<1>42. ASSUME NEW m \in Modules, UnwindConflict(m) PROVE op'.pc = "unwinding"
  BY <1>42 DEF UnwindConflict, Unwinding, Shape, TypeOK, Ops
<1>43. ASSUME NEW m \in Modules, UnwindFails(m) PROVE op'.pc = "unwinding"
  BY <1>43 DEF UnwindFails, Unwinding, Shape, TypeOK, Ops
<1>44. ASSUME NEW m \in Modules, UnwindBlocked(m) PROVE op'.pc = "unwinding"
  BY <1>44 DEF UnwindBlocked, Unwinding, Shape, TypeOK, Ops
<1>45. ASSUME UnwindOver PROVE op'.pc = "recovering"
  BY <1>45 DEF UnwindOver, Shape, TypeOK, Ops
<1>46. ASSUME RecoverEnd PROVE op'.pc = "idle"
  BY <1>46 DEF RecoverEnd, Idle, Shape, TypeOK, Ops
<1> QED
  BY <1>1, <1>2, <1>3, <1>4, <1>5, <1>6, <1>7, <1>8, <1>9, <1>10, <1>11, <1>12, <1>13, <1>14, <1>15,
     <1>16, <1>17, <1>18, <1>19, <1>20, <1>21, <1>22, <1>23, <1>24, <1>25, <1>26, <1>27, <1>28, <1>29,
     <1>30, <1>31, <1>32, <1>33, <1>34, <1>35, <1>36, <1>37, <1>38, <1>39, <1>40, <1>41, <1>42, <1>43,
     <1>44, <1>45, <1>46

\* How the daemon comes to be putting.
LEMMA IntoPutting ==
  ASSUME Shape, [Next]_vars, op'.pc = "putting"
  PROVE  \/ Still
         \/ \E m \in Modules, c \in Contents : WriteFile(m, c)
BY PhaseAfter DEF Save, Start, Track, NoteWrite, Commit, Still, Next, Request, Proceed, Fault, vars

\* How the daemon comes to be noting.
LEMMA IntoNoting ==
  ASSUME Shape, [Next]_vars, op'.pc = "noting"
  PROVE  \/ Still
         \/ \E m \in Modules : PutFile(m)
BY PhaseAfter DEF Save, Start, Track, NoteWrite, Commit, Still, Next, Request, Proceed, Fault, vars

\* How a step comes to be checked.
LEMMA IntoChecked ==
  ASSUME Shape, [Next]_vars, op'.pc = "checked"
  PROVE  \/ Still
         \/ \E text \in [Modules -> Texts \cup {None}] : OpenStep(text)
BY PhaseAfter DEF Save, Start, Track, NoteWrite, Commit, Still, Next, Request, Proceed, Fault, vars

\* How the daemon comes to be journaling.
LEMMA IntoJournaling ==
  ASSUME Shape, [Next]_vars, op'.pc = "journaling"
  PROVE  \/ Still
         \/ \E mods \in SUBSET Modules : BeginStep(mods)
         \/ \E m \in Modules : JournalImage(m)
BY PhaseAfter DEF Save, Start, Track, NoteWrite, Commit, Still, Next, Request, Proceed, Fault, vars

\* How the daemon comes to be writing.
LEMMA IntoWriting ==
  ASSUME Shape, [Next]_vars, op'.pc = "writing"
  PROVE  \/ Still
         \/ \E m \in Modules : JournalImage(m) \/ WriteModule(m)
BY PhaseAfter DEF Save, Start, Track, NoteWrite, Commit, Still, Next, Request, Proceed, Fault, vars

\* How the daemon comes to be releasing.
LEMMA IntoReleasing ==
  ASSUME Shape, [Next]_vars, op'.pc = "releasing"
  PROVE  \/ Still
         \/ NotAsPlanned
         \/ \E m \in Modules : WriteRefused(m) \/ WriteThrows(m) \/ Release(m)
BY PhaseAfter DEF Save, Start, Track, NoteWrite, Commit, Still, Next, Request, Proceed, Fault, vars

\* How the daemon comes to be restamping.
LEMMA IntoRestamping ==
  ASSUME Shape, [Next]_vars, op'.pc = "restamping"
  PROVE  \/ Still
         \/ \E ran \in BOOLEAN : FixWritten(ran)
         \/ \E m \in Modules : RestampAfter(m)
BY PhaseAfter DEF Save, Start, Track, NoteWrite, Commit, Still, Next, Request, Proceed, Fault, vars

\* How the daemon comes to be settling.
LEMMA IntoSettling ==
  ASSUME Shape, [Next]_vars, op'.pc = "settling"
  PROVE  \/ Still
         \/ \E ran \in BOOLEAN : FixWritten(ran)
         \/ \E m \in Modules : RestampAfter(m) \/ CompleteModule(m)
BY PhaseAfter DEF Save, Start, Track, NoteWrite, Commit, Still, Next, Request, Proceed, Fault, vars

\* How the daemon comes to be finishing.
LEMMA IntoFinishing ==
  ASSUME Shape, [Next]_vars, op'.pc = "finishing"
  PROVE  \/ Still
         \/ \E m \in Modules : CompleteModule(m)
BY PhaseAfter DEF Save, Start, Track, NoteWrite, Commit, Still, Next, Request, Proceed, Fault, vars

\* How the daemon comes to be committing.
LEMMA IntoCommitting ==
  ASSUME Shape, [Next]_vars, op'.pc = "committing"
  PROVE  \/ Still
         \/ Finalize
BY PhaseAfter DEF Save, Start, Track, NoteWrite, Commit, Still, Next, Request, Proceed, Fault, vars

\* How the daemon comes to be restoring.
LEMMA IntoRestoring ==
  ASSUME Shape, [Next]_vars, op'.pc = "restoring"
  PROVE  \/ Still
         \/ Undo \/ ResumeUndo \/ Revert \/ ResumeRevert \/ RecoverIntent \/ Remember
         \/ \E m \in Modules : Restore(m) \/ Conflict(m) \/ RestoreFails(m)
BY PhaseAfter DEF Save, Start, Track, NoteWrite, Commit, Still, Next, Request, Proceed, Fault, vars

\* How the daemon comes to be unwinding.
LEMMA IntoUnwinding ==
  ASSUME Shape, [Next]_vars, op'.pc = "unwinding"
  PROVE  \/ Still
         \/ UnwindStep \/ Remember
         \/ \E m \in Modules : UnwindFound(m) \/ UnwindRestore(m) \/ UnwindConflict(m) \/ UnwindFails(m) \/ UnwindBlocked(m)
BY PhaseAfter DEF Save, Start, Track, NoteWrite, Commit, Still, Next, Request, Proceed, Fault, vars

\* How the daemon comes to be recovering.
LEMMA IntoRecovering ==
  ASSUME Shape, [Next]_vars, op'.pc = "recovering"
  PROVE  \/ Still
         \/ Startup \/ StepThrows \/ UndoRefused \/ Unrestored \/ FinalizeUndo \/ UnwindOver
BY PhaseAfter DEF Save, Start, Track, NoteWrite, Commit, Still, Next, Request, Proceed, Fault, vars

\* How the daemon comes to be refusing.
LEMMA IntoRefusing ==
  ASSUME Shape, [Next]_vars, op'.pc = "refusing"
  PROVE  \/ Still
         \/ RefusePlan \/ FinalizeUndo
BY PhaseAfter DEF Save, Start, Track, NoteWrite, Commit, Still, Next, Request, Proceed, Fault, vars

-----------------------------------------------------------------------------
(***************************************************************************)
(* Shape: types                                                            *)
(***************************************************************************)
\* Sets of modules.
LEMMA ModuleSets ==
  /\ Tracked \subseteq Modules /\ Written \subseteq Modules /\ Planned \subseteq Modules
  /\ \A s : Covered(s) \subseteq Modules /\ ToRestore(s) \subseteq Covered(s)
BY DEF Tracked, Written, Planned, Covered, ToRestore

\* The operations that the daemon goes on with.
LEMMA GoesOn ==
  ASSUME TypeOK, Ascending(steps)
  PROVE  /\ StartRecovery \in Ops /\ AfterUndo \in Ops
         /\ \A todo \in SUBSET Modules : Restoring(todo) \in Ops
         /\ \A landed, threw : Fail(landed, threw) \in Ops
<1>1. NextStepNo \in Nat
  BY StepFacts DEF NextStepNo, Steps
<1>2. StartRecovery \in Ops
  BY <1>1, Starts DEF StartRecovery
<1>3. AfterUndo \in Ops
  BY Starts DEF AfterUndo
<1>4. op.then \in {"rpc", "step", "recover"} /\ op.hold \in {"joined", "own"} /\ op.fresh \subseteq Modules
  BY DEF TypeOK, Ops
<1>5. Idle \in Ops
  BY Starts
<1>6. ASSUME NEW todo \in SUBSET Modules PROVE Restoring(todo) \in Ops
  BY <1>4, <1>5 DEF Restoring, Ops
<1>7. ASSUME NEW landed, NEW threw PROVE Fail(landed, threw) \in Ops
  <2>1. Planned \ (landed \cup threw) \subseteq Modules
    BY ModuleSets
  <2> QED
    BY <1>4, <1>5, <2>1 DEF Fail, Ops
<1> QED
  BY <1>2, <1>3, <1>6, <1>7

\* The operation keeps its type.
LEMMA OpTyped ==
  ASSUME Shape, [Next]_vars
  PROVE  op' \in Ops
<1>1. ASSUME NEW m \in Modules, NEW c \in Contents, Save(m, c) PROVE op' \in Ops
  BY <1>1 DEF Save, Shape, TypeOK
<1>2. ASSUME Crash PROVE op' \in Ops
  BY <1>2, Starts DEF Crash
<1>3. ASSUME Startup PROVE op' \in Ops
  BY <1>3, Starts, GoesOn DEF Startup, Shape, JournalShape
<1>4. ASSUME Start PROVE op' \in Ops
  BY <1>4 DEF Start, Shape, TypeOK
<1>5. ASSUME NEW m \in Modules, Track(m) PROVE op' \in Ops
  BY <1>5 DEF Track, Shape, TypeOK
<1>6. ASSUME NEW m \in Modules, NoteWrite(m) PROVE op' \in Ops
  BY <1>6 DEF NoteWrite, Shape, TypeOK
<1>7. ASSUME NEW m \in Modules, NEW c \in Contents, WriteFile(m, c) PROVE op' \in Ops
  BY <1>7, Starts, ZenonT(40) DEF WriteFile, Ops, Rows
<1>8. ASSUME NEW m \in Modules, PutFile(m) PROVE op' \in Ops
  <2>1. [op EXCEPT !.pc = "noting"] \in Ops
    BY DEF Shape, TypeOK, Ops
  <2> QED
    BY <1>8, <2>1, Starts DEF PutFile
<1>9. ASSUME PutThrows PROVE op' \in Ops
  BY <1>9, Starts DEF PutThrows
<1>10. ASSUME NEW m \in Modules, NoteKnown(m) PROVE op' \in Ops
  BY <1>10, Starts DEF NoteKnown
<1>11. ASSUME Commit PROVE op' \in Ops
  BY <1>11 DEF Commit, Shape, TypeOK
<1>12. ASSUME NEW text \in [Modules -> Texts \cup {None}], OpenStep(text) PROVE op' \in Ops
  <2>1. text \in [Modules -> Rows]
    BY DEF Rows, Contents
  <2>2. [m \in Modules |-> IF text[m] = None THEN None ELSE disk[m]] \in [Modules -> Rows]
    BY DEF Shape, TypeOK, Rows
  <2> QED
    <3>1. \A base \in [Modules -> Rows], hold \in {"joined", "own"} :
             [Idle EXCEPT !.pc = "checked", !.then = "step", !.hold = hold, !.text = text, !.base = base] \in Ops
      BY <2>1, Starts, ZenonT(40) DEF Ops
    <3> QED
      BY <1>12, <2>2, <3>1 DEF OpenStep
<1>13. ASSUME RefusePlan PROVE op' \in Ops
  BY <1>13, Starts DEF RefusePlan
<1>14. ASSUME NEW mods \in SUBSET Modules, BeginStep(mods) PROVE op' \in Ops
  <2>1. mods \ Tracked \subseteq Modules
    OBVIOUS
  <2>2. [m \in Modules |-> IF m \in mods THEN disk[m] ELSE None] \in [Modules -> Rows]
    BY DEF Shape, TypeOK, Rows
  <2> QED
    BY <1>14, <2>1, <2>2 DEF BeginStep, Shape, TypeOK, Ops
<1>15. ASSUME NEW m \in Modules, JournalImage(m) PROVE op' \in Ops
  <2>1. Written \subseteq Modules /\ NoRows \in [Modules -> Rows]
    BY ModuleSets, Starts
  <2>2. [op EXCEPT !.pc = "writing", !.todo = Written, !.before = NoRows] \in Ops
    BY <2>1 DEF Shape, TypeOK, Ops
  <2>3. [op EXCEPT !.todo = @ \ {m}] \in Ops
    BY DEF Shape, TypeOK, Ops
  <2> QED
    BY <1>15, <2>2, <2>3 DEF JournalImage
<1>16. ASSUME NEW m \in Modules, WriteModule(m) PROVE op' \in Ops
  BY <1>16 DEF WriteModule, Shape, TypeOK, Ops
<1>17. ASSUME NEW m \in Modules, WriteRefused(m) PROVE op' \in Ops
  BY <1>17, GoesOn DEF WriteRefused, Shape, JournalShape
<1>18. ASSUME NEW m \in Modules, WriteThrows(m) PROVE op' \in Ops
  BY <1>18, GoesOn DEF WriteThrows, Shape, JournalShape
<1>19. ASSUME NotAsPlanned PROVE op' \in Ops
  BY <1>19, GoesOn, SMTT(30) DEF NotAsPlanned, Shape, JournalShape
<1>20. ASSUME NEW ran \in BOOLEAN, FixWritten(ran) PROVE op' \in Ops
  <2>1. op.hold \in {"joined", "own"}
    BY DEF Shape, TypeOK, Ops
  <2>2. \A todo \in SUBSET Modules :
           /\ [Idle EXCEPT !.pc = "restamping", !.then = "step", !.hold = op.hold, !.todo = todo] \in Ops
           /\ [Idle EXCEPT !.pc = "settling", !.then = "step", !.hold = op.hold, !.todo = todo] \in Ops
    BY <2>1, Starts, ZenonT(40) DEF Ops
  <2> QED
    BY <1>20, <2>2, ModuleSets DEF FixWritten
<1>21. ASSUME NEW m \in Modules, RestampAfter(m) PROVE op' \in Ops
  <2>1. [op EXCEPT !.pc = "settling", !.todo = Planned] \in Ops
    BY ModuleSets DEF Shape, TypeOK, Ops
  <2>2. [op EXCEPT !.todo = @ \ {m}] \in Ops
    BY DEF Shape, TypeOK, Ops
  <2> QED
    BY <1>21, <2>1, <2>2 DEF RestampAfter
<1>22. ASSUME NEW m \in Modules, CompleteModule(m) PROVE op' \in Ops
  <2>1. [op EXCEPT !.pc = "finishing", !.todo = {}] \in Ops
    BY DEF Shape, TypeOK, Ops
  <2>2. [op EXCEPT !.todo = @ \ {m}] \in Ops
    BY DEF Shape, TypeOK, Ops
  <2> QED
    BY <1>22, <2>1, <2>2 DEF CompleteModule
<1>23. ASSUME Finalize PROVE op' \in Ops
  <2>1. [Idle EXCEPT !.pc = "committing", !.then = "step", !.hold = "own"] \in Ops
    BY Starts DEF Ops
  <2> QED
    BY <1>23, <2>1, Starts DEF Finalize
<1>24. ASSUME CommitOwn PROVE op' \in Ops
  BY <1>24, Starts DEF CommitOwn
<1>25. ASSUME StepThrows PROVE op' \in Ops
  BY <1>25, Starts, GoesOn DEF StepThrows, Shape, JournalShape
<1>26. ASSUME NEW m \in Modules, Release(m) PROVE op' \in Ops
  BY <1>26 DEF Release, Shape, TypeOK, Ops
<1>27. ASSUME Undo PROVE op' \in Ops
  BY <1>27, GoesOn, ModuleSets DEF Undo, Shape, JournalShape
<1>28. ASSUME ResumeUndo PROVE op' \in Ops
  BY <1>28, GoesOn, ModuleSets DEF ResumeUndo, Shape, JournalShape
<1>29. ASSUME UndoRefused PROVE op' \in Ops
  BY <1>29, Starts, GoesOn DEF UndoRefused, Shape, JournalShape
<1>30. ASSUME Revert PROVE op' \in Ops
  BY <1>30, GoesOn, ModuleSets DEF Revert, Shape, JournalShape
<1>31. ASSUME ResumeRevert PROVE op' \in Ops
  BY <1>31, GoesOn, ModuleSets DEF ResumeRevert, Shape, JournalShape
<1>32. ASSUME NEW m \in Modules, Restore(m) PROVE op' \in Ops
  BY <1>32 DEF Restore, Shape, TypeOK, Ops
<1>33. ASSUME NEW m \in Modules, Conflict(m) PROVE op' \in Ops
  BY <1>33 DEF Conflict, Shape, TypeOK, Ops
<1>34. ASSUME NEW m \in Modules, RestoreFails(m) PROVE op' \in Ops
  BY <1>34 DEF RestoreFails, Shape, TypeOK, Ops
<1>35. ASSUME Remember PROVE op' \in Ops
  BY <1>35 DEF Remember, Shape, TypeOK, Ops
<1>36. ASSUME Unrestored PROVE op' \in Ops
  BY <1>36, Starts, GoesOn DEF Unrestored, Shape, JournalShape
<1>37. ASSUME FinalizeUndo PROVE op' \in Ops
  BY <1>37, Starts, GoesOn DEF FinalizeUndo, Shape, JournalShape
<1>38. ASSUME FinalizeRevert PROVE op' \in Ops
  BY <1>38, Starts DEF FinalizeRevert
<1>39. ASSUME RecoverIntent PROVE op' \in Ops
  BY <1>39, GoesOn, ModuleSets DEF RecoverIntent, Shape, JournalShape
<1>40. ASSUME UnwindStep PROVE op' \in Ops
  BY <1>40, NextUnwound, ModuleSets DEF UnwindStep, Shape, JournalShape, TypeOK, Ops
<1>41. ASSUME NEW m \in Modules, UnwindFound(m) PROVE op' \in Ops
  BY <1>41 DEF UnwindFound, Unwinding, Shape, TypeOK, Ops
<1>42. ASSUME NEW m \in Modules, UnwindRestore(m) PROVE op' \in Ops
  BY <1>42 DEF UnwindRestore, Unwinding, Shape, TypeOK, Ops
<1>43. ASSUME NEW m \in Modules, UnwindConflict(m) PROVE op' \in Ops
  BY <1>43 DEF UnwindConflict, Unwinding, Shape, TypeOK, Ops
<1>44. ASSUME NEW m \in Modules, UnwindFails(m) PROVE op' \in Ops
  BY <1>44 DEF UnwindFails, Unwinding, Shape, TypeOK, Ops
<1>45. ASSUME NEW m \in Modules, UnwindBlocked(m) PROVE op' \in Ops
  BY <1>45 DEF UnwindBlocked, Unwinding, Shape, TypeOK, Ops
<1>46. ASSUME UnwindOver PROVE op' \in Ops
  BY <1>46, ZenonT(40) DEF UnwindOver, Shape, TypeOK, Ops
<1>47. ASSUME RecoverEnd PROVE op' \in Ops
  BY <1>47, Starts DEF RecoverEnd
<1>48. CASE UNCHANGED vars
  BY <1>48 DEF vars, Shape, TypeOK
<1> QED
  BY <1>1, <1>2, <1>3, <1>4, <1>5, <1>6, <1>7, <1>8, <1>9, <1>10, <1>11, <1>12, <1>13, <1>14, <1>15,
     <1>16, <1>17, <1>18, <1>19, <1>20, <1>21, <1>22, <1>23, <1>24, <1>25, <1>26, <1>27, <1>28, <1>29,
     <1>30, <1>31, <1>32, <1>33, <1>34, <1>35, <1>36, <1>37, <1>38, <1>39, <1>40, <1>41, <1>42, <1>43,
     <1>44, <1>45, <1>46, <1>47, <1>48 DEF Next, Request, Proceed, Fault

\* The step being undone or unwound, and what it restores.
LEMMA Restored ==
  ASSUME Shape
  PROVE  /\ op.pc = "unwinding" => Numbered(op.at) \in ToSet(steps) /\ Numbered(op.at).no = op.at
         /\ intent.kind = "undo" => Numbered(intent.no) \in ToSet(steps) /\ Numbered(intent.no).no = intent.no
<1>1. \A s \in ToSet(steps) : Numbered(s.no) = s
  BY StepFacts DEF Shape, JournalShape
<1> QED
  BY <1>1 DEF Shape, JournalShape, PhaseShape, IntentHasItsStep

\* An image of a covered module has a content to go back to.
LEMMA CoveredImage ==
  ASSUME NEW s \in Steps, NEW m \in Covered(s)
  PROVE  s.image[m] \in Images /\ s.image[m].before \in Contents /\ s.image[m].after \in Texts \cup {None}
<1>1. s.image[m] \in Images
  BY DEF Covered, Steps
<1> QED
  BY <1>1 DEF Images

\* What a restore puts back is a content.
LEMMA RestoredTyped ==
  ASSUME Shape, op.pc \in {"restoring", "unwinding"}, NEW m \in Modules, m \in Handled
  PROVE  ImageOf(m) \in Contents
<1>1. ToSet(steps) \subseteq Steps
  BY StepFacts DEF Shape, JournalShape
<1>2. CASE op.pc = "unwinding"
  <2>1. Numbered(op.at) \in Steps /\ m \in Covered(Numbered(op.at))
    BY <1>1, <1>2, Restored, ModuleSets DEF Shape, PhaseShape
  <2> QED
    BY <1>2, <2>1, CoveredImage DEF ImageOf
<1>3. CASE op.pc = "restoring" /\ intent.kind = "revert"
  <2>1. baseline[m] \in Contents
    BY <1>3 DEF Shape, PhaseShape, TypeOK, Tracked, Rows
  <2> QED
    BY <1>3, <2>1 DEF ImageOf
<1>4. CASE op.pc = "restoring" /\ intent.kind = "undo"
  <2>1. Numbered(intent.no) \in Steps /\ m \in Covered(Numbered(intent.no))
    BY <1>1, <1>4, Restored, ModuleSets DEF Shape, PhaseShape
  <2> QED
    BY <1>4, <2>1, CoveredImage DEF ImageOf
<1>5. intent.kind \in {"none", "undo", "revert"}
  BY DEF Shape, TypeOK, Intents
<1> QED
  BY <1>2, <1>3, <1>4, <1>5 DEF Shape, PhaseShape

\* Files.
LEMMA DiskTyped ==
  ASSUME Shape, [Next]_vars
  PROVE  disk' \in [Modules -> Contents]
<1>0. disk \in [Modules -> Contents] /\ op.text \in [Modules -> Rows]
  BY DEF Shape, TypeOK, Ops
<1>1. ASSUME NEW m \in Modules, NEW c \in Contents, Save(m, c) PROVE disk' \in [Modules -> Contents]
  BY <1>0, <1>1 DEF Save
<1>2. ASSUME NEW m \in Modules, PutFile(m) PROVE disk' \in [Modules -> Contents]
  <2>1. op.text[m] \in Contents
    BY <1>0, <1>2 DEF PutFile, Shape, OpShape, Rows
  <2> QED
    BY <1>0, <1>2, <2>1 DEF PutFile
<1>3. ASSUME NEW m \in Modules, WriteModule(m) PROVE disk' \in [Modules -> Contents]
  <2>1. op.text[m] \in Contents
    BY <1>0, <1>3 DEF WriteModule, Shape, PhaseShape, Written, Rows
  <2> QED
    BY <1>0, <1>3, <2>1 DEF WriteModule
<1>4. ASSUME NEW m \in Modules, Restore(m) PROVE disk' \in [Modules -> Contents]
  <2>1. ImageOf(m) \in Contents
    BY <1>4, RestoredTyped DEF Restore, Handled
  <2> QED
    BY <1>0, <1>4, <2>1 DEF Restore
<1>5. ASSUME NEW m \in Modules, UnwindRestore(m) PROVE disk' \in [Modules -> Contents]
  <2>1. ImageOf(m) \in Contents
    BY <1>5, RestoredTyped DEF UnwindRestore, Unwinding, Handled
  <2> QED
    BY <1>0, <1>5, <2>1 DEF UnwindRestore
<1> QED
  BY <1>0, <1>1, <1>2, <1>3, <1>4, <1>5, WhoWrites

\* What was put back, and is to be remembered.
LEMMA RememberTyped ==
  ASSUME Shape, Remember
  PROVE  op.cur \in Modules /\ op.cur \in Handled /\ ImageOf(op.cur) \in Contents
         /\ op.pc \in {"restoring", "unwinding"}
<1>1. op.cur \in Modules /\ op.cur \in Handled /\ op.pc \in {"restoring", "unwinding"}
  BY DEF Remember, Handled, Shape, OpShape, TypeOK, Ops
<1> QED
  BY <1>1, RestoredTyped

\* The content each action makes the known state of m, or its baseline.
LEMMA NotedTyped ==
  ASSUME Shape, NEW m \in Modules
  PROVE  /\ disk[m] \in Contents
         /\ NoteKnown(m) => op.text[m] \in Contents
         /\ JournalImage(m) => op.before[m] \in Contents
         /\ op.pc \in {"releasing", "restamping", "settling"} /\ m \in op.todo =>
               /\ steps # <<>> /\ Top \in Steps /\ m \in Covered(Top)
               /\ Top.image[m] \in Images
               /\ Top.image[m].after \in Texts \cup {None}
<1>1. disk[m] \in Contents
  BY DEF Shape, TypeOK
<1>2. op.text[m] \in Rows /\ op.before[m] \in Rows /\ op.cur \in Modules \cup {None}
  BY DEF Shape, TypeOK, Ops
<1>3. NoteKnown(m) => op.text[m] \in Contents
  BY <1>2 DEF NoteKnown, Shape, OpShape, Rows
<1>4. JournalImage(m) => op.before[m] \in Contents
  BY <1>2 DEF JournalImage, Shape, PhaseShape, Rows
<1>6. ASSUME op.pc \in {"releasing", "restamping", "settling"}, m \in op.todo
      PROVE  /\ steps # <<>> /\ Top \in Steps /\ m \in Covered(Top)
             /\ Top.image[m] \in Images
             /\ Top.image[m].after \in Texts \cup {None}
  <2>1. steps # <<>>
    BY <1>6 DEF Shape, OpShape, Stepping
  <2>2. Top \in Steps
    BY <2>1, StepFacts DEF Shape, JournalShape
  <2>3. m \in Covered(Top)
    BY <1>6 DEF Shape, PhaseShape, Planned
  <2> QED
    BY <2>1, <2>2, <2>3, CoveredImage
<1> QED
  BY <1>1, <1>3, <1>4, <1>6

\* Known states.
LEMMA KnownTyped ==
  ASSUME Shape, [Next]_vars
  PROVE  known' \in [Modules -> Rows]
<1>0. known \in [Modules -> Rows] /\ NoRows \in [Modules -> Rows] /\ Contents \subseteq Rows /\ None \in Rows
  BY Starts DEF Shape, TypeOK, Rows
<1>1. ASSUME NEW m \in Modules, NEW c \in Contents, Know(m, c) PROVE known' \in [Modules -> Rows]
  BY <1>0, <1>1 DEF Know
<1>2. CASE Drop
  BY <1>0, <1>2 DEF Drop
<1>3. CASE Remember
  BY <1>1, <1>3, RememberTyped DEF Remember
<1>4. ASSUME NEW m \in Modules, Track(m) \/ NoteWrite(m) \/ UnwindFound(m) PROVE known' \in [Modules -> Rows]
  BY <1>1, <1>4, NotedTyped DEF Track, NoteWrite, UnwindFound, ClaimBaseline
<1>5. ASSUME NEW m \in Modules, NoteKnown(m) \/ JournalImage(m) PROVE known' \in [Modules -> Rows]
  BY <1>0, <1>1, <1>5, NotedTyped DEF NoteKnown, JournalImage, ClaimBaseline
<1>6. ASSUME NEW m \in Modules, CompleteModule(m) PROVE known' \in [Modules -> Rows]
  <2>1. disk[m] \in Contents /\ (Top.image[m].after # None => Top.image[m].after \in Contents)
    BY <1>6, NotedTyped DEF CompleteModule, Contents
  <2> QED
    BY <1>1, <1>6, <2>1 DEF CompleteModule
<1>7. ASSUME NEW m \in Modules, Release(m) PROVE known' \in [Modules -> Rows]
  BY <1>0, <1>7 DEF Release
<1>8. ASSUME NEW m \in Modules, NEW c \in Contents, WriteFile(m, c) PROVE known' \in [Modules -> Rows]
  BY <1>0, <1>1, <1>8, NotedTyped DEF WriteFile, ClaimBaseline
<1> QED
  BY <1>0, <1>2, <1>3, <1>4, <1>5, <1>6, <1>7, <1>8, WhoNotes

\* Opening images.
LEMMA BaselineTyped ==
  ASSUME Shape, [Next]_vars
  PROVE  baseline' \in [Modules -> Rows]
<1>0. baseline \in [Modules -> Rows] /\ NoRows \in [Modules -> Rows] /\ Contents \subseteq Rows /\ None \in Rows
  BY Starts DEF Shape, TypeOK, Rows
<1>1. CASE Drop
  BY <1>0, <1>1 DEF Drop
<1>2. ASSUME NEW m \in Modules, Track(m) \/ JournalImage(m) PROVE baseline' \in [Modules -> Rows]
  BY <1>0, <1>2, NotedTyped DEF Track, JournalImage, ClaimBaseline
<1>3. ASSUME NEW m \in Modules, Release(m) PROVE baseline' \in [Modules -> Rows]
  BY <1>0, <1>3 DEF Release
<1>4. ASSUME NEW m \in Modules, NEW c \in Contents, WriteFile(m, c) PROVE baseline' \in [Modules -> Rows]
  BY <1>0, <1>4, NotedTyped DEF WriteFile, ClaimBaseline
<1> QED
  BY <1>0, <1>1, <1>2, <1>3, <1>4, WhoTracks

\* The history of who may have changed what.
LEMMA HistoryTyped ==
  ASSUME Shape, [Next]_vars
  PROVE  strange' \subseteq Modules /\ due' \subseteq Modules
<1>0. strange \subseteq Modules /\ due \subseteq Modules /\ op.todo \subseteq Modules
  BY DEF Shape, TypeOK, Ops
<1>1. strange' \subseteq Modules
  BY <1>0, WhoEstranges
     DEF Crash, Remember, Save, Track, NoteWrite, NoteKnown, JournalImage, CompleteModule, UnwindFound,
         UnwindBlocked, WriteFile, ClaimBaseline, Know
<1>2. due' \subseteq Modules
  BY <1>0, ModuleSets, WhoOwes DEF Drop, PutThrows, Finalize, Track, PutFile, WriteModule, WriteThrows
<1> QED
  BY <1>1, <1>2

\* The transaction, its intent and the bounds.
LEMMA IntentTyped ==
  ASSUME Shape, [Next]_vars
  PROVE  intent' \in Intents /\ tx' \in {"none", "explicit", "own"}
<1>0. intent \in Intents /\ tx \in {"none", "explicit", "own"} /\ NoIntent \in Intents
  BY Starts DEF Shape, TypeOK
<1>1. CASE Drop
  BY <1>0, <1>1 DEF Drop
<1>2. CASE Undo
  <2>1. Top.no \in Nat
    BY <1>2, StepFacts DEF Undo, Shape, JournalShape, Steps
  <2>2. intent' \in Intents
    BY <1>0, <1>2, <2>1 DEF Undo, Intents
  <2> QED
    BY <1>0, <1>2, <2>2 DEF Undo
<1>3. CASE Revert
  <2>1. [m \in Modules |-> IF m \in Tracked THEN disk[m] ELSE None] \in [Modules -> Rows]
    BY DEF Shape, TypeOK, Rows
  <2>2. intent' \in Intents
    BY <1>0, <1>3, <2>1 DEF Revert, Intents
  <2> QED
    BY <1>0, <1>3, <2>2 DEF Revert
<1>4. CASE FinalizeUndo
  BY <1>0, <1>4 DEF FinalizeUndo
<1>5. intent' \in Intents
  BY <1>0, <1>1, <1>2, <1>3, <1>4, WhoIntends
<1>6. tx' \in {"none", "explicit", "own"}
  BY <1>0, <1>1, WhoOpens DEF Start, OpenStep
<1> QED
  BY <1>5, <1>6

\* The bounds are spent one by one.
LEMMA UsedTyped ==
  ASSUME Shape, [Next]_vars
  PROVE  used' \in [Bounds -> Nat]
<1>0. used \in [Bounds -> Nat]
  BY DEF Shape, TypeOK
<1>1. ASSUME NEW bound \in Bounds, NEW max, Spend(bound, max) PROVE used' \in [Bounds -> Nat]
  BY <1>0, <1>1 DEF Spend
<1> QED
  BY <1>0, <1>1, WhoSpends
     DEF Bounds, Crash, PutThrows, StepThrows, Save, WriteFile, NoteWrite, WriteThrows, RestoreFails,
         UnwindFails, UnwindBlocked, OpenStep

\* The actions that change one image of the newest step.
LEMMA ImagesJournaled ==
  ASSUME Shape, NEW m \in Modules,
         JournalImage(m) \/ RestampAfter(m) \/ CompleteModule(m) \/ Release(m)
  PROVE  steps # <<>> /\ (steps' = steps \/ \E image \in Images \cup {None} : steps' = SetImage(m, image))
<1> DEFINE Goal == steps # <<>> /\ (steps' = steps \/ \E image \in Images \cup {None} : steps' = SetImage(m, image))
<1>1. ASSUME JournalImage(m) PROVE Goal
  <2>1. steps # <<>>
    BY <1>1 DEF JournalImage, Shape, OpShape, Stepping
  <2>2. op.before[m] \in Contents /\ op.text[m] \in Texts \cup {None}
    BY <1>1, NotedTyped DEF JournalImage, Shape, OpShape
  <2>3. [before |-> op.before[m],
         after |-> IF op.text[m] # None THEN op.text[m]
                   ELSE IF op.before[m] # Absent THEN op.before[m] ELSE None] \in Images
    BY <2>2 DEF Images, Contents
  <2> QED
    BY <1>1, <2>1, <2>3 DEF JournalImage
<1>2. ASSUME RestampAfter(m) PROVE Goal
  <2>1. steps # <<>> /\ Top.image[m] \in Images /\ disk[m] \in Contents
    BY <1>2, NotedTyped DEF RestampAfter
  <2>2. disk[m] # Absent => [Top.image[m] EXCEPT !.after = disk[m]] \in Images
    BY <2>1 DEF Images, Contents
  <2> QED
    BY <1>2, <2>1, <2>2 DEF RestampAfter
<1>3. ASSUME CompleteModule(m) PROVE Goal
  <2>1. steps # <<>> /\ Top.image[m] \in Images /\ disk[m] \in Contents
    BY <1>3, NotedTyped DEF CompleteModule
  <2>2. [Top.image[m] EXCEPT !.after = IF disk[m] = Absent THEN None ELSE disk[m]] \in Images
    BY <2>1 DEF Images, Contents
  <2> QED
    BY <1>3, <2>1, <2>2 DEF CompleteModule
<1>4. ASSUME Release(m) PROVE Goal
  BY <1>4, NotedTyped DEF Release
<1> QED
  BY <1>1, <1>2, <1>3, <1>4

\* Step rows.
LEMMA StepsTyped ==
  ASSUME Shape, [Next]_vars
  PROVE  steps' \in Seq(Steps) /\ Ascending(steps')
<1> DEFINE Goal == steps' \in Seq(Steps) /\ Ascending(steps')
<1>0. TypeOK /\ Ascending(steps) /\ steps \in Seq(Steps)
  BY DEF Shape, JournalShape, TypeOK
<1>1. CASE UNCHANGED steps
  BY <1>0, <1>1
<1>2. CASE Drop
  BY <1>2, EmptySeq DEF Drop, Ascending
<1>3. ASSUME Finalize PROVE Goal
  BY <1>0, <1>3, TopFinished DEF Finalize, Shape, OpShape, Stepping
<1>4. ASSUME FinalizeUndo PROVE Goal
  BY <1>0, <1>4, Restored, StepDropped DEF FinalizeUndo
<1>5. ASSUME UnwindOver PROVE Goal
  BY <1>0, <1>5, Restored, StepDropped DEF UnwindOver
<1>6. ASSUME NEW mods \in SUBSET Modules, BeginStep(mods) PROVE Goal
  BY <1>0, <1>6, StepBegun DEF BeginStep, NewStep
<1>7. ASSUME NEW m \in Modules, JournalImage(m) \/ RestampAfter(m) \/ CompleteModule(m) \/ Release(m)
      PROVE  Goal
  <2>1. steps # <<>> /\ (steps' = steps \/ \E image \in Images \cup {None} : steps' = SetImage(m, image))
    BY <1>7, ImagesJournaled
  <2> QED
    BY <1>0, <1>1, <2>1, ImageSet
<1> QED
  BY <1>1, <1>2, <1>3, <1>4, <1>5, <1>6, <1>7, WhoJournals

\* Every step keeps the types.
LEMMA TypesKept ==
  ASSUME Shape, [Next]_vars
  PROVE  TypeOK'
BY OpTyped, DiskTyped, KnownTyped, BaselineTyped, HistoryTyped, IntentTyped, UsedTyped, StepsTyped
   DEF TypeOK

\* An operation that is over leaves nothing behind.
LEMMA IntoIdle ==
  ASSUME Shape, [Next]_vars, op'.pc \in {"idle", "down"}
  PROVE  op' = op \/ op' \in {Idle, Down}
<1>1. op' = op \/ Crash \/ CommitOwn \/ RecoverEnd \/ FinalizeRevert \/ PutThrows
      \/ Startup \/ RefusePlan \/ Finalize \/ StepThrows \/ UndoRefused \/ Unrestored \/ FinalizeUndo
      \/ \E m \in Modules : PutFile(m) \/ NoteKnown(m)
  BY PhaseAfter DEF Save, Start, Track, NoteWrite, Commit, Next, Request, Proceed, Fault, vars
<1>2. ASSUME Crash \/ CommitOwn \/ RecoverEnd \/ FinalizeRevert \/ PutThrows
             \/ \E m \in Modules : NoteKnown(m)
      PROVE  op' \in {Idle, Down}
  BY <1>2 DEF Crash, CommitOwn, RecoverEnd, FinalizeRevert, PutThrows, NoteKnown
<1>3. ASSUME Startup \/ RefusePlan \/ StepThrows \/ UndoRefused \/ Unrestored \/ FinalizeUndo
      PROVE  op' = Idle
  BY <1>3, ZenonT(40) DEF Startup, RefusePlan, StepThrows, UndoRefused, Unrestored, FinalizeUndo, AfterUndo, RefuseOwn,
              StartRecovery, RecoverFrom, Idle
<1>4. ASSUME Finalize PROVE op' = Idle
  BY <1>4 DEF Finalize, Idle
<1>5. ASSUME NEW m \in Modules, PutFile(m) PROVE op' = Idle
  BY <1>5 DEF PutFile, Shape, TypeOK, Ops
<1> QED
  BY <1>1, <1>2, <1>3, <1>4, <1>5

-----------------------------------------------------------------------------
(***************************************************************************)
(* Shape: the journal, the operation and its phase                         *)
(***************************************************************************)
\* While no transaction is open nothing is journaled, and none is opened but by Start and OpenStep.
LEMMA ClosedStaysEmpty ==
  ASSUME Shape, [Next]_vars, tx' = "none"
  PROVE  /\ baseline' = NoRows /\ steps' = <<>> /\ intent' = NoIntent /\ due' = {}
         /\ op'.pc \in {"idle", "down", "putting"}
<1>1. CASE Drop /\ (Commit \/ CommitOwn \/ FinalizeRevert \/ RecoverEnd)
  <2>1. op'.pc = "idle"
    BY <1>1 DEF Commit, CommitOwn, FinalizeRevert, RecoverEnd, Idle
  <2> QED
    BY <1>1, <2>1 DEF Drop
<1>2. CASE tx = "none"
  <2>1. /\ baseline = NoRows /\ steps = <<>> /\ intent = NoIntent /\ due = {}
        /\ op.pc \in {"idle", "down", "putting"}
    BY <1>2 DEF Shape, JournalShape
  <2>2. intent.kind = "none"
    BY <2>1 DEF NoIntent
  <2>3. baseline' = NoRows
    BY <1>2, <2>1, WhoTracks DEF Drop, Track, JournalImage, Release, WriteFile
  <2>4. steps' = <<>>
    BY <2>1, <2>2, WhoJournals
       DEF Drop, Finalize, FinalizeUndo, UnwindOver, BeginStep, JournalImage, RestampAfter, CompleteModule, Release
  <2>5. intent' = NoIntent
    BY <1>2, <2>1, WhoIntends DEF Drop, Undo, Revert, FinalizeUndo
  <2>6. due' = {}
    BY <1>2, <2>1, WhoOwes DEF Drop, PutThrows, Finalize, Track, PutFile, WriteModule, WriteThrows
  <2>7. op'.pc \in {"idle", "down", "putting"}
    <3>1. op' = op \/ Startup \/ Crash \/ PutThrows
          \/ \E m \in Modules : PutFile(m) \/ \E c \in Contents : WriteFile(m, c)
      BY <1>2, <2>1, <2>2
         DEF Next, Request, Proceed, Fault, vars, Save, Start, Track, NoteWrite, Commit, Undo, ResumeUndo,
             Revert, ResumeRevert, OpenStep, RefusePlan, BeginStep, NotAsPlanned, FixWritten, Finalize,
             CommitOwn, UndoRefused, Remember, Shape, OpShape, Unrestored, FinalizeUndo, FinalizeRevert,
             RestoresOver, RecoverIntent, UnwindStep, UnwindOver, RecoverEnd, NoteKnown, JournalImage,
             WriteModule, WriteRefused, RestampAfter, CompleteModule, Release, Restore, Conflict,
             UnwindFound, UnwindRestore, UnwindConflict, Unwinding, StepThrows, WriteThrows, RestoreFails,
             UnwindFails, UnwindBlocked
    <3>2. Startup => op' = Idle
      BY <1>2 DEF Startup
    <3>3. \A m \in Modules : PutFile(m) => op' = Idle
      BY <1>2 DEF PutFile
    <3> QED
      BY <2>1, <3>1, <3>2, <3>3, PhaseAfter DEF PutThrows, Idle
  <2> QED
    BY <2>3, <2>4, <2>5, <2>6, <2>7
<1> QED
  BY <1>1, <1>2, WhoCloses

\* Every action but those that drop a step keeps the numbers of the journal.
LEMMA NumbersKept ==
  ASSUME Shape, [Next]_vars, NEW s \in ToSet(steps)
  PROVE  Drop \/ FinalizeUndo \/ UnwindOver \/ \E t \in ToSet(steps') : t.no = s.no
<1> DEFINE Goal == \E t \in ToSet(steps') : t.no = s.no
<1>0. TypeOK /\ Ascending(steps)
  BY DEF Shape, JournalShape
<1>1. CASE UNCHANGED steps
  BY <1>1
<1>2. ASSUME steps # <<>>, steps' \in Seq(Steps),
             ToSet(steps') = Below \cup {steps'[Len(steps')]}, steps'[Len(steps')].no = Top.no
      PROVE  Goal
  BY <1>0, <1>2, StepFacts
<1>3. ASSUME NEW m \in Modules, NEW image \in Images \cup {None}, steps # <<>>, steps' = SetImage(m, image)
      PROVE  Goal
  <2>1. Top \in Steps
    BY <1>0, <1>3, StepFacts
  <2>2. /\ steps' \in Seq(Steps)
        /\ steps'[Len(steps')] = [Top EXCEPT !.image = [Top.image EXCEPT ![m] = image]]
        /\ ToSet(steps') = Below \cup {steps'[Len(steps')]}
    BY <1>0, <1>3, ImageSet
  <2>3. steps'[Len(steps')].no = Top.no
    BY <2>1, <2>2 DEF Steps
  <2> QED
    BY <1>2, <1>3, <2>2, <2>3
<1>4. ASSUME Finalize PROVE Goal
  <2>1. steps # <<>>
    BY <1>4 DEF Finalize, Shape, OpShape, Stepping
  <2>2. Top \in Steps /\ steps' = [steps EXCEPT ![Len(steps)].done = TRUE]
    BY <1>0, <1>4, <2>1, StepFacts DEF Finalize
  <2>3. steps'[Len(steps')].no = Top.no
    BY <1>0, <2>1, <2>2, TopFinished DEF Steps
  <2> QED
    BY <1>0, <1>2, <2>1, <2>2, <2>3, TopFinished
<1>5. ASSUME NEW mods \in SUBSET Modules, BeginStep(mods) PROVE Goal
  BY <1>0, <1>5, StepBegun DEF BeginStep, NewStep
<1>6. ASSUME NEW m \in Modules, JournalImage(m) \/ RestampAfter(m) \/ CompleteModule(m) \/ Release(m)
      PROVE  Goal
  <2>1. steps # <<>> /\ (steps' = steps \/ \E image \in Images \cup {None} : steps' = SetImage(m, image))
    BY <1>6, ImagesJournaled
  <2> QED
    BY <1>1, <1>3, <2>1
<1> QED
  BY <1>1, <1>4, <1>5, <1>6, WhoJournals

\* What an image of the newest step changes.
LEMMA TopImaged ==
  ASSUME Shape, steps # <<>>, NEW m \in Modules, NEW image \in Images \cup {None}, steps' = SetImage(m, image)
  PROVE  /\ steps' # <<>> /\ Top \in Steps /\ Top' \in Steps
         /\ Top'.no = Top.no /\ Top'.done = Top.done
         /\ Top'.image = [Top.image EXCEPT ![m] = image]
         /\ Below' = Below /\ ToSet(steps') = Below \cup {Top'}
         /\ Planned' = IF image = None THEN Planned \ {m} ELSE Planned \cup {m}
<1>0. TypeOK /\ Ascending(steps)
  BY DEF Shape, JournalShape
<1>1. Top \in Steps
  BY <1>0, StepFacts
<1>2. /\ steps' \in Seq(Steps) /\ steps' # <<>>
      /\ Top' = [Top EXCEPT !.image = [Top.image EXCEPT ![m] = image]]
      /\ ToSet(steps') = Below \cup {Top'}
  BY <1>0, ImageSet DEF Top
<1>3. /\ Top' \in Steps /\ Top'.no = Top.no /\ Top'.done = Top.done
      /\ Top'.image = [Top.image EXCEPT ![m] = image]
  BY <1>1, <1>2 DEF Steps
<1>4. Below' = {s \in ToSet(steps') : s.no # Top'.no}
  BY DEF Below
<1>5. Below' = Below
  BY <1>2, <1>3, <1>4 DEF Below
<1>6. Planned' = {n \in Modules : Top'.image[n] # None} /\ Planned = {n \in Modules : Top.image[n] # None}
  BY DEF Planned, Covered
<1>7. \A n \in Modules : Top'.image[n] = IF n = m THEN image ELSE Top.image[n]
  BY <1>1, <1>3 DEF Steps
<1> QED
  BY <1>1, <1>2, <1>3, <1>5, <1>6, <1>7

\* What a new step changes.
LEMMA TopBegun ==
  ASSUME Shape, NEW mods \in SUBSET Modules, BeginStep(mods)
  PROVE  /\ steps' # <<>> /\ Top' \in Steps /\ Top' = NewStep /\ ~ Top'.done
         /\ Below' = ToSet(steps) /\ ToSet(steps') = ToSet(steps) \cup {Top'}
         /\ Planned' = {}
<1>0. TypeOK /\ Ascending(steps)
  BY DEF Shape, JournalShape
<1>1. steps' = Append(steps, NewStep)
  BY DEF BeginStep, NewStep
<1>2. /\ steps' \in Seq(Steps) /\ steps' # <<>>
      /\ Top' = NewStep
      /\ ToSet(steps') = ToSet(steps) \cup {NewStep}
      /\ \A s \in ToSet(steps) : s.no # NewStep.no
  BY <1>0, <1>1, StepBegun DEF Top
<1>3. Top' \in Steps
  BY <1>2, ToSetIs DEF Top
<1>4. Below' = {s \in ToSet(steps') : s.no # Top'.no}
  BY DEF Below
<1>5. Planned' = {n \in Modules : Top'.image[n] # None}
  BY DEF Planned, Covered
<1> QED
  BY <1>2, <1>3, <1>4, <1>5 DEF NewStep, NoRows

\* What finalizing changes.
LEMMA TopFinalized ==
  ASSUME Shape, Finalize
  PROVE  /\ steps # <<>> /\ steps' # <<>> /\ Top \in Steps /\ Top' \in Steps
         /\ Top'.no = Top.no /\ Top'.done /\ Top'.image = Top.image
         /\ Below' = Below /\ ToSet(steps') = Below \cup {Top'}
         /\ Planned' = Planned
<1>0. TypeOK /\ Ascending(steps)
  BY DEF Shape, JournalShape
<1>1. steps # <<>>
  BY DEF Finalize, Shape, OpShape, Stepping
<1>2. Top \in Steps /\ steps' = [steps EXCEPT ![Len(steps)].done = TRUE]
  BY <1>0, <1>1, StepFacts DEF Finalize
<1>3. /\ steps' \in Seq(Steps) /\ steps' # <<>>
      /\ Top' = [Top EXCEPT !.done = TRUE]
      /\ ToSet(steps') = Below \cup {Top'}
  BY <1>0, <1>1, <1>2, TopFinished DEF Top
<1>4. /\ Top' \in Steps /\ Top'.no = Top.no /\ Top'.done /\ Top'.image = Top.image
  BY <1>2, <1>3 DEF Steps
<1>5. Below' = {s \in ToSet(steps') : s.no # Top'.no}
  BY DEF Below
<1>6. Below' = Below
  BY <1>3, <1>4, <1>5 DEF Below
<1>7. Planned' = {n \in Modules : Top'.image[n] # None} /\ Planned = {n \in Modules : Top.image[n] # None}
  BY DEF Planned, Covered
<1> QED
  BY <1>1, <1>2, <1>3, <1>4, <1>6, <1>7

\* The four actions that image the newest step leave it unfinished.
LEMMA TopStaysOpen ==
  ASSUME Shape, NEW m \in Modules,
         JournalImage(m) \/ RestampAfter(m) \/ CompleteModule(m) \/ Release(m)
  PROVE  steps' # <<>> /\ Top'.no = Top.no /\ Below' = Below /\ (op.pc \in Stepping => ~ Top'.done)
<1>1. steps # <<>> /\ (steps' = steps \/ \E image \in Images \cup {None} : steps' = SetImage(m, image))
  BY ImagesJournaled
<1>2. CASE steps' = steps
  BY <1>1, <1>2 DEF Top, Below, Shape, OpShape
<1>3. CASE \E image \in Images \cup {None} : steps' = SetImage(m, image)
  BY <1>1, <1>3, TopImaged DEF Shape, OpShape
<1> QED
  BY <1>1, <1>2, <1>3

\* The fields of the operations the daemon begins with.
LEMMA Fields ==
  /\ Idle.pc = "idle" /\ Idle.then = "rpc" /\ Idle.hold = "joined" /\ Idle.cur = None /\ ~ Idle.kept
  /\ Down.pc = "down" /\ Down.then = "rpc" /\ Down.hold = "joined" /\ Down.cur = None /\ ~ Down.kept
  /\ RefuseOwn.pc = "refusing" /\ RefuseOwn.then = "step" /\ RefuseOwn.hold = "own" /\ RefuseOwn.cur = None
  /\ ~ RefuseOwn.kept
  /\ \A no : /\ RecoverFrom(no).pc = "recovering" /\ RecoverFrom(no).then = "recover" /\ RecoverFrom(no).hold = "joined"
             /\ RecoverFrom(no).cur = None /\ RecoverFrom(no).at = no /\ ~ RecoverFrom(no).kept
<1>1. /\ Idle.pc = "idle" /\ Idle.then = "rpc" /\ Idle.hold = "joined" /\ Idle.cur = None /\ ~ Idle.kept
  BY DEF Idle
<1>2. /\ Down.pc = "down" /\ Down.then = "rpc" /\ Down.hold = "joined" /\ Down.cur = None /\ ~ Down.kept
  BY DEF Down, Idle
<1>3. /\ RefuseOwn.pc = "refusing" /\ RefuseOwn.then = "step" /\ RefuseOwn.hold = "own" /\ RefuseOwn.cur = None
      /\ ~ RefuseOwn.kept
  BY DEF RefuseOwn, Idle
<1>4. ASSUME NEW no
      PROVE  /\ RecoverFrom(no).pc = "recovering" /\ RecoverFrom(no).then = "recover" /\ RecoverFrom(no).hold = "joined"
             /\ RecoverFrom(no).cur = None /\ RecoverFrom(no).at = no /\ ~ RecoverFrom(no).kept
  BY DEF RecoverFrom, Idle
<1> QED
  BY <1>1, <1>2, <1>3, <1>4

\* Every step keeps the journal in shape.
LEMMA JournalShapeKept ==
  ASSUME Shape, [Next]_vars
  PROVE  JournalShape'
<1>1. Ascending(steps')
  BY StepsTyped
<1>2. intent'.kind = "none" => intent' = NoIntent
  BY WhoIntends DEF Drop, Undo, Revert, FinalizeUndo, NoIntent, Shape, JournalShape
<1>3. ASSUME intent'.kind = "undo" PROVE \E s \in ToSet(steps') : s.no = intent'.no
  <2>1. ASSUME Undo PROVE \E s \in ToSet(steps') : s.no = intent'.no
    <3>1. TypeOK /\ Ascending(steps) /\ steps # <<>> /\ steps' = steps /\ intent'.no = Top.no
      BY <2>1 DEF Undo, NoIntent, Shape, JournalShape
    <3> QED
      BY <3>1, StepFacts
  <2>2. CASE UNCHANGED intent
    <3>1. PICK s \in ToSet(steps) : s.no = intent.no
      BY <1>3, <2>2 DEF Shape, JournalShape, IntentHasItsStep
    <3>2. ~ Drop /\ ~ FinalizeUndo /\ ~ UnwindOver
      BY <1>3, <2>2 DEF Drop, FinalizeUndo, UnwindOver, NoIntent, Shape, PhaseShape
    <3> QED
      BY <2>2, <3>1, <3>2, NumbersKept
  <2>3. Revert => intent'.kind = "revert"
    BY DEF Revert, NoIntent
  <2>4. Drop \/ FinalizeUndo => intent'.kind = "none"
    BY DEF Drop, FinalizeUndo, NoIntent
  <2> QED
    BY <1>3, <2>1, <2>2, <2>3, <2>4, WhoIntends
<1> QED
  BY <1>1, <1>2, <1>3, ClosedStaysEmpty DEF JournalShape, IntentHasItsStep

\* What leaves the operation alone leaves the journal alone.
LEMMA StillShape ==
  ASSUME Shape, Still
  PROVE  OpShape' /\ PhaseShape'
<1>1. op' = op /\ steps' = steps /\ intent' = intent /\ baseline' = baseline
  BY DEF Still, Save, vars, journal
<1> QED
  BY <1>1 DEF Shape, OpShape, PhaseShape, Own, Stepping, Handled, Tracked, Written, Planned, Top

\* Requests of clients, and the phases of a gated write.
LEMMA OpShapeOfGated ==
  ASSUME Shape, [Next]_vars, op'.pc \in {"idle", "down", "putting", "noting"}
  PROVE  OpShape'
<1>1. CASE Still
  BY <1>1, StillShape
<1>2. CASE op'.pc \in {"idle", "down"}
  <2>1. op' = op \/ op' \in {Idle, Down}
    BY <1>2, IntoIdle
  <2>2. op' \in {Idle, Down}
    BY <1>2, <2>1 DEF Shape, OpShape
  <2>3. op'.then = "rpc" /\ op'.hold = "joined" /\ op'.cur = None
        /\ (op'.pc = "idle" => op' = Idle) /\ (op'.pc = "down" => op' = Down)
    BY <2>2, Fields
  <2> QED
    BY <1>2, <2>3 DEF OpShape, Own, Stepping
<1>3. ASSUME NEW m \in Modules, NEW c \in Contents, WriteFile(m, c) PROVE OpShape'
  BY <1>3, ConstantsAssumption DEF WriteFile, OpShape, Own, Stepping, Idle, NoRows, Contents
<1>4. ASSUME NEW m \in Modules, PutFile(m), op'.pc = "noting" PROVE OpShape'
  BY <1>4 DEF PutFile, OpShape, Own, Stepping, Idle, Shape, TypeOK, Ops
<1> QED
  BY <1>1, <1>2, <1>3, <1>4, IntoPutting, IntoNoting

\* The phases of a step.
LEMMA OpShapeOfStep ==
  ASSUME Shape, [Next]_vars, op'.pc \in Stepping \cup {"checked", "committing", "refusing"}
  PROVE  OpShape'
<1>0. op \in Ops
  BY DEF Shape, TypeOK
<1>1. CASE Still
  BY <1>1, StillShape
<1>2. ASSUME NEW text \in [Modules -> Texts \cup {None}], OpenStep(text) PROVE OpShape'
  <2>1. intent = NoIntent \/ op'.hold = "joined"
    BY <1>2 DEF OpenStep, Idle, Shape, JournalShape
  <2>2. op'.pc = "checked" /\ op'.then = "step" /\ op'.cur = None /\ op'.text = text /\ intent' = intent
    BY <1>2 DEF OpenStep, Idle
  <2> QED
    BY <2>1, <2>2 DEF OpShape, Own, Stepping
<1>3. ASSUME NEW mods \in SUBSET Modules, BeginStep(mods) PROVE OpShape'
  <2>1. steps' # <<>> /\ ~ Top'.done
    BY <1>3, TopBegun
  <2> QED
    BY <1>0, <1>3, <2>1 DEF BeginStep, Shape, OpShape, Own, Stepping, Ops
<1>4. ASSUME NEW m \in Modules, JournalImage(m) \/ RestampAfter(m) \/ CompleteModule(m) \/ Release(m)
      PROVE  OpShape'
  <2>1. steps' # <<>> /\ (op.pc \in Stepping => ~ Top'.done)
    BY <1>4, TopStaysOpen
  <2>2. op.pc \in Stepping
    BY <1>4 DEF JournalImage, RestampAfter, CompleteModule, Release, Stepping
  <2>3. intent' = intent
    BY <1>4 DEF JournalImage, RestampAfter, CompleteModule, Release
  <2>4. op'.pc \in Stepping /\ op'.then = op.then /\ op'.hold = op.hold /\ op'.text = op.text /\ op'.cur = op.cur
    BY <1>0, <1>4 DEF JournalImage, RestampAfter, CompleteModule, Release, Stepping, Ops
  <2>5. op'.pc \in {"journaling", "writing"} => op.pc \in {"journaling", "writing"}
    BY <1>0, <1>4 DEF JournalImage, RestampAfter, CompleteModule, Release, Ops
  <2> QED
    BY <2>1, <2>2, <2>3, <2>4, <2>5 DEF Shape, OpShape, Own, Stepping
<1>5. ASSUME NEW m \in Modules, WriteModule(m) PROVE OpShape'
  BY <1>0, <1>5 DEF WriteModule, journal, Shape, OpShape, Own, Stepping, Ops, Top
<1>6. ASSUME NotAsPlanned \/ \E m \in Modules : WriteRefused(m) \/ WriteThrows(m) PROVE OpShape'
  <2>1. /\ op.pc = "writing" /\ (\E landed, threw : op' = Fail(landed, threw))
        /\ steps' = steps /\ intent' = intent
    BY <1>6 DEF NotAsPlanned, WriteRefused, WriteThrows, journal
  <2>2. op'.pc = "releasing" /\ op'.then = "step" /\ op'.hold = op.hold /\ op'.cur = None
    BY <2>1 DEF Fail, Idle
  <2> QED
    BY <2>1, <2>2 DEF Shape, OpShape, Own, Stepping, Top
<1>7. ASSUME NEW ran \in BOOLEAN, FixWritten(ran) PROVE OpShape'
  BY <1>0, <1>7 DEF FixWritten, Idle, journal, Shape, OpShape, Own, Stepping, Ops, Top
<1>8. ASSUME Finalize, op'.pc = "committing" PROVE OpShape'
  BY <1>0, <1>8 DEF Finalize, Idle, Shape, OpShape, Own, Stepping, Ops
<1>9. ASSUME RefusePlan \/ FinalizeUndo, op'.pc = "refusing" PROVE OpShape'
  <2>1. op' = RefuseOwn
    BY <1>9, Fields DEF RefusePlan, FinalizeUndo, AfterUndo
  <2>2. intent' = NoIntent
    <3>1. CASE FinalizeUndo
      BY <3>1 DEF FinalizeUndo
    <3>2. CASE RefusePlan
      <4>1. op.pc = "checked" /\ intent' = intent /\ op.hold = "own"
        BY <1>9, <3>2, Fields DEF RefusePlan, journal
      <4> QED
        BY <4>1 DEF Shape, OpShape, Own
    <3> QED
      BY <1>9, <3>1, <3>2
  <2> QED
    BY <2>1, <2>2, Fields DEF OpShape, Own, Stepping
<1> QED
  BY <1>1, <1>2, <1>3, <1>4, <1>5, <1>6, <1>7, <1>8, <1>9, IntoChecked, IntoJournaling, IntoWriting, IntoReleasing,
     IntoRestamping, IntoSettling, IntoFinishing, IntoCommitting, IntoRefusing DEF Stepping

\* The phases of undo, revert and recovery.
LEMMA OpShapeOfRecovery ==
  ASSUME Shape, [Next]_vars, op'.pc \in {"restoring", "recovering", "unwinding"}
  PROVE  OpShape'
<1>0. op \in Ops
  BY DEF Shape, TypeOK
<1>1. CASE Still
  BY <1>1, StillShape
<1>2. ASSUME Undo \/ ResumeUndo \/ Revert \/ ResumeRevert \/ RecoverIntent PROVE OpShape'
  <2>1. op'.pc = "restoring" /\ op'.then = op.then /\ op'.hold = op.hold /\ op'.cur = None
    BY <1>2, ZenonT(40) DEF Undo, ResumeUndo, Revert, ResumeRevert, RecoverIntent, Restoring, Idle
  <2> QED
    BY <2>1 DEF Shape, OpShape, Own, Stepping
<1>3. ASSUME NEW m \in Modules, Restore(m) \/ Conflict(m) \/ RestoreFails(m) PROVE OpShape'
  BY <1>0, <1>3, ZenonT(40) DEF Restore, Conflict, RestoreFails, Shape, OpShape, Own, Stepping, Ops
<1>4. ASSUME Remember PROVE OpShape'
  BY <1>0, <1>4 DEF Remember, Shape, OpShape, Own, Stepping, Ops
<1>5. ASSUME Startup \/ StepThrows \/ UndoRefused \/ Unrestored \/ FinalizeUndo, op'.pc = "recovering"
      PROVE  OpShape'
  <2>1. \E no \in {0, NextStepNo} : op' = RecoverFrom(no)
    BY <1>5, Fields DEF Startup, StepThrows, UndoRefused, Unrestored, FinalizeUndo, AfterUndo, StartRecovery
  <2> QED
    BY <2>1, Fields DEF OpShape, Own, Stepping
<1>6. ASSUME UnwindOver PROVE OpShape'
  BY <1>0, <1>6 DEF UnwindOver, Shape, OpShape, Own, Stepping, Ops
<1>7. ASSUME UnwindStep PROVE OpShape'
  BY <1>0, <1>7 DEF UnwindStep, Shape, OpShape, Own, Stepping, Ops
<1>8. ASSUME NEW m \in Modules,
             UnwindFound(m) \/ UnwindRestore(m) \/ UnwindConflict(m) \/ UnwindFails(m) \/ UnwindBlocked(m)
      PROVE  OpShape'
  BY <1>0, <1>8, ZenonT(40) DEF UnwindFound, UnwindRestore, UnwindConflict, UnwindFails, UnwindBlocked, Unwinding, Shape,
     OpShape, Own, Stepping, Ops
<1> QED
  BY <1>1, <1>2, <1>3, <1>4, <1>5, <1>6, <1>7, <1>8, IntoRestoring, IntoUnwinding, IntoRecovering

\* Every step leaves the operation in a phase with the fields of that phase.
LEMMA OpShapeKept ==
  ASSUME Shape, [Next]_vars
  PROVE  OpShape'
<1>1. op'.pc \in {"down", "idle", "putting", "noting", "checked", "journaling", "writing", "releasing",
                  "restamping", "settling", "finishing", "committing", "refusing",
                  "restoring", "recovering", "unwinding"}
  BY OpTyped DEF Ops
<1> QED
  BY <1>1, OpShapeOfGated, OpShapeOfStep, OpShapeOfRecovery DEF Stepping

\* An image is told from no row.
LEMMA NoneIsNoImage == \A image \in Images : image # None
BY ConstantsAssumption DEF Images, Contents

\* What each action that images the newest step writes there.
LEMMA ImageJournaled ==
  ASSUME Shape, NEW m \in Modules, JournalImage(m)
  PROVE  /\ steps # <<>> /\ m \in op.todo /\ m \notin Planned
         /\ Top' \in Steps /\ Top'.no = Top.no /\ Top'.done = Top.done
         /\ Top'.image[m].before = op.before[m]
         /\ Top'.image[m].after = IF op.text[m] # None THEN op.text[m]
                                  ELSE IF op.before[m] # Absent THEN op.before[m] ELSE None
         /\ \A n \in Modules \ {m} : Top'.image[n] = Top.image[n]
         /\ Planned' = Planned \cup {m}
         /\ Below' = Below /\ ToSet(steps') = Below \cup {Top'}
<1> DEFINE image == [before |-> op.before[m],
                     after |-> IF op.text[m] # None THEN op.text[m]
                               ELSE IF op.before[m] # Absent THEN op.before[m] ELSE None]
<1>1. steps # <<>> /\ m \in op.todo /\ m \notin Planned
  BY DEF JournalImage, Shape, OpShape, PhaseShape, Stepping
<1>2. op.before[m] \in Contents /\ op.text[m] \in Texts \cup {None}
  BY NotedTyped DEF JournalImage, Shape, OpShape
<1>3. image \in Images /\ steps' = SetImage(m, image)
  BY <1>2 DEF Images, Contents, JournalImage
<1>4. /\ image.before = op.before[m]
      /\ image.after = IF op.text[m] # None THEN op.text[m]
                       ELSE IF op.before[m] # Absent THEN op.before[m] ELSE None
  OBVIOUS
<1> HIDE DEF image
<1>5. image # None
  BY <1>3, NoneIsNoImage
<1>6. /\ Top \in Steps /\ Top' \in Steps /\ Top'.no = Top.no /\ Top'.done = Top.done
      /\ Top'.image = [Top.image EXCEPT ![m] = image]
      /\ Below' = Below /\ ToSet(steps') = Below \cup {Top'}
      /\ Planned' = Planned \cup {m}
  BY <1>1, <1>3, <1>5, TopImaged
<1>7. \A n \in Modules : Top'.image[n] = IF n = m THEN image ELSE Top.image[n]
  BY <1>6 DEF Steps
<1> QED
  BY <1>1, <1>4, <1>6, <1>7

\* A restamp or a settled module changes an image's output, and nothing else.
LEMMA ImageStamped ==
  ASSUME Shape, NEW m \in Modules, RestampAfter(m) \/ CompleteModule(m)
  PROVE  /\ steps # <<>> /\ Top \in Steps /\ m \in op.todo /\ m \in Planned
         /\ Top' \in Steps /\ Top'.no = Top.no /\ Top'.done = Top.done
         /\ Top'.image[m].before = Top.image[m].before
         /\ \A n \in Modules \ {m} : Top'.image[n] = Top.image[n]
         /\ Planned' = Planned
         /\ Below' = Below /\ ToSet(steps') = Below \cup {Top'}
         /\ RestampAfter(m) => Top'.image[m].after = IF disk[m] = Absent THEN Top.image[m].after ELSE disk[m]
         /\ CompleteModule(m) =>
               Top'.image[m].after = IF Top.image[m].after # None THEN Top.image[m].after
                                     ELSE IF disk[m] = Absent THEN None ELSE disk[m]
<1> DEFINE after == IF RestampAfter(m) THEN disk[m] ELSE IF disk[m] = Absent THEN None ELSE disk[m]
           image == [Top.image[m] EXCEPT !.after = after]
<1>0. TypeOK /\ Ascending(steps)
  BY DEF Shape, JournalShape
<1>1. /\ steps # <<>> /\ m \in op.todo /\ m \in Planned /\ Top.image[m] \in Images /\ disk[m] \in Contents
      /\ Top \in ToSet(steps) /\ ToSet(steps) = Below \cup {Top} /\ Top \in Steps
  BY <1>0, NotedTyped, StepFacts DEF RestampAfter, CompleteModule, Shape, PhaseShape
<1>2. ~ (RestampAfter(m) /\ CompleteModule(m))
  BY DEF RestampAfter, CompleteModule
<1>3. CASE steps' = steps
  <2>1. Top' = Top /\ Below' = Below /\ Planned' = Planned
    BY <1>3 DEF Top, Below, Planned
  <2>2. RestampAfter(m) => disk[m] = Absent \/ Top.image[m].after = disk[m]
    <3>1. SUFFICES ASSUME RestampAfter(m), disk[m] # Absent
                   PROVE  Top.image[m].after = disk[m]
      OBVIOUS
    <3>2. disk[m] \in Texts /\ steps' = SetImage(m, [Top.image[m] EXCEPT !.after = disk[m]])
      BY <1>1, <3>1 DEF RestampAfter, Contents
    <3>3. [Top.image[m] EXCEPT !.after = disk[m]] \in Images
      BY <1>1, <3>2 DEF Images
    <3>4. Top'.image = [Top.image EXCEPT ![m] = [Top.image[m] EXCEPT !.after = disk[m]]]
      BY <1>1, <3>2, <3>3, TopImaged
    <3>5. Top'.image[m].after = disk[m]
      BY <1>1, <3>4 DEF Steps, Images
    <3> QED
      BY <2>1, <3>5
  <2>3. CompleteModule(m) => Top.image[m].after # None \/ Top.image[m].after = IF disk[m] = Absent THEN None ELSE disk[m]
    <3>1. SUFFICES ASSUME CompleteModule(m), Top.image[m].after = None
                   PROVE  Top.image[m].after = IF disk[m] = Absent THEN None ELSE disk[m]
      OBVIOUS
    <3> DEFINE out == IF disk[m] = Absent THEN None ELSE disk[m]
    <3>2. out \in Texts \cup {None} /\ steps' = SetImage(m, [Top.image[m] EXCEPT !.after = out])
      BY <1>1, <3>1 DEF CompleteModule, Contents
    <3> HIDE DEF out
    <3>3. [Top.image[m] EXCEPT !.after = out] \in Images
      BY <1>1, <3>2 DEF Images
    <3>4. Top'.image = [Top.image EXCEPT ![m] = [Top.image[m] EXCEPT !.after = out]]
      BY <1>1, <3>2, <3>3, TopImaged
    <3>5. Top'.image[m].after = out
      BY <1>1, <3>4 DEF Steps, Images
    <3> QED
      BY <2>1, <3>5 DEF out
  <2> QED
    BY <1>1, <1>3, <2>1, <2>2, <2>3
<1>4. CASE steps' # steps
  <2>1. /\ RestampAfter(m) => disk[m] # Absent
        /\ CompleteModule(m) => Top.image[m].after = None
        /\ steps' = SetImage(m, image)
        /\ after \in Texts \cup {None}
    BY <1>1, <1>2, <1>4 DEF RestampAfter, CompleteModule, Contents
  <2> HIDE DEF after
  <2>2. image \in Images /\ image.before = Top.image[m].before /\ image.after = after
    BY <1>1, <2>1 DEF Images
  <2> HIDE DEF image
  <2>3. image # None
    BY <2>2, NoneIsNoImage
  <2>4. /\ Top' \in Steps /\ Top'.no = Top.no /\ Top'.done = Top.done
        /\ Top'.image = [Top.image EXCEPT ![m] = image]
        /\ Below' = Below /\ ToSet(steps') = Below \cup {Top'}
        /\ Planned' = Planned \cup {m}
    BY <1>1, <2>1, <2>2, <2>3, TopImaged
  <2>5. \A n \in Modules : Top'.image[n] = IF n = m THEN image ELSE Top.image[n]
    BY <1>1, <2>4 DEF Steps
  <2> QED
    BY <1>1, <1>2, <2>1, <2>2, <2>4, <2>5 DEF after
<1> QED
  BY <1>3, <1>4

\* A released module leaves the newest step.
LEMMA ImageReleased ==
  ASSUME Shape, NEW m \in Modules, Release(m)
  PROVE  /\ steps # <<>> /\ Top \in Steps /\ m \in op.todo
         /\ Top' \in Steps /\ Top'.no = Top.no /\ Top'.done = Top.done
         /\ \A n \in Modules \ {m} : Top'.image[n] = Top.image[n]
         /\ Planned' = Planned \ {m}
         /\ Below' = Below /\ ToSet(steps') = Below \cup {Top'}
<1>1. steps # <<>> /\ m \in op.todo /\ steps' = SetImage(m, None)
  BY DEF Release, Shape, OpShape, Stepping
<1>2. /\ Top \in Steps /\ Top' \in Steps /\ Top'.no = Top.no /\ Top'.done = Top.done
      /\ Top'.image = [Top.image EXCEPT ![m] = None]
      /\ Below' = Below /\ ToSet(steps') = Below \cup {Top'}
      /\ Planned' = Planned \ {m}
  BY <1>1, TopImaged
<1> QED
  BY <1>1, <1>2 DEF Steps

-----------------------------------------------------------------------------
\* The phases of a step: what is left to do is journaled, or about to be.
LEMMA PhaseShapeOfStep ==
  ASSUME Shape, [Next]_vars,
         op'.pc \in {"journaling", "writing", "releasing", "restamping", "settling", "finishing"}
  PROVE  PhaseShape'
<1>0. op \in Ops
  BY DEF Shape, TypeOK
<1>1. CASE Still
  BY <1>1, StillShape
<1>2. ASSUME NEW mods \in SUBSET Modules, BeginStep(mods) PROVE PhaseShape'
  <2>1. Planned' = {}
    BY <1>2, TopBegun
  <2>2. /\ op'.pc = "journaling" /\ op'.todo = mods /\ op'.text = op.text /\ Written \subseteq mods
        /\ \A m \in mods : op'.before[m] = disk[m]
    BY <1>0, <1>2 DEF BeginStep, Ops
  <2>3. \A m \in mods : disk[m] # None
    BY NotedTyped, ConstantsAssumption DEF Contents
  <2> QED
    BY <2>1, <2>2, <2>3 DEF PhaseShape, Written
<1>3. ASSUME NEW m \in Modules, JournalImage(m) PROVE PhaseShape'
  <2>1. /\ op.pc = "journaling" /\ m \in op.todo /\ op'.text = op.text /\ op.todo \subseteq Modules
        /\ \/ op.todo = {m} /\ op'.pc = "writing" /\ op'.todo = Written
           \/ op'.pc = "journaling" /\ op'.todo = op.todo \ {m} /\ op'.before = op.before
    BY <1>0, <1>3 DEF JournalImage, Ops
  <2>2. /\ Planned' = Planned \cup {m}
        /\ \A n \in Modules \ {m} : Top'.image[n] = Top.image[n]
        /\ op.text[m] # None => Top'.image[m].after = op.text[m]
    BY <1>3, ImageJournaled
  <2>3. /\ \A n \in op.todo : op.before[n] # None
        /\ op.todo \cap Planned = {}
        /\ Written \subseteq op.todo \cup Planned
        /\ \A n \in Written \cap Planned : Top.image[n].after = op.text[n]
    BY <2>1 DEF Shape, PhaseShape
  <2>4. Written' = Written /\ Written \subseteq Modules
    BY <2>1 DEF Written
  <2>5. \A n \in Written \cap Planned' : Top'.image[n].after = op.text[n]
    BY <2>2, <2>3 DEF Written
  <2> QED
    BY <2>1, <2>2, <2>3, <2>4, <2>5 DEF PhaseShape
<1>4. ASSUME NEW m \in Modules, WriteModule(m) PROVE PhaseShape'
  <2>1. op.pc = "writing" /\ op'.pc = "writing" /\ op'.text = op.text /\ op'.todo \subseteq op.todo /\ steps' = steps
    BY <1>0, <1>4 DEF WriteModule, journal, Ops
  <2> QED
    BY <2>1 DEF Shape, PhaseShape, Written, Planned, Top
<1>5. ASSUME NotAsPlanned \/ \E m \in Modules : WriteRefused(m) \/ WriteThrows(m) PROVE PhaseShape'
  <2>1. (\E landed, threw : op' = Fail(landed, threw)) /\ steps' = steps
    BY <1>5 DEF NotAsPlanned, WriteRefused, WriteThrows, journal
  <2>2. op'.pc = "releasing" /\ op'.todo \subseteq Planned
    BY <2>1 DEF Fail, Idle
  <2> QED
    BY <2>1, <2>2 DEF PhaseShape, Planned, Top
<1>6. ASSUME NEW ran \in BOOLEAN, FixWritten(ran) PROVE PhaseShape'
  <2>1. op.pc = "writing" /\ op'.pc \in {"restamping", "settling"} /\ op'.todo \in {Written, Planned} /\ steps' = steps
    BY <1>6 DEF FixWritten, journal, Idle
  <2>2. Written \subseteq Planned /\ \A m \in Written : Top.image[m].after = op.text[m] /\ op.text[m] # None
    BY <2>1 DEF Shape, PhaseShape, Written
  <2>3. op'.pc = "restamping" => op'.todo = Written
    BY <1>6 DEF FixWritten, Idle
  <2> QED
    BY <2>1, <2>2, <2>3 DEF PhaseShape, Planned, Top
<1>7. ASSUME NEW m \in Modules, RestampAfter(m) \/ CompleteModule(m),
             op'.pc \in {"journaling", "writing", "releasing", "restamping", "settling", "finishing"}
      PROVE  PhaseShape'
  <2>1. /\ op.pc \in {"restamping", "settling"} /\ op'.pc \in {"restamping", "settling", "finishing"}
        /\ op'.todo \subseteq op.todo \/ op'.todo = Planned
        /\ op'.pc = "restamping" => op.pc = "restamping" /\ op'.todo = op.todo \ {m}
        /\ op'.pc = "finishing" => op'.todo = {}
    <3>1. RestampAfter(m) => /\ op.pc = "restamping"
                             /\ \/ op' = [op EXCEPT !.pc = "settling", !.todo = Planned]
                                \/ op' = [op EXCEPT !.todo = @ \ {m}]
      BY DEF RestampAfter
    <3>2. CompleteModule(m) => /\ op.pc = "settling"
                               /\ \/ op' = [op EXCEPT !.pc = "finishing", !.todo = {}]
                                  \/ op' = [op EXCEPT !.todo = @ \ {m}]
      BY DEF CompleteModule
    <3> QED
      BY <1>0, <1>7, <3>1, <3>2 DEF Ops
  <2>2. Planned' = Planned /\ \A n \in Modules \ {m} : Top'.image[n] = Top.image[n]
    BY <1>7, ImageStamped
  <2>3. op.todo \subseteq Modules
    BY <1>0 DEF Ops
  <2> QED
    BY <2>1, <2>2, <2>3 DEF Shape, PhaseShape
<1>8. ASSUME NEW m \in Modules, Release(m) PROVE PhaseShape'
  <2>1. op.pc = "releasing" /\ op'.pc = "releasing" /\ op'.todo = op.todo \ {m}
    BY <1>0, <1>8 DEF Release, Ops
  <2>2. Planned' = Planned \ {m}
    BY <1>8, ImageReleased
  <2> QED
    BY <2>1, <2>2 DEF Shape, PhaseShape
<1> QED
  BY <1>1, <1>2, <1>3, <1>4, <1>5, <1>6, <1>7, <1>8, IntoJournaling, IntoWriting, IntoReleasing,
     IntoRestamping, IntoSettling, IntoFinishing

\* Undo and revert: what is left to restore belongs to the step, or is tracked.
LEMMA PhaseShapeOfRestore ==
  ASSUME Shape, [Next]_vars, op'.pc = "restoring"
  PROVE  PhaseShape'
<1>0. op \in Ops /\ TypeOK /\ Ascending(steps)
  BY DEF Shape, JournalShape, TypeOK
<1>1. CASE Still
  BY <1>1, StillShape
<1>2. ASSUME NEW todo, op' = Restoring(todo) PROVE Handled' = todo /\ op'.todo = todo /\ op'.pc = "restoring"
  BY <1>2 DEF Restoring, Idle, Handled
<1>3. CASE Undo
  <2>1. op' = Restoring(ToRestore(Top)) /\ steps' = steps /\ steps # <<>> /\ intent'.kind = "undo" /\ intent'.no = Top.no
    BY <1>3 DEF Undo, NoIntent
  <2>2. Handled' = ToRestore(Top)
    BY <1>2, <2>1
  <2>3. \A s \in ToSet(steps') : s.no = intent'.no => s = Top
    BY <1>0, <2>1, StepFacts
  <2> QED
    BY <2>1, <2>2, <2>3 DEF PhaseShape, Restoring, Idle
<1>4. ASSUME op' = Restoring(ToRestore(Numbered(intent.no))), intent.kind = "undo", steps' = steps, intent' = intent
      PROVE  PhaseShape'
  <2>1. Handled' = ToRestore(Numbered(intent.no)) /\ op'.pc = "restoring"
    BY <1>2, <1>4
  <2>2. \A s \in ToSet(steps) : s.no = intent.no => s = Numbered(intent.no)
    BY <1>0, StepFacts
  <2> QED
    BY <1>4, <2>1, <2>2 DEF PhaseShape
<1>5. ASSUME op' = Restoring(Tracked), intent'.kind = "revert", baseline' = baseline
      PROVE  PhaseShape'
  <2>1. Handled' = Tracked' /\ op'.pc = "restoring"
    BY <1>2, <1>5 DEF Tracked
  <2> QED
    BY <1>5, <2>1 DEF PhaseShape
<1>6. CASE ResumeUndo
  BY <1>4, <1>6 DEF ResumeUndo, journal
<1>7. CASE Revert
  BY <1>5, <1>7 DEF Revert, NoIntent
<1>8. CASE ResumeRevert
  BY <1>5, <1>8 DEF ResumeRevert, journal
<1>9. CASE RecoverIntent
  <2>1. intent.kind \in {"undo", "revert"}
    BY <1>0, <1>9 DEF RecoverIntent, Shape, JournalShape, TypeOK, Intents
  <2> QED
    BY <1>4, <1>5, <1>9, <2>1 DEF RecoverIntent, journal
<1>10. ASSUME NEW m \in Modules, Restore(m) \/ Conflict(m) \/ RestoreFails(m) PROVE PhaseShape'
  <2>1. op.pc = "restoring" /\ op'.pc = "restoring" /\ steps' = steps /\ intent' = intent /\ baseline' = baseline
    BY <1>0, <1>10 DEF Restore, Conflict, RestoreFails, journal, Ops
  <2>2. Handled' \subseteq Handled
    <3>1. op'.todo \subseteq op.todo /\ m \in op.todo /\ (op'.cur = op.cur \/ op'.cur = m)
      BY <1>0, <1>10 DEF Restore, Conflict, RestoreFails, Ops
    <3> QED
      BY <3>1 DEF Handled
  <2> QED
    BY <2>1, <2>2 DEF Shape, PhaseShape, Tracked
<1>11. CASE Remember
  <2>1. op.pc = "restoring" /\ op'.pc = "restoring" /\ steps' = steps /\ intent' = intent /\ baseline' = baseline
    BY <1>0, <1>11 DEF Remember, Ops
  <2>2. Handled' \subseteq Handled
    BY <1>0, <1>11 DEF Remember, Handled, Ops
  <2> QED
    BY <2>1, <2>2 DEF Shape, PhaseShape, Tracked
<1> QED
  BY <1>1, <1>3, <1>6, <1>7, <1>8, <1>9, <1>10, <1>11, IntoRestoring

\* Recovery: what is left to restore belongs to the step being unwound.
LEMMA PhaseShapeOfUnwind ==
  ASSUME Shape, [Next]_vars, op'.pc = "unwinding"
  PROVE  PhaseShape'
<1>0. op \in Ops /\ TypeOK /\ Ascending(steps)
  BY DEF Shape, JournalShape, TypeOK
<1>1. CASE Still
  BY <1>1, StillShape
<1>2. CASE UnwindStep
  <2>1. /\ op.pc = "recovering" /\ intent = NoIntent /\ ToUnwind # {} /\ steps' = steps /\ intent' = intent
        /\ op'.pc = "unwinding" /\ op'.at = Max(ToUnwind) /\ op'.todo = ToRestore(Numbered(Max(ToUnwind)))
        /\ op'.cur = op.cur
    BY <1>0, <1>2 DEF UnwindStep, journal, Ops
  <2>2. op.cur = None
    BY <2>1 DEF Shape, OpShape
  <2>3. Handled' = ToRestore(Numbered(op'.at))
    BY <2>1, <2>2 DEF Handled
  <2>4. \A s \in ToSet(steps) : s.no = op'.at => s = Numbered(op'.at)
    BY <1>0, StepFacts
  <2>5. \E s \in ToSet(steps) : s.no = op'.at /\ ~ s.done
    BY <1>0, <2>1, NextUnwound
  <2> QED
    BY <2>1, <2>3, <2>4, <2>5 DEF PhaseShape
<1>3. ASSUME Remember \/ \E m \in Modules : \/ UnwindFound(m) \/ UnwindRestore(m) \/ UnwindConflict(m)
                                             \/ UnwindFails(m) \/ UnwindBlocked(m),
             op.pc = "unwinding"
      PROVE  PhaseShape'
  <2>1. op'.at = op.at /\ steps' = steps /\ intent' = intent
    BY <1>0, <1>3 DEF Remember, UnwindFound, UnwindRestore, UnwindConflict, UnwindFails, UnwindBlocked, journal, Ops
  <2>2. Handled' \subseteq Handled
    <3>1. CASE Remember
      BY <1>0, <3>1 DEF Remember, Handled, Ops
    <3>2. ASSUME NEW m \in Modules, \/ UnwindFound(m) \/ UnwindRestore(m) \/ UnwindConflict(m)
                                    \/ UnwindFails(m) \/ UnwindBlocked(m)
          PROVE  Handled' \subseteq Handled
      <4>1. op'.todo \subseteq op.todo /\ m \in op.todo /\ (op'.cur = op.cur \/ op'.cur = m)
        BY <1>0, <3>2 DEF UnwindFound, UnwindRestore, UnwindConflict, UnwindFails, UnwindBlocked, Unwinding, Ops
      <4> QED
        BY <4>1 DEF Handled
    <3> QED
      BY <1>3, <3>1, <3>2
  <2> QED
    BY <1>3, <2>1, <2>2 DEF Shape, PhaseShape
<1>4. Remember => op.pc = "unwinding"
  BY <1>0 DEF Remember, Ops
<1>5. (\E m \in Modules : \/ UnwindFound(m) \/ UnwindRestore(m) \/ UnwindConflict(m)
                          \/ UnwindFails(m) \/ UnwindBlocked(m)) => op.pc = "unwinding"
  BY DEF UnwindFound, UnwindRestore, UnwindConflict, UnwindFails, UnwindBlocked, Unwinding
<1> QED
  BY <1>1, <1>2, <1>3, <1>4, <1>5, IntoUnwinding

\* Shape holds at the start and every step keeps it.
LEMMA ShapeInit == Init => Shape
<1> SUFFICES ASSUME Init PROVE Shape
  OBVIOUS
<1>1. TypeOK
  BY Starts, EmptySeq DEF Init, TypeOK, Bounds
<1>2. JournalShape
  BY EmptySeq DEF Init, JournalShape, Ascending, IntentHasItsStep, NoIntent, Idle
<1>3. op.pc = "idle" /\ op.hold = "joined" /\ op.cur = None /\ op.then = "rpc"
  BY Fields DEF Init
<1> QED
  BY <1>1, <1>2, <1>3 DEF Init, Shape, OpShape, PhaseShape, Own, Stepping

\* Shape is inductive.
LEMMA ShapeKept ==
  ASSUME Shape, [Next]_vars
  PROVE  Shape'
<1>1. PhaseShape'
  <2>1. CASE op'.pc \in {"journaling", "writing", "releasing", "restamping", "settling", "finishing",
                         "restoring", "unwinding"}
    BY <2>1, PhaseShapeOfStep, PhaseShapeOfRestore, PhaseShapeOfUnwind
  <2>2. CASE op'.pc \notin {"journaling", "writing", "releasing", "restamping", "settling", "finishing",
                         "restoring", "unwinding"}
    BY <2>2 DEF PhaseShape
  <2> QED
    BY <2>1, <2>2
<1> QED
  BY <1>1, TypesKept, JournalShapeKept, OpShapeKept DEF Shape

\* The journal and the operation are always in shape.
THEOREM ShapeCorrect == Spec => []Shape
<1>1. Shape /\ [Next]_vars => Shape'
  BY ShapeKept
<1> QED
  BY <1>1, ShapeInit, PTL DEF Spec

\* The journal rows, the recovery intent and the operation under way always have their types.
THEOREM TypeCorrect == Spec => []TypeOK
<1>1. Shape => TypeOK
  BY DEF Shape
<1> QED
  BY <1>1, ShapeCorrect, PTL

\* An undo intent always names a step of the journal, so undo() and recovery can resume it.
THEOREM IntentNamesAStep == Spec => []IntentHasItsStep
<1>1. Shape => IntentHasItsStep
  BY DEF Shape, JournalShape
<1> QED
  BY <1>1, ShapeCorrect, PTL

=============================================================================
