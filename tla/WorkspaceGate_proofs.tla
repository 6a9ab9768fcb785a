------------------------ MODULE WorkspaceGate_proofs ------------------------
(***************************************************************************)
(* Theorems about the workspace gate, for any finite set of callers.       *)
(*                                                                         *)
(* The inductive invariant IInv says of the queue, the two counters and    *)
(* the phases that they describe one state (Consistent).  Every handler    *)
(* that changes them ends in one run of pump, so the argument is made once *)
(* about Pump: from consistent arguments it leaves a consistent state      *)
(* (PumpConsistent) in which the front of the queue is kept out            *)
(* (PumpKeepsOut), and it is a step of the abstract lock (PumpServes).     *)
(***************************************************************************)
EXTENDS WorkspaceGate, SequenceTheorems, FiniteSetTheorems, TLAPS

HoldersOf(ph) == {c \in Calls : ph[c] \in {"admitted", "running"}}

Distinct(q) == \A i, j \in 1..Len(q) : q[i] = q[j] => i = j

Counted(r, w, ph) ==
    /\ r = Cardinality(HoldersOf(ph) \ Exclusive)
    /\ w <=> HoldersOf(ph) \cap Exclusive # {}
    /\ \A c, d \in HoldersOf(ph) \cap Exclusive : c = d
    /\ w => r = 0

Consistent(q, r, w, ph) ==
    /\ q \in Seq(Calls) /\ r \in Nat /\ w \in BOOLEAN /\ ph \in [Calls -> Phases]
    /\ Distinct(q)
    /\ \A c \in Calls : ph[c] = "queued" <=> \E i \in 1..Len(q) : q[i] = c
    /\ Counted(r, w, ph)

IInv == /\ Consistent(waiting, readers, writing, phase)
        /\ spent \in [Calls -> BOOLEAN]
        /\ FrontIsKeptOut

-----------------------------------------------------------------------------
(***************************************************************************)
(* Sequences                                                               *)
(***************************************************************************)

FirstOf(q, n, S) == \A c : c \in S <=> \E i \in 1..n : q[i] = c

\* The first n of q have gone, as a set, and the rest are left in their order.
Splits(q, n, gone, left) ==
    /\ gone \subseteq Calls
    /\ FirstOf(q, n, gone)
    /\ left \in Seq(Calls) /\ Distinct(left)
    /\ Len(left) = Len(q) - n
    /\ \A i \in 1..Len(left) : left[i] = q[n + i]
    /\ \A c : (\E i \in 1..Len(left) : left[i] = c)
                <=> c \notin gone /\ \E i \in 1..Len(q) : q[i] = c

\* What is left of a queue of distinct callers when the first n leave it.
LEMMA SplitQueue ==
    ASSUME NEW q \in Seq(Calls), Distinct(q), NEW n \in 0..Len(q),
           NEW front, front = SubSeq(q, 1, n),
           NEW left,  left  = SubSeq(q, n + 1, Len(q))
    PROVE  Splits(q, n, ToSet(front), left)
<1>1. /\ Len(q) \in Nat
      /\ \A i \in 1..Len(q) : q[i] \in Calls
  BY LenProperties, ElementOfSeq
<1>2. /\ front \in Seq(Calls)
      /\ Len(front) = n
      /\ \A i \in 1..n : front[i] = q[i]
  BY <1>1, SubSeqProperties
<1>3. /\ left \in Seq(Calls)
      /\ Len(left) = Len(q) - n
      /\ \A i \in 1..(Len(q) - n) : left[i] = q[n + i]
  <2>1. \A i \in (n + 1)..Len(q) : q[i] \in Calls
    BY <1>1
  <2>2. /\ left \in Seq(Calls)
        /\ Len(left) = IF n + 1 <= Len(q) THEN Len(q) - (n + 1) + 1 ELSE 0
        /\ \A i \in 1..(Len(q) - (n + 1) + 1) : left[i] = q[n + 1 + i - 1]
    BY <1>1, <2>1, SubSeqProperties
  <2> QED BY <1>1, <2>2
<1>4. DOMAIN front = 1..n
  BY <1>2, LenProperties
<1>5. \A c : c \in ToSet(front) <=> \E i \in 1..n : q[i] = c
  BY <1>2, <1>4 DEF ToSet
<1>6. Distinct(left)
  BY <1>1, <1>3 DEF Distinct
<1>7. \A c : (\E i \in 1..Len(left) : left[i] = c)
                <=> (c \notin ToSet(front) /\ \E i \in 1..Len(q) : q[i] = c)
  <2> SUFFICES ASSUME NEW c
               PROVE  (\E i \in 1..Len(left) : left[i] = c)
                        <=> (c \notin ToSet(front) /\ \E i \in 1..Len(q) : q[i] = c)
    OBVIOUS
  <2>1. ASSUME NEW i \in 1..Len(left), left[i] = c
        PROVE  c \notin ToSet(front) /\ \E j \in 1..Len(q) : q[j] = c
    <3>1. n + i \in 1..Len(q) /\ q[n + i] = c
      BY <1>1, <1>3, <2>1
    <3>2. ~ \E j \in 1..n : q[j] = c
      <4> SUFFICES ASSUME NEW j \in 1..n, q[j] = c PROVE FALSE
        OBVIOUS
      <4>1. j \in 1..Len(q) /\ j # n + i
        BY <1>1, <1>3, <2>1
      <4> QED BY <3>1, <4>1 DEF Distinct
    <3> QED BY <1>5, <3>1, <3>2, Zenon
  <2>2. ASSUME c \notin ToSet(front), NEW i \in 1..Len(q), q[i] = c
        PROVE  \E j \in 1..Len(left) : left[j] = c
    <3>1. i \notin 1..n
      BY <1>5, <2>2
    <3>2. i - n \in 1..Len(left) /\ n + (i - n) = i
      BY <1>1, <1>3, <3>1
    <3>3. left[i - n] = q[i]
      BY <1>1, <1>3, <3>2
    <3> QED BY <2>2, <3>2, <3>3, Zenon
  <2> QED BY <2>1, <2>2
<1>8. ToSet(front) \subseteq Calls
  BY <1>1, <1>5
<1>9. \A i \in 1..Len(left) : left[i] = q[n + i]
  BY <1>3
<1> QED BY <1>3, <1>5, <1>6, <1>7, <1>8, <1>9 DEF Splits, FirstOf

Without(q, i, rest) ==
    /\ rest \in Seq(Calls) /\ Distinct(rest)
    /\ \A c : (\E j \in 1..Len(rest) : rest[j] = c)
                <=> c # q[i] /\ \E j \in 1..Len(q) : q[j] = c

\* What is left of a queue of distinct callers when the one at place i leaves it.
LEMMA RemoveFromQueue ==
    ASSUME NEW q \in Seq(Calls), Distinct(q), NEW i \in 1..Len(q),
           NEW rest, rest = RemoveAt(q, i)
    PROVE  Without(q, i, rest)
<1>a. PICK a : a = SubSeq(q, 1, i - 1)
  OBVIOUS
<1>b. PICK b : b = SubSeq(q, i + 1, Len(q))
  OBVIOUS
<1>r. rest = a \o b
  BY <1>a, <1>b DEF RemoveAt
<1>1. /\ Len(q) \in Nat
      /\ \A j \in 1..Len(q) : q[j] \in Calls
  BY LenProperties, ElementOfSeq
<1>2. /\ a \in Seq(Calls)
      /\ Len(a) = i - 1
      /\ \A j \in 1..(i - 1) : a[j] = q[j]
  <2>1. \A j \in 1..(i - 1) : q[j] \in Calls
    BY <1>1
  <2>2. /\ a \in Seq(Calls)
        /\ Len(a) = IF 1 <= i - 1 THEN i - 1 - 1 + 1 ELSE 0
        /\ \A j \in 1..(i - 1 - 1 + 1) : a[j] = q[1 + j - 1]
    BY <1>1, <1>a, <2>1, SubSeqProperties
  <2> QED BY <1>1, <2>2
<1>3. /\ b \in Seq(Calls)
      /\ Len(b) = Len(q) - i
      /\ \A j \in 1..(Len(q) - i) : b[j] = q[i + j]
  <2>1. \A j \in (i + 1)..Len(q) : q[j] \in Calls
    BY <1>1
  <2>2. /\ b \in Seq(Calls)
        /\ Len(b) = IF i + 1 <= Len(q) THEN Len(q) - (i + 1) + 1 ELSE 0
        /\ \A j \in 1..(Len(q) - (i + 1) + 1) : b[j] = q[i + 1 + j - 1]
    BY <1>1, <1>b, <2>1, SubSeqProperties
  <2> QED BY <1>1, <2>2
<1>4. /\ rest \in Seq(Calls)
      /\ Len(rest) = Len(q) - 1
      /\ \A j \in 1..(Len(q) - 1) : rest[j] = IF j < i THEN q[j] ELSE q[j + 1]
  <2>1. /\ rest \in Seq(Calls)
        /\ Len(rest) = Len(a) + Len(b)
        /\ \A j \in 1..(Len(a) + Len(b)) :
              rest[j] = IF j <= Len(a) THEN a[j] ELSE b[j - Len(a)]
    <3>1. a \in Seq(Calls) /\ b \in Seq(Calls)
      BY <1>2, <1>3
    <3>2. /\ a \o b \in Seq(Calls)
          /\ Len(a \o b) = Len(a) + Len(b)
          /\ \A j \in 1..(Len(a) + Len(b)) :
                (a \o b)[j] = IF j <= Len(a) THEN a[j] ELSE b[j - Len(a)]
      BY <3>1, ConcatProperties, Zenon
    <3> QED BY <3>2, <1>r, Zenon
  <2>2. ASSUME NEW j \in 1..(Len(q) - 1)
        PROVE  rest[j] = IF j < i THEN q[j] ELSE q[j + 1]
    <3>1. CASE j < i
      <4>1. j \in 1..(i - 1)
        BY <1>1, <3>1
      <4>2. a[j] = q[j]
        BY <1>2, <4>1, Zenon
      <4>3. /\ j \in 1..(Len(a) + Len(b))
            /\ j <= Len(a)
        BY <1>1, <1>2, <1>3, <3>1
      <4>4. rest[j] = a[j]
        BY <2>1, <4>3, Zenon
      <4> QED BY <3>1, <4>2, <4>4, Zenon
    <3>2. CASE ~ (j < i)
      <4>1. j - (i - 1) \in 1..(Len(q) - i) /\ i + (j - (i - 1)) = j + 1
        BY <1>1, <3>2
      <4>2. b[j - (i - 1)] = q[j + 1]
        BY <1>3, <4>1
      <4>3. /\ j \in 1..(Len(a) + Len(b))
            /\ Len(a) = i - 1
            /\ ~ (j <= Len(a))
        BY <1>1, <1>2, <1>3, <3>2
      <4>4. rest[j] = b[j - Len(a)]
        BY <2>1, <4>3, Zenon
      <4> QED BY <3>2, <4>2, <4>3, <4>4
    <3> QED BY <3>1, <3>2
  <2> QED BY <1>1, <1>2, <1>3, <2>1, <2>2
<1>5. Distinct(rest)
  BY <1>1, <1>4 DEF Distinct
<1>6. ASSUME NEW c
      PROVE  (\E j \in 1..Len(rest) : rest[j] = c)
               <=> (c # q[i] /\ \E j \in 1..Len(q) : q[j] = c)
  <2>1. ASSUME NEW j \in 1..Len(rest), rest[j] = c
        PROVE  c # q[i] /\ \E k \in 1..Len(q) : q[k] = c
    BY <1>1, <1>4, <2>1 DEF Distinct
  <2>2. ASSUME c # q[i], NEW j \in 1..Len(q), q[j] = c
        PROVE  \E k \in 1..Len(rest) : rest[k] = c
    <3>1. CASE j < i
      BY <1>1, <1>4, <2>2, <3>1
    <3>2. CASE j > i
      <4>1. j - 1 \in 1..Len(rest) /\ ~ (j - 1 < i) /\ (j - 1) + 1 = j
        BY <1>1, <1>4, <3>2
      <4>2. rest[j - 1] = c
        BY <1>1, <1>4, <2>2, <4>1
      <4> QED BY <4>1, <4>2
    <3> QED BY <1>1, <2>2, <3>1, <3>2
  <2> QED BY <2>1, <2>2
<1> QED BY <1>4, <1>5, <1>6 DEF Without

-----------------------------------------------------------------------------
(***************************************************************************)
(* pump                                                                    *)
(***************************************************************************)

\* What one run of pump does: the n front waiters become holders, either one writer joining
\* nobody or n readers joining no writer.
PumpEffect(q, r, w, ph, n, admitted) ==
    /\ admitted = ToSet(SubSeq(q, 1, n))
    /\ PumpStops(q, n, r, w)
    /\ waiting' = SubSeq(q, n + 1, Len(q))
    /\ Splits(q, n, admitted, waiting')
    /\ phase' \in [Calls -> Phases]
    /\ \A c \in Calls : phase'[c] = IF c \in admitted THEN "admitted" ELSE ph[c]
    /\ HoldersOf(phase') = HoldersOf(ph) \cup admitted
    /\ HoldersOf(ph) \cap admitted = {}
    /\ \/ /\ admitted = {} /\ n = 0
          /\ readers' = r /\ writing' = w
       \/ /\ n = 1 /\ admitted = {q[1]} /\ admitted \subseteq Exclusive
          /\ ~w /\ r = 0 /\ readers' = 0 /\ writing' = TRUE
       \/ /\ n > 0 /\ admitted \cap Exclusive = {} /\ ~w
          /\ readers' = r + n /\ writing' = FALSE

\* pump admits the n front waiters: they are holders now, in its counters and its queue.
LEMMA PumpAdmits ==
    ASSUME NEW q, NEW r, NEW w, NEW ph, Consistent(q, r, w, ph), Pump(q, r, w, ph)
    PROVE  \E n \in 0..Len(q) : \E admitted \in SUBSET Calls :
              PumpEffect(q, r, w, ph, n, admitted)
<1>1. PICK n \in 0..Len(q) :
         LET admitted == ToSet(SubSeq(q, 1, n))
             alone    == admitted \cap Exclusive # {}
         IN  /\ PumpStops(q, n, r, w)
             /\ waiting' = SubSeq(q, n + 1, Len(q))
             /\ writing' = (w \/ alone)
             /\ readers' = IF alone THEN r ELSE r + n
             /\ phase' = [c \in Calls |-> IF c \in admitted THEN "admitted" ELSE ph[c]]
  BY DEF Pump
<1>2. PICK front : front = SubSeq(q, 1, n)
  OBVIOUS
<1>3. PICK admitted : admitted = ToSet(front)
  OBVIOUS
<1>4. /\ q \in Seq(Calls) /\ Distinct(q)
      /\ r \in Nat /\ w \in BOOLEAN /\ ph \in [Calls -> Phases]
      /\ \A c \in Calls : ph[c] = "queued" <=> \E i \in 1..Len(q) : q[i] = c
  BY DEF Consistent
<1>5. /\ PumpStops(q, n, r, w)
      /\ waiting' = SubSeq(q, n + 1, Len(q))
      /\ writing' = (w \/ admitted \cap Exclusive # {})
      /\ readers' = IF admitted \cap Exclusive # {} THEN r ELSE r + n
      /\ phase' = [c \in Calls |-> IF c \in admitted THEN "admitted" ELSE ph[c]]
  BY <1>1, <1>2, <1>3, Zenon
<1>6. Splits(q, n, admitted, waiting')
  <2>1. PICK left : left = SubSeq(q, n + 1, Len(q))
    OBVIOUS
  <2>2. Splits(q, n, admitted, left)
    BY <1>2, <1>3, <1>4, <2>1, SplitQueue
  <2> QED BY <1>5, <2>1, <2>2
<1>7. Len(q) \in Nat
  BY <1>4, LenProperties
<1>8. HoldersOf(ph) \cap admitted = {}
  <2> SUFFICES ASSUME NEW c \in HoldersOf(ph), c \in admitted PROVE FALSE
    OBVIOUS
  <2>1. \E i \in 1..Len(q) : q[i] = c
    BY <1>6, <1>7 DEF Splits, FirstOf
  <2> QED BY <1>4, <2>1 DEF HoldersOf
<1>9. /\ phase' \in [Calls -> Phases]
      /\ \A c \in Calls : phase'[c] = IF c \in admitted THEN "admitted" ELSE ph[c]
  BY <1>4, <1>5 DEF Phases
<1>10. HoldersOf(phase') = HoldersOf(ph) \cup admitted
  BY <1>6, <1>9 DEF HoldersOf, Splits
<1>11. \/ /\ admitted = {} /\ n = 0
          /\ readers' = r /\ writing' = w
       \/ /\ n = 1 /\ admitted = {q[1]} /\ admitted \subseteq Exclusive
          /\ ~w /\ r = 0 /\ readers' = 0 /\ writing' = TRUE
       \/ /\ n > 0 /\ admitted \cap Exclusive = {} /\ ~w
          /\ readers' = r + n /\ writing' = FALSE
  <2>1. CASE n = 0
    <3>1. admitted = {}
      BY <1>6, <2>1 DEF Splits, FirstOf
    <3> QED BY <1>4, <1>5, <2>1, <3>1
  <2>2. CASE n = 1 /\ ~w /\ r = 0 /\ q[1] \in Exclusive
    <3>1. admitted = {q[1]}
      BY <1>6, <2>2 DEF Splits, FirstOf
    <3> QED BY <1>5, <2>2, <3>1
  <2>3. CASE n > 0 /\ ~w /\ \A i \in 1..n : q[i] \notin Exclusive
    <3>1. admitted \cap Exclusive = {}
      BY <1>6, <2>3 DEF Splits, FirstOf
    <3> QED BY <1>5, <2>3, <3>1
  <2> QED BY <1>5, <2>1, <2>2, <2>3 DEF PumpStops
<1>12. PumpEffect(q, r, w, ph, n, admitted)
  BY <1>2, <1>3, <1>5, <1>6, <1>8, <1>9, <1>10, <1>11 DEF PumpEffect
<1>13. admitted \in SUBSET Calls
  BY <1>6 DEF Splits
<1> QED BY <1>12, <1>13

\* n distinct front waiters are n callers.
LEMMA AdmittedCount ==
    ASSUME NEW q \in Seq(Calls), Distinct(q), NEW n \in 0..Len(q), NEW admitted,
           FirstOf(q, n, admitted)
    PROVE  IsFiniteSet(admitted) /\ Cardinality(admitted) = n
<1>1. Len(q) \in Nat
  BY LenProperties
<1>2. PICK f : f = [i \in 1..n |-> q[i]]
  OBVIOUS
<1>3. f \in Bijection(1..n, admitted)
  <2>1. f \in [1..n -> admitted] /\ \A i \in 1..n : f[i] = q[i]
    BY <1>2 DEF FirstOf
  <2>2. \A i, j \in 1..n : f[i] = f[j] => i = j
    BY <1>1, <2>1 DEF Distinct
  <2>3. \A c \in admitted : \E i \in 1..n : f[i] = c
    BY <2>1 DEF FirstOf
  <2> QED BY <2>1, <2>2, <2>3, Zenon DEF Bijection, Injection, Surjection, IsInjective
<1>4. IsFiniteSet(1..n) /\ Cardinality(1..n) = n
  BY <1>1, FS_Interval
<1>5. ExistsBijection(1..n, admitted)
  BY <1>3 DEF ExistsBijection
<1> QED BY <1>4, <1>5, FS_Bijection, Zenon

\* The holders are finitely many, like the callers.
LEMMA FiniteHolders ==
    ASSUME NEW ph
    PROVE  /\ IsFiniteSet(HoldersOf(ph)) /\ IsFiniteSet(HoldersOf(ph) \ Exclusive)
           /\ Cardinality(HoldersOf(ph) \ Exclusive) \in Nat
<1>1. HoldersOf(ph) \subseteq Calls /\ HoldersOf(ph) \ Exclusive \subseteq Calls
  BY DEF HoldersOf
<1>2. IsFiniteSet(Calls)
  BY CallsAssumption
<1> QED BY <1>1, <1>2, FS_Subset, FS_CardinalityType

\* The counters still describe the holders after pump.
LEMMA PumpConsistent ==
    ASSUME NEW q, NEW r, NEW w, NEW ph, Consistent(q, r, w, ph), Pump(q, r, w, ph)
    PROVE  Consistent(waiting', readers', writing', phase')
<1>1. PICK n \in 0..Len(q), admitted \in SUBSET Calls : PumpEffect(q, r, w, ph, n, admitted)
  BY PumpAdmits, Zenon
<1>e. /\ FirstOf(q, n, admitted)
      /\ waiting' \in Seq(Calls) /\ Distinct(waiting')
      /\ \A c : (\E i \in 1..Len(waiting') : waiting'[i] = c)
                  <=> c \notin admitted /\ \E i \in 1..Len(q) : q[i] = c
      /\ phase' \in [Calls -> Phases]
      /\ \A c \in Calls : phase'[c] = IF c \in admitted THEN "admitted" ELSE ph[c]
      /\ HoldersOf(phase') = HoldersOf(ph) \cup admitted
      /\ HoldersOf(ph) \cap admitted = {}
  BY <1>1 DEF PumpEffect, Splits
<1>f. \/ /\ admitted = {} /\ n = 0
         /\ readers' = r /\ writing' = w
      \/ /\ n = 1 /\ admitted = {q[1]} /\ admitted \subseteq Exclusive
         /\ ~w /\ r = 0 /\ readers' = 0 /\ writing' = TRUE
      \/ /\ n > 0 /\ admitted \cap Exclusive = {} /\ ~w
         /\ readers' = r + n /\ writing' = FALSE
  BY <1>1 DEF PumpEffect
<1>2. /\ q \in Seq(Calls) /\ Distinct(q)
      /\ r \in Nat /\ w \in BOOLEAN /\ ph \in [Calls -> Phases]
      /\ \A c \in Calls : ph[c] = "queued" <=> \E i \in 1..Len(q) : q[i] = c
      /\ Counted(r, w, ph)
  BY DEF Consistent
<1>n. n \in Nat
  <2>1. Len(q) \in Nat
    BY <1>2, LenProperties
  <2> QED BY <2>1
<1>3. readers' \in Nat /\ writing' \in BOOLEAN
  <2>1. r \in Nat /\ w \in BOOLEAN
    BY <1>2
  <2>2. readers' = r \/ readers' = 0 \/ readers' = r + n
    BY <1>f
  <2>3. writing' = w \/ writing' = TRUE \/ writing' = FALSE
    BY <1>f, Zenon
  <2>4. readers' \in Nat
    BY <1>n, <2>1, <2>2
  <2> QED BY <2>1, <2>3, <2>4
<1>4. \A c \in Calls : phase'[c] = "queued" <=> \E i \in 1..Len(waiting') : waiting'[i] = c
  BY <1>e, <1>2
<1>5. Counted(readers', writing', phase')
  <2>1. /\ r = Cardinality(HoldersOf(ph) \ Exclusive)
        /\ w <=> HoldersOf(ph) \cap Exclusive # {}
        /\ \A c, d \in HoldersOf(ph) \cap Exclusive : c = d
        /\ w => r = 0
    BY <1>2 DEF Counted
  <2>2. CASE admitted = {} /\ readers' = r /\ writing' = w
    <3>1. HoldersOf(phase') = HoldersOf(ph)
      BY <1>e, <2>2
    <3> QED BY <2>1, <2>2, <3>1 DEF Counted
  <2>3. CASE /\ admitted = {q[1]} /\ admitted \subseteq Exclusive
             /\ ~w /\ r = 0 /\ readers' = 0 /\ writing' = TRUE
    <3>1. HoldersOf(phase') \ Exclusive = HoldersOf(ph) \ Exclusive
      BY <1>e, <2>3
    <3>2. HoldersOf(phase') \cap Exclusive = {q[1]}
      BY <1>e, <2>1, <2>3
    <3> QED BY <2>1, <2>3, <3>1, <3>2 DEF Counted
  <2>4. CASE /\ admitted \cap Exclusive = {} /\ ~w
             /\ readers' = r + n /\ writing' = FALSE
    <3>1. HoldersOf(phase') \ Exclusive = (HoldersOf(ph) \ Exclusive) \cup admitted
      BY <1>e, <2>4
    <3>2. HoldersOf(phase') \cap Exclusive = {}
      BY <1>e, <2>1, <2>4
    <3>3. (HoldersOf(ph) \ Exclusive) \cap admitted = {}
      BY <1>e
    <3>4. IsFiniteSet(admitted) /\ Cardinality(admitted) = n
      BY <1>e, <1>2, AdmittedCount
    <3>5. Cardinality(HoldersOf(phase') \ Exclusive) = r + n
      <4>1. PICK H : H = HoldersOf(ph) \ Exclusive
        OBVIOUS
      <4>2. IsFiniteSet(H) /\ Cardinality(H) = r
        BY <2>1, <4>1, FiniteHolders
      <4>3. Cardinality(H \cup admitted) = r + n - Cardinality(H \cap admitted)
        BY <3>4, <4>2, FS_Union
      <4>4. Cardinality(H \cap admitted) = 0
        BY <3>3, <4>1, FS_EmptySet
      <4>5. r \in Nat
        BY <1>2
      <4>6. Cardinality(H \cup admitted) = r + n
        BY <1>n, <4>3, <4>4, <4>5
      <4> QED BY <3>1, <4>1, <4>6
    <3> QED BY <2>4, <3>2, <3>5 DEF Counted
  <2> QED BY <1>f, <2>2, <2>3, <2>4
<1> QED BY <1>e, <1>3, <1>4, <1>5 DEF Consistent

\* pump stops only at a waiter that the holders it leaves keep out.
LEMMA PumpKeepsOut ==
    ASSUME NEW q, NEW r, NEW w, NEW ph, Consistent(q, r, w, ph), Pump(q, r, w, ph)
    PROVE  FrontIsKeptOut'
<1>1. PICK n \in 0..Len(q), admitted \in SUBSET Calls : PumpEffect(q, r, w, ph, n, admitted)
  BY PumpAdmits, Zenon
<1>e. /\ FirstOf(q, n, admitted)
      /\ PumpStops(q, n, r, w)
      /\ waiting' \in Seq(Calls)
      /\ Len(waiting') = Len(q) - n
      /\ \A i \in 1..Len(waiting') : waiting'[i] = q[n + i]
      /\ HoldersOf(phase') = HoldersOf(ph) \cup admitted
  BY <1>1 DEF PumpEffect, Splits
<1>2. /\ q \in Seq(Calls) /\ r \in Nat /\ Len(q) \in Nat
      /\ r = Cardinality(HoldersOf(ph) \ Exclusive)
      /\ w <=> HoldersOf(ph) \cap Exclusive # {}
  BY LenProperties DEF Consistent, Counted
<1> SUFFICES ASSUME waiting' # <<>>
             PROVE  IF Head(waiting') \in Exclusive THEN Holders' # {}
                                                    ELSE Holders' \cap Exclusive # {}
  BY DEF FrontIsKeptOut
<1>3. Holders' = HoldersOf(ph) \cup admitted
  BY <1>e DEF Holders, HoldersOf
<1>4. n < Len(q) /\ Head(waiting') = q[n + 1]
  BY <1>e, <1>2, EmptySeq
<1>5. r > 0 => HoldersOf(ph) # {}
  BY <1>2, FS_EmptySet
<1>6. CASE n = 0
  <2>1. q # <<>>
    BY <1>2, <1>4
  <2>2. w \/ (q[1] \in Exclusive /\ r > 0)
    BY <1>e, <1>6, <2>1 DEF PumpStops
  <2> QED BY <1>2, <1>3, <1>4, <1>5, <1>6, <2>2
<1>7. CASE n = 1 /\ q[1] \in Exclusive
  <2>1. q[1] \in admitted
    BY <1>e, <1>7 DEF FirstOf
  <2> QED BY <1>3, <1>7, <2>1
<1>8. CASE n > 0 /\ q[n + 1] \in Exclusive
  <2>1. q[1] \in admitted
    BY <1>e, <1>8 DEF FirstOf
  <2> QED BY <1>3, <1>4, <1>8, <2>1
<1> QED BY <1>e, <1>4, <1>6, <1>7, <1>8 DEF PumpStops

\* A consistent state has compatible holders.
LEMMA CountedCompatible ==
    ASSUME NEW r, NEW w, NEW ph, Counted(r, w, ph)
    PROVE  Lock!Compatible(HoldersOf(ph))
<1> SUFFICES ASSUME NEW c \in HoldersOf(ph), NEW d \in HoldersOf(ph), c # d, c \in Exclusive
             PROVE  FALSE
  BY DEF Lock!Compatible
<1>1. w /\ r = 0
  BY DEF Counted
<1>2. HoldersOf(ph) \ Exclusive = {}
  BY <1>1, FiniteHolders, FS_EmptySet DEF Counted
<1>3. d \in Exclusive
  BY <1>2
<1> QED BY <1>3 DEF Counted

\* pump serves the line of the abstract lock.
LEMMA PumpServes ==
    ASSUME NEW q, NEW r, NEW w, NEW ph, Consistent(q, r, w, ph), Pump(q, r, w, ph)
    PROVE  Lock!Serve(q, HoldersOf(ph))
<1>1. PICK n \in 0..Len(q), admitted \in SUBSET Calls : PumpEffect(q, r, w, ph, n, admitted)
  BY PumpAdmits, Zenon
<1>e. /\ admitted = Lock!ToSet(SubSeq(q, 1, n))
      /\ waiting' = SubSeq(q, n + 1, Len(q))
      /\ HoldersOf(phase') = HoldersOf(ph) \cup admitted
  BY <1>1, Zenon DEF PumpEffect, ToSet, Lock!ToSet
<1>2. Holders' = HoldersOf(ph) \cup admitted
  BY <1>e DEF Holders, HoldersOf
<1>3. Lock!Compatible(HoldersOf(phase'))
  <2>1. Counted(readers', writing', phase')
    BY PumpConsistent DEF Consistent
  <2>2. PICK p, rr, ww : p = phase' /\ rr = readers' /\ ww = writing'
    OBVIOUS
  <2>3. Counted(rr, ww, p)
    BY <2>1, <2>2
  <2> QED BY <2>2, <2>3, CountedCompatible
<1>4. Lock!Compatible(HoldersOf(ph) \cup Lock!ToSet(SubSeq(q, 1, n)))
  BY <1>e, <1>3
<1> QED BY <1>e, <1>2, <1>4, Zenon DEF Lock!Serve

-----------------------------------------------------------------------------
(***************************************************************************)
(* What each handler passes to pump is consistent                          *)
(***************************************************************************)

\* Phases other than those of waiters and holders may change freely.
LEMMA RephaseConsistent ==
    ASSUME NEW q, NEW r, NEW w, NEW ph, NEW ph2, Consistent(q, r, w, ph),
           ph2 \in [Calls -> Phases],
           \A c \in Calls : ph2[c] = "queued" <=> ph[c] = "queued",
           HoldersOf(ph2) = HoldersOf(ph)
    PROVE  Consistent(q, r, w, ph2)
BY DEF Consistent, Counted

\* A call that joins the end of the queue leaves the state consistent.
LEMMA JoinConsistent ==
    ASSUME NEW q, NEW r, NEW w, NEW ph, NEW c \in Calls, Consistent(q, r, w, ph),
           ph[c] = "ready"
    PROVE  /\ Consistent(Append(q, c), r, w, [ph EXCEPT ![c] = "queued"])
           /\ HoldersOf([ph EXCEPT ![c] = "queued"]) = HoldersOf(ph)
           /\ c \notin HoldersOf(ph) \cup Lock!ToSet(q)
<1> DEFINE ph2 == [ph EXCEPT ![c] = "queued"]
<1>1. /\ q \in Seq(Calls) /\ Distinct(q)
      /\ r \in Nat /\ w \in BOOLEAN /\ ph \in [Calls -> Phases]
      /\ \A d \in Calls : ph[d] = "queued" <=> \E i \in 1..Len(q) : q[i] = d
      /\ Counted(r, w, ph)
  BY DEF Consistent
<1>2. ph2 \in [Calls -> Phases] /\ HoldersOf(ph2) = HoldersOf(ph)
  BY <1>1 DEF HoldersOf, Phases
<1>3. Len(q) \in Nat
  BY <1>1, LenProperties
<1>4. ~ \E i \in 1..Len(q) : q[i] = c
  BY <1>1
<1>5. PICK q2 : q2 = Append(q, c)
  OBVIOUS
<1>6. /\ q2 \in Seq(Calls)
      /\ Len(q2) = Len(q) + 1
      /\ q2[Len(q) + 1] = c
      /\ \A i \in 1..Len(q) : q2[i] = q[i]
  BY <1>1, <1>3, <1>5
<1>7. Distinct(q2)
  BY <1>1, <1>3, <1>4, <1>6 DEF Distinct
<1>8. \A d \in Calls : ph2[d] = "queued" <=> \E i \in 1..Len(q2) : q2[i] = d
  <2> SUFFICES ASSUME NEW d \in Calls
               PROVE  ph2[d] = "queued" <=> \E i \in 1..Len(q2) : q2[i] = d
    OBVIOUS
  <2>1. ph2[d] = "queued" <=> d = c \/ ph[d] = "queued"
    BY <1>1
  <2>2. (\E i \in 1..Len(q2) : q2[i] = d) <=> d = c \/ \E i \in 1..Len(q) : q[i] = d
    BY <1>3, <1>6
  <2> QED BY <1>1, <2>1, <2>2
<1>9. Counted(r, w, ph2)
  BY <1>1, <1>2 DEF Counted
<1>10. Consistent(q2, r, w, ph2)
  BY <1>1, <1>2, <1>6, <1>7, <1>8, <1>9 DEF Consistent
<1>11. c \notin HoldersOf(ph) \cup Lock!ToSet(q)
  <2>1. DOMAIN q = 1..Len(q)
    BY <1>1, LenProperties
  <2> QED BY <1>4, <2>1 DEF HoldersOf, Lock!ToSet
<1> QED BY <1>2, <1>5, <1>10, <1>11

Refused(ph, c, ph2) == ph2 = [ph EXCEPT ![c] = "refused"]

\* A waiter that is refused and taken out of the queue leaves the state consistent.
LEMMA WithdrawConsistent ==
    ASSUME NEW q, NEW r, NEW w, NEW ph, NEW i \in 1..Len(q), Consistent(q, r, w, ph),
           NEW ph2, Refused(ph, q[i], ph2)
    PROVE  /\ Consistent(RemoveAt(q, i), r, w, ph2)
           /\ HoldersOf(ph2) = HoldersOf(ph)
<1>1. /\ q \in Seq(Calls) /\ Distinct(q)
      /\ r \in Nat /\ w \in BOOLEAN /\ ph \in [Calls -> Phases]
      /\ \A d \in Calls : ph[d] = "queued" <=> \E j \in 1..Len(q) : q[j] = d
      /\ Counted(r, w, ph)
  BY DEF Consistent
<1>2. q[i] \in Calls /\ ph[q[i]] = "queued"
  BY <1>1, ElementOfSeq
<1>3. ph2 \in [Calls -> Phases] /\ HoldersOf(ph2) = HoldersOf(ph)
  BY <1>1, <1>2 DEF HoldersOf, Phases, Refused
<1>4. PICK rest : rest = RemoveAt(q, i)
  OBVIOUS
<1>5. Without(q, i, rest)
  BY <1>1, <1>4, RemoveFromQueue
<1>6. \A d \in Calls : ph2[d] = "queued" <=> \E j \in 1..Len(rest) : rest[j] = d
  BY <1>1, <1>5 DEF Without, Refused
<1>7. Counted(r, w, ph2)
  BY <1>1, <1>3 DEF Counted
<1> QED BY <1>1, <1>3, <1>4, <1>5, <1>6, <1>7 DEF Consistent, Without

\* A holder that leaves, its hold no longer counted, leaves the state consistent.
LEMMA ReleaseConsistent ==
    ASSUME NEW q, NEW r, NEW w, NEW ph, NEW ph2, NEW c \in Calls, Consistent(q, r, w, ph),
           ph[c] = "running",
           ph2 \in [Calls -> Phases],
           \A d \in Calls : ph2[d] = "queued" <=> ph[d] = "queued",
           HoldersOf(ph2) = HoldersOf(ph) \ {c}
    PROVE  Consistent(q, IF c \in Exclusive THEN r ELSE r - 1, w /\ c \notin Exclusive, ph2)
<1>1. /\ r \in Nat /\ w \in BOOLEAN
      /\ r = Cardinality(HoldersOf(ph) \ Exclusive)
      /\ w <=> HoldersOf(ph) \cap Exclusive # {}
      /\ \A d, e \in HoldersOf(ph) \cap Exclusive : d = e
      /\ w => r = 0
  BY DEF Consistent, Counted
<1>2. c \in HoldersOf(ph)
  BY DEF HoldersOf
<1>3. CASE c \in Exclusive
  <2>1. HoldersOf(ph2) \ Exclusive = HoldersOf(ph) \ Exclusive
    BY <1>3
  <2>2. HoldersOf(ph2) \cap Exclusive = {}
    BY <1>1, <1>2, <1>3
  <2>3. Counted(r, FALSE, ph2)
    BY <1>1, <2>1, <2>2 DEF Counted
  <2>4. Consistent(q, r, FALSE, ph2)
    BY <1>1, <2>3 DEF Consistent
  <2> QED BY <1>3, <2>4
<1>4. CASE c \notin Exclusive
  <2>1. HoldersOf(ph2) \ Exclusive = (HoldersOf(ph) \ Exclusive) \ {c}
    BY <1>4
  <2>2. HoldersOf(ph2) \cap Exclusive = HoldersOf(ph) \cap Exclusive
    BY <1>4
  <2>3. Cardinality(HoldersOf(ph2) \ Exclusive) = r - 1
    <3>1. PICK H : H = HoldersOf(ph) \ Exclusive
      OBVIOUS
    <3>2. IsFiniteSet(H) /\ Cardinality(H) = r /\ c \in H
      BY <1>1, <1>2, <1>4, <3>1, FiniteHolders
    <3>3. Cardinality(H \ {c}) = r - 1
      BY <3>2, FS_RemoveElement
    <3> QED BY <2>1, <3>1, <3>3
  <2>4. r - 1 \in Nat
    BY <2>3, FiniteHolders
  <2>5. ~ w
    BY <1>1, <2>4
  <2>6. Counted(r - 1, w, ph2)
    <3>1. HoldersOf(ph2) \cap Exclusive = {}
      BY <1>1, <2>2, <2>5
    <3> QED BY <2>3, <2>5, <3>1 DEF Counted
  <2>7. Consistent(q, r - 1, w, ph2)
    BY <1>1, <2>4, <2>6 DEF Consistent
  <2>8. (w /\ c \notin Exclusive) = w
    BY <1>1, <1>4, Zenon
  <2> QED BY <1>4, <2>7, <2>8
<1> QED BY <1>3, <1>4

-----------------------------------------------------------------------------
(***************************************************************************)
(* Steps                                                                   *)
(***************************************************************************)

\* One run of pump from consistent arguments restores the whole invariant, as a step of the lock.
LEMMA PumpStep ==
    ASSUME NEW q, NEW r, NEW w, NEW ph, Consistent(q, r, w, ph), Pump(q, r, w, ph)
    PROVE  /\ Consistent(waiting', readers', writing', phase')
           /\ FrontIsKeptOut'
           /\ Lock!Serve(q, HoldersOf(ph))
BY PumpConsistent, PumpKeepsOut, PumpServes

\* The holders the properties speak of are the holders of the current phases.
LEMMA HoldersAre == Holders = HoldersOf(phase)
BY DEF Holders, HoldersOf

\* A step that only moves calls between the other phases leaves the front kept out.
LEMMA QuietStep ==
    ASSUME IInv, UNCHANGED <<readers, writing, waiting>>,
           phase' \in [Calls -> Phases],
           \A d \in Calls : phase'[d] = "queued" <=> phase[d] = "queued",
           Holders' = Holders
    PROVE  /\ Consistent(waiting, readers, writing, phase)'
           /\ FrontIsKeptOut'
           /\ UNCHANGED <<waiting, Holders>>
<1>1. HoldersOf(phase') = HoldersOf(phase)
  BY DEF Holders, HoldersOf
<1>2. Consistent(waiting, readers, writing, phase')
  BY <1>1, RephaseConsistent DEF IInv
<1>3. Consistent(waiting', readers', writing', phase')
  BY <1>2
<1> QED BY <1>3 DEF FrontIsKeptOut, IInv, Consistent

\* The invariant holds initially.
LEMMA InitIInv == Init => IInv
<1> SUFFICES ASSUME Init PROVE IInv
  OBVIOUS
<1>1. HoldersOf(phase) = {}
  BY DEF Init, HoldersOf
<1>2. Counted(readers, writing, phase)
  BY <1>1, FS_EmptySet DEF Init, Counted
<1>3. Consistent(waiting, readers, writing, phase)
  <2>1. waiting \in Seq(Calls) /\ Len(waiting) = 0
    BY EmptySeq DEF Init
  <2>2. readers \in Nat /\ writing \in BOOLEAN /\ phase \in [Calls -> Phases]
    BY DEF Init, Phases
  <2>3. \A c \in Calls : phase[c] = "queued" <=> \E i \in 1..Len(waiting) : waiting[i] = c
    BY <2>1 DEF Init
  <2>4. Distinct(waiting)
    BY <2>1 DEF Distinct
  <2> QED BY <1>2, <2>1, <2>2, <2>3, <2>4, Zenon DEF Consistent
<1> QED BY <1>3 DEF Init, IInv, FrontIsKeptOut

\* A call that starts, with its pre-work, keeps the invariant and stutters in the lock.
LEMMA StartStep ==
    ASSUME IInv, NEW c \in Calls, Start(c)
    PROVE  IInv' /\ UNCHANGED <<waiting, Holders>>
<1>1. phase \in [Calls -> Phases] /\ spent \in [Calls -> BOOLEAN]
  BY DEF IInv, Consistent
<1>2. c \in Staged => Ahead[c] \in Calls
  BY CallsAssumption
<1>3. /\ phase' \in [Calls -> Phases]
      /\ \A d \in Calls : phase'[d] = "queued" <=> phase[d] = "queued"
      /\ Holders' = Holders
  BY <1>1, <1>2 DEF Start, Phases, Holders
<1>4. spent' \in [Calls -> BOOLEAN]
  BY <1>1 DEF Start
<1>5. UNCHANGED <<readers, writing, waiting>>
  BY DEF Start
<1> QED BY <1>3, <1>4, <1>5, QuietStep DEF IInv

\* Entering keeps the invariant and is a step of the lock: joining, or a refusal it does not see.
LEMMA EnterStep ==
    ASSUME IInv, NEW c \in Calls, Enter(c)
    PROVE  IInv' /\ (Lock!Join(c) \/ UNCHANGED <<waiting, Holders>>)
<1>1. /\ Consistent(waiting, readers, writing, phase)
      /\ phase \in [Calls -> Phases] /\ spent' \in [Calls -> BOOLEAN]
      /\ phase[c] = "ready" /\ FrontIsKeptOut
  BY DEF IInv, Consistent, Enter
<1>2. CASE Pump(Append(waiting, c), readers, writing, [phase EXCEPT ![c] = "queued"])
  <2>1. /\ Consistent(Append(waiting, c), readers, writing, [phase EXCEPT ![c] = "queued"])
        /\ HoldersOf([phase EXCEPT ![c] = "queued"]) = Holders
        /\ c \notin Holders \cup Lock!ToSet(waiting)
    BY <1>1, JoinConsistent, HoldersAre
  <2>2. /\ Consistent(waiting', readers', writing', phase')
        /\ FrontIsKeptOut'
        /\ Lock!Serve(Append(waiting, c), Holders)
    BY <1>2, <2>1, PumpStep
  <2>3. Lock!Join(c)
    BY <2>1, <2>2 DEF Lock!Join
  <2> QED BY <1>1, <2>2, <2>3 DEF IInv
<1>3. CASE Pump(waiting, readers, writing, [phase EXCEPT ![c] = "refused"])
  <2> DEFINE ph == [phase EXCEPT ![c] = "refused"]
  <2>1. /\ ph \in [Calls -> Phases]
        /\ \A d \in Calls : ph[d] = "queued" <=> phase[d] = "queued"
        /\ HoldersOf(ph) = HoldersOf(phase)
    BY <1>1 DEF Phases, HoldersOf
  <2>2. Consistent(waiting, readers, writing, ph)
    BY <1>1, <2>1, RephaseConsistent
  <2>3. /\ Consistent(waiting', readers', writing', phase')
        /\ FrontIsKeptOut'
    BY <1>3, <2>2, PumpStep
  <2>4. PICK n \in 0..Len(waiting), admitted \in SUBSET Calls :
           PumpEffect(waiting, readers, writing, ph, n, admitted)
    BY <1>3, <2>2, PumpAdmits
  <2>5. waiting \in Seq(Calls)
    BY <1>1 DEF Consistent
  <2>6. n = 0
    <3>1. readers = 0 /\ ~ writing => HoldersOf(phase) = {}
      BY <1>1, FiniteHolders, FS_EmptySet DEF Consistent, Counted
    <3>2. ~ writing => HoldersOf(phase) \cap Exclusive = {}
      BY <1>1 DEF Consistent, Counted
    <3>3. n > 0 => waiting # <<>> /\ Head(waiting) = waiting[1]
      BY <2>5, LenProperties
    <3>4. PumpStops(waiting, n, readers, writing)
      BY <2>4 DEF PumpEffect
    <3> QED BY <1>1, <3>1, <3>2, <3>3, <3>4, HoldersAre DEF PumpStops, FrontIsKeptOut
  <2>7. waiting' = waiting
    BY <2>4, <2>5, <2>6, SubSeqFull DEF PumpEffect
  <2>8. Holders' = Holders
    BY <2>1, <2>4, <2>6 DEF PumpEffect, Splits, FirstOf, Holders, HoldersOf
  <2> QED BY <1>1, <2>3, <2>7, <2>8 DEF IInv
<1> QED BY <1>2, <1>3 DEF Enter

\* A deadline that passes keeps the invariant and is a step of the lock.
LEMMA ExpireStep ==
    ASSUME IInv, NEW c \in Calls, Expire(c)
    PROVE  IInv' /\ (Lock!GiveUp(c) \/ UNCHANGED <<waiting, Holders>>)
<1>1. /\ Consistent(waiting, readers, writing, phase)
      /\ phase \in [Calls -> Phases] /\ spent' \in [Calls -> BOOLEAN]
  BY DEF IInv, Consistent, Expire
<1>2. CASE /\ phase[c] \in {"ahead", "ready"}
           /\ phase' = [phase EXCEPT ![c] = "ready"]
           /\ UNCHANGED <<readers, writing, waiting>>
  <2>1. /\ phase' \in [Calls -> Phases]
        /\ \A d \in Calls : phase'[d] = "queued" <=> phase[d] = "queued"
        /\ Holders' = Holders
    BY <1>1, <1>2 DEF Phases, Holders
  <2> QED BY <1>1, <1>2, <2>1, QuietStep DEF IInv
<1>3. ASSUME NEW i \in 1..Len(waiting), waiting[i] = c,
             Pump(RemoveAt(waiting, i), readers, writing, [phase EXCEPT ![c] = "refused"])
      PROVE  IInv' /\ Lock!GiveUp(c)
  <2>1. /\ Consistent(RemoveAt(waiting, i), readers, writing, [phase EXCEPT ![c] = "refused"])
        /\ HoldersOf([phase EXCEPT ![c] = "refused"]) = Holders
    <3>1. PICK ph2 : Refused(phase, waiting[i], ph2)
      BY DEF Refused
    <3>2. Consistent(RemoveAt(waiting, i), readers, writing, ph2) /\ HoldersOf(ph2) = HoldersOf(phase)
      BY <1>1, <3>1, WithdrawConsistent
    <3> QED BY <1>3, <3>1, <3>2, HoldersAre DEF Refused
  <2>2. /\ Consistent(waiting', readers', writing', phase')
        /\ FrontIsKeptOut'
        /\ Lock!Serve(RemoveAt(waiting, i), Holders)
    BY <1>3, <2>1, PumpStep
  <2>3. Lock!GiveUp(c)
    BY <1>3, <2>2 DEF Lock!GiveUp, RemoveAt, Lock!RemoveAt
  <2> QED BY <1>1, <2>2, <2>3 DEF IInv
<1> QED BY <1>2, <1>3 DEF Expire

\* An admitted call that resumes keeps the invariant and stutters in the lock.
LEMMA ResumeStep ==
    ASSUME IInv, NEW c \in Calls, Resume(c)
    PROVE  IInv' /\ UNCHANGED <<waiting, Holders>>
<1>1. phase \in [Calls -> Phases] /\ spent' \in [Calls -> BOOLEAN]
  BY DEF IInv, Consistent, Resume
<1>2. /\ phase' \in [Calls -> Phases]
      /\ \A d \in Calls : phase'[d] = "queued" <=> phase[d] = "queued"
      /\ Holders' = Holders
  BY <1>1 DEF Resume, Phases, Holders
<1>3. UNCHANGED <<readers, writing, waiting>>
  BY DEF Resume
<1> QED BY <1>1, <1>2, <1>3, QuietStep DEF IInv

\* A refusal that is answered keeps the invariant and stutters in the lock.
LEMMA AnswerStep ==
    ASSUME IInv, NEW c \in Calls, Answer(c)
    PROVE  IInv' /\ UNCHANGED <<waiting, Holders>>
<1>1. phase \in [Calls -> Phases] /\ spent' \in [Calls -> BOOLEAN]
  BY DEF IInv, Consistent, Answer
<1>2. /\ phase' \in [Calls -> Phases]
      /\ \A d \in Calls : phase'[d] = "queued" <=> phase[d] = "queued"
      /\ Holders' = Holders
  BY <1>1 DEF Answer, Phases, Holders
<1>3. UNCHANGED <<readers, writing, waiting>>
  BY DEF Answer
<1> QED BY <1>1, <1>2, <1>3, QuietStep DEF IInv

\* Work that settles keeps the invariant and is a step of the lock.
LEMMA FinishStep ==
    ASSUME IInv, NEW c \in Calls, Finish(c)
    PROVE  IInv' /\ Lock!Release(c)
<1> DEFINE ph == [d \in Calls |-> IF d = c THEN "idle"
                    ELSE IF d \in Staged /\ phase[d] = "ahead" /\ Ahead[d] = c THEN "ready"
                    ELSE phase[d]]
           r == IF c \in Exclusive THEN readers ELSE readers - 1
           w == writing /\ c \notin Exclusive
<1>1. /\ Consistent(waiting, readers, writing, phase)
      /\ phase \in [Calls -> Phases] /\ spent' \in [Calls -> BOOLEAN]
      /\ phase[c] = "running"
      /\ Pump(waiting, r, w, ph)
  BY DEF IInv, Consistent, Finish
<1>2. /\ ph \in [Calls -> Phases]
      /\ \A d \in Calls : ph[d] = "queued" <=> phase[d] = "queued"
      /\ HoldersOf(ph) = HoldersOf(phase) \ {c}
  BY <1>1 DEF Phases, HoldersOf
<1>3. Consistent(waiting, r, w, ph)
  BY <1>1, <1>2, ReleaseConsistent
<1>4. /\ Consistent(waiting', readers', writing', phase')
      /\ FrontIsKeptOut'
      /\ Lock!Serve(waiting, HoldersOf(ph))
  <2> HIDE DEF ph, r, w
  <2> QED BY <1>1, <1>3, PumpStep
<1>5. c \in Holders
  BY <1>1 DEF Holders
<1>6. Lock!Release(c)
  BY <1>2, <1>4, <1>5, HoldersAre DEF Lock!Release
<1> QED BY <1>1, <1>4, <1>6 DEF IInv

\* Every step keeps the invariant and is a step of the lock or stutters in it.
LEMMA StepIInv == IInv /\ [Next]_vars => IInv' /\ [Lock!Next]_(Lock!lockVars)
<1> SUFFICES ASSUME IInv, [Next]_vars
             PROVE  IInv' /\ [Lock!Next]_(Lock!lockVars)
  OBVIOUS
<1>1. ASSUME NEW c \in Calls, Start(c)
      PROVE  IInv' /\ UNCHANGED <<waiting, Holders>>
  BY <1>1, StartStep
<1>2. ASSUME NEW c \in Calls, Enter(c)
      PROVE  IInv' /\ (Lock!Join(c) \/ UNCHANGED <<waiting, Holders>>)
  BY <1>2, EnterStep
<1>3. ASSUME NEW c \in Calls, Expire(c)
      PROVE  IInv' /\ (Lock!GiveUp(c) \/ UNCHANGED <<waiting, Holders>>)
  BY <1>3, ExpireStep
<1>4. ASSUME NEW c \in Calls, Resume(c)
      PROVE  IInv' /\ UNCHANGED <<waiting, Holders>>
  BY <1>4, ResumeStep
<1>5. ASSUME NEW c \in Calls, Finish(c)
      PROVE  IInv' /\ Lock!Release(c)
  BY <1>5, FinishStep
<1>6. ASSUME NEW c \in Calls, Answer(c)
      PROVE  IInv' /\ UNCHANGED <<waiting, Holders>>
  BY <1>6, AnswerStep
<1>7. CASE UNCHANGED vars
  <2>1. IInv'
    BY <1>7 DEF vars, IInv, Consistent, Counted, Distinct, HoldersOf, FrontIsKeptOut, Holders
  <2>2. UNCHANGED <<waiting, Holders>>
    BY <1>7 DEF vars, Holders
  <2> QED BY <2>1, <2>2 DEF Lock!lockVars
<1> QED
  BY <1>1, <1>2, <1>3, <1>4, <1>5, <1>6, <1>7 DEF Next, Lock!Next, Lock!lockVars

\* The invariant holds throughout.
LEMMA InvariantHolds == Spec => []IInv
<1>1. IInv /\ [Next]_vars => IInv'
  BY StepIInv
<1> QED BY InitIInv, <1>1, PTL DEF Spec

-----------------------------------------------------------------------------
(***************************************************************************)
(* Theorems                                                                *)
(***************************************************************************)

\* The counters, the queue and the calls keep their types.
THEOREM GateTypes == Spec => []TypeOK
<1>1. IInv => TypeOK
  BY DEF IInv, Consistent, TypeOK
<1> QED BY InvariantHolds, <1>1, PTL

\* Whoever calls, in whatever order, the two counters of the gate (workspaceGate.ts:59-60) are
\* the holders: no throw, withdrawal or pump loses or doubles a hold.
THEOREM GateCounts == Spec => []HoldsCounted
<1>1. IInv => HoldsCounted
  <2> SUFFICES ASSUME IInv PROVE HoldsCounted
    OBVIOUS
  <2>1. /\ readers = Cardinality(Holders \ Exclusive)
        /\ writing <=> Holders \cap Exclusive # {}
        /\ \A c, d \in Holders \cap Exclusive : c = d
        /\ writing => readers = 0
    BY HoldersAre DEF IInv, Consistent, Counted
  <2>2. Cardinality(Holders \cap Exclusive) <= 1
    <3>1. CASE Holders \cap Exclusive = {}
      BY <3>1, FS_EmptySet
    <3>2. CASE Holders \cap Exclusive # {}
      <4>1. PICK c : Holders \cap Exclusive = {c}
        BY <2>1, <3>2
      <4> QED BY <4>1, FS_Singleton
    <3> QED BY <3>1, <3>2
  <2> QED BY <2>1, <2>2 DEF HoldsCounted
<1> QED BY InvariantHolds, <1>1, PTL

\* No other call's work is under way while a writer's is (workspaceGate.ts:65, 70).
THEOREM GateExcludes == Spec => []WritesRunAlone
<1>1. IInv => WritesRunAlone
  <2> SUFFICES ASSUME IInv, NEW c \in Calls, NEW d \in Calls,
                      phase[c] = "running", phase[d] = "running", c # d, c \in Exclusive
               PROVE  FALSE
    BY DEF WritesRunAlone
  <2>1. Counted(readers, writing, phase) /\ {c, d} \subseteq HoldersOf(phase)
    BY DEF IInv, Consistent, HoldersOf
  <2> QED BY <2>1, CountedCompatible DEF Lock!Compatible
<1> QED BY InvariantHolds, <1>1, PTL

\* No wakeup is lost: between callbacks the front of the queue is kept out by holders, so a
\* release is still to come and pumps for it.
THEOREM GateKeepsNobodyIdle == Spec => []FrontIsKeptOut
<1>1. IInv => FrontIsKeptOut
  BY DEF IInv
<1> QED BY InvariantHolds, <1>1, PTL

\* The gate implements the first-come first-served readers/writer lock.
THEOREM GateImplementsLock == Spec => ImplementsLock
<1>1. Init => Lock!Init
  BY DEF Init, Lock!Init, Holders
<1>2. IInv /\ [Next]_vars => [Lock!Next]_(Lock!lockVars)
  BY StepIInv
<1> QED BY InvariantHolds, <1>1, <1>2, PTL DEF Spec, ImplementsLock, Lock!Spec

-----------------------------------------------------------------------------
(***************************************************************************)
(* The budget of a bounded read                                            *)
(***************************************************************************)

\* pump's loop stops in one place.
LEMMA PumpStopsOnce ==
    ASSUME NEW q \in Seq(Calls), NEW r \in Nat, NEW w \in BOOLEAN,
           NEW m \in 0..Len(q), NEW n \in 0..Len(q),
           PumpStops(q, m, r, w), PumpStops(q, n, r, w)
    PROVE  m = n
<1>1. Len(q) \in Nat /\ (Len(q) > 0 => q # <<>>)
  BY LenProperties, EmptySeq
<1>2. ASSUME NEW j \in 0..Len(q), NEW k \in 0..Len(q), j < k,
             PumpStops(q, j, r, w), PumpStops(q, k, r, w)
      PROVE  FALSE
  <2>1. CASE j = 0
    BY <1>1, <1>2, <2>1 DEF PumpStops
  <2>2. CASE j > 0
    <3>1. j \in 1..k /\ j + 1 \in 1..k /\ j < Len(q) /\ k # 1 /\ k # 0
      BY <1>1, <1>2, <2>2
    <3>2. \A i \in 1..k : q[i] \notin Exclusive
      BY <1>2, <3>1 DEF PumpStops
    <3>3. q[1] \in Exclusive \/ q[j + 1] \in Exclusive
      BY <1>2, <2>2, <3>1 DEF PumpStops
    <3> QED BY <3>1, <3>2, <3>3
  <2> QED BY <1>2, <2>1, <2>2
<1> QED BY <1>1, <1>2

\* A caller whose budget is spent is not waiting.
SpentLeave == \A c \in Calls : phase[c] = "queued" => ~ spent[c]

\* Whoever waits after pump waited before it.
LEMMA PumpQueuesNobody ==
    ASSUME NEW q, NEW r, NEW w, NEW ph, Consistent(q, r, w, ph), Pump(q, r, w, ph),
           NEW c \in Calls, phase'[c] = "queued"
    PROVE  ph[c] = "queued"
<1>1. PICK n \in 0..Len(q), admitted \in SUBSET Calls : PumpEffect(q, r, w, ph, n, admitted)
  BY PumpAdmits, Zenon
<1> QED BY <1>1 DEF PumpEffect

\* No step leaves a read with a spent budget in the queue.
LEMMA SpentStep == IInv /\ SpentLeave /\ [Next]_vars => SpentLeave'
<1> SUFFICES ASSUME IInv, SpentLeave, [Next]_vars,
                    NEW d \in Calls, phase'[d] = "queued"
             PROVE  ~ spent'[d]
  BY DEF SpentLeave
<1>1. /\ Consistent(waiting, readers, writing, phase)
      /\ phase \in [Calls -> Phases] /\ spent \in [Calls -> BOOLEAN]
      /\ waiting \in Seq(Calls) /\ readers \in Nat /\ writing \in BOOLEAN
  BY DEF IInv, Consistent
<1>2. ASSUME NEW c \in Calls, Start(c)
      PROVE  ~ spent'[d]
  BY <1>1, <1>2 DEF Start, SpentLeave
<1>3. ASSUME NEW c \in Calls, Enter(c)
      PROVE  ~ spent'[d]
  <2>1. phase[c] = "ready" /\ spent' = spent
    BY <1>3 DEF Enter
  <2>2. CASE d # c
    <3>1. CASE Pump(Append(waiting, c), readers, writing, [phase EXCEPT ![c] = "queued"])
      <4>1. Consistent(Append(waiting, c), readers, writing, [phase EXCEPT ![c] = "queued"])
        BY <1>1, <2>1, JoinConsistent
      <4>2. [phase EXCEPT ![c] = "queued"][d] = "queued"
        BY <3>1, <4>1, PumpQueuesNobody
      <4> QED BY <1>1, <2>1, <2>2, <4>2 DEF SpentLeave
    <3>2. CASE Pump(waiting, readers, writing, [phase EXCEPT ![c] = "refused"])
      <4>1. Consistent(waiting, readers, writing, [phase EXCEPT ![c] = "refused"])
        <5> DEFINE ph == [phase EXCEPT ![c] = "refused"]
        <5>1. /\ ph \in [Calls -> Phases]
              /\ \A e \in Calls : ph[e] = "queued" <=> phase[e] = "queued"
              /\ HoldersOf(ph) = HoldersOf(phase)
          BY <1>1, <2>1 DEF Phases, HoldersOf
        <5> QED BY <1>1, <5>1, RephaseConsistent
      <4>2. [phase EXCEPT ![c] = "refused"][d] = "queued"
        BY <3>2, <4>1, PumpQueuesNobody
      <4> QED BY <1>1, <2>1, <2>2, <4>2 DEF SpentLeave
    <3> QED BY <1>3, <3>1, <3>2 DEF Enter
  <2>3. CASE d = c /\ spent[c]
    <3>1. CASE ~ PumpStops(Append(waiting, c), Len(waiting) + 1, readers, writing)
      <4> DEFINE ph == [phase EXCEPT ![c] = "refused"]
      <4>1. Pump(waiting, readers, writing, ph)
        BY <1>3, <2>3, <3>1 DEF Enter
      <4>2. /\ ph \in [Calls -> Phases]
            /\ \A e \in Calls : ph[e] = "queued" <=> phase[e] = "queued"
            /\ HoldersOf(ph) = HoldersOf(phase)
        BY <1>1, <2>1 DEF Phases, HoldersOf
      <4>3. Consistent(waiting, readers, writing, ph)
        BY <1>1, <4>2, RephaseConsistent
      <4>4. ph[d] = "queued"
        BY <4>1, <4>3, PumpQueuesNobody
      <4> QED BY <1>1, <2>3, <4>4
    <3>2. CASE PumpStops(Append(waiting, c), Len(waiting) + 1, readers, writing)
      <4>1. Pump(Append(waiting, c), readers, writing, [phase EXCEPT ![c] = "queued"])
        BY <1>3, <3>2 DEF Enter
      <4>2. Consistent(Append(waiting, c), readers, writing, [phase EXCEPT ![c] = "queued"])
        BY <1>1, <2>1, JoinConsistent
      <4>3. PICK q : q = Append(waiting, c)
        OBVIOUS
      <4>4. /\ q \in Seq(Calls) /\ Len(q) = Len(waiting) + 1 /\ q[Len(q)] = c
            /\ Len(waiting) \in Nat
        BY <1>1, <4>3
      <4>5. PICK n \in 0..Len(q), admitted \in SUBSET Calls :
               PumpEffect(q, readers, writing, [phase EXCEPT ![c] = "queued"], n, admitted)
        BY <4>1, <4>2, <4>3, PumpAdmits
      <4>6. Len(q) \in 0..Len(q) /\ PumpStops(q, Len(q), readers, writing)
        BY <3>2, <4>3, <4>4
      <4>7. n = Len(q)
        BY <1>1, <4>4, <4>5, <4>6, PumpStopsOnce DEF PumpEffect
      <4>8. c \in admitted
        BY <4>4, <4>5, <4>7 DEF PumpEffect, Splits, FirstOf
      <4> QED BY <2>3, <4>5, <4>8 DEF PumpEffect
    <3> QED BY <3>1, <3>2
  <2> QED BY <1>1, <2>1, <2>2, <2>3
<1>4. ASSUME NEW c \in Calls, Expire(c)
      PROVE  ~ spent'[d]
  <2>1. spent' = [spent EXCEPT ![c] = TRUE]
    BY <1>4 DEF Expire
  <2>2. CASE phase[c] \in {"ahead", "ready"} /\ phase' = [phase EXCEPT ![c] = "ready"]
    BY <1>1, <2>1, <2>2 DEF SpentLeave
  <2>3. ASSUME NEW i \in 1..Len(waiting), waiting[i] = c,
               Pump(RemoveAt(waiting, i), readers, writing, [phase EXCEPT ![c] = "refused"])
        PROVE  ~ spent'[d]
    <3>1. PICK ph2 : Refused(phase, waiting[i], ph2)
      BY DEF Refused
    <3>2. Consistent(RemoveAt(waiting, i), readers, writing, ph2)
      BY <1>1, <3>1, WithdrawConsistent
    <3>3. ph2 = [phase EXCEPT ![c] = "refused"]
      BY <2>3, <3>1 DEF Refused
    <3>4. ph2[d] = "queued"
      BY <2>3, <3>2, <3>3, PumpQueuesNobody
    <3> QED BY <1>1, <2>1, <3>3, <3>4 DEF SpentLeave
  <2> QED BY <1>4, <2>2, <2>3 DEF Expire
<1>5. ASSUME NEW c \in Calls, Resume(c)
      PROVE  ~ spent'[d]
  BY <1>1, <1>5 DEF Resume, SpentLeave
<1>6. ASSUME NEW c \in Calls, Answer(c)
      PROVE  ~ spent'[d]
  BY <1>1, <1>6 DEF Answer, SpentLeave
<1>7. ASSUME NEW c \in Calls, Finish(c)
      PROVE  ~ spent'[d]
  <2> DEFINE ph == [e \in Calls |-> IF e = c THEN "idle"
                      ELSE IF e \in Staged /\ phase[e] = "ahead" /\ Ahead[e] = c THEN "ready"
                      ELSE phase[e]]
             r == IF c \in Exclusive THEN readers ELSE readers - 1
             w == writing /\ c \notin Exclusive
  <2>1. Pump(waiting, r, w, ph) /\ phase[c] = "running" /\ spent' = spent
    BY <1>7 DEF Finish
  <2>2. /\ ph \in [Calls -> Phases]
        /\ \A e \in Calls : ph[e] = "queued" <=> phase[e] = "queued"
        /\ HoldersOf(ph) = HoldersOf(phase) \ {c}
    BY <1>1, <2>1 DEF Phases, HoldersOf
  <2>3. Consistent(waiting, r, w, ph)
    BY <1>1, <2>1, <2>2, ReleaseConsistent
  <2>4. ph[d] = "queued"
    <3> HIDE DEF ph, r, w
    <3> QED BY <2>1, <2>3, PumpQueuesNobody
  <2> QED BY <2>1, <2>2, <2>4 DEF SpentLeave
<1>8. CASE UNCHANGED vars
  BY <1>8 DEF vars, SpentLeave
<1> QED BY <1>2, <1>3, <1>4, <1>5, <1>6, <1>7, <1>8 DEF Next

\* A bounded read never waits past its one budget, pre-work included (workspaceGate.ts:80-91).
THEOREM GateKeepsBudgets == Spec => []NeverWaitsSpent
<1>1. Init => SpentLeave
  BY DEF Init, SpentLeave
<1>2. IInv /\ SpentLeave => NeverWaitsSpent
  <2> SUFFICES ASSUME IInv, SpentLeave, NEW i \in 1..Len(waiting)
               PROVE  ~ spent[waiting[i]]
    BY DEF NeverWaitsSpent
  <2>1. waiting[i] \in Calls /\ phase[waiting[i]] = "queued"
    BY ElementOfSeq DEF IInv, Consistent
  <2> QED BY <2>1 DEF SpentLeave
<1> QED BY InvariantHolds, <1>1, <1>2, SpentStep, PTL DEF Spec
=============================================================================
