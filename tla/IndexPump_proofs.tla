--------------------------- MODULE IndexPump_proofs ---------------------------
(***************************************************************************)
(* The index pump, for any modules, imports, writes, moves and troubles:   *)
(* its rows and its plans keep their types, and nothing stale is           *)
(* forgotten.                                                              *)
(*                                                                         *)
(* A stale module nobody owes a parse is remembered by a pending move of   *)
(* an import.  The argument follows one such move: it is acknowledged by a *)
(* settlement only, which asks for everybody but those written after every *)
(* move it answers; so what must be kept is a move the module was not      *)
(* written after, in the order the settlement will read.                   *)
(***************************************************************************)
EXTENDS IndexPump, Extrema, SequenceTheorems, FiniteSetTheorems, TLAPS

-----------------------------------------------------------------------------
(***************************************************************************)
(* Sequences without repetition                                            *)
(***************************************************************************)

\* A finite set of numbers can be counted off in its order.
LEMMA EnumerationExists ==
  ASSUME NEW S \in SUBSET Nat, IsFiniteSet(S)
  PROVE  \E s \in [1..Cardinality(S) -> S] :
           \A i, j \in 1..Cardinality(S) : i < j => s[i] < s[j]
<1> DEFINE Counted(T, n) ==
      \E s \in [1..n -> T] : \A i, j \in 1..n : i < j => s[i] < s[j]
    Uncounted ==
      {n \in Nat : \E T \in SUBSET Nat :
         IsFiniteSet(T) /\ Cardinality(T) = n /\ ~ Counted(T, n)}
<1>1. Uncounted = {}
  <2> SUFFICES ASSUME Uncounted # {} PROVE FALSE
    OBVIOUS
  <2>1. PICK n \in Uncounted : \A k \in Uncounted : n <= k
    <3>1. Uncounted \in SUBSET Nat
      OBVIOUS
    <3> HIDE DEF Uncounted
    <3> QED
      BY <3>1, LeastNumber
  <2>2. PICK T \in SUBSET Nat :
          IsFiniteSet(T) /\ Cardinality(T) = n /\ ~ Counted(T, n)
    BY <2>1
  <2>3. n \in Nat /\ n # 0
    <3>1. ASSUME n = 0 PROVE Counted(T, n)
      <4>1. [i \in {} |-> 0] \in [1..n -> T]
        BY <3>1
      <4> QED
        BY <3>1, <4>1
    <3> QED
      BY <2>1, <2>2, <3>1
  <2>4. PICK x \in T : \A k \in T : x <= k
    <3>1. T # {}
      BY <2>2, <2>3, FS_EmptySet
    <3> QED
      BY <3>1, LeastNumber
  <2>5. IsFiniteSet(T \ {x}) /\ Cardinality(T \ {x}) = n - 1
    BY <2>2, <2>4, FS_RemoveElement
  <2>6. n - 1 \in Nat /\ n - 1 \notin Uncounted
    <3> HIDE DEF Uncounted
    <3>1. n - 1 \in Nat /\ ~ (n <= n - 1)
      BY <2>3
    <3> QED
      BY <2>1, <3>1
  <2>7. Counted(T \ {x}, n - 1)
    BY <2>5, <2>6
  <2> HIDE DEF Uncounted
  <2>8. PICK t \in [1..(n - 1) -> T \ {x}] :
          \A i, j \in 1..(n - 1) : i < j => t[i] < t[j]
    BY <2>7
  <2>9. PICK s : s = [i \in 1..n |-> IF i = 1 THEN x ELSE t[i - 1]]
    OBVIOUS
  <2>10. \A i \in 1..n : i # 1 => i - 1 \in 1..(n - 1)
    BY <2>3
  <2>11. s \in [1..n -> T]
    BY <2>4, <2>8, <2>9, <2>10
  <2>12. ASSUME NEW i \in 1..n, NEW j \in 1..n, i < j PROVE s[i] < s[j]
    <3>1. j # 1 /\ j - 1 \in 1..(n - 1) /\ s[j] = t[j - 1]
      BY <2>9, <2>10, <2>12
    <3>2. CASE i = 1
      <4>1. s[i] = x /\ s[j] \in T \ {x}
        BY <2>8, <2>9, <3>1, <3>2
      <4>2. x \in Nat /\ s[j] \in Nat /\ x <= s[j] /\ x # s[j]
        BY <2>2, <2>4, <4>1
      <4> QED
        BY <4>1, <4>2
    <3>3. CASE i # 1
      <4>1. i - 1 \in 1..(n - 1) /\ s[i] = t[i - 1] /\ i - 1 < j - 1
        BY <2>9, <2>10, <2>12, <3>3
      <4> QED
        BY <2>8, <3>1, <4>1
    <3> QED
      BY <3>2, <3>3
  <2> QED
    BY <2>2, <2>11, <2>12
<1>2. Cardinality(S) \in Nat
  BY FS_CardinalityType
<1> QED
  BY <1>1, <1>2

\* What is sorted is of the set, and no module twice.
LEMMA SortedHolds ==
  ASSUME NEW S \in SUBSET Modules
  PROVE  /\ Sorted(S) \in Seq(S)
         /\ IsInjective(Sorted(S))
         /\ ToSet(Sorted(S)) \subseteq S
<1>1. S \in SUBSET Nat /\ IsFiniteSet(S)
  BY PumpAssumption, FS_Subset
<1>2. Cardinality(S) \in Nat
  BY <1>1, FS_CardinalityType
<1>3. /\ Sorted(S) \in [1..Cardinality(S) -> S]
      /\ \A i, j \in 1..Cardinality(S) : i < j => Sorted(S)[i] < Sorted(S)[j]
  BY <1>1, EnumerationExists DEF Sorted
<1>4. Sorted(S) \in Seq(S) /\ ToSet(Sorted(S)) \subseteq S
  BY <1>2, <1>3, SeqDef DEF ToSet
<1>5. ASSUME NEW i \in 1..Cardinality(S), NEW j \in 1..Cardinality(S),
             Sorted(S)[i] = Sorted(S)[j]
      PROVE  i = j
  <2>1. \A k \in 1..Cardinality(S) : Sorted(S)[k] \in Nat
    BY <1>1, <1>3
  <2> QED
    BY <1>2, <1>3, <1>5, <2>1
<1> QED
  BY <1>3, <1>4, <1>5 DEF IsInjective

\* A new element goes last.
LEMMA AppendHolds ==
  ASSUME NEW S, NEW s \in Seq(S), NEW m \in S, IsInjective(s), ~ Contains(s, m)
  PROVE  /\ Append(s, m) \in Seq(S)
         /\ IsInjective(Append(s, m))
<1>1. /\ Append(s, m) \in Seq(S)
      /\ Len(Append(s, m)) = Len(s) + 1 /\ Len(s) \in Nat
      /\ DOMAIN Append(s, m) = 1..(Len(s) + 1) /\ DOMAIN s = 1..Len(s)
      /\ \A i \in 1..Len(s) : Append(s, m)[i] = s[i]
      /\ Append(s, m)[Len(s) + 1] = m
  OBVIOUS
<1>2. \A i \in 1..Len(s) : s[i] # m
  BY DEF Contains
<1> QED
  BY <1>1, <1>2 DEF IsInjective

\* Two sequences with nothing in common, one after the other.
LEMMA ConcatHolds ==
  ASSUME NEW S, NEW s \in Seq(S), NEW t \in Seq(S),
         IsInjective(s), IsInjective(t), ToSet(s) \cap ToSet(t) = {}
  PROVE  s \o t \in Seq(S) /\ IsInjective(s \o t)
<1>1. /\ s \o t \in Seq(S) /\ DOMAIN (s \o t) = 1..(Len(s) + Len(t))
      /\ Len(s) \in Nat /\ Len(t) \in Nat
      /\ DOMAIN s = 1..Len(s) /\ DOMAIN t = 1..Len(t)
      /\ \A i \in 1..(Len(s) + Len(t)) :
           (s \o t)[i] = IF i <= Len(s) THEN s[i] ELSE t[i - Len(s)]
  OBVIOUS
<1>2. \A i \in 1..Len(s), j \in 1..Len(t) : s[i] # t[j]
  BY <1>1 DEF ToSet
<1>3. \A i \in 1..(Len(s) + Len(t)) : i <= Len(s) \/ i - Len(s) \in 1..Len(t)
  BY <1>1
<1>4. ASSUME NEW i \in 1..(Len(s) + Len(t)), NEW j \in 1..(Len(s) + Len(t)),
             (s \o t)[i] = (s \o t)[j]
      PROVE  i = j
  <2>1. CASE i <= Len(s) /\ j <= Len(s)
    BY <1>1, <1>4, <2>1 DEF IsInjective
  <2>2. CASE ~ (i <= Len(s)) /\ ~ (j <= Len(s))
    <3>1. i - Len(s) \in 1..Len(t) /\ j - Len(s) \in 1..Len(t)
      BY <1>3, <2>2
    <3>2. i - Len(s) = j - Len(s)
      BY <1>1, <1>4, <2>2, <3>1 DEF IsInjective
    <3> QED
      BY <1>1, <3>2
  <2> QED
    BY <1>1, <1>2, <1>3, <1>4, <2>1, <2>2
<1> QED
  BY <1>1, <1>4 DEF IsInjective

\* Without its first element.
LEMMA TailHolds ==
  ASSUME NEW S, NEW s \in Seq(S), s # <<>>, IsInjective(s)
  PROVE  Head(s) \in S /\ Tail(s) \in Seq(S) /\ IsInjective(Tail(s))
<1>1. /\ Head(s) \in S /\ Tail(s) \in Seq(S)
      /\ Len(s) \in Nat /\ DOMAIN s = 1..Len(s)
      /\ DOMAIN Tail(s) = 1..(Len(s) - 1)
      /\ \A i \in 1..(Len(s) - 1) : Tail(s)[i] = s[i + 1] /\ i + 1 \in 1..Len(s)
  OBVIOUS
<1> QED
  BY <1>1 DEF IsInjective

-----------------------------------------------------------------------------
(***************************************************************************)
(* The invariants                                                          *)
(***************************************************************************)

\* The rows of a store: an outline has no references, so none that are stale.
Rows(d) == d \in Stores /\ \A n \in d.stale : d.depth[n] = "full"

Flags ==
    /\ lost \in BOOLEAN /\ upgradeWanted \in BOOLEAN /\ rebindQueued \in BOOLEAN
    /\ recovering \in BOOLEAN /\ recovery \in BOOLEAN /\ resolveRetry \in BOOLEAN

Works == [moves : [Modules -> SUBSET Names], order : Seq(Modules)]
Uses == [writes : 0..MaxWrites, moves : 0..MaxMoves, orders : 0..MaxOrders, troubles : 0..MaxTroubles]

\* What the pump does and is about to do; each restart is one of the troubles.
Plans ==
    /\ broken \subseteq Modules /\ upgradeFailed \subseteq Modules /\ resolvePending \subseteq Modules
    /\ pc \in {"off", "turn", "hold", "owing", "ending"}
    /\ job \in Jobs \cup {NoJob} /\ (pc = "hold" => job # NoJob)
    /\ (job # NoJob => pc \in {"hold", "owing"})
    /\ (lost => pc # "off")
    /\ work \in Works
    /\ orders \in Seq(Modules) /\ IsInjective(orders)
    /\ unasked \in Seq(Modules) /\ IsInjective(unasked)
    /\ cursor \in Modules \cup {0}
    /\ gaveUp \subseteq {"fault", "loss"}
    /\ used \in Uses
    /\ process \in 0..used.troubles

\* m has a place before n's.
Before(m, n, s) == \E i, j \in 1..Len(s) : i < j /\ s[i] = m /\ s[j] = n

\* Stale, owed no parse, in no gap: only a move can remember it.
Exposed(d) == {n \in d.stale : d.owed[n] = NotOwed /\ d.gap[n] = "none"}

\* A move of an import is pending that n was not written after: not in `u`, and not in the order of a
\* settlement that would acknowledge the move as it stands.
Remembers(d, n, u, moves, order, m) ==
    /\ n \in ImportersOf(m) /\ d.move[m] # {}
    /\ ~ Before(m, n, u)
    /\ moves[m] # d.move[m] \/ ~ Before(m, n, order)

Remembered(d, u, moves, order) ==
    \A n \in Exposed(d) : \E m \in Modules : Remembers(d, n, u, moves, order, m)

\* The order of the settlement under way, if it can still write.
Answering == IF pc = "owing" /\ ~ lost THEN work.order ELSE <<>>

\* Of the open batch, and of what a lost one leaves.
Memory ==
    /\ Remembered(db, unasked, work.moves, Answering)
    /\ Remembered(committed, unasked, work.moves, <<>>)

\* A settlement knows the place of every move it answers, or takes none for read.
Ordered(moves, order) == order = <<>> \/ Moved(moves) \subseteq ToSet(order)

\* All but the flags.
Rest ==
    /\ Rows(db) /\ Rows(committed)
    /\ Plans
    /\ Memory
    /\ (pc = "owing" => Ordered(work.moves, work.order))

IInv == Flags /\ Rest

-----------------------------------------------------------------------------
(***************************************************************************)
(* Rows stay rows                                                          *)
(***************************************************************************)

Owing == [state : {"no", "payable", "outage", "refusal"}, in : 0..MaxTroubles]

LEMMA DebtsAreOwing ==
  /\ NotOwed \in Owing /\ Payable \in Owing /\ Payable # NotOwed
  /\ process \in 0..MaxTroubles
       => \A reason \in {"outage", "refusal"} : Held(reason) \in Owing /\ Held(reason) # NotOwed
<1> USE PumpAssumption DEF NotOwed, Payable, Held, Owing
<1>1. NotOwed \in Owing /\ Payable \in Owing
  OBVIOUS
<1>2. NotOwed.state = "no" /\ Payable.state = "payable"
  OBVIOUS
<1>3. ASSUME process \in 0..MaxTroubles, NEW reason \in {"outage", "refusal"}
      PROVE  Held(reason) \in Owing /\ Held(reason).state = reason
  BY <1>3
<1>4. \A reason \in {"outage", "refusal"} : Held(reason).state = reason
  OBVIOUS
<1> HIDE DEF NotOwed, Payable, Held, Owing
<1> QED
  BY <1>1, <1>2, <1>3, <1>4

\* Every field of the row a parse leaves.
LEMMA ParsedRows ==
  ASSUME NEW d, Rows(d), NEW m \in Modules, NEW names \in SUBSET Names
  PROVE  Rows(Parsed(d, m, names))
<1> DEFINE r == Parsed(d, m, names)
<1>1. /\ d.depth \in [Modules -> {"outline", "full"}] /\ d.move \in [Modules -> SUBSET Names]
      /\ d.owed \in [Modules -> Owing] /\ d.failing \subseteq Modules /\ d.stale \subseteq Modules
      /\ d.gap \in [Modules -> {"none", "order", "merged", "unread", "refused"}]
      /\ \A n \in d.stale : d.depth[n] = "full"
  BY DEF Rows, Stores, Owing
<1>2. r.depth \in [Modules -> {"outline", "full"}] /\ r.move \in [Modules -> SUBSET Names]
  BY <1>1 DEF Parsed
<1>3. r.owed \in [Modules -> Owing]
  BY <1>1, DebtsAreOwing DEF Parsed
<1>4. r.failing \subseteq Modules /\ r.stale \subseteq Modules
  BY <1>1 DEF Parsed, ImportersOf
<1>5. r.gap \in [Modules -> {"none", "order", "merged", "unread", "refused"}]
  BY <1>1 DEF Parsed
<1>6. \A n \in r.stale : r.depth[n] = "full"
  BY <1>1 DEF Parsed, ImportersOf, Outline
<1>7. r = [depth |-> r.depth, move |-> r.move, owed |-> r.owed, failing |-> r.failing,
           stale |-> r.stale, gap |-> r.gap]
  BY DEF Parsed
<1> HIDE DEF r
<1>8. r \in Stores
  BY <1>2, <1>3, <1>4, <1>5, <1>7 DEF Stores, Owing
<1> QED
  BY <1>6, <1>8 DEF r, Rows

\* What changes the failures, the debts, the moves and the gaps only.
LEMMA RowsStay ==
  ASSUME NEW d, Rows(d), NEW e,
         e = [depth |-> d.depth, move |-> e.move, owed |-> e.owed, failing |-> e.failing,
              stale |-> d.stale, gap |-> e.gap],
         e.move \in [Modules -> SUBSET Names], e.owed \in [Modules -> Owing],
         e.failing \subseteq Modules,
         e.gap \in [Modules -> {"none", "order", "merged", "unread", "refused"}]
  PROVE  Rows(e)
<1>1. e.depth = d.depth /\ e.stale = d.stale
  OBVIOUS
<1>2. e \in Stores
  BY DEF Rows, Stores, Owing
<1> QED
  BY <1>1, <1>2 DEF Rows

\* What a row is made of.
LEMMA RowFields ==
  ASSUME NEW d, Rows(d)
  PROVE  /\ d = [depth |-> d.depth, move |-> d.move, owed |-> d.owed, failing |-> d.failing,
                 stale |-> d.stale, gap |-> d.gap]
         /\ d.depth \in [Modules -> {"outline", "full"}] /\ d.move \in [Modules -> SUBSET Names]
         /\ d.owed \in [Modules -> Owing] /\ d.failing \subseteq Modules /\ d.stale \subseteq Modules
         /\ d.gap \in [Modules -> {"none", "order", "merged", "unread", "refused"}]
         /\ \A n \in d.stale : d.depth[n] = "full"
BY DEF Rows, Stores, Owing

LEMMA RefusedRows ==
  ASSUME NEW d, Rows(d), NEW m \in Modules
  PROVE  /\ Rows(Refused(d, m)) /\ Refused(d, m).move = d.move
         /\ Exposed(Refused(d, m)) = Exposed(d)
<1> DEFINE e == Refused(d, m)
<1>1. e = [depth |-> d.depth, move |-> d.move, owed |-> d.owed, failing |-> d.failing \cup {m},
           stale |-> d.stale, gap |-> d.gap]
  BY RowFields DEF Refused
<1> HIDE DEF e
<1>2. Rows(e)
  BY <1>1, RowsStay, RowFields
<1> QED
  BY <1>1, <1>2 DEF e, Exposed

\* A debt that is another one now, or a module that owes from now on.
LEMMA OwedRows ==
  ASSUME NEW d, Rows(d), NEW owed \in [Modules -> Owing],
         \A n \in Modules : owed[n] = NotOwed => d.owed[n] = NotOwed
  PROVE  /\ Rows([d EXCEPT !.owed = owed]) /\ [d EXCEPT !.owed = owed].move = d.move
         /\ Exposed([d EXCEPT !.owed = owed]) \subseteq Exposed(d)
<1> DEFINE e == [d EXCEPT !.owed = owed]
<1>1. e = [depth |-> d.depth, move |-> d.move, owed |-> owed, failing |-> d.failing,
           stale |-> d.stale, gap |-> d.gap]
  BY RowFields
<1> HIDE DEF e
<1>2. Rows(e)
  BY <1>1, RowsStay, RowFields
<1>3. d.stale \subseteq Modules
  BY RowFields
<1> QED
  BY <1>1, <1>2, <1>3 DEF e, Exposed

LEMMA HeldBackRows ==
  ASSUME NEW d, Rows(d), NEW m \in Modules, NEW reason \in {"outage", "refusal"},
         process \in 0..MaxTroubles
  PROVE  /\ Rows(HeldBack(d, m, reason)) /\ HeldBack(d, m, reason).move = d.move
         /\ Exposed(HeldBack(d, m, reason)) \subseteq Exposed(d)
<1>1. HeldBack(d, m, reason) = [d EXCEPT !.owed = [d.owed EXCEPT ![m] = Held(reason)]]
  BY RowFields DEF HeldBack
<1>2. Held(reason) \in Owing /\ Held(reason) # NotOwed
  BY DebtsAreOwing
<1>3. PICK owed : owed = [d.owed EXCEPT ![m] = Held(reason)]
  OBVIOUS
<1>4. owed \in [Modules -> Owing] /\ \A n \in Modules : owed[n] = NotOwed => d.owed[n] = NotOwed
  BY <1>2, <1>3, RowFields
<1> QED
  BY <1>1, <1>3, <1>4, OwedRows

\* The rows after a settlement.
LEMMA SettledRows ==
  ASSUME NEW d, Rows(d), NEW moves \in [Modules -> SUBSET Names], NEW owed, NEW passed
  PROVE  LET e == SettleMoves(d, moves, owed, passed) IN
         /\ Rows(e) /\ e.stale = d.stale /\ e.depth = d.depth
         /\ \A m \in Modules : e.move[m] = IF moves[m] = d.move[m] THEN {} ELSE d.move[m]
         /\ \A n \in Modules : e.owed[n] = IF n \in owed /\ d.owed[n] = NotOwed THEN Payable ELSE d.owed[n]
         /\ \A n \in Modules : e.gap[n] = IF n \in passed THEN "refused" ELSE d.gap[n]
<1> DEFINE e == SettleMoves(d, moves, owed, passed)
<1>1. e = [depth |-> d.depth,
           move |-> [m \in Modules |-> IF moves[m] = d.move[m] THEN {} ELSE d.move[m]],
           owed |-> [n \in Modules |-> IF n \in owed /\ d.owed[n] = NotOwed THEN Payable ELSE d.owed[n]],
           failing |-> d.failing, stale |-> d.stale,
           gap |-> [n \in Modules |-> IF n \in passed THEN "refused" ELSE d.gap[n]]]
  <2>1. PICK move, debts, gap :
          /\ move = [m \in Modules |-> IF moves[m] = d.move[m] THEN {} ELSE d.move[m]]
          /\ debts = [n \in Modules |-> IF n \in owed /\ d.owed[n] = NotOwed THEN Payable ELSE d.owed[n]]
          /\ gap = [n \in Modules |-> IF n \in passed THEN "refused" ELSE d.gap[n]]
    OBVIOUS
  <2>2. e = [d EXCEPT !.owed = debts, !.move = move, !.gap = gap]
    BY <2>1, Zenon DEF SettleMoves
  <2>3. e = [depth |-> d.depth, move |-> move, owed |-> debts, failing |-> d.failing,
             stale |-> d.stale, gap |-> gap]
    <3>1. d = [depth |-> d.depth, move |-> d.move, owed |-> d.owed, failing |-> d.failing,
               stale |-> d.stale, gap |-> d.gap]
      BY RowFields
    <3>2. e = [[[d EXCEPT !.owed = debts] EXCEPT !.move = move] EXCEPT !.gap = gap]
      BY <2>2
    <3> HIDE DEF e
    <3> QED
      BY <3>1, <3>2
  <2> QED
    BY <2>1, <2>3
<1> HIDE DEF e
<1>2. e.move \in [Modules -> SUBSET Names]
  BY <1>1, RowFields
<1>3. e.owed \in [Modules -> Owing]
  BY <1>1, RowFields, DebtsAreOwing
<1>4. e.gap \in [Modules -> {"none", "order", "merged", "unread", "refused"}]
  BY <1>1, RowFields
<1>5. e = [depth |-> d.depth, move |-> e.move, owed |-> e.owed, failing |-> e.failing,
           stale |-> d.stale, gap |-> e.gap] /\ e.failing = d.failing
  BY <1>1
<1>6. Rows(e)
  BY <1>2, <1>3, <1>4, <1>5, RowsStay, RowFields
<1> QED
  BY <1>1, <1>6 DEF e

\* The rows of modules taken for readers.
LEMMA TakenRows ==
  ASSUME NEW d, Rows(d), NEW of, NEW gap \in {"order", "unread", "refused"}
  PROVE  LET e == TakenForRead(d, of, gap) IN
         /\ Rows(e) /\ e.stale = d.stale /\ e.move = d.move /\ e.owed = d.owed
         /\ \A n \in Modules :
              e.gap[n] = IF n \in of \cap d.stale
                            /\ \E m \in Modules : n \in ImportersOf(m) /\ d.move[m] # {}
                         THEN gap ELSE d.gap[n]
<1> DEFINE e == TakenForRead(d, of, gap)
           missed == {n \in of \cap d.stale : \E m \in Modules : n \in ImportersOf(m) /\ d.move[m] # {}}
<1>1. e = [depth |-> d.depth, move |-> d.move, owed |-> d.owed, failing |-> d.failing, stale |-> d.stale,
           gap |-> [n \in Modules |-> IF n \in missed THEN gap ELSE d.gap[n]]]
  BY RowFields DEF TakenForRead
<1>2. \A n : n \in missed <=> n \in of \cap d.stale /\ \E m \in Modules : n \in ImportersOf(m) /\ d.move[m] # {}
  OBVIOUS
<1> HIDE DEF e, missed
<1>3. e.gap \in [Modules -> {"none", "order", "merged", "unread", "refused"}]
  BY <1>1, RowFields
<1>4. e = [depth |-> d.depth, move |-> e.move, owed |-> e.owed, failing |-> e.failing,
           stale |-> d.stale, gap |-> e.gap]
      /\ e.failing = d.failing /\ e.move = d.move /\ e.owed = d.owed /\ e.stale = d.stale
  BY <1>1
<1>5. Rows(e)
  BY <1>3, <1>4, RowsStay, RowFields
<1>6. \A n \in Modules : e.gap[n] = IF n \in missed THEN gap ELSE d.gap[n]
  BY <1>1
<1> QED
  BY <1>2, <1>4, <1>5, <1>6 DEF e

-----------------------------------------------------------------------------
(***************************************************************************)
(* What is remembered stays so                                             *)
(***************************************************************************)

\* Nothing comes before anything in so short a sequence.
LEMMA NothingBefore ==
  \A m, n, x : ~ Before(m, n, <<>>) /\ ~ Before(m, n, <<x>>)
BY DEF Before

\* Fewer exposed, the same moves, no more places, and the same settlement or none.
LEMMA RememberedStays ==
  ASSUME NEW d, NEW u, NEW moves, NEW order, Remembered(d, u, moves, order),
         NEW e, e.move = d.move, Exposed(e) \subseteq Exposed(d),
         NEW v, \A m, n : Before(m, n, v) => Before(m, n, u),
         NEW ms, NEW o, (ms = moves /\ o = order) \/ \A m, n : ~ Before(m, n, o)
  PROVE  Remembered(e, v, ms, o)
BY DEF Remembered, Remembers

\* A settlement takes the order of writes over.
LEMMA OrderTakenOver ==
  ASSUME NEW d, NEW u, NEW moves, NEW order, Remembered(d, u, moves, order), NEW ms
  PROVE  Remembered(d, <<>>, ms, u)
BY NothingBefore DEF Remembered, Remembers

\* A module gets a place: whoever has missed a move falls into a gap.
LEMMA TakenRemembered ==
  ASSUME NEW d, Rows(d), NEW u, NEW moves, NEW order, Remembered(d, u, moves, order),
         NEW of, NEW gap \in {"order", "unread", "refused"},
         NEW v, \A m, n : Before(m, n, v) => Before(m, n, u) \/ n \in of
  PROVE  Remembered(TakenForRead(d, of, gap), v, moves, order)
<1> DEFINE e == TakenForRead(d, of, gap)
<1>1. /\ e.stale = d.stale /\ e.move = d.move /\ e.owed = d.owed
      /\ \A n \in Modules :
           e.gap[n] = IF n \in of \cap d.stale
                         /\ \E m \in Modules : n \in ImportersOf(m) /\ d.move[m] # {}
                      THEN gap ELSE d.gap[n]
  BY TakenRows
<1>2. d.stale \subseteq Modules
  BY RowFields
<1> HIDE DEF e
<1> SUFFICES ASSUME NEW n \in Exposed(e)
             PROVE  \E m \in Modules : Remembers(e, n, v, moves, order, m)
  BY DEF e, Remembered
<1>3. n \in Modules /\ n \in d.stale /\ d.owed[n] = NotOwed /\ e.gap[n] = "none"
  BY <1>1, <1>2 DEF Exposed
<1>4. d.gap[n] = "none" /\ ~ (n \in of /\ \E m \in Modules : n \in ImportersOf(m) /\ d.move[m] # {})
  BY <1>1, <1>3
<1>5. PICK m \in Modules : Remembers(d, n, u, moves, order, m)
  BY <1>3, <1>4 DEF Remembered, Exposed
<1>6. n \notin of
  BY <1>4, <1>5 DEF Remembers
<1> QED
  BY <1>1, <1>5, <1>6 DEF Remembers

\* A parse: whoever it leaves stale was not written after it, or falls into a gap.
LEMMA ParsedRemembered ==
  ASSUME NEW d, Rows(d), NEW order, Remembered(d, unasked, work.moves, order),
         order = <<>> \/ (pc = "owing" /\ order = work.order),
         NEW m \in Modules, NEW names \in SUBSET Names,
         NEW v, \A k, n : Before(k, n, v) => Before(k, n, unasked) \/ n = m
                                             
  PROVE  Remembered(Parsed(d, m, names), v, work.moves, order)
<1> DEFINE e == Parsed(d, m, names)
           hit == IF names = {} THEN {} ELSE ImportersOf(m) \ Outline(d)
<1> SUFFICES ASSUME NEW n \in Exposed(e)
             PROVE  \E k \in Modules : Remembers(e, n, v, work.moves, order, k)
  BY DEF Remembered
<1>1. /\ n \in (d.stale \ {m}) \cup hit /\ e.owed[n] = NotOwed /\ e.gap[n] = "none"
      /\ e.move = [d.move EXCEPT ![m] = @ \cup names]
  BY DEF Exposed, Parsed
<1>2. n \in Modules /\ n # m
  BY <1>1, RowFields DEF ImportersOf
<1>3. d.owed[n] = NotOwed
  <2>1. e.owed[n] = IF d.owed[n].state = "outage" THEN Payable ELSE d.owed[n]
    BY <1>2 DEF Parsed
  <2> QED
    BY <1>1, <2>1, DebtsAreOwing
<1>4. CASE n \in hit
  <2>1. /\ ~ (\E i, j \in 1..Len(unasked) : i < j /\ unasked[i] = m /\ unasked[j] = n)
        /\ ~ (pc = "owing" /\ work.moves[m] = d.move[m] \cup names /\ Contains(work.order, n))
    BY <1>1, <1>2, <1>4, SMTT(30) DEF Parsed
  <2>2. n \in ImportersOf(m) /\ names # {}
    BY <1>4
  <2>3. e.move[m] = d.move[m] \cup names
    BY <1>1, RowFields
  <2>4. ~ Before(m, n, v)
    BY <1>2, <2>1 DEF Before
  <2>5. work.moves[m] # e.move[m] \/ ~ Before(m, n, order)
    BY <2>1, <2>3, NothingBefore DEF Before, Contains
  <2> QED
    BY <2>2, <2>3, <2>4, <2>5 DEF Remembers
<1>5. CASE n \notin hit
  <2>1. n \in d.stale /\ d.gap[n] = "none"
    BY <1>1, <1>2, <1>5 DEF Parsed
  <2>2. PICK k \in Modules : Remembers(d, n, unasked, work.moves, order, k)
    BY <1>3, <2>1 DEF Remembered, Exposed
  <2>3. e.move[k] = d.move[k]
    <3>1. CASE k # m
      BY <1>1, <3>1, RowFields
    <3>2. CASE k = m
      <4>1. n \notin Outline(d)
        BY <2>1, RowFields DEF Outline
      <4>2. names = {}
        BY <1>5, <2>2, <3>2, <4>1 DEF Remembers
      <4> QED
        BY <1>1, <3>2, <4>2, RowFields
    <3> QED
      BY <3>1, <3>2
  <2> QED
    BY <1>2, <2>2, <2>3 DEF Remembers
<1> QED
  BY <1>4, <1>5

\* A settlement: whoever was not written after the moves it answers owes a parse, or is passed over.
LEMMA SettledRemembered ==
  ASSUME NEW d, Rows(d), NEW u, NEW moves \in [Modules -> SUBSET Names], NEW order \in Seq(Modules),
         Remembered(d, u, moves, order), Ordered(moves, order),
         NEW owed, NEW passed,
         \A n \in Unread(moves, order) \ Outline(d) : n \in owed \/ n \in passed,
         NEW ms
  PROVE  Remembered(SettleMoves(d, moves, owed, passed), u, ms, <<>>)
<1> DEFINE e == SettleMoves(d, moves, owed, passed)
<1>1. /\ e.stale = d.stale
      /\ \A m \in Modules : e.move[m] = IF moves[m] = d.move[m] THEN {} ELSE d.move[m]
      /\ \A n \in Modules : e.owed[n] = IF n \in owed /\ d.owed[n] = NotOwed THEN Payable ELSE d.owed[n]
      /\ \A n \in Modules : e.gap[n] = IF n \in passed THEN "refused" ELSE d.gap[n]
  BY SettledRows
<1> HIDE DEF e
<1> SUFFICES ASSUME NEW n \in Exposed(e)
             PROVE  \E m \in Modules : Remembers(e, n, u, ms, <<>>, m)
  BY DEF e, Remembered
<1>2. n \in Modules /\ n \in d.stale /\ n \notin Outline(d) /\ e.owed[n] = NotOwed /\ e.gap[n] = "none"
  BY <1>1, RowFields DEF Exposed, Outline
<1>3. d.owed[n] = NotOwed /\ n \notin owed /\ n \notin passed /\ d.gap[n] = "none"
  BY <1>1, <1>2, DebtsAreOwing
<1>4. n \notin Unread(moves, order)
  BY <1>2, <1>3
<1>5. PICK m \in Modules : Remembers(d, n, u, moves, order, m)
  BY <1>2, <1>3 DEF Remembered, Exposed
<1>6. moves[m] # d.move[m]
  <2> SUFFICES ASSUME moves[m] = d.move[m] PROVE FALSE
    OBVIOUS
  <2>1. m \in Moved(moves) /\ n \in Dependents(moves)
    BY <1>5 DEF Remembers, Moved, Dependents
  <2>2. ReadAfter(n, moves, order)
    BY <1>4, <2>1 DEF Unread
  <2>3. Contains(order, n) /\ Place(order, n) > Place(order, m)
    BY <2>1, <2>2 DEF ReadAfter
  <2>4. Contains(order, m)
    <3>1. order # <<>>
      BY <2>3 DEF Contains
    <3>2. m \in ToSet(order)
      BY <2>1, <3>1 DEF Ordered
    <3> QED
      BY <3>2 DEF ToSet, Contains
  <2>5. \A k \in {m, n} : Place(order, k) \in 1..Len(order) /\ order[Place(order, k)] = k
    BY <2>3, <2>4 DEF Place, Contains
  <2>6. Before(m, n, order)
    BY <2>3, <2>5 DEF Before
  <2> QED
    BY <1>5, <2>6 DEF Remembers
<1>7. e.move[m] # {}
  BY <1>1, <1>5, <1>6 DEF Remembers
<1> QED
  BY <1>5, <1>7, NothingBefore DEF Remembers

-----------------------------------------------------------------------------
(***************************************************************************)
(* Runs and other roads                                                    *)
(***************************************************************************)

\* What comes before what in two sequences one after the other.
LEMMA BeforeInConcat ==
  ASSUME NEW u \in Seq(Modules), NEW v \in Seq(Modules)
  PROVE  \A m, n : Before(m, n, u \o v) => Before(m, n, u) \/ n \in ToSet(v)
<1>1. /\ Len(u \o v) = Len(u) + Len(v) /\ Len(u) \in Nat /\ Len(v) \in Nat
      /\ \A i \in 1..(Len(u) + Len(v)) :
           (u \o v)[i] = IF i <= Len(u) THEN u[i] ELSE v[i - Len(u)]
      /\ DOMAIN v = 1..Len(v)
  OBVIOUS
<1> SUFFICES ASSUME NEW m, NEW n, NEW i \in 1..Len(u \o v), NEW j \in 1..Len(u \o v),
                    i < j, (u \o v)[i] = m, (u \o v)[j] = n
             PROVE  Before(m, n, u) \/ n \in ToSet(v)
  BY DEF Before
<1>2. CASE j <= Len(u)
  <2>1. i \in 1..Len(u) /\ j \in 1..Len(u) /\ u[i] = m /\ u[j] = n
    BY <1>1, <1>2
  <2> QED
    BY <2>1 DEF Before
<1>3. CASE ~ (j <= Len(u))
  <2>1. j - Len(u) \in 1..Len(v) /\ v[j - Len(u)] = n
    BY <1>1, <1>3
  <2> QED
    BY <1>1, <2>1 DEF ToSet
<1> QED
  BY <1>2, <1>3

\* A module that has no place yet gets the last one.
LEMMA BeforeInAppend ==
  ASSUME NEW u \in Seq(Modules), NEW k \in Modules
  PROVE  \A m, n : Before(m, n, Append(u, k)) => Before(m, n, u) \/ n = k
<1>1. <<k>> \in Seq(Modules) /\ Append(u, k) = u \o <<k>> /\ ToSet(<<k>>) = {k}
  BY DEF ToSet
<1> QED
  BY <1>1, BeforeInConcat

\* A run starts: what the resolver left gets the last places.
LEMMA StartKeeps ==
  ASSUME resolvePending \subseteq Modules, NEW d, Rows(d), NEW u \in Seq(Modules), IsInjective(u), NEW p,
         NEW moves, NEW order, Remembered(d, u, moves, order), StartRun(d, u, p), NEW ms
  PROVE  /\ Rows(db)' /\ committed' = db'
         /\ unasked' \in Seq(Modules) /\ IsInjective(unasked')
         /\ pc' = "turn" /\ cursor' = 0 /\ resolvePending' = {}
         /\ Remembered(db', unasked', ms, <<>>)
<1>1. PICK of : of = resolvePending \ ToSet(u)
  OBVIOUS
<1>2. PICK v : v = Sorted(of)
  OBVIOUS
<1>3. v \in Seq(Modules) /\ IsInjective(v) /\ ToSet(v) \subseteq of
  <2>1. of \in SUBSET Modules
    BY <1>1
  <2>2. v \in Seq(of) /\ IsInjective(v) /\ ToSet(v) \subseteq of
    BY <1>2, <2>1, SortedHolds
  <2> QED
    BY <2>1, <2>2, SeqMonotonic
<1>4. unasked' = u \o v
  BY <1>1, <1>2 DEF StartRun
<1>5. unasked' \in Seq(Modules) /\ IsInjective(unasked')
  <2>1. ToSet(u) \cap ToSet(v) = {}
    BY <1>1, <1>3
  <2> QED
    BY <1>3, <1>4, <2>1, ConcatHolds
<1>6. PICK e : e = TakenForRead(d, of, "order")
  OBVIOUS
<1>7. Rows(e)
  BY <1>6, TakenRows
<1>8. Remembered(e, unasked', moves, order)
  <2>1. \A m, n : Before(m, n, unasked') => Before(m, n, u) \/ n \in of
    BY <1>3, <1>4, BeforeInConcat
  <2> QED
    BY <1>6, <2>1, TakenRemembered
<1>9. PICK owed : owed = [m \in Modules |->
              IF e.owed[m].state \in {"outage", "refusal"} /\ e.owed[m].in # p
              THEN Payable ELSE e.owed[m]]
  OBVIOUS
<1>10. db' = [e EXCEPT !.owed = owed] /\ committed' = db' /\ pc' = "turn" /\ cursor' = 0
       /\ resolvePending' = {}
  BY <1>1, <1>6, <1>9 DEF StartRun
<1>11. owed \in [Modules -> Owing] /\ \A n \in Modules : owed[n] = NotOwed => e.owed[n] = NotOwed
  BY <1>7, <1>9, RowFields, DebtsAreOwing
<1>12. Rows(db') /\ db'.move = e.move /\ Exposed(db') \subseteq Exposed(e)
  BY <1>7, <1>10, <1>11, OwedRows
<1>13. Remembered(db', unasked', ms, <<>>)
  BY <1>8, <1>12, NothingBefore, RememberedStays
<1>14. Rows(db)'
  BY <1>12 DEF Rows
<1> QED
  BY <1>5, <1>10, <1>13, <1>14

\* Another road leaves the store d, and starts a run if none is going.
LEMMA EnsureKeeps ==
  ASSUME Rest, NEW d, Rows(d), NEW c, Rows(c), NEW u \in Seq(Modules), IsInjective(u), NEW q, NEW p,
         Remembered(d, u, work.moves, Answering), Remembered(c, u, work.moves, <<>>),
         EnsurePumping(d, c, u, q, p), UNCHANGED <<work, lost>>
  PROVE  /\ Rows(db)' /\ Rows(committed)'
         /\ Memory'
         /\ (pc = "owing" => Ordered(work.moves, work.order))'
         /\ unasked' \in Seq(Modules) /\ IsInjective(unasked')
         /\ pc' = IF pc = "off" THEN "turn" ELSE pc
         /\ cursor' \in Modules \cup {0}
         /\ resolvePending' \subseteq Modules
<1>1. CASE pc = "off"
  <2>1. StartRun(d, u, p)
    BY <1>1 DEF EnsurePumping
  <2>2. /\ Rows(db)' /\ committed' = db'
        /\ unasked' \in Seq(Modules) /\ IsInjective(unasked')
        /\ pc' = "turn" /\ cursor' = 0 /\ resolvePending' = {}
        /\ \A ms : Remembered(db', unasked', ms, <<>>)
    BY <2>1, StartKeeps DEF Rest, Plans
  <2>3. Answering' = <<>>
    BY <2>2 DEF Answering
  <2>4. Memory'
    <3>1. Remembered(db', unasked', work.moves, <<>>) /\ work' = work
      BY <2>2
    <3>2. Remembered(db', unasked', work'.moves, Answering') /\ Remembered(committed', unasked', work'.moves, <<>>)
      BY <2>2, <2>3, <3>1
    <3> QED
      BY <3>2 DEF Memory, Remembered, Remembers, Exposed
  <2> QED
    BY <1>1, <2>2, <2>4 DEF Rows
<1>2. CASE pc # "off"
  <2>1. db' = d /\ committed' = c /\ unasked' = u /\ UNCHANGED <<pc, cursor, resolvePending, work, lost>>
    BY <1>2 DEF EnsurePumping
  <2>2. Answering' = Answering
    BY <2>1 DEF Answering
  <2>3. Memory'
    <3>1. Remembered(db', unasked', work'.moves, Answering') /\ Remembered(committed', unasked', work'.moves, <<>>)
      BY <2>1, <2>2
    <3> QED
      BY <3>1 DEF Memory, Remembered, Remembers, Exposed
  <2>4. Rows(db)' /\ Rows(committed)'
    BY <2>1 DEF Rows
  <2>5. (pc = "owing" => Ordered(work.moves, work.order))'
    BY <2>1 DEF Rest, Ordered, Moved
  <2> QED
    BY <1>2, <2>1, <2>3, <2>4, <2>5 DEF Rest, Plans
<1> QED
  BY <1>1, <1>2

\* The rest of what a road does.
LEMMA RoadKeeps ==
  ASSUME Rest, NEW d, Rows(d), NEW c, Rows(c), NEW u \in Seq(Modules), IsInjective(u), NEW q, NEW p,
         Remembered(d, u, work.moves, Answering), Remembered(c, u, work.moves, <<>>),
         EnsurePumping(d, c, u, q, p), UNCHANGED <<job, work, lost, gaveUp>>,
         orders' \in Seq(Modules), IsInjective(orders'),
         broken' \subseteq Modules, upgradeFailed' \subseteq Modules,
         used' \in Uses, process' \in 0..used'.troubles
  PROVE  Rest'
<1>1. /\ Rows(db)' /\ Rows(committed)' /\ Memory'
      /\ (pc = "owing" => Ordered(work.moves, work.order))'
      /\ unasked' \in Seq(Modules) /\ IsInjective(unasked')
      /\ pc' = IF pc = "off" THEN "turn" ELSE pc
      /\ cursor' \in Modules \cup {0}
      /\ resolvePending' \subseteq Modules
  BY EnsureKeeps
<1>2. Plans'
  BY <1>1 DEF Plans, Rest
<1> QED
  BY <1>1, <1>2 DEF Rest

\* What the counters may count.
LEMMA UsesHold ==
  ASSUME used \in Uses
  PROVE  /\ used.writes \in Nat /\ used.moves \in Nat /\ used.orders \in Nat /\ used.troubles \in Nat
         /\ used.writes < MaxWrites => [used EXCEPT !.writes = @ + 1] \in Uses
         /\ used.troubles < MaxTroubles => [used EXCEPT !.troubles = @ + 1] \in Uses
         /\ used.orders < MaxOrders => [used EXCEPT !.orders = @ + 1] \in Uses
         /\ \A names \in Moves :
              names \in SUBSET Names /\ [used EXCEPT !.moves = @ + Count(names)] \in Uses
<1> USE PumpAssumption DEF Uses
<1>1. used = [writes |-> used.writes, moves |-> used.moves, orders |-> used.orders, troubles |-> used.troubles]
      /\ used.writes \in 0..MaxWrites /\ used.moves \in 0..MaxMoves
      /\ used.orders \in 0..MaxOrders /\ used.troubles \in 0..MaxTroubles
  OBVIOUS
<1>2. ASSUME NEW names \in Moves
      PROVE  names \in SUBSET Names /\ [used EXCEPT !.moves = @ + Count(names)] \in Uses
  <2>1. CASE names = {}
    <3>1. Count(names) = 0
      BY <2>1 DEF Count
    <3> QED
      BY <1>1, <2>1, <3>1
  <2>2. CASE names # {}
    <3>1. used.moves < MaxMoves /\ \E x \in 1..(used.moves + 1) : names = {x}
      BY <1>2, <2>2 DEF Moves
    <3>2. Count(names) = 1
      BY <2>2 DEF Count
    <3>3. used.moves + 1 \in 0..MaxMoves
      BY <1>1, <3>1
    <3>4. [used EXCEPT !.moves = @ + Count(names)] \in Uses
      BY <1>1, <3>2, <3>3
    <3> QED
      BY <1>1, <3>1, <3>4 DEF Names
  <2> QED
    BY <2>1, <2>2
<1>3. used.writes < MaxWrites => [used EXCEPT !.writes = @ + 1] \in Uses
  BY <1>1
<1>4. used.troubles < MaxTroubles => [used EXCEPT !.troubles = @ + 1] \in Uses
  BY <1>1
<1>5. used.orders < MaxOrders => [used EXCEPT !.orders = @ + 1] \in Uses
  BY <1>1
<1> QED
  BY <1>1, <1>2, <1>3, <1>4, <1>5

\* The place of a module just written.
LEMMA PlaceHolds ==
  ASSUME unasked \in Seq(Modules), IsInjective(unasked), NEW m \in Modules,
         NEW u, u = IF Contains(unasked, m) THEN unasked ELSE Append(unasked, m)
  PROVE  /\ u \in Seq(Modules) /\ IsInjective(u)
         /\ \A k, n : Before(k, n, u) => Before(k, n, unasked) \/ n = m
<1>1. CASE Contains(unasked, m)
  BY <1>1
<1>2. CASE ~ Contains(unasked, m)
  BY <1>2, AppendHolds, BeforeInAppend
<1> QED
  BY <1>1, <1>2

\* A settlement that cannot write any more matters to nobody.
LEMMA UnderWay ==
  ASSUME Rest
  PROVE  /\ Answering = <<>> \/ (pc = "owing" /\ Answering = work.order)
         /\ Remembered(db, unasked, work.moves, Answering)
         /\ Remembered(db, unasked, work.moves, <<>>)
<1>1. Remembered(db, unasked, work.moves, Answering)
  BY DEF Rest, Memory
<1>2. Remembered(db, unasked, work.moves, <<>>)
  BY <1>1, NothingBefore, RememberedStays
<1> QED
  BY <1>1, <1>2 DEF Answering

\* The single-file roads.
LEMMA WritesKeep ==
  ASSUME Rest, NEW m \in Modules,
         \/ \E names \in Moves : WriteFile(m, names)
         \/ WriteRefused(m) \/ WriteDown(m) \/ Restore(m)
  PROVE  Rest'
<1>1. PICK u : u = IF Contains(unasked, m) THEN unasked ELSE Append(unasked, m)
  OBVIOUS
<1>2. /\ u \in Seq(Modules) /\ IsInjective(u)
      /\ \A k, n : Before(k, n, u) => Before(k, n, unasked) \/ n = m
      /\ \A k, n : Before(k, n, u) => Before(k, n, unasked) \/ n \in {m}
  BY <1>1, PlaceHolds DEF Rest, Plans
<1>3. /\ used \in Uses /\ process \in 0..used.troubles /\ broken \subseteq Modules
      /\ upgradeFailed \subseteq Modules /\ orders \in Seq(Modules) /\ IsInjective(orders)
      /\ unasked \in Seq(Modules) /\ IsInjective(unasked) /\ resolvePending \subseteq Modules
      /\ Rows(db) /\ Rows(committed)
  BY DEF Rest, Plans
<1>4. ASSUME NEW d, Rows(d), Remembered(d, u, work.moves, Answering), NEW q, Writes(m, d, q),
             broken' \subseteq Modules, upgradeFailed' \subseteq Modules,
             used' \in Uses, used.troubles <= used'.troubles
      PROVE  Rest'
  <2>1. Remembered(d, u, work.moves, <<>>)
    BY <1>4, NothingBefore, RememberedStays
  <2>2. EnsurePumping(d, d, u, q, process) /\ UNCHANGED <<process, job, work, lost, orders, gaveUp>>
    BY <1>1, <1>4 DEF Writes, flagVars
  <2>3. process' \in 0..used'.troubles
    <3>1. used.troubles \in Nat /\ used'.troubles \in Nat
      BY <1>3, <1>4, PumpAssumption DEF Uses
    <3> QED
      BY <1>3, <1>4, <2>2, <3>1
  <2> QED
    BY <1>2, <1>3, <1>4, <2>1, <2>2, <2>3, RoadKeeps
<1>5. ASSUME NEW names \in Moves, WriteFile(m, names) PROVE Rest'
  <2>1. names \in SUBSET Names
    BY <1>3, UsesHold
  <2>2. PICK d : d = Parsed(db, m, names)
    OBVIOUS
  <2>3. Rows(d)
    BY <1>3, <2>1, <2>2, ParsedRows
  <2>4. Remembered(d, u, work.moves, Answering)
    BY <1>2, <1>3, <2>1, <2>2, UnderWay, ParsedRemembered
  <2>5. PICK q : Writes(m, d, q)
    BY <1>5, <2>2 DEF WriteFile
  <2>6. broken' \subseteq Modules /\ upgradeFailed' \subseteq Modules
    BY <1>3, <1>5 DEF WriteFile
  <2>7. used' \in Uses /\ used.troubles <= used'.troubles
    <3>1. used' = [used EXCEPT !.writes = @ + 1, !.moves = @ + Count(names)] /\ used.writes < MaxWrites
      BY <1>5 DEF WriteFile, Writes
    <3>2. used.writes + 1 \in 0..MaxWrites /\ used.moves + Count(names) \in 0..MaxMoves
      <4>1. [used EXCEPT !.writes = @ + 1] \in Uses /\ [used EXCEPT !.moves = @ + Count(names)] \in Uses
        BY <1>3, <3>1, UsesHold
      <4> QED
        BY <1>3, <4>1 DEF Uses
    <3>3. used' = [writes |-> used.writes + 1, moves |-> used.moves + Count(names),
                   orders |-> used.orders, troubles |-> used.troubles]
      BY <1>3, <3>1 DEF Uses
    <3> QED
      BY <1>3, <3>2, <3>3, PumpAssumption DEF Uses
  <2> QED
    BY <1>4, <2>3, <2>4, <2>5, <2>6, <2>7
<1>6. CASE WriteRefused(m)
  <2>1. PICK e : e = Refused(db, m)
    OBVIOUS
  <2>2. Rows(e) /\ Remembered(e, unasked, work.moves, Answering)
    BY <1>3, <2>1, RefusedRows, UnderWay, RememberedStays
  <2>3. PICK d : d = TakenForRead(e, {m}, "refused")
    OBVIOUS
  <2>4. Rows(d) /\ Remembered(d, u, work.moves, Answering)
    BY <1>2, <2>2, <2>3, TakenRows, TakenRemembered
  <2>5. Writes(m, d, rebindQueued)
    BY <1>6, <2>1, <2>3 DEF WriteRefused
  <2>6. broken' \subseteq Modules /\ upgradeFailed' \subseteq Modules
    BY <1>3, <1>6 DEF WriteRefused
  <2>7. used' \in Uses /\ used.troubles <= used'.troubles
    BY <1>3, <1>6, UsesHold, PumpAssumption DEF WriteRefused, Writes, Uses
  <2> QED
    BY <1>4, <2>4, <2>5, <2>6, <2>7
<1>7. CASE WriteDown(m)
  <2>1. PICK d : d = TakenForRead(db, {m}, "unread")
    OBVIOUS
  <2>2. Rows(d) /\ Remembered(d, u, work.moves, Answering)
    BY <1>2, <1>3, <2>1, UnderWay, TakenRows, TakenRemembered
  <2>3. Writes(m, d, rebindQueued) /\ UNCHANGED <<broken, upgradeFailed>>
    BY <1>7, <2>1 DEF WriteDown
  <2>4. used' \in Uses /\ used.troubles <= used'.troubles
    <3>1. used' = [used EXCEPT !.writes = @ + 1, !.troubles = @ + 1] /\ used.writes < MaxWrites
          /\ used.troubles < MaxTroubles
      BY <1>7 DEF WriteDown, Writes
    <3>2. used.writes + 1 \in 0..MaxWrites /\ used.troubles + 1 \in 0..MaxTroubles
      BY <1>3, <3>1, PumpAssumption, SMTT(30) DEF Uses
    <3>3. used' = [writes |-> used.writes + 1, moves |-> used.moves,
                   orders |-> used.orders, troubles |-> used.troubles + 1]
      BY <1>3, <3>1 DEF Uses
    <3> QED
      BY <1>3, <3>2, <3>3, PumpAssumption DEF Uses
  <2> QED
    BY <1>3, <1>4, <2>2, <2>3, <2>4
<1>8. CASE Restore(m)
  <2>1. used' \in Uses /\ used'.troubles = used.troubles
    BY <1>3, <1>8, UsesHold, PumpAssumption DEF Restore, Uses
  <2>2. broken' \subseteq Modules /\ UNCHANGED <<process, job, work, lost, orders, upgradeFailed, gaveUp>>
    BY <1>3, <1>8 DEF Restore, flagVars
  <2>3. process' \in 0..used'.troubles
    BY <1>3, <2>1, <2>2
  <2>4. CASE db.owed[m].state = "refusal"
    <3>1. PICK owed : owed = [db.owed EXCEPT ![m] = Payable]
      OBVIOUS
    <3>2. PICK d : d = [db EXCEPT !.owed = owed]
      OBVIOUS
    <3>3. d = [db EXCEPT !.owed[m] = Payable]
      BY <1>3, <3>1, <3>2, RowFields
    <3>4. owed \in [Modules -> Owing] /\ \A n \in Modules : owed[n] = NotOwed => db.owed[n] = NotOwed
      BY <1>3, <3>1, RowFields, DebtsAreOwing
    <3>5. Rows(d) /\ d.move = db.move /\ Exposed(d) \subseteq Exposed(db)
      BY <1>3, <3>2, <3>4, OwedRows
    <3>6. Remembered(d, unasked, work.moves, Answering) /\ Remembered(d, unasked, work.moves, <<>>)
      BY <3>5, UnderWay, RememberedStays
    <3>7. EnsurePumping(d, d, unasked, TRUE, process)
      BY <1>8, <2>4, <3>3 DEF Restore
    <3> QED
      BY <1>3, <2>1, <2>2, <2>3, <3>5, <3>6, <3>7, RoadKeeps
  <2>5. CASE db.owed[m].state # "refusal"
    <3>1. UNCHANGED <<db, committed, unasked, rebindQueued, pc, cursor, resolvePending>>
      BY <1>8, <2>5 DEF Restore
    <3>2. Plans'
      BY <2>1, <2>2, <2>3, <3>1 DEF Rest, Plans
    <3>3. Rows(db)' /\ Rows(committed)' /\ Memory' /\ (pc = "owing" => Ordered(work.moves, work.order))'
      BY <2>2, <3>1 DEF Rest, Rows, Memory, Remembered, Remembers, Exposed, Answering, Ordered, Moved
    <3> QED
      BY <3>2, <3>3 DEF Rest
  <2> QED
    BY <2>4, <2>5
<1> QED
  BY <1>5, <1>6, <1>7, <1>8

\* Who asks the pump for something without writing.
LEMMA AsksKeep ==
  ASSUME Rest,
         (\E m \in Modules : RequestFull(m)) \/ Respawned \/ ResolveAgain \/ RecoveryFires
  PROVE  Rest'
<1>1. /\ used \in Uses /\ process \in 0..used.troubles /\ broken \subseteq Modules
      /\ upgradeFailed \subseteq Modules /\ orders \in Seq(Modules) /\ IsInjective(orders)
      /\ unasked \in Seq(Modules) /\ IsInjective(unasked)
      /\ Rows(db) /\ Rows(committed)
      /\ Remembered(db, unasked, work.moves, Answering)
      /\ Remembered(committed, unasked, work.moves, <<>>)
  BY DEF Rest, Plans, Memory
<1>2. ASSUME NEW q, NEW p, EnsurePumping(db, committed, unasked, q, p),
             UNCHANGED <<job, work, lost, gaveUp, broken, upgradeFailed>>,
             orders' \in Seq(Modules), IsInjective(orders'),
             used' \in Uses, process' \in 0..used'.troubles
      PROVE  Rest'
  BY <1>1, <1>2, RoadKeeps
<1>3. ASSUME NEW m \in Modules, RequestFull(m) PROVE Rest'
  <2>1. orders' \in Seq(Modules) /\ IsInjective(orders')
    BY <1>1, <1>3, AppendHolds DEF RequestFull, Waiting
  <2>2. used' \in Uses /\ process' \in 0..used'.troubles
    BY <1>1, <1>3, UsesHold, PumpAssumption DEF RequestFull, Uses
  <2> QED
    BY <1>2, <1>3, <2>1, <2>2 DEF RequestFull, flagVars
<1>4. CASE Respawned
  <2>1. used' \in Uses /\ process' \in 0..used'.troubles
    <3>1. used' = [used EXCEPT !.troubles = @ + 1] /\ used' \in Uses /\ process' = process + 1
      BY <1>1, <1>4, UsesHold DEF Respawned
    <3>2. used.troubles \in Nat /\ used'.troubles = used.troubles + 1
      BY <1>1, <3>1, UsesHold DEF Uses
    <3> QED
      BY <1>1, <3>1, <3>2
  <2> QED
    BY <1>1, <1>2, <1>4, <2>1 DEF Respawned, flagVars
<1>5. CASE ResolveAgain
  BY <1>1, <1>2, <1>5 DEF ResolveAgain, flagVars
<1>6. CASE RecoveryFires
  BY <1>1, <1>2, <1>6 DEF RecoveryFires
<1> QED
  BY <1>3, <1>4, <1>5, <1>6

-----------------------------------------------------------------------------
(***************************************************************************)
(* Batches and restarts                                                    *)
(***************************************************************************)

LEMMA BatchKeeps ==
  ASSUME Rest, CommitBatch \/ LoseBatch
  PROVE  Rest'
<1>1. CASE CommitBatch
  <2>1. Plans'
    BY <1>1 DEF Rest, Plans, CommitBatch, asideVars, flagVars
  <2>2. committed' = db /\ UNCHANGED <<db, unasked, work, pc, lost>>
    BY <1>1 DEF CommitBatch
  <2>3. Memory'
    <3>1. Remembered(db', unasked', work'.moves, Answering') /\ Remembered(committed', unasked', work'.moves, <<>>)
      BY <2>2, UnderWay DEF Answering
    <3> QED
      BY <3>1 DEF Memory, Remembered, Remembers, Exposed
  <2> QED
    BY <2>1, <2>2, <2>3 DEF Rest, Rows, Ordered, Moved
<1>2. CASE LoseBatch
  <2>1. db' = committed /\ lost' = TRUE /\ pc # "off"
        /\ UNCHANGED <<committed, unasked, work, pc>>
    BY <1>2 DEF LoseBatch
  <2>2. Plans'
    <3>1. used' \in Uses /\ process \in 0..used'.troubles
      BY <1>2, UsesHold, PumpAssumption, SMTT(30) DEF Rest, Plans, LoseBatch, Uses
    <3> QED
      BY <1>2, <2>1, <3>1 DEF Rest, Plans, LoseBatch, asideVars, flagVars
  <2>3. Memory'
    <3>1. Answering' = <<>>
      BY <2>1 DEF Answering
    <3>2. Remembered(db', unasked', work'.moves, Answering') /\ Remembered(committed', unasked', work'.moves, <<>>)
      BY <2>1, <3>1 DEF Rest, Memory
    <3> QED
      BY <3>2 DEF Memory, Remembered, Remembers, Exposed
  <2> QED
    BY <2>1, <2>2, <2>3 DEF Rest, Rows, Ordered, Moved
<1> QED
  BY <1>1, <1>2

\* The next daemon's scan settles every move its predecessor left.
LEMMA RestartKeeps ==
  ASSUME Rest, Restart
  PROVE  Rest'
<1>1. Rows(committed) /\ Remembered(committed, unasked, work.moves, <<>>) /\ used \in Uses
      /\ process \in 0..used.troubles /\ broken \subseteq Modules
  BY DEF Rest, Memory, Plans
<1>2. PICK failing : failing = committed.failing \ {m \in Modules \ broken : committed.depth[m] = "full"}
  OBVIOUS
<1>3. PICK whole : whole = [committed EXCEPT !.failing = failing]
  OBVIOUS
<1>4. Rows(whole) /\ whole.move = committed.move /\ Exposed(whole) = Exposed(committed)
      /\ whole.failing \subseteq Modules
  <2>1. whole = [depth |-> committed.depth, move |-> committed.move, owed |-> committed.owed,
                 failing |-> failing, stale |-> committed.stale, gap |-> committed.gap]
    BY <1>1, <1>3, RowFields
  <2>2. failing \subseteq Modules
    BY <1>1, <1>2, RowFields
  <2>3. Rows(whole)
    BY <1>1, <2>1, <2>2, RowsStay, RowFields
  <2> QED
    BY <2>1, <2>2, <2>3 DEF Exposed
<1>5. PICK dependents : dependents = Dependents(whole.move)
  OBVIOUS
<1>6. PICK owed, passed : owed = {n \in dependents : Rebindable(whole, n)}
                          /\ passed = dependents \cap whole.failing
  OBVIOUS
<1>7. PICK d : d = SettleMoves(whole, whole.move, owed, passed)
  OBVIOUS
<1>8. PICK debts : debts = [m \in Modules |-> IF d.owed[m] = NotOwed THEN NotOwed ELSE Payable]
  OBVIOUS
<1>9. db' = [d EXCEPT !.owed = debts]
  <2>1. whole = [committed EXCEPT !.failing = @ \ {m \in Modules \ broken : committed.depth[m] = "full"}]
    BY <1>2, <1>3
  <2> QED
    BY <2>1, <1>5, <1>6, <1>7, <1>8 DEF Restart
<1>10. whole.move \in [Modules -> SUBSET Names]
  BY <1>4, RowFields
<1>11. Rows(d)
  BY <1>4, <1>7, <1>10, SettledRows
<1>12. Remembered(whole, unasked, whole.move, <<>>)
  BY <1>1, <1>4, NothingBefore, RememberedStays
<1>13. Remembered(d, unasked, NoMoves, <<>>)
  <2>1. \A n \in Unread(whole.move, <<>>) \ Outline(whole) : n \in owed \/ n \in passed
    BY <1>5, <1>6 DEF Unread, Rebindable
  <2>2. <<>> \in Seq(Modules) /\ Ordered(whole.move, <<>>)
    BY DEF Ordered
  <2> QED
    BY <1>4, <1>7, <1>10, <1>12, <2>1, <2>2, SettledRemembered
<1>14. debts \in [Modules -> Owing] /\ \A n \in Modules : debts[n] = NotOwed => d.owed[n] = NotOwed
  BY <1>8, DebtsAreOwing
<1>15. Rows(db') /\ db'.move = d.move /\ Exposed(db') \subseteq Exposed(d)
  BY <1>9, <1>11, <1>14, OwedRows
<1>16. /\ committed' = db' /\ pc' = "turn" /\ cursor' = 0 /\ process' = process + 1
       /\ job' = NoJob /\ work' = NoWork /\ lost' = FALSE /\ orders' = <<>> /\ unasked' = <<>>
       /\ gaveUp' = {} /\ upgradeFailed' = broken /\ resolvePending' = {} /\ broken' = broken
       /\ used.troubles < MaxTroubles /\ used' = [used EXCEPT !.troubles = @ + 1]
  BY DEF Restart
<1>17. Remembered(db', unasked', work'.moves, <<>>)
  BY <1>13, <1>15, <1>16, NothingBefore, RememberedStays
<1>18. Memory'
  <2>1. Answering' = <<>>
    BY <1>16 DEF Answering
  <2> QED
    BY <1>16, <1>17, <2>1 DEF Memory, Remembered, Remembers, Exposed
<1>19. Plans'
  <2>1. used' \in Uses /\ process' \in 0..used'.troubles
    BY <1>1, <1>16, UsesHold, PumpAssumption, SMTT(30) DEF Uses
  <2>2. work' \in Works /\ orders' \in Seq(Modules) /\ unasked' \in Seq(Modules)
        /\ IsInjective(orders') /\ IsInjective(unasked')
    BY <1>16 DEF Works, NoWork, NoMoves, IsInjective
  <2> QED
    BY <1>1, <1>16, <2>1, <2>2 DEF Plans
<1> QED
  BY <1>15, <1>16, <1>18, <1>19 DEF Rest, Rows

-----------------------------------------------------------------------------
(***************************************************************************)
(* Turns of the pump                                                       *)
(***************************************************************************)

\* The first module of a set.
LEMMA FirstIsOne ==
  ASSUME NEW S \in SUBSET Modules, S # {}
  PROVE  First(S) \in S
<1>1. S \in SUBSET Nat
  BY PumpAssumption
<1>2. \E m \in S : \A n \in S : m <= n
  BY <1>1, LeastNumber
<1> QED
  BY <1>2 DEF First

\* A job of any kind.
LEMMA JobsHold ==
  \A m \in Modules, kind \in {"order", "rebind", "upgrade"} :
    [kind |-> kind, of |-> m] \in Jobs /\ [kind |-> kind, of |-> m] # NoJob
<1>1. \A m \in Modules, kind \in {"order", "rebind", "upgrade"} :
        [kind |-> kind, of |-> m] \in Jobs /\ [kind |-> kind, of |-> m].kind = kind /\ NoJob.kind = "none"
  BY DEF Jobs, NoJob
<1> QED
  BY <1>1

\* The moves a hold reads.
LEMMA MovesRead ==
  ASSUME NEW d, Rows(d), NEW of
  PROVE  /\ PendingMoves(d, of) \in [Modules -> SUBSET Names]
         /\ Moved(PendingMoves(d, of)) \subseteq of
         /\ NoMoves \in [Modules -> SUBSET Names]
BY RowFields DEF PendingMoves, Moved, NoMoves

\* A turn that writes nothing: it takes a job, or the plans of the next settlement.
LEMMA QuietKeeps ==
  ASSUME Rest, UNCHANGED <<db, committed, lost>>, Plans',
         \/ UNCHANGED unasked /\ pc' # "owing"
         \/ UNCHANGED unasked /\ work'.order = <<>>
         \/ unasked' = <<>> /\ pc' # "owing"
         \/ unasked' = <<>> /\ work'.order = unasked /\ Ordered(work'.moves, work'.order)
  PROVE  Rest'
<1>1. Answering' = <<>> \/ (unasked' = <<>> /\ Answering' = unasked)
  BY DEF Answering
<1>2. \A d \in {db, committed} : Remembered(d, unasked, work.moves, <<>>)
  BY UnderWay DEF Rest, Memory
<1>3. \A d \in {db, committed} : Remembered(d, unasked', work'.moves, <<>>)
  BY <1>2, NothingBefore, RememberedStays, ZenonT(40)
<1>4. Remembered(db, unasked', work'.moves, Answering')
  BY <1>1, <1>2, <1>3, OrderTakenOver
<1>5. Memory'
  <2>1. Remembered(db', unasked', work'.moves, Answering') /\ Remembered(committed', unasked', work'.moves, <<>>)
    BY <1>3, <1>4
  <2> QED
    BY <2>1 DEF Memory, Remembered, Remembers, Exposed
<1>6. (pc = "owing" => Ordered(work.moves, work.order))'
  BY DEF Ordered, Moved
<1> QED
  BY <1>5, <1>6 DEF Rest, Rows

LEMMA TurnKeeps ==
  ASSUME Rest, Recover \/ TakeOrder \/ Drain \/ NextDebt \/ Upgrade \/ WriteThrows \/ Fault
  PROVE  Rest'
<1> USE DEF asideVars, flagVars, ownUnchanged
<1>1. Plans /\ Rows(db)
  BY DEF Rest
<1>2. CASE Recover
  <2>1. work'.order = <<>> /\ work' \in Works
    BY <1>1, <1>2, RowFields DEF Recover, Works
  <2>2. Plans'
    BY <1>1, <1>2, <2>1 DEF Recover, Plans
  <2> QED
    BY <1>2, <2>1, <2>2, QuietKeeps DEF Recover
<1>3. CASE TakeOrder
  <2>1. Head(orders) \in Modules /\ orders' \in Seq(Modules) /\ IsInjective(orders')
    BY <1>1, <1>3, TailHolds DEF TakeOrder, Plans
  <2>2. Plans' /\ pc' # "owing"
    <3>1. CASE Head(orders) \in Outline(db)
      <4>1. job' \in Jobs /\ job' # NoJob /\ pc' = "hold"
        BY <1>3, <2>1, <3>1, JobsHold DEF TakeOrder
      <4> QED
        BY <1>1, <1>3, <2>1, <4>1 DEF TakeOrder, Plans
    <3>2. CASE Head(orders) \notin Outline(db)
      BY <1>1, <1>3, <2>1, <3>2 DEF TakeOrder, Plans
    <3> QED
      BY <3>1, <3>2
  <2> QED
    BY <1>3, <2>2, QuietKeeps DEF TakeOrder
<1>4. CASE Drain
  <2>1. work'.order = unasked /\ work' \in Works /\ Ordered(work'.moves, work'.order)
    <3>1. work' = [moves |-> PendingMoves(db, ToSet(unasked)), order |-> unasked]
      BY <1>4 DEF Drain
    <3>2. PendingMoves(db, ToSet(unasked)) \in [Modules -> SUBSET Names]
          /\ Moved(PendingMoves(db, ToSet(unasked))) \subseteq ToSet(unasked)
      BY <1>1, MovesRead
    <3> QED
      BY <1>1, <3>1, <3>2 DEF Works, Ordered, Plans
  <2>2. Plans'
    BY <1>1, <1>4, <2>1 DEF Drain, Background, Plans, IsInjective
  <2> QED
    BY <1>4, <2>1, <2>2, QuietKeeps DEF Drain
<1>5. CASE NextDebt
  <2>1. First(Debts) \in Modules
    BY <1>5, FirstIsOne DEF NextDebt, Debts
  <2>2. job' \in Jobs /\ job' # NoJob
    BY <1>5, <2>1, JobsHold DEF NextDebt
  <2>3. Plans'
    BY <1>1, <1>5, <2>1, <2>2 DEF NextDebt, Plans
  <2> QED
    BY <1>5, <2>3, QuietKeeps DEF NextDebt
<1>6. CASE Upgrade
  <2>1. CASE upgradeWanted /\ Backlog # {}
    <3>1. First(Backlog) \in Modules
      BY <2>1, FirstIsOne DEF Backlog, Outline
    <3>2. job' \in Jobs /\ job' # NoJob /\ pc' = "hold"
      BY <1>6, <2>1, <3>1, JobsHold DEF Upgrade
    <3>3. Plans'
      BY <1>1, <1>6, <3>2 DEF Upgrade, Plans
    <3> QED
      BY <1>6, <3>2, <3>3, QuietKeeps DEF Upgrade
  <2>2. CASE ~ (upgradeWanted /\ Backlog # {})
    <3>1. Plans' /\ pc' = "ending"
      BY <1>1, <1>6, <2>2 DEF Upgrade, Background, Plans
    <3> QED
      BY <1>6, <3>1, QuietKeeps DEF Upgrade
  <2> QED
    BY <2>1, <2>2
<1>7. NoWork \in Works /\ NoWork.order = <<>>
  BY DEF NoWork, NoMoves, Works
<1>8. CASE WriteThrows
  <2>1. Plans' /\ pc' # "owing"
    BY <1>1, <1>7, <1>8 DEF WriteThrows, Plans
  <2> QED
    BY <1>8, <2>1, QuietKeeps DEF WriteThrows
<1>9. CASE Fault
  <2>1. used' = [used EXCEPT !.troubles = @ + 1] /\ used' \in Uses /\ process' \in 0..used'.troubles
    <3>1. used' = [used EXCEPT !.troubles = @ + 1] /\ used' \in Uses /\ process' = process
      BY <1>1, <1>9, UsesHold DEF Fault, Plans
    <3> QED
      BY <1>1, <3>1, PumpAssumption, SMTT(30) DEF Uses, Plans
  <2>2. orders' \in Seq(Modules) /\ unasked' \in Seq(Modules) /\ IsInjective(orders') /\ IsInjective(unasked')
    BY <1>9 DEF Fault, IsInjective
  <2>3. Plans'
    BY <1>1, <1>7, <1>9, <2>1, <2>2 DEF Fault, Plans
  <2>4. Rows(db)' /\ Rows(committed)'
    BY <1>1, <1>9 DEF Fault, Rows
  <2>5. Memory'
    <3>1. Remembered(db, unasked', work'.moves, <<>>)
      <4>1. unasked' = <<>>
        BY <1>9 DEF Fault
      <4> QED
        BY <4>1, UnderWay, NothingBefore, RememberedStays
    <3>2. Answering' = <<>> /\ db' = db /\ committed' = db
      BY <1>9 DEF Fault, Answering
    <3>3. Remembered(db', unasked', work'.moves, Answering') /\ Remembered(committed', unasked', work'.moves, <<>>)
      BY <3>1, <3>2
    <3> QED
      BY <3>3 DEF Memory, Remembered, Remembers, Exposed
  <2> QED
    BY <1>9, <2>3, <2>4, <2>5 DEF Rest, Fault
<1> QED
  BY <1>2, <1>3, <1>4, <1>5, <1>6, <1>8, <1>9

\* The hold is over: the debt of its module, the row of its parse, its moves.
LEMMA ReadsKeep ==
  ASSUME Rest, pc = "hold", NEW d, Rows(d), Remembered(d, unasked, work.moves, <<>>), Reads(d),
         upgradeFailed' \subseteq Modules, used' \in Uses, used.troubles <= used'.troubles
  PROVE  Rest'
<1>1. /\ db' = d /\ committed' = committed /\ unasked' = unasked /\ pc' = "owing" /\ lost' = lost
      /\ work' = [moves |-> PendingMoves(d, {job.of}), order |-> <<job.of>>]
      /\ UNCHANGED <<broken, process, job, orders, cursor, resolvePending, gaveUp>>
  BY DEF Reads, flagVars
<1>2. job \in Jobs
  BY DEF Rest, Plans
<1>3. job.of \in Modules
  BY <1>2 DEF Jobs
<1>4. work' \in Works /\ Ordered(work'.moves, work'.order)
  <2>1. /\ PendingMoves(d, {job.of}) \in [Modules -> SUBSET Names]
        /\ Moved(PendingMoves(d, {job.of})) \subseteq {job.of}
    BY MovesRead
  <2>2. <<job.of>> \in Seq(Modules) /\ ToSet(<<job.of>>) = {job.of}
    BY <1>3 DEF ToSet
  <2> QED
    BY <1>1, <2>1, <2>2 DEF Works, Ordered
<1>5. Plans'
  <2>1. process' \in 0..used'.troubles
    <3>1. used.troubles \in Nat /\ used'.troubles \in Nat /\ process \in 0..used.troubles
      BY PumpAssumption DEF Rest, Plans, Uses
    <3> QED
      BY <1>1, <3>1
  <2> QED
    BY <1>1, <1>4, <2>1 DEF Rest, Plans
<1>6. Memory'
  <2>1. \A m, n : ~ Before(m, n, Answering')
    <3>1. Answering' = <<>> \/ Answering' = <<job.of>>
      BY <1>1 DEF Answering
    <3> QED
      BY <3>1, NothingBefore
  <2>2. Remembered(d, unasked, work'.moves, Answering')
    BY <2>1, RememberedStays
  <2>3. Remembered(committed, unasked, work'.moves, <<>>)
    BY NothingBefore, RememberedStays DEF Rest, Memory
  <2>4. Remembered(db', unasked', work'.moves, Answering') /\ Remembered(committed', unasked', work'.moves, <<>>)
    BY <1>1, <2>2, <2>3
  <2> QED
    BY <2>4 DEF Memory, Remembered, Remembers, Exposed
<1>7. (pc = "owing" => Ordered(work.moves, work.order))'
  BY <1>4 DEF Ordered, Moved
<1> QED
  BY <1>1, <1>5, <1>6, <1>7 DEF Rest, Rows

\* The parses of the pump.
LEMMA ParsesKeep ==
  ASSUME Rest,
         \/ AlreadyFull \/ (\E names \in Moves : ParseLands(names))
         \/ ParseRefused \/ ParseDown
  PROVE  Rest'
<1>1. pc = "hold"
  BY DEF AlreadyFull, ParseLands, ParseRefused, ParseDown, Parses
<1>2. /\ used \in Uses /\ process \in 0..used.troubles /\ upgradeFailed \subseteq Modules
      /\ Rows(db) /\ job \in Jobs
  BY <1>1 DEF Rest, Plans
<1>3. /\ job.of \in Modules /\ process \in 0..MaxTroubles
      /\ used.troubles \in Nat
  BY <1>2, PumpAssumption DEF Jobs, Uses
<1>4. Remembered(db, unasked, work.moves, <<>>)
  BY UnderWay
<1>5. CASE AlreadyFull
  BY <1>1, <1>2, <1>3, <1>4, <1>5, ReadsKeep DEF AlreadyFull
<1>6. ASSUME NEW names \in Moves, ParseLands(names) PROVE Rest'
  <2>1. names \in SUBSET Names
    BY <1>2, UsesHold
  <2>2. PICK d : d = Parsed(db, job.of, names)
    OBVIOUS
  <2>3. Rows(d) /\ Remembered(d, unasked, work.moves, <<>>)
    BY <1>2, <1>3, <1>4, <2>1, <2>2, ParsedRows, ParsedRemembered
  <2>4. Reads(d) /\ upgradeFailed' \subseteq Modules
    BY <1>2, <1>6, <2>2 DEF ParseLands
  <2>5. used' \in Uses /\ used'.troubles = used.troubles
    <3>1. used' = [used EXCEPT !.moves = @ + Count(names)] /\ used' \in Uses
      BY <1>2, <1>6, UsesHold DEF ParseLands
    <3> QED
      BY <1>2, <3>1 DEF Uses
  <2> QED
    BY <1>1, <1>3, <2>3, <2>4, <2>5, ReadsKeep
<1>7. CASE ParseRefused
  <2>1. PICK e : e = Refused(db, job.of)
    OBVIOUS
  <2>2. Rows(e) /\ e.move = db.move /\ Exposed(e) = Exposed(db)
    BY <1>2, <1>3, <2>1, RefusedRows
  <2>3. PICK d : d = IF job.kind = "rebind" THEN HeldBack(e, job.of, "refusal") ELSE e
    OBVIOUS
  <2>4. Rows(d) /\ d.move = db.move /\ Exposed(d) \subseteq Exposed(db)
    BY <1>3, <2>2, <2>3, HeldBackRows
  <2>5. Remembered(d, unasked, work.moves, <<>>)
    BY <1>4, <2>4, RememberedStays
  <2>6. Reads(d) /\ upgradeFailed' \subseteq Modules /\ used' = used
    BY <1>2, <1>3, <1>7, <2>1, <2>3 DEF ParseRefused
  <2> QED
    BY <1>1, <1>2, <1>3, <2>4, <2>5, <2>6, ReadsKeep
<1>8. CASE ParseDown
  <2>1. PICK d : d = IF job.kind = "rebind" THEN HeldBack(db, job.of, "outage") ELSE db
    OBVIOUS
  <2>2. Rows(d) /\ d.move = db.move /\ Exposed(d) \subseteq Exposed(db)
    BY <1>2, <1>3, <2>1, HeldBackRows
  <2>3. Remembered(d, unasked, work.moves, <<>>)
    BY <1>4, <2>2, RememberedStays
  <2>4. Reads(d) /\ upgradeFailed' \subseteq Modules
    BY <1>2, <1>3, <1>8, <2>1 DEF ParseDown
  <2>5. used' \in Uses /\ used.troubles <= used'.troubles
    <3>1. used' = [used EXCEPT !.troubles = @ + 1] /\ used' \in Uses
      BY <1>2, <1>8, UsesHold DEF ParseDown
    <3> QED
      BY <1>2, <1>3, <3>1 DEF Uses
  <2> QED
    BY <1>1, <2>2, <2>3, <2>4, <2>5, ReadsKeep
<1> QED
  BY <1>5, <1>6, <1>7, <1>8

\* The settlements.
LEMMA SettlesKeep ==
  ASSUME Rest, Settle \/ \E found \in SUBSET Modules : SettlePartly(found)
  PROVE  Rest'
<1>1. /\ Plans /\ Rows(db) /\ Rows(committed) /\ pc = "owing" /\ ~ lost
      /\ work.moves \in [Modules -> SUBSET Names] /\ work.order \in Seq(Modules)
      /\ Ordered(work.moves, work.order)
  BY DEF Settle, SettlePartly, Rest, Plans, Works
<1>2. /\ Remembered(db, unasked, work.moves, work.order)
      /\ Remembered(committed, unasked, work.moves, <<>>)
  BY <1>1 DEF Rest, Memory, Answering
<1>3. pc' = "turn" /\ job' = NoJob /\ work' = NoWork /\ NoWork \in Works /\ Answering' = <<>>
      /\ unasked' = unasked /\ committed' = committed /\ lost' = lost
  <2>1. pc' = "turn" /\ job' = NoJob /\ work' = NoWork
    BY DEF Settle, SettlePartly, TurnOver
  <2>2. unasked' = unasked /\ committed' = committed /\ lost' = lost
    BY DEF Settle, SettlePartly, ownUnchanged
  <2> QED
    BY <2>1, <2>2 DEF NoWork, NoMoves, Works, Answering
<1>4. ASSUME Rows(db'), Remembered(db', unasked, work.moves, <<>>), Plans'
      PROVE  Rest'
  <2>1. Remembered(db', unasked', work'.moves, Answering') /\ Remembered(committed', unasked', work'.moves, <<>>)
    BY <1>2, <1>3, <1>4, NothingBefore, RememberedStays
  <2>2. Memory'
    BY <2>1 DEF Memory, Remembered, Remembers, Exposed
  <2> QED
    BY <1>1, <1>3, <1>4, <2>2 DEF Rest, Rows
<1>5. CASE Settle
  <2>1. PICK unread : unread = Unread(work.moves, work.order)
    OBVIOUS
  <2>2. PICK owed : owed = {n \in unread : Rebindable(db, n)}
    OBVIOUS
  <2>3. PICK passed : passed = unread \ (Outline(db) \cup owed)
    OBVIOUS
  <2>4. db' = SettleMoves(db, work.moves, owed, passed)
    BY <1>5, <2>1, <2>2, <2>3 DEF Settle
  <2>5. Rows(db')
    BY <1>1, <2>4, SettledRows
  <2>6. Remembered(db', unasked, work.moves, <<>>)
    <3>1. \A n \in Unread(work.moves, work.order) \ Outline(db) : n \in owed \/ n \in passed
      BY <2>1, <2>3
    <3> QED
      BY <1>1, <1>2, <2>4, <3>1, SettledRemembered
  <2>7. Plans'
    BY <1>1, <1>3, <1>5 DEF Settle, Plans, asideVars, flagVars, ownUnchanged
  <2> QED
    BY <1>4, <2>5, <2>6, <2>7
<1>6. ASSUME NEW found \in SUBSET Modules, SettlePartly(found) PROVE Rest'
  <2>1. PICK owed : owed = {n \in found : Rebindable(db, n)}
    OBVIOUS
  <2>2. db' = SettleMoves(db, NoMoves, owed, {})
    BY <1>6, <2>1 DEF SettlePartly
  <2>3. /\ Rows(db') /\ db'.stale = db.stale
        /\ \A m \in Modules : db'.move[m] = IF NoMoves[m] = db.move[m] THEN {} ELSE db.move[m]
        /\ \A n \in Modules : db'.owed[n] = IF n \in owed /\ db.owed[n] = NotOwed THEN Payable ELSE db.owed[n]
        /\ \A n \in Modules : db'.gap[n] = IF n \in {} THEN "refused" ELSE db.gap[n]
    <3>1. NoMoves \in [Modules -> SUBSET Names]
      BY DEF NoMoves
    <3> QED
      BY <1>1, <2>2, <3>1, SettledRows
  <2>4. db'.move = db.move
    <3>1. \A m \in Modules : NoMoves[m] = {}
      BY DEF NoMoves
    <3>2. \A m \in Modules : db'.move[m] = db.move[m]
      BY <2>3, <3>1
    <3>3. db'.move \in [Modules -> SUBSET Names] /\ db.move \in [Modules -> SUBSET Names]
      BY <1>1, <2>3, RowFields
    <3> QED
      BY <3>2, <3>3
  <2>5. Exposed(db') \subseteq Exposed(db)
    <3>1. db.stale \subseteq Modules
      BY <1>1, RowFields
    <3> QED
      BY <2>3, <3>1, DebtsAreOwing DEF Exposed
  <2>6. Remembered(db', unasked, work.moves, <<>>)
    BY <1>2, <2>4, <2>5, NothingBefore, RememberedStays
  <2>7. Plans'
    <3>1. used' = [used EXCEPT !.troubles = @ + 1] /\ used' \in Uses /\ process' = process
      BY <1>1, <1>6, UsesHold DEF SettlePartly, Plans
    <3>2. process' \in 0..used'.troubles
      <4>1. used.troubles \in Nat /\ used'.troubles = used.troubles + 1 /\ process \in 0..used.troubles
        BY <1>1, <3>1, UsesHold DEF Uses, Plans
      <4> QED
        BY <3>1, <4>1
    <3>3. resolvePending' \subseteq Modules
      BY <1>1, <1>6 DEF SettlePartly, Plans, Moved
    <3> QED
      BY <1>1, <1>3, <1>6, <3>1, <3>2, <3>3 DEF SettlePartly, Plans, flagVars
  <2> QED
    BY <1>4, <2>3, <2>6, <2>7
<1> QED
  BY <1>5, <1>6

\* The run ends, and another one starts or none.
LEMMA EndKeeps ==
  ASSUME Rest, EndRun
  PROVE  Rest'
<1>1. /\ Plans /\ Rows(db) /\ Rows(committed) /\ pc = "ending"
      /\ Remembered(db, unasked, work.moves, <<>>)
  BY UnderWay DEF EndRun, Rest
<1>2. /\ lost' = FALSE /\ UNCHANGED <<broken, process, job, work, upgradeFailed, gaveUp, used>>
      /\ orders' = IF lost THEN <<>> ELSE orders
  BY DEF EndRun
<1>3. orders' \in Seq(Modules) /\ IsInjective(orders')
  BY <1>1, <1>2 DEF Plans, IsInjective
<1>4. CASE StartRun(db, unasked, process)
  <2>1. /\ Rows(db)' /\ committed' = db'
        /\ unasked' \in Seq(Modules) /\ IsInjective(unasked')
        /\ pc' = "turn" /\ cursor' = 0 /\ resolvePending' = {}
        /\ Remembered(db', unasked', work.moves, <<>>)
    BY <1>1, <1>4, StartKeeps DEF Plans
  <2>2. Plans'
    BY <1>1, <1>2, <1>3, <2>1 DEF Plans
  <2>3. Memory'
    <3>1. Answering' = <<>>
      BY <2>1 DEF Answering
    <3>2. Remembered(db', unasked', work'.moves, Answering') /\ Remembered(committed', unasked', work'.moves, <<>>)
      BY <1>2, <2>1, <3>1
    <3> QED
      BY <3>2 DEF Memory, Remembered, Remembers, Exposed
  <2> QED
    BY <2>1, <2>2, <2>3 DEF Rest, Rows
<1>5. CASE pc' = "off" /\ committed' = db /\ UNCHANGED <<db, unasked, rebindQueued, cursor, resolvePending>>
  <2>1. Plans'
    BY <1>1, <1>2, <1>3, <1>5 DEF Plans
  <2>2. Memory'
    <3>1. Answering' = <<>>
      BY <1>5 DEF Answering
    <3>2. Remembered(db', unasked', work'.moves, Answering') /\ Remembered(committed', unasked', work'.moves, <<>>)
      BY <1>1, <1>2, <1>5, <3>1
    <3> QED
      BY <3>2 DEF Memory, Remembered, Remembers, Exposed
  <2> QED
    BY <1>1, <1>5, <2>1, <2>2 DEF Rest, Rows
<1> QED
  BY <1>4, <1>5 DEF EndRun

-----------------------------------------------------------------------------
(***************************************************************************)
(* The flags                                                               *)
(***************************************************************************)

\* Every step leaves the flags Boolean.
LEMMA FlagsStay ==
  ASSUME Flags, Next
  PROVE  Flags'
<1> USE DEF Flags, flagVars, asideVars, ownUnchanged, EnsurePumping, StartRun
<1>1. ASSUME NEW m \in Modules,
             \/ \E names \in Moves : WriteFile(m, names)
             \/ WriteRefused(m) \/ WriteDown(m) \/ Restore(m) \/ RequestFull(m)
      PROVE  Flags'
  <2>1. ASSUME NEW names \in Moves, WriteFile(m, names) PROVE Flags'
    BY <2>1, Zenon DEF WriteFile, Writes
  <2>2. CASE WriteRefused(m)
    BY <2>2, Zenon DEF WriteRefused, Writes
  <2>3. CASE WriteDown(m)
    BY <2>3, Zenon DEF WriteDown, Writes
  <2>4. CASE Restore(m)
    BY <2>4, Zenon DEF Restore
  <2>5. CASE RequestFull(m)
    BY <2>5, Zenon DEF RequestFull
  <2> QED
    BY <1>1, <2>1, <2>2, <2>3, <2>4, <2>5
<1>2. CASE Respawned \/ ResolveAgain \/ RecoveryFires
  BY <1>2, Zenon DEF Respawned, ResolveAgain, RecoveryFires
<1>3. CASE CommitBatch \/ LoseBatch \/ Restart
  BY <1>3, Zenon DEF CommitBatch, LoseBatch, Restart
<1>4. CASE Recover \/ TakeOrder \/ Drain \/ NextDebt \/ Upgrade \/ WriteThrows \/ Fault
  BY <1>4, Zenon DEF Recover, TakeOrder, Drain, NextDebt, Upgrade, WriteThrows, Fault
<1>5. CASE AlreadyFull \/ (\E names \in Moves : ParseLands(names)) \/ ParseRefused \/ ParseDown
  BY <1>5, Zenon DEF AlreadyFull, ParseLands, ParseRefused, ParseDown, Reads
<1>6. CASE Settle \/ \E found \in SUBSET Modules : SettlePartly(found)
  BY <1>6, Zenon DEF Settle, SettlePartly
<1>7. CASE EndRun
  BY <1>7, Zenon DEF EndRun
<1> QED
  BY <1>1, <1>2, <1>3, <1>4, <1>5, <1>6, <1>7 DEF Next, Pump

-----------------------------------------------------------------------------
(***************************************************************************)
(* Theorems                                                                *)
(***************************************************************************)

\* The initial states satisfy every part.
LEMMA InitHolds == Init => IInv
<1> SUFFICES ASSUME Init PROVE IInv
  OBVIOUS
<1>1. Flags
  BY Zenon DEF Init, Flags
<1>2. Rows(db) /\ committed = db /\ Exposed(db) = {}
  <2>1. db \in [depth : [Modules -> {"outline", "full"}], move : {NoMoves},
               owed : {[m \in Modules |-> NotOwed]}, failing : {{}}, stale : {{}},
               gap : {[m \in Modules |-> "none"]}]
    BY DEF Init
  <2>2. db.stale = {} /\ NoMoves \in [Modules -> SUBSET Names]
        /\ [m \in Modules |-> NotOwed] \in [Modules -> Owing]
    BY <2>1, DebtsAreOwing DEF NoMoves
  <2> QED
    BY <2>1, <2>2 DEF Init, Rows, Stores, Owing, Exposed
<1>3. Plans
  <2>1. broken \subseteq Modules /\ Cardinality(broken) <= MaxWrites /\ Cardinality(broken) \in Nat
    <3>1. broken \in SUBSET Modules /\ Cardinality(broken) <= MaxWrites
      BY DEF Init
    <3> QED
      BY <3>1, PumpAssumption, FS_Subset, FS_CardinalityType
  <2>2. used \in Uses /\ used.troubles = 0
    BY <2>1, PumpAssumption DEF Init, Uses
  <2>3. NoWork \in Works /\ <<>> \in Seq(Modules) /\ IsInjective(<<>>)
    BY DEF Works, NoWork, NoMoves, IsInjective
  <2> QED
    BY <2>1, <2>2, <2>3 DEF Init, Plans
<1>4. Memory
  BY <1>2 DEF Memory, Remembered
<1> QED
  BY <1>1, <1>2, <1>3, <1>4 DEF Init, IInv, Rest

\* Every step, and stuttering, keeps the invariant.
LEMMA StepHolds == ASSUME IInv, [Next]_vars PROVE IInv'
<1>1. CASE UNCHANGED vars
  BY <1>1 DEF vars, asideVars, flagVars, IInv, Flags, Rest, Rows, Plans, Memory, Remembered, Remembers,
    Exposed, Answering, Ordered, Moved
<1>2. CASE Next
  <2>1. Flags'
    BY <1>2, FlagsStay DEF IInv
  <2>2. Rest'
    BY <1>2, WritesKeep, AsksKeep, BatchKeeps, RestartKeeps, TurnKeeps, ParsesKeep, SettlesKeep, EndKeeps
    DEF IInv, Next, Pump
  <2> QED
    BY <2>1, <2>2 DEF IInv
<1> QED
  BY <1>1, <1>2

\* The invariant holds throughout.
LEMMA InvariantHolds == Spec => []IInv
BY InitHolds, StepHolds, PTL DEF Spec

\* For any modules and troubles, the rows, the plans and the counters of the pump keep their types; no
\* order waits twice and no module has two places among those nobody asked for.
THEOREM PumpTypes == Spec => []TypeOK
<1>1. IInv => TypeOK
  <2> SUFFICES ASSUME IInv PROVE TypeOK
    OBVIOUS
  <2>1. Plans /\ Flags /\ db \in Stores /\ committed \in Stores
    BY DEF IInv, Rest, Rows
  <2>2. process \in 0..MaxTroubles
    BY <2>1, PumpAssumption DEF Plans, Uses
  <2> QED
    BY <2>1, <2>2 DEF TypeOK, Plans, Flags, Works, Uses
<1> QED
  BY <1>1, InvariantHolds, PTL

\* For any modules, imports, writes, refusals, outages, lost batches, faults and restarts: whatever holds
\* references bound before a move of its imports owes a parse, or the move is pending, in the store and
\* in what a lost batch leaves; except through the gaps.
THEOREM NothingIsForgotten == Spec => []NothingForgotten
<1>1. IInv => NothingForgotten
  <2> SUFFICES ASSUME IInv, NEW d \in {db, committed}, NEW n \in Modules, Forgotten(d, n), d.gap[n] = "none"
               PROVE  FALSE
    BY DEF NothingForgotten
  <2>1. PICK moves, order : Remembered(d, unasked, moves, order)
    BY DEF IInv, Rest, Memory
  <2>2. n \in Exposed(d)
    BY DEF Forgotten, Exposed
  <2> QED
    BY <2>1, <2>2 DEF Remembered, Remembers, Forgotten
<1> QED
  BY <1>1, InvariantHolds, PTL

=============================================================================
