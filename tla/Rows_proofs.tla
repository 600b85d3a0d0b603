----------------------------- MODULE Rows_proofs -----------------------------
(***************************************************************************)
(* Proofs about what is read in the order of its key.  RowStream: a        *)
(* completed run has sent every row that stayed, and a row goes out twice  *)
(* only because an interruption came between sending it and recording it.  *)
(* Backup: a row that nobody touched is in the backup, and a restore that  *)
(* ends well has put every row of the backup in its place.  Places in a    *)
(* result are counted (KeyRank), so that a page, an offset, a seek and a   *)
(* cursor speak about the same rows.                                       *)
(***************************************************************************)
EXTENDS RowStream, Backup, FiniteSetTheorems, SequenceTheorems, WellFoundedInduction, TLAPS

(***************************************************************************)
(* Places in a result (KeyOrder).                                          *)
(***************************************************************************)

\* A set of naturals has a least element: what stands for induction below.
LEMMA LeastOf ==
  ASSUME NEW T, T \subseteq Nat, T # {}
  PROVE  \E m \in T : \A n \in T : m <= n
<1> DEFINE R == OpToRel(<, Nat)
<1>1. IsWellFoundedOn(R, Nat)
  BY NatLessThanWellFounded
<1>2. \A m, n \in Nat : n < m => <<n, m>> \in R
  BY DEF OpToRel
<1> HIDE DEF R
<1>3. PICK m \in T : \A n \in T : ~(<<n, m>> \in R)
  BY <1>1, WFMin
<1>4. \A n \in T : ~(n < m)
  BY <1>2, <1>3
<1> QED BY <1>4

\* A set of naturals with a bound has a greatest one.
LEMMA GreatestOf ==
  ASSUME NEW S, S # {}, NEW b \in Nat, \A i \in S : i \in Nat /\ i <= b
  PROVE  \E m \in S : \A i \in S : i <= m
<1> DEFINE U == {n \in Nat : \A i \in S : i <= n}
<1>1. b \in U
  OBVIOUS
<1>2. PICK m \in U : \A n \in U : m <= n
  BY <1>1, LeastOf
<1>3. ASSUME m \notin S PROVE FALSE
  <2>1. PICK i \in S : TRUE
    OBVIOUS
  <2>2. \A j \in S : j < m
    BY <1>2, <1>3
  <2>3. m \in Nat \ {0} /\ \A j \in S : j <= m - 1
    BY <2>1, <2>2, <1>2
  <2>4. m - 1 \in U
    BY <2>3
  <2> QED BY <2>3, <2>4, <1>2
<1> QED BY <1>2, <1>3

\* The keys of a result.
Keys(S) == IsFiniteSet(S) /\ \A k \in S : k \in Nat

\* The place of a row is one of the result's.
LEMMA RankOK ==
  ASSUME NEW S, Keys(S), NEW k \in Nat
  PROVE  /\ KeyRank(S, k) \in Nat /\ KeyRank(S, k) <= Cardinality(S)
         /\ k \in S => KeyRank(S, k) >= 1
<1> DEFINE T == {j \in S : j <= k}
<1>1. IsFiniteSet(S) /\ Cardinality(S) \in Nat /\ k \in Nat
  BY FS_CardinalityType DEF Keys
<1>2. IsFiniteSet(T) /\ Cardinality(T) <= Cardinality(S) /\ Cardinality(T) \in Nat
  BY <1>1, FS_Subset, FS_CardinalityType
<1>3. k \in S => T # {}
  BY <1>1
<1>4. Cardinality(T) = 0 <=> T = {}
  BY <1>2, FS_EmptySet
<1> QED BY <1>2, <1>3, <1>4 DEF KeyRank

\* Rows are in the order of their keys.
LEMMA RankOrder ==
  ASSUME NEW S, Keys(S), NEW j \in Nat, NEW k \in Nat
  PROVE  /\ j <= k => KeyRank(S, j) <= KeyRank(S, k)
         /\ k \in S => (KeyRank(S, j) < KeyRank(S, k) <=> j < k)
<1> DEFINE J == {i \in S : i <= j}
           K == {i \in S : i <= k}
<1>1. IsFiniteSet(S) /\ j \in Nat /\ k \in Nat /\ \A i \in S : i \in Nat
  BY FS_CardinalityType DEF Keys
<1>2. IsFiniteSet(J) /\ IsFiniteSet(K) /\ Cardinality(J) \in Nat /\ Cardinality(K) \in Nat
  BY <1>1, FS_Subset, FS_CardinalityType
<1>3. ASSUME j <= k PROVE Cardinality(J) <= Cardinality(K)
  <2>1. \A i \in S : i <= j => i <= k
    BY <1>1, <1>3
  <2>2. J \subseteq K
    BY <2>1
  <2> HIDE DEF J, K
  <2> QED BY <2>2, <1>2, FS_Subset
<1>4. ASSUME k < j \/ k = j PROVE Cardinality(K) <= Cardinality(J)
  <2>1. \A i \in S : i <= k => i <= j
    BY <1>1, <1>4
  <2>2. K \subseteq J
    BY <2>1
  <2> HIDE DEF J, K
  <2> QED BY <2>2, <1>2, FS_Subset
<1>5. ASSUME j < k, k \in S PROVE Cardinality(J) < Cardinality(K)
  <2>1. \A i \in S : i <= j => i <= k
    BY <1>1, <1>5
  <2>2. J \subseteq K /\ k \in K /\ k \notin J
    <3>1. J \subseteq K
      BY <2>1
    <3>2. k <= k /\ ~(k <= j)
      BY <1>1, <1>5
    <3> QED BY <3>1, <3>2, <1>5
  <2> HIDE DEF J, K
  <2>3. Cardinality(J) <= Cardinality(K) /\ Cardinality(K) # Cardinality(J)
    BY <2>2, <1>2, FS_Subset
  <2> QED BY <2>3, <1>2
<1> QED BY <1>1, <1>2, <1>3, <1>4, <1>5 DEF KeyRank

\* Every place of a result has its row.
LEMMA RankHit ==
  ASSUME NEW S, Keys(S), NEW n \in Nat, 0 < n, n <= Cardinality(S)
  PROVE  \E k \in S : KeyRank(S, k) = n
<1>1. /\ IsFiniteSet(S) /\ Cardinality(S) \in Nat /\ S # {}
      /\ \A i \in S : i \in Nat
  BY FS_CardinalityType, FS_EmptySet DEF Keys
<1> DEFINE T == {k \in S : KeyRank(S, k) >= n}
<1>2. T # {}
  <2>1. PICK k \in S : \A j \in S : j <= k
    <3> DEFINE T0 == {KeyRank(S, i) : i \in S}
               b == Cardinality(S)
    <3>1. \A i \in S : KeyRank(S, i) \in Nat /\ KeyRank(S, i) <= b
      BY <1>1, RankOK
    <3>2. T0 # {} /\ b \in Nat /\ \A i \in T0 : i \in Nat /\ i <= b
      BY <1>1, <3>1
    <3>3. PICK m \in T0 : \A i \in T0 : i <= m
      <4> HIDE DEF T0, b
      <4> QED BY <3>2, GreatestOf
    <3>4. PICK k \in S : KeyRank(S, k) = m
      BY <3>3
    <3>5. ASSUME NEW j \in S, k < j PROVE FALSE
      <4>1. KeyRank(S, k) < KeyRank(S, j)
        BY <1>1, <3>5, RankOrder
      <4> QED BY <3>1, <3>3, <3>4, <4>1
    <3> QED BY <1>1, <3>5
  <2>2. {j \in S : j <= k} = S
    BY <2>1
  <2> QED BY <2>1, <2>2 DEF KeyRank
<1>3. PICK k \in T : \A j \in T : k <= j
  BY <1>1, <1>2, LeastOf
<1> DEFINE B == {j \in S : j < k}
<1>4. IsFiniteSet(B) /\ Cardinality(B) \in Nat
  BY <1>1, FS_Subset, FS_CardinalityType
<1>5. KeyRank(S, k) = Cardinality(B) + 1
  <2>1. {j \in S : j <= k} = B \cup {k} /\ k \notin B
    <3>1. k \in S /\ k \in Nat
      BY <1>1, <1>3
    <3>2. \A j \in S : j <= k <=> j \in B \/ j = k
      <4> TAKE j \in S
      <4>1. j \in Nat
        BY <1>1
      <4> QED BY <3>1, <4>1
    <3>3. k \notin B /\ B \subseteq S
      BY <3>1
    <3> HIDE DEF B
    <3> QED BY <3>1, <3>2, <3>3
  <2> HIDE DEF B
  <2> QED BY <2>1, <1>4, FS_AddElement DEF KeyRank
<1>6. Cardinality(B) < n
  <2>1. CASE B = {}
    BY <2>1, FS_EmptySet
  <2>2. CASE B # {}
    <3>1. PICK b \in B : \A j \in B : j <= b
      <4>1. k \in Nat /\ \A j \in B : j \in Nat /\ j <= k
        BY <1>1
      <4> HIDE DEF B
      <4> QED BY <4>1, <2>2, GreatestOf
    <3>2. {j \in S : j <= b} = B
      <4>1. k \in S /\ k \in Nat /\ b \in S /\ b \in Nat /\ b < k
        BY <1>1, <1>3, <3>1
      <4>2. \A j \in S : j <= b <=> j < k
        <5> TAKE j \in S
        <5>1. j \in Nat /\ (j < k => j \in B)
          BY <1>1
        <5> QED BY <5>1, <4>1, <3>1
      <4> QED BY <4>2
    <3>3. b \in S /\ b \notin T
      BY <3>1, <1>3, <1>1
    <3>4. KeyRank(S, b) = Cardinality(B)
      BY <3>2 DEF KeyRank
    <3> QED BY <3>3, <3>4, <1>4
  <2> QED BY <2>1, <2>2
<1>7. KeyRank(S, k) >= n
  BY <1>3
<1>8. KeyRank(S, k) = n
  BY <1>4, <1>5, <1>6, <1>7
<1> QED BY <1>3, <1>8

\* What is read in order are the keys, each at its place.
LEMMA OrderedOK ==
  ASSUME NEW S, Keys(S)
  PROVE  /\ Ordered(S) \in Seq(S) /\ Len(Ordered(S)) = Cardinality(S) /\ Cardinality(S) \in Nat
         /\ \A n \in 1 .. Cardinality(S) : Ordered(S)[n] \in S /\ KeyRank(S, Ordered(S)[n]) = n
         /\ \A k \in S : /\ KeyRank(S, k) \in 1 .. Cardinality(S)
                          /\ Ordered(S)[KeyRank(S, k)] = k
<1>1. Cardinality(S) \in Nat /\ \A k \in S : k \in Nat
  BY FS_CardinalityType DEF Keys
<1>2. \A n \in 1 .. Cardinality(S) : \E k \in S : KeyRank(S, k) = n
  BY <1>1, RankHit
<1>3. \A n \in 1 .. Cardinality(S) : Ordered(S)[n] \in S /\ KeyRank(S, Ordered(S)[n]) = n
  BY <1>2 DEF Ordered
<1>4. Ordered(S) \in [1 .. Cardinality(S) -> S]
  BY <1>2 DEF Ordered
<1>5. Ordered(S) \in Seq(S) /\ Len(Ordered(S)) = Cardinality(S)
  <2> HIDE DEF Ordered
  <2> DEFINE s == Ordered(S)
             n == Cardinality(S)
  <2>1. s \in [1 .. n -> S] /\ n \in Nat
    BY <1>1, <1>4
  <2> HIDE DEF s, n
  <2>2. s \in Seq(S) /\ Len(s) = n
    BY <2>1
  <2> QED BY <2>2 DEF s, n
<1>6. ASSUME NEW k \in S
      PROVE  KeyRank(S, k) \in 1 .. Cardinality(S) /\ Ordered(S)[KeyRank(S, k)] = k
  <2> DEFINE r == KeyRank(S, k)
             j == Ordered(S)[r]
  <2>1. r \in 1 .. Cardinality(S)
    BY <1>1, RankOK
  <2>2. j \in S /\ KeyRank(S, j) = r
    BY <1>3, <2>1
  <2> HIDE DEF j
  <2>3. k \in Nat /\ j \in Nat /\ KeyRank(S, k) \in Nat /\ KeyRank(S, j) \in Nat
    BY <1>1, <2>2, RankOK
  <2>4. ~(j < k) /\ ~(k < j)
    BY <2>2, <2>3, RankOrder
  <2> QED BY <2>1, <2>3, <2>4 DEF j
<1> QED BY <1>1, <1>3, <1>5, <1>6

\* The row the loop is at comes first.
LEMMA MinOK ==
  ASSUME NEW S, S \subseteq Nat, S # {}
  PROVE  Min(S) \in S /\ \A k \in S : Min(S) <= k
BY LeastOf DEF Min
------------------------------------------------------------------------------
(***************************************************************************)
(* What the theorem assumes of the scenarios: an engine whose filter on    *)
(* the key compares keys, and others who write to the source only while    *)
(* the run is not interrupted and does not page by OFFSET.                 *)
(***************************************************************************)
Quiet(s) == s.changes = {}
Unbroken(s) == s.breaks = 0 /\ (s.keyset \/ s.kind = "query")
Steady == \A s \in Sources : s.kind \in {"sql", "query"} /\ (Quiet(s) \/ Unbroken(s))

(***************************************************************************)
(* The invariant.                                                          *)
(***************************************************************************)
ReaderRecord == [step : {"closed", "fetch", "rows", "record", "cursor"}, page : SUBSET Rowids,
                 more : BOOLEAN, lastKey : {NoKey} \union Rowids, index : Nat]
PositionRecord == [offset : Nat, status : {"queued", "running", "failed", "completed"}]
Paging == {"rows", "record", "cursor"}

StreamTypes ==
  /\ source \in Sources
  /\ present \subseteq Rowids /\ stayed \subseteq present
  /\ reader \in ReaderRecord /\ position \in PositionRecord
  /\ DOMAIN settled \subseteq Nat
  /\ delivered \in [Rowids -> Nat]
  /\ breaks \in Nat /\ unrecorded \in Nat

\* The loop and the run's row go together.
LoopAtCursor ==
  /\ reader.step # "closed" => position.offset = reader.index
  /\ reader.step # "closed" <=> position.status = "running"
  /\ reader.step \in {"record", "cursor"} => reader.page # {}
  /\ reader.step = "fetch" => source.kind # "query"
  /\ source.kind = "query" => ~reader.more

\* A page holds the rows beyond the key or the place it was fetched for; the rows it
\* does not hold come after it, and there is a next page.
Beyond(S, k) == k \in S /\ k \notin reader.page =>
                  reader.more /\ \A p \in reader.page : p < k

(***************************************************************************)
(* A source nobody writes to: the place of a row is its sequence.          *)
(***************************************************************************)
Place(k) == KeyRank(present, k)
Entered(k) == Place(k) - 1 \in DOMAIN settled
\* A row that was sent by an attempt that did not record it.
Owed == reader.step # "record" /\ \E k \in present : delivered[k] > 0 /\ ~Entered(k)

SentByPlace ==
  /\ \A k \in present : Entered(k) => delivered[k] > 0
  /\ \A k \in present : Place(k) <= position.offset => Entered(k)
  /\ \A k \in present : delivered[k] > 0 => Place(k) <= position.offset + 1
  /\ \A k \in Rowids \ present : delivered[k] = 0
  /\ position.offset <= Cardinality(present)
  /\ reader.step = "record" =>
       \A k \in present : Place(k) = reader.index + 1 => delivered[k] > 0
  /\ reader.step = "cursor" =>
       \A k \in present : Place(k) = reader.index + 1 => Entered(k)
  /\ position.status = "completed" => \A k \in present : Entered(k)
PagesByPlace ==
  /\ reader.step # "closed" /\ source.keyset /\ source.kind # "query" =>
       \A k \in present : k > reader.lastKey <=> Place(k) > reader.index
  /\ reader.step \in Paging =>
       /\ \A p \in reader.page : p \in present /\ Place(p) > reader.index
       /\ \A k \in present : Place(k) > reader.index => Beyond(present, k)
AgainOwed == IsFiniteSet(Again) /\ Cardinality(Again) + (IF Owed THEN 1 ELSE 0) <= unrecorded
QuietInv == stayed = present /\ SentByPlace /\ PagesByPlace /\ AgainOwed

(***************************************************************************)
(* A run without interruptions: what is behind the last key was sent once. *)
(***************************************************************************)
SentByKey ==
  /\ \A k \in Rowids : delivered[k] <= 1
  /\ \A k \in Rowids : delivered[k] = 1 /\ position.status # "completed" =>
       k <= reader.lastKey \/ (reader.step \in {"record", "cursor"} /\ k = Row)
  /\ reader.step \in {"record", "cursor"} => delivered[Row] = 1
  /\ \A k \in stayed : k <= reader.lastKey => delivered[k] = 1
  /\ position.status = "queued" => position.offset = 0 /\ \A k \in Rowids : delivered[k] = 0
PagesByKey ==
  reader.step \in Paging =>
    /\ \A p \in reader.page : p > reader.lastKey
    /\ \A k \in stayed : k > reader.lastKey => Beyond(stayed, k)
EnteredBehind ==
  /\ reader.step # "closed" => reader.index <= reader.lastKey
  /\ position.status = "queued" => DOMAIN settled = {}
  /\ \A i \in DOMAIN settled : reader.step # "closed" =>
       i < reader.index \/ (reader.step = "cursor" /\ i = reader.index)
  /\ position.offset <= NumKeys
UnbrokenInv ==
  /\ breaks = 0
  /\ reader.step = "closed" => reader = Closed
  /\ SentByKey /\ PagesByKey /\ EnteredBehind
  /\ position.status = "completed" => \A k \in stayed : delivered[k] = 1

StreamInv ==
  /\ StreamTypes /\ LoopAtCursor
  /\ Quiet(source) => QuietInv
  /\ ~Quiet(source) => UnbrokenInv
------------------------------------------------------------------------------
(***************************************************************************)
(* Places of a table's rows.                                               *)
(***************************************************************************)

\* Results are finite.
LEMMA ResultOK ==
  ASSUME NEW S, S \subseteq Rowids
  PROVE  /\ IsFiniteSet(S) /\ Cardinality(S) \in Nat /\ Cardinality(S) <= NumKeys
         /\ S \subseteq Nat \ {0}
<1>1. NumKeys \in Nat
  BY StreamConstants
<1>2. IsFiniteSet(Rowids) /\ Cardinality(Rowids) = NumKeys
  BY <1>1, FS_Interval DEF Rowids
<1>3. IsFiniteSet(S) /\ Cardinality(S) <= NumKeys
  BY <1>2, FS_Subset
<1>4. Cardinality(S) \in Nat
  BY <1>3, FS_CardinalityType
<1>5. \A k \in S : k \in Nat \ {0}
  BY <1>1 DEF Rowids
<1> QED BY <1>3, <1>4, <1>5

\* Results of a table's rows have places.
LEMMA RowsAreKeys == ASSUME NEW S, S \subseteq Rowids PROVE Keys(S)
BY ResultOK DEF Keys

LEMMA RowRankOK ==
  ASSUME NEW S, S \subseteq Rowids, NEW k \in Rowids
  PROVE  /\ KeyRank(S, k) \in Nat /\ KeyRank(S, k) <= Cardinality(S)
         /\ k \in S => KeyRank(S, k) >= 1
<1>1. k \in Nat
  BY StreamConstants DEF Rowids
<1> QED BY <1>1, RowsAreKeys, RankOK

LEMMA RowRankOrder ==
  ASSUME NEW S, S \subseteq Rowids, NEW j \in Rowids, NEW k \in Rowids
  PROVE  /\ j <= k => KeyRank(S, j) <= KeyRank(S, k)
         /\ k \in S => (KeyRank(S, j) < KeyRank(S, k) <=> j < k)
<1>1. j \in Nat /\ k \in Nat
  BY StreamConstants DEF Rowids
<1> QED BY <1>1, RowsAreKeys, RankOrder

LEMMA RowRankHit ==
  ASSUME NEW S, S \subseteq Rowids, NEW n \in Nat, 0 < n, n <= Cardinality(S)
  PROVE  \E k \in S : KeyRank(S, k) = n
BY RowsAreKeys, RankHit
------------------------------------------------------------------------------
(***************************************************************************)
(* Pages.                                                                  *)
(***************************************************************************)

\* What a window leaves out of the rows beyond its offset comes after it.
LEMMA SliceOK ==
  ASSUME NEW S, S \subseteq Rowids, NEW offset \in Nat, NEW limit \in Nat
  PROVE  /\ Slice(S, offset, limit) \subseteq S
         /\ \A p \in Slice(S, offset, limit) : KeyRank(S, p) > offset
         /\ \A k \in S \ Slice(S, offset, limit) : KeyRank(S, k) > offset =>
              /\ Cardinality(S) > offset + limit
              /\ \A p \in Slice(S, offset, limit) : p < k
<1> DEFINE W == Slice(S, offset, limit)
<1>1. /\ W \subseteq S
      /\ \A k \in S : k \in W <=> offset < KeyRank(S, k) /\ KeyRank(S, k) <= offset + limit
  BY DEF Slice
<1>2. Cardinality(S) \in Nat /\ \A k \in S : KeyRank(S, k) \in Nat /\ KeyRank(S, k) <= Cardinality(S)
  BY ResultOK, RowRankOK
<1> HIDE DEF W
<1>3. ASSUME NEW k \in S \ W, KeyRank(S, k) > offset
      PROVE  Cardinality(S) > offset + limit /\ \A p \in W : p < k
  <2>1. KeyRank(S, k) > offset + limit
    BY <1>1, <1>2, <1>3
  <2>2. ASSUME NEW p \in W PROVE p < k
    <3>1. KeyRank(S, p) < KeyRank(S, k)
      BY <1>1, <1>2, <2>1, <2>2
    <3>2. p \in Rowids /\ k \in Rowids /\ k \in S
      BY <1>1, <2>2
    <3> QED BY <3>1, <3>2, RowRankOrder
  <2> QED BY <1>2, <2>1, <2>2
<1>4. \A p \in W : KeyRank(S, p) > offset
  BY <1>1, <1>2
<1> QED BY <1>1, <1>3, <1>4 DEF W

\* The row the loop is at.
LEMMA RowOK ==
  ASSUME StreamTypes, reader.page # {}
  PROVE  Row \in reader.page /\ Row \in Rowids /\ Row \in Nat \ {0}
         /\ \A p \in reader.page : Row <= p
<1>1. reader.page \subseteq Rowids
  BY DEF StreamTypes, ReaderRecord
<1>2. reader.page \subseteq Nat \ {0}
  BY <1>1, ResultOK
<1>3. Row \in reader.page /\ \A p \in reader.page : Row <= p
  BY <1>2, MinOK DEF Row
<1> QED BY <1>1, <1>2, <1>3

\* The row before a cursor, of a source that has so many rows.
LEMMA SeekOK ==
  ASSUME StreamTypes, NEW offset \in Nat, offset # 0
  PROVE  /\ SeekKey(offset) \in {NoKey} \union Rowids
         /\ offset <= Cardinality(present) =>
              SeekKey(offset) \in present /\ Place(SeekKey(offset)) = offset
<1> DEFINE W == Slice(present, offset - 1, 1)
<1>1. W = {k \in present : Place(k) = offset}
  <2>1. \A k \in present : Place(k) \in Nat
    BY RowRankOK DEF Place, StreamTypes
  <2>2. \A k \in present : offset - 1 < Place(k) /\ Place(k) <= offset - 1 + 1 <=> Place(k) = offset
    BY <2>1
  <2> QED BY <2>2 DEF Slice, Place
<1> HIDE DEF W
<1>2. present \subseteq Rowids /\ W \subseteq Nat
  BY <1>1, ResultOK DEF StreamTypes
<1>3. W # {} => Min(W) \in W
  BY <1>2, MinOK
<1>4. offset <= Cardinality(present) => W # {}
  <2> SUFFICES ASSUME offset <= Cardinality(present) PROVE W # {}
    OBVIOUS
  <2>1. \E k \in present : KeyRank(present, k) = offset
    BY <1>2, RowRankHit
  <2> QED BY <2>1, <1>1 DEF Place
<1>5. SeekKey(offset) = IF W = {} THEN NoKey ELSE Min(W)
  BY DEF SeekKey, W
<1> QED BY <1>1, <1>2, <1>3, <1>4, <1>5

\* The rows beyond a key that the next page is taken from.
LEMMA BoundedOK ==
  ASSUME Steady, StreamTypes, NEW bound \in {NoKey} \union Rowids
  PROVE  /\ Bounded(bound) = {k \in present : k > bound} /\ Bounded(bound) \subseteq Rowids
         /\ bound = NoKey => Bounded(bound) = present
<1>1. source.kind \in {"sql", "query"} /\ present \subseteq Rowids
  BY DEF Steady, StreamTypes
<1>2. Bounded(bound) = {k \in present : k > bound}
  BY <1>1 DEF Bounded, SqlRows
<1>3. \A k \in present : k > NoKey
  BY <1>1, ResultOK DEF NoKey
<1> QED BY <1>1, <1>2, <1>3

\* The page that FetchPage gets.
LEMMA PageOK ==
  ASSUME Steady, StreamTypes, NEW bound \in {NoKey} \union Rowids, NEW offset \in Nat
  PROVE  LET B == Bounded(bound)
             P == Page(bound, offset)
         IN  /\ P.rows \in SUBSET Rowids /\ P.more \in BOOLEAN /\ P.rows \subseteq B
             /\ \A p \in P.rows : KeyRank(B, p) > offset
             /\ \A k \in B \ P.rows : KeyRank(B, k) > offset => P.more /\ \A p \in P.rows : p < k
<1>1. PageSize \in Nat /\ Bounded(bound) \subseteq Rowids
  BY StreamConstants, BoundedOK
<1> DEFINE B == Bounded(bound)
           W == Slice(B, offset, PageSize)
<1>2. /\ W \subseteq B /\ \A p \in W : KeyRank(B, p) > offset
      /\ \A k \in B \ W : KeyRank(B, k) > offset =>
           Cardinality(B) > offset + PageSize /\ \A p \in W : p < k
  BY <1>1, SliceOK
<1>3. /\ Page(bound, offset).rows = W
      /\ Page(bound, offset).more = (Cardinality(B) > offset + PageSize)
  BY DEF Page
<1> HIDE DEF B, W
<1>4. W \in SUBSET Rowids
  BY <1>1, <1>2 DEF B
<1>5. Page(bound, offset).more \in BOOLEAN
  BY <1>3
<1>6. Cardinality(B) > offset + PageSize => Page(bound, offset).more
  BY <1>3
<1> QED BY <1>2, <1>3, <1>4, <1>5, <1>6 DEF B
------------------------------------------------------------------------------
(***************************************************************************)
(* Types.                                                                  *)
(***************************************************************************)

\* What every step keeps: the scenario, and the types.
LEMMA TypesStep ==
  ASSUME Steady, StreamTypes, LoopAtCursor, StreamNext
  PROVE  StreamTypes' /\ LoopAtCursor' /\ source' = source
<1> USE DEF StreamTypes, LoopAtCursor, ReaderRecord, PositionRecord, StreamAt
<1>1. CASE OpenTable
  <2>1. position.offset # 0 => SeekKey(position.offset) \in {NoKey} \union Rowids
    BY SeekOK
  <2> DEFINE key == IF source.keyset /\ position.offset > 0
                    THEN SeekKey(position.offset) ELSE NoKey
  <2>2. key \in {NoKey} \union Rowids
    BY <2>1
  <2>3. reader' = [step |-> "fetch", page |-> {}, more |-> FALSE, lastKey |-> key,
                   index |-> position.offset]
    BY <1>1 DEF OpenTable, Closed
  <2> HIDE DEF key
  <2>4. reader' \in ReaderRecord
    <3>1. {} \in SUBSET Rowids /\ position.offset \in Nat
      OBVIOUS
    <3> QED BY <2>2, <2>3, <3>1
  <2>5. position' = [position EXCEPT !.status = "running"]
    BY <1>1 DEF OpenTable
  <2> QED BY <1>1, <2>3, <2>4, <2>5 DEF OpenTable
<1>2. CASE OpenQuery
  <2>1. Slice(present, position.offset, Cardinality(present)) \subseteq Rowids
    BY DEF Slice
  <2> QED BY <1>2, <2>1 DEF OpenQuery, Closed, NoKey
<1>3. CASE FetchPage
  <2> DEFINE P == IF source.keyset THEN Page(reader.lastKey, 0) ELSE Page(NoKey, reader.index)
  <2>1. P.rows \in SUBSET Rowids /\ P.more \in BOOLEAN
    BY PageOK
  <2>2. reader' = [reader EXCEPT !.step = "rows", !.page = P.rows, !.more = P.more]
    BY <1>3 DEF FetchPage
  <2> HIDE DEF P
  <2> QED BY <1>3, <2>1, <2>2 DEF FetchPage
<1>4. CASE SendRow
  <2>1. Row \in Rowids
    BY <1>4, RowOK DEF SendRow
  <2> QED BY <1>4, <2>1 DEF SendRow
<1>5. CASE RecordRow
  <2>1. DOMAIN settled' = DOMAIN settled \union {reader.index}
    BY <1>5 DEF RecordRow
  <2> QED BY <1>5, <2>1 DEF RecordRow
<1>6. CASE SetCursor
  <2>1. Row \in Rowids
    BY <1>6, RowOK DEF SetCursor
  <2>2. reader' = [reader EXCEPT !.step = "rows", !.page = @ \ {Row}, !.index = @ + 1,
                                 !.lastKey = Row]
    BY <1>6 DEF SetCursor
  <2>3. reader' \in ReaderRecord /\ position' \in PositionRecord
    <3>1. reader.page \ {Row} \in SUBSET Rowids /\ reader.index + 1 \in Nat
      OBVIOUS
    <3>2. position' = [position EXCEPT !.offset = reader.index + 1]
      BY <1>6 DEF SetCursor
    <3> QED BY <2>1, <2>2, <3>1, <3>2
  <2> QED BY <1>6, <2>2, <2>3 DEF SetCursor
<1>7. CASE PageEnds
  <2>1. CASE reader.more
    BY <1>7, <2>1 DEF PageEnds
  <2>2. CASE ~reader.more
    <3>1. /\ reader' = [step |-> "closed", page |-> {}, more |-> FALSE, lastKey |-> NoKey, index |-> 0]
          /\ position' = [position EXCEPT !.status = "completed"]
      BY <1>7, <2>2 DEF PageEnds, Closed
    <3> QED BY <1>7, <3>1 DEF PageEnds, NoKey
  <2> QED BY <2>1, <2>2
<1>8. CASE Break
  BY <1>8 DEF Break, Closed, NoKey
<1>9. CASE \E k \in Rowids : RowAppears(k) \/ RowGoes(k)
  BY <1>9 DEF RowAppears, RowGoes, ChangeRow
<1> QED BY <1>1, <1>2, <1>3, <1>4, <1>5, <1>6, <1>7, <1>8, <1>9 DEF StreamNext
------------------------------------------------------------------------------
(***************************************************************************)
(* A source that nobody writes to.                                         *)
(***************************************************************************)

\* Rows have places of their own.
LEMMA PlacesDiffer ==
  ASSUME StreamTypes, NEW j \in present, NEW k \in present
  PROVE  /\ Place(j) \in Nat \ {0} /\ Place(j) <= Cardinality(present)
         /\ Place(j) < Place(k) <=> j < k
         /\ Place(j) = Place(k) => j = k
<1>1. /\ present \subseteq Rowids /\ j \in Rowids /\ k \in Rowids /\ j \in Nat /\ k \in Nat
      /\ Cardinality(present) \in Nat
  BY ResultOK DEF StreamTypes
<1>2. /\ Place(j) \in Nat /\ Place(k) \in Nat /\ Place(j) >= 1
      /\ Place(j) <= Cardinality(present)
  BY <1>1, RowRankOK DEF Place
<1>3. (Place(j) < Place(k) <=> j < k) /\ (Place(k) < Place(j) <=> k < j)
  BY <1>1, RowRankOrder DEF Place
<1> QED BY <1>1, <1>2, <1>3

\* The first row of a page is the one at the next index.
LEMMA HeadPlace ==
  ASSUME StreamTypes, PagesByPlace, reader.step \in Paging, reader.page # {}
  PROVE  /\ Row \in present /\ Place(Row) = reader.index + 1
         /\ \A k \in present : Place(k) = reader.index + 1 => k = Row
<1>1. Row \in reader.page /\ \A p \in reader.page : Row <= p
  BY RowOK
<1>2. Row \in present /\ Place(Row) > reader.index /\ reader.index \in Nat
  BY <1>1 DEF PagesByPlace, StreamTypes, ReaderRecord
<1>3. reader.index + 1 <= Cardinality(present) /\ present \subseteq Rowids /\ Place(Row) \in Nat
      /\ Cardinality(present) \in Nat
  BY <1>2, PlacesDiffer, ResultOK DEF StreamTypes
<1>4. PICK q \in present : Place(q) = reader.index + 1
  BY <1>2, <1>3, RowRankHit DEF Place
<1>5. q \in reader.page
  <2> SUFFICES ASSUME q \notin reader.page PROVE FALSE
    OBVIOUS
  <2>1. Place(q) > reader.index
    BY <1>2, <1>4
  <2>2. Row < q
    BY <1>1, <1>4, <2>1 DEF PagesByPlace, Beyond
  <2>3. Place(Row) < Place(q)
    BY <1>2, <1>4, <2>2, PlacesDiffer
  <2> QED BY <1>2, <1>3, <1>4, <2>3
<1>6. Row = q
  <2>1. Row <= q /\ Row \in Nat /\ q \in Nat
    BY <1>1, <1>2, <1>5, <1>3, ResultOK
  <2>2. ~(Row < q)
    BY <1>2, <1>3, <1>4, PlacesDiffer
  <2> QED BY <2>1, <2>2
<1> QED BY <1>2, <1>4, <1>6, PlacesDiffer

\* Sending a row once more, and for the first time.
LEMMA AgainMoves ==
  ASSUME StreamTypes, IsFiniteSet(Again), NEW k \in Rowids,
         delivered' = [delivered EXCEPT ![k] = @ + 1]
  PROVE  /\ IsFiniteSet(Again') /\ Cardinality(Again) \in Nat
         /\ Cardinality(Again') = Cardinality(Again) + (IF delivered[k] > 0 THEN 1 ELSE 0)
<1> DEFINE e == <<k, delivered[k] + 1>>
<1>1. delivered \in [Rowids -> Nat] /\ \A j \in Rowids : delivered[j] \in Nat
  BY DEF StreamTypes
<1>2. \A j \in Rowids, n \in Int : <<j, n>> \in Again <=> 2 <= n /\ n <= delivered[j]
  BY <1>1 DEF Again
<1>3. \A j \in Rowids, n \in Int : <<j, n>> \in Again' <=> 2 <= n /\ n <= delivered'[j]
  <2>1. \A j \in Rowids : delivered'[j] \in Nat
    BY <1>1
  <2> QED BY <2>1 DEF Again
<1>4. Again \subseteq Rowids \X Int /\ Again' \subseteq Rowids \X Int
  BY <1>1 DEF Again
<1>5. e \notin Again
  BY <1>1, <1>2
<1>6. Again' = IF delivered[k] > 0 THEN Again \cup {e} ELSE Again
  <2>1. \A j \in Rowids, n \in Int :
          <<j, n>> \in Again' <=> <<j, n>> \in Again \/ (delivered[k] > 0 /\ <<j, n>> = e)
    <3> TAKE j \in Rowids, n \in Int
    <3>1. CASE j # k
      BY <3>1, <1>1, <1>2, <1>3
    <3>2. CASE j = k
      BY <3>2, <1>1, <1>2, <1>3
    <3> QED BY <3>1, <3>2
  <2>2. e \in Rowids \X Int
    BY <1>1
  <2> HIDE DEF e
  <2>3. \A x \in Rowids \X Int :
          x \in Again' <=> x \in Again \/ (delivered[k] > 0 /\ x = e)
    BY <2>1
  <2> QED BY <1>4, <2>2, <2>3
<1> HIDE DEF e
<1> QED BY <1>5, <1>6, FS_AddElement, FS_CardinalityType

\* What a step that sends and records nothing owes.
LEMMA OwedStays ==
  ASSUME StreamTypes, QuietInv, reader.step # "record",
         UNCHANGED <<present, settled, delivered, unrecorded>>
  PROVE  AgainOwed'
<1>1. Again' = Again /\ Cardinality(Again) \in Nat /\ unrecorded \in Nat
  BY FS_CardinalityType DEF Again, QuietInv, AgainOwed, StreamTypes
<1>2. Owed' => Owed
  BY DEF Owed, Entered, Place
<1> QED BY <1>1, <1>2 DEF QuietInv, AgainOwed

\* A step that sends, records and passes nothing.
LEMMA SentStays ==
  ASSUME QuietInv, UNCHANGED <<present, settled, delivered>>,
         position'.offset = position.offset,
         reader'.step \notin {"record", "cursor"}, position'.status # "completed"
  PROVE  SentByPlace'
BY DEF QuietInv, SentByPlace, Entered, Place

\* OpenTable, OpenQuery and FetchPage.
LEMMA QuietReads ==
  ASSUME Steady, StreamTypes, LoopAtCursor, Quiet(source), QuietInv,
         OpenTable \/ OpenQuery \/ FetchPage
  PROVE  QuietInv'
<1>1. /\ UNCHANGED <<source, present, stayed, settled, delivered, unrecorded>>
      /\ position'.offset = position.offset /\ position'.status # "completed"
      /\ reader.step # "record" /\ reader'.step \notin {"record", "cursor"}
  BY DEF OpenTable, OpenQuery, FetchPage, StreamAt, Closed, StreamTypes, ReaderRecord,
         PositionRecord, LoopAtCursor
<1>2. SentByPlace' /\ AgainOwed' /\ (stayed = present)'
  BY <1>1, SentStays, OwedStays DEF QuietInv
<1>3. \A k \in present : Place(k)' = Place(k) /\ Place(k) \in Nat \ {0} /\ Place(k) <= Cardinality(present)
  BY <1>1, PlacesDiffer DEF Place
<1>4. /\ present \subseteq Rowids /\ Cardinality(present) \in Nat
      /\ position.offset \in Nat /\ position.offset <= Cardinality(present)
  BY ResultOK DEF QuietInv, SentByPlace, StreamTypes, PositionRecord
<1>5. CASE OpenTable
  <2>1. /\ reader'.step = "fetch" /\ reader'.index = position.offset
        /\ reader'.lastKey = IF source.keyset /\ position.offset > 0
                             THEN SeekKey(position.offset) ELSE NoKey
    BY <1>5 DEF OpenTable, Closed
  <2>2. ASSUME source.keyset, NEW k \in present
        PROVE  k > reader'.lastKey <=> Place(k) > position.offset
    <3>1. CASE position.offset = 0
      <4>1. reader'.lastKey = 0 /\ k \in Nat \ {0}
        BY <2>1, <3>1, <1>4, ResultOK DEF NoKey
      <4> QED BY <4>1, <3>1, <1>3
    <3>2. CASE position.offset # 0
      <4> DEFINE q == SeekKey(position.offset)
      <4>1. q \in present /\ Place(q) = position.offset /\ reader'.lastKey = q
        BY <2>1, <2>2, <3>2, <1>4, SeekOK
      <4> HIDE DEF q
      <4>2. (Place(q) < Place(k) <=> q < k) /\ q \in Nat /\ k \in Nat
        BY <4>1, <1>4, PlacesDiffer, ResultOK
      <4> QED BY <4>1, <4>2, <1>3
    <3> QED BY <3>1, <3>2
  <2> QED BY <2>1, <2>2, <1>1, <1>2, <1>3 DEF QuietInv, PagesByPlace, Paging
<1>6. CASE OpenQuery
  <2>1. CASE position'.status = "failed"
    <3>1. reader' = reader /\ reader.step = "closed"
      BY <2>1, <1>6 DEF OpenQuery, StreamAt, StreamTypes, PositionRecord
    <3>2. PagesByPlace'
      BY <3>1 DEF PagesByPlace, Paging
    <3> QED BY <3>2, <1>2 DEF QuietInv
  <2>2. CASE position'.status # "failed"
    <3> DEFINE W == Slice(present, position.offset, Cardinality(present))
    <3>1. /\ reader'.page = W /\ reader'.index = position.offset /\ reader'.step = "rows"
          /\ source.kind = "query"
      BY <2>2, <1>6 DEF OpenQuery, Closed, StreamTypes, PositionRecord
    <3>2. /\ W \subseteq present /\ \A p \in W : Place(p) > position.offset
          /\ \A k \in present \ W : Place(k) > position.offset =>
               Cardinality(present) > position.offset + Cardinality(present)
      BY <1>4, SliceOK DEF Place
    <3> HIDE DEF W
    <3>3. \A k \in present : Place(k) > position.offset => k \in W
      BY <1>4, <3>2
    <3> QED BY <3>1, <3>2, <3>3, <1>1, <1>2, <1>3 DEF QuietInv, PagesByPlace, Beyond
  <2> QED BY <2>1, <2>2
<1>7. CASE FetchPage
  <2> DEFINE P == IF source.keyset THEN Page(reader.lastKey, 0) ELSE Page(NoKey, reader.index)
  <2>1. reader' = [reader EXCEPT !.step = "rows", !.page = P.rows, !.more = P.more]
    BY <1>7 DEF FetchPage
  <2>2. /\ reader'.page = P.rows /\ reader'.more = P.more /\ reader'.step = "rows"
        /\ reader'.index = reader.index /\ reader'.lastKey = reader.lastKey
        /\ reader.step = "fetch" /\ source.kind # "query" /\ reader.index \in Nat
    BY <1>7, <2>1 DEF FetchPage, StreamAt, StreamTypes, ReaderRecord, LoopAtCursor
  <2>3. /\ \A p \in P.rows : p \in present /\ Place(p) > reader.index
        /\ \A k \in present : Place(k) > reader.index /\ k \notin P.rows =>
             P.more /\ \A p \in P.rows : p < k
    <3>1. CASE source.keyset
      <4> DEFINE B == Bounded(reader.lastKey)
      <4>1. B = {k \in present : k > reader.lastKey} /\ B \subseteq Rowids /\ P = Page(reader.lastKey, 0)
        BY <3>1, BoundedOK DEF StreamTypes, ReaderRecord
      <4>2. /\ P.rows \subseteq B
            /\ \A k \in B \ P.rows : KeyRank(B, k) > 0 => P.more /\ \A p \in P.rows : p < k
        BY <4>1, PageOK DEF StreamTypes, ReaderRecord
      <4>3. \A k \in present : k \in B <=> Place(k) > reader.index
        BY <4>1, <2>2, <3>1 DEF QuietInv, PagesByPlace
      <4>4. \A k \in B : KeyRank(B, k) > 0
        BY <4>1, RowRankOK
      <4> HIDE DEF B, P
      <4> QED BY <4>1, <4>2, <4>3, <4>4
    <3>2. CASE ~source.keyset
      <4>1. P = Page(NoKey, reader.index) /\ Bounded(NoKey) = present
        BY <3>2, BoundedOK
      <4>2. /\ P.rows \subseteq present /\ \A p \in P.rows : Place(p) > reader.index
            /\ \A k \in present \ P.rows : Place(k) > reader.index => P.more /\ \A p \in P.rows : p < k
        BY <4>1, <2>2, PageOK DEF Place
      <4> HIDE DEF P
      <4> QED BY <4>2
    <3> QED BY <3>1, <3>2
  <2> HIDE DEF P
  <2>4. \A k \in present : Place(k)' > reader'.index => Beyond(present, k)'
    BY <2>2, <2>3, <1>1, <1>3 DEF Beyond
  <2> QED BY <2>2, <2>3, <2>4, <1>1, <1>2, <1>3 DEF QuietInv, PagesByPlace
<1> QED BY <1>5, <1>6, <1>7

\* A row goes out: for the first time, or because an attempt owes its entry.
LEMMA QuietSends ==
  ASSUME StreamTypes, LoopAtCursor, QuietInv, SendRow
  PROVE  QuietInv'
<1>1. /\ UNCHANGED <<present, stayed, position, settled, unrecorded>>
      /\ reader.step = "rows" /\ reader.page # {} /\ position.offset = reader.index
      /\ position.status = "running" /\ reader.index \in Nat
  BY DEF SendRow, StreamAt, LoopAtCursor, StreamTypes, ReaderRecord
<1>2. /\ Row \in present /\ Place(Row) = reader.index + 1
      /\ \A k \in present : Place(k) = reader.index + 1 => k = Row
  BY <1>1, HeadPlace DEF QuietInv, Paging
<1>3. \A k \in present : Place(k)' = Place(k) /\ Entered(k)' = Entered(k) /\ Place(k) \in Nat
  BY <1>1, PlacesDiffer DEF Place, Entered
<1>4. /\ reader'.page = reader.page /\ reader'.index = reader.index /\ reader'.more = reader.more
      /\ reader'.lastKey = reader.lastKey /\ reader'.step \in {"record", "cursor"}
      /\ reader.index \in DOMAIN settled => delivered' = delivered /\ reader'.step = "cursor"
      /\ reader.index \notin DOMAIN settled =>
           delivered' = [delivered EXCEPT ![Row] = @ + 1] /\ reader'.step = "record"
  BY DEF SendRow, StreamTypes, ReaderRecord
<1>5. PagesByPlace'
  <2>1. source' = source
    BY DEF SendRow
  <2> QED BY <2>1, <1>1, <1>3, <1>4 DEF QuietInv, PagesByPlace, Paging, Beyond
<1>6. CASE reader.index \in DOMAIN settled
  <2>1. AgainOwed'
    BY <1>1, <1>4, <1>6, OwedStays
  <2>2. \A k \in present : Place(k) = reader.index + 1 => Entered(k)
    BY <1>6, <1>3, <1>1 DEF Entered
  <2>3. SentByPlace'
    BY <2>2, <1>1, <1>3, <1>4, <1>6 DEF QuietInv, SentByPlace
  <2> QED BY <2>1, <2>3, <1>1, <1>5 DEF QuietInv
<1>7. CASE reader.index \notin DOMAIN settled
  <2>1. /\ delivered' = [delivered EXCEPT ![Row] = @ + 1] /\ reader'.step = "record"
        /\ delivered \in [Rowids -> Nat] /\ present \subseteq Rowids
    BY <1>4, <1>7 DEF StreamTypes
  <2>2. /\ \A k \in Rowids : delivered[k] \in Nat /\ delivered'[k] \in Nat
        /\ \A k \in Rowids : k # Row => delivered'[k] = delivered[k]
        /\ delivered'[Row] > 0 /\ \A k \in Rowids : delivered[k] > 0 => delivered'[k] > 0
    BY <2>1, <1>2
  <2>3. SentByPlace'
    BY <2>1, <2>2, <1>1, <1>2, <1>3, <1>4 DEF QuietInv, SentByPlace
  <2>4. /\ IsFiniteSet(Again') /\ Cardinality(Again) \in Nat
        /\ Cardinality(Again') = Cardinality(Again) + (IF delivered[Row] > 0 THEN 1 ELSE 0)
    BY <2>1, <1>2, AgainMoves DEF QuietInv, AgainOwed
  <2>5. ~Entered(Row)
    BY <1>1, <1>2, <1>7 DEF Entered
  <2>6. delivered[Row] > 0 => Owed
    BY <2>5, <1>1, <1>2 DEF Owed
  <2>7. ~Owed'
    BY <2>1 DEF Owed
  <2>8. AgainOwed'
    BY <2>4, <2>6, <2>7, <1>1 DEF QuietInv, AgainOwed, StreamTypes
  <2> QED BY <2>3, <2>8, <1>1, <1>5 DEF QuietInv
<1> QED BY <1>6, <1>7

\* The entry of the row that was sent settles what was owed.
LEMMA QuietRecords ==
  ASSUME StreamTypes, LoopAtCursor, QuietInv, RecordRow
  PROVE  QuietInv'
<1>1. /\ UNCHANGED <<source, present, stayed, position, delivered, unrecorded>>
      /\ reader.step = "record" /\ position.offset = reader.index
      /\ position.status = "running" /\ reader.index \in Nat
      /\ DOMAIN settled' = DOMAIN settled \union {reader.index}
  BY DEF RecordRow, StreamAt, LoopAtCursor, StreamTypes, ReaderRecord
<1>2. /\ reader'.page = reader.page /\ reader'.index = reader.index /\ reader'.more = reader.more
      /\ reader'.lastKey = reader.lastKey /\ reader'.step = "cursor"
  BY DEF RecordRow, StreamTypes, ReaderRecord
<1>3. \A k \in present :
        /\ Place(k)' = Place(k) /\ Place(k) \in Nat
        /\ Entered(k)' <=> Entered(k) \/ Place(k) = reader.index + 1
  BY <1>1, PlacesDiffer DEF Place, Entered
<1>4. PagesByPlace'
  BY <1>1, <1>2, <1>3 DEF QuietInv, PagesByPlace, Paging, Beyond
<1>5. SentByPlace'
  BY <1>1, <1>2, <1>3 DEF QuietInv, SentByPlace
<1>6. ~Owed'
  <2> SUFFICES ASSUME NEW k \in present, delivered[k] > 0 PROVE Entered(k)'
    BY <1>1 DEF Owed
  <2>1. Place(k) <= reader.index + 1 /\ (Place(k) <= reader.index => Entered(k))
    BY <1>1 DEF QuietInv, SentByPlace
  <2> QED BY <2>1, <1>1, <1>3
<1>7. AgainOwed'
  <2>1. Again' = Again /\ Cardinality(Again) \in Nat
    BY <1>1, FS_CardinalityType DEF Again, QuietInv, AgainOwed
  <2>2. ~Owed
    BY <1>1 DEF Owed
  <2> QED BY <2>1, <2>2, <1>1, <1>6 DEF QuietInv, AgainOwed
<1> QED BY <1>1, <1>4, <1>5, <1>7 DEF QuietInv

\* The cursor passes a row that is entered.
LEMMA QuietPasses ==
  ASSUME StreamTypes, LoopAtCursor, QuietInv, SetCursor
  PROVE  QuietInv'
<1>1. /\ UNCHANGED <<source, present, stayed, settled, delivered, unrecorded>>
      /\ reader.step = "cursor" /\ reader.page # {} /\ position.offset = reader.index
      /\ position.status = "running" /\ reader.index \in Nat
      /\ position'.offset = reader.index + 1 /\ position'.status = "running"
  BY DEF SetCursor, StreamAt, LoopAtCursor, StreamTypes, ReaderRecord, PositionRecord
<1>2. /\ Row \in present /\ Place(Row) = reader.index + 1
      /\ \A k \in present : Place(k) = reader.index + 1 => k = Row
  BY <1>1, HeadPlace DEF QuietInv, Paging
<1>3. /\ reader'.page = reader.page \ {Row} /\ reader'.index = reader.index + 1
      /\ reader'.more = reader.more /\ reader'.lastKey = Row /\ reader'.step = "rows"
  BY DEF SetCursor, StreamTypes, ReaderRecord
<1>4. /\ Cardinality(present) \in Nat
      /\ \A k \in present : /\ Place(k)' = Place(k) /\ Entered(k)' = Entered(k)
                            /\ Place(k) \in Nat /\ Place(k) <= Cardinality(present)
                            /\ Place(Row) < Place(k) <=> Row < k
                            /\ k \in Nat
  BY <1>1, <1>2, PlacesDiffer, ResultOK DEF Place, Entered, StreamTypes
<1>5. SentByPlace'
  BY <1>1, <1>2, <1>3, <1>4 DEF QuietInv, SentByPlace
<1>6. AgainOwed'
  BY <1>1, OwedStays
<1>7. PagesByPlace'
  <2>1. \A k \in present : k > reader'.lastKey <=> Place(k) > reader.index + 1
    BY <1>2, <1>3, <1>4
  <2>2. \A p \in reader'.page : p \in present /\ Place(p) > reader.index + 1
    <3> TAKE p \in reader'.page
    <3>1. p \in present /\ Place(p) > reader.index /\ p # Row
      BY <1>1, <1>3 DEF QuietInv, PagesByPlace, Paging
    <3> QED BY <3>1, <1>1, <1>2, <1>4
  <2>3. ASSUME NEW k \in present, Place(k) > reader.index + 1, k \notin reader'.page
        PROVE  reader.more /\ \A p \in reader'.page : p < k
    <3>1. k # Row /\ k \notin reader.page /\ Place(k) > reader.index
      BY <2>3, <1>1, <1>2, <1>3, <1>4
    <3> QED BY <3>1, <1>1, <1>3 DEF QuietInv, PagesByPlace, Paging, Beyond
  <2> QED BY <2>1, <2>2, <2>3, <1>1, <1>3, <1>4 DEF PagesByPlace, Paging, Beyond
<1> QED BY <1>1, <1>5, <1>6, <1>7 DEF QuietInv

\* A page without rows that has no successor: every place has been passed.
LEMMA QuietEnds ==
  ASSUME StreamTypes, LoopAtCursor, QuietInv, PageEnds
  PROVE  QuietInv'
<1>1. /\ UNCHANGED <<source, present, stayed, settled, delivered, unrecorded>>
      /\ reader.step = "rows" /\ reader.page = {} /\ position.offset = reader.index
      /\ position.status = "running" /\ reader.index \in Nat
      /\ position'.offset = position.offset
  BY DEF PageEnds, StreamAt, LoopAtCursor, StreamTypes, ReaderRecord, PositionRecord
<1>2. \A k \in present : Place(k)' = Place(k) /\ Entered(k)' = Entered(k) /\ Place(k) \in Nat
  BY <1>1, PlacesDiffer DEF Place, Entered
<1>3. AgainOwed'
  BY <1>1, OwedStays
<1>4. CASE reader.more
  <2>1. /\ reader'.step = "fetch" /\ reader'.index = reader.index
        /\ reader'.lastKey = reader.lastKey /\ position' = position
    BY <1>4 DEF PageEnds, StreamTypes, ReaderRecord
  <2>2. SentByPlace'
    BY <2>1, <1>1, SentStays
  <2>3. PagesByPlace'
    BY <2>1, <1>1, <1>2 DEF QuietInv, PagesByPlace, Paging
  <2> QED BY <2>2, <2>3, <1>1, <1>3 DEF QuietInv
<1>5. CASE ~reader.more
  <2>1. reader'.step = "closed" /\ position'.status = "completed"
    BY <1>5 DEF PageEnds, Closed, StreamTypes, PositionRecord
  <2>2. \A k \in present : Entered(k)
    <3> TAKE k \in present
    <3>1. ~(Place(k) > reader.index)
      BY <1>1, <1>5 DEF QuietInv, PagesByPlace, Paging, Beyond
    <3> QED BY <3>1, <1>1, <1>2 DEF QuietInv, SentByPlace
  <2>3. SentByPlace'
    BY <2>1, <2>2, <1>1, <1>2 DEF QuietInv, SentByPlace
  <2>4. PagesByPlace'
    BY <2>1 DEF PagesByPlace, Paging
  <2> QED BY <2>3, <2>4, <1>1, <1>3 DEF QuietInv
<1> QED BY <1>4, <1>5

\* An interruption between a delivery and its entry is counted, and owes a delivery.
LEMMA QuietBreaks ==
  ASSUME StreamTypes, QuietInv, Break
  PROVE  QuietInv'
<1>1. /\ UNCHANGED <<source, present, stayed, settled, delivered>>
      /\ position'.offset = position.offset /\ position'.status = "queued"
      /\ reader'.step = "closed"
      /\ unrecorded' = unrecorded + (IF reader.step = "record" THEN 1 ELSE 0)
  BY DEF Break, StreamAt, Closed, StreamTypes, PositionRecord
<1>2. SentByPlace'
  BY <1>1, SentStays
<1>3. PagesByPlace'
  BY <1>1 DEF PagesByPlace, Paging
<1>4. AgainOwed'
  <2>1. CASE reader.step # "record"
    BY <2>1, <1>1, OwedStays DEF StreamTypes
  <2>2. CASE reader.step = "record"
    <3>1. Again' = Again /\ Cardinality(Again) \in Nat /\ ~Owed
      BY <2>2, <1>1, FS_CardinalityType DEF Again, Owed, QuietInv, AgainOwed
    <3> QED BY <3>1, <2>2, <1>1 DEF QuietInv, AgainOwed, StreamTypes
  <2> QED BY <2>1, <2>2
<1> QED BY <1>1, <1>2, <1>3, <1>4 DEF QuietInv

\* The run on its own, interrupted or not.
LEMMA QuietStep ==
  ASSUME Steady, StreamTypes, LoopAtCursor, Quiet(source), QuietInv, StreamNext
  PROVE  QuietInv'
<1>1. ~(\E k \in Rowids : RowAppears(k) \/ RowGoes(k))
  BY DEF RowAppears, RowGoes, ChangeRow, Quiet
<1> QED BY <1>1, QuietReads, QuietSends, QuietRecords, QuietPasses, QuietEnds, QuietBreaks
        DEF StreamNext
------------------------------------------------------------------------------
(***************************************************************************)
(* A run without interruptions, while others write.                        *)
(***************************************************************************)

\* The run takes a page.
LEMMA UnbrokenReads ==
  ASSUME Steady, StreamTypes, LoopAtCursor, ~Quiet(source), UnbrokenInv,
         OpenTable \/ OpenQuery \/ FetchPage
  PROVE  UnbrokenInv'
<1>1. /\ UNCHANGED <<source, present, stayed, settled, delivered, breaks>>
      /\ position'.offset = position.offset
      /\ stayed \subseteq present /\ present \subseteq Rowids /\ \A k \in Rowids : k \in Nat \ {0}
  BY ResultOK DEF OpenTable, OpenQuery, FetchPage, StreamTypes, PositionRecord
<1>2. CASE position.status = "queued" /\ reader.step = "closed"
  <2>1. /\ position.offset = 0 /\ DOMAIN settled = {} /\ \A k \in Rowids : delivered[k] = 0
        /\ reader = Closed /\ ~FetchPage
    BY <1>2 DEF UnbrokenInv, SentByKey, EnteredBehind, FetchPage, StreamAt
  <2>2. position'.status \in {"running", "failed"} /\ position'.offset = 0
    BY <2>1, <1>1 DEF OpenTable, OpenQuery, StreamTypes, PositionRecord
  <2> DEFINE W == Slice(present, 0, Cardinality(present))
  <2>3. /\ reader'.lastKey = 0 /\ reader'.index = 0 /\ reader'.step \in {"closed", "fetch", "rows"}
        /\ reader'.step = "closed" => reader' = Closed
        /\ reader'.step = "rows" => reader'.page = W
    <3>1. CASE OpenTable
      <4>1. ~(source.keyset /\ position.offset > 0)
        BY <2>1
      <4>2. reader' = [Closed EXCEPT !.step = "fetch", !.index = position.offset, !.lastKey = NoKey]
        BY <3>1, <4>1 DEF OpenTable
      <4> QED BY <2>1, <4>2 DEF Closed, NoKey
    <3>2. CASE OpenQuery
      <4>1. \/ reader' = Closed
            \/ reader' = [Closed EXCEPT !.step = "rows", !.index = position.offset, !.page = W]
        BY <3>2, <2>1 DEF OpenQuery
      <4> HIDE DEF W
      <4>2. CASE reader' = Closed
        BY <4>2 DEF Closed, NoKey
      <4>3. CASE reader' = [Closed EXCEPT !.step = "rows", !.index = position.offset, !.page = W]
        <5>1. reader' = [step |-> "rows", page |-> W, more |-> FALSE, lastKey |-> NoKey, index |-> 0]
          BY <2>1, <4>3 DEF Closed
        <5> QED BY <5>1 DEF NoKey
      <4> QED BY <4>1, <4>2, <4>3
    <3> QED BY <3>1, <3>2, <2>1
  <2>4. reader'.step \notin {"record", "cursor"}
    BY <2>3
  <2>5. SentByKey'
    BY <1>1, <2>1, <2>2, <2>3, <2>4 DEF SentByKey
  <2>6. EnteredBehind'
    BY <1>1, <2>1, <2>2, <2>3, <2>4, StreamConstants DEF EnteredBehind
  <2>7. PagesByKey'
    <3>1. CASE reader'.step \notin Paging
      BY <3>1 DEF PagesByKey
    <3>2. CASE reader'.step \in Paging
      <4>1. reader'.page = W
        BY <3>2, <2>3 DEF Paging
      <4>2. Cardinality(present) \in Nat /\ \A k \in present : KeyRank(present, k) > 0
        BY <1>1, ResultOK, RowRankOK
      <4>3. W \subseteq present /\ \A k \in present \ W : KeyRank(present, k) > 0 =>
                                     Cardinality(present) > 0 + Cardinality(present)
        BY <1>1, <4>2, SliceOK
      <4> HIDE DEF W
      <4>4. \A k \in present : k \in W
        BY <4>2, <4>3
      <4> QED BY <1>1, <2>3, <4>1, <4>3, <4>4 DEF PagesByKey, Beyond
    <3> QED BY <3>1, <3>2
  <2> QED BY <1>1, <2>2, <2>3, <2>5, <2>6, <2>7 DEF UnbrokenInv
<1>3. CASE ~(position.status = "queued" /\ reader.step = "closed")
  <2>1. FetchPage /\ position' = position /\ reader.step = "fetch" /\ source.keyset
        /\ position.status = "running"
    BY <1>3 DEF OpenTable, OpenQuery, FetchPage, StreamAt, LoopAtCursor, Steady, StreamTypes, Unbroken
  <2> DEFINE P == Page(reader.lastKey, 0)
             B == Bounded(reader.lastKey)
  <2>2. reader' = [reader EXCEPT !.step = "rows", !.page = P.rows, !.more = P.more]
    BY <2>1 DEF FetchPage
  <2>3. reader.lastKey \in {NoKey} \union Rowids
    BY DEF StreamTypes, ReaderRecord
  <2>4. B = {k \in present : k > reader.lastKey} /\ B \subseteq Rowids
    BY <2>3, BoundedOK
  <2>5. /\ P.rows \subseteq B
        /\ \A k \in B \ P.rows : KeyRank(B, k) > 0 => P.more /\ \A p \in P.rows : p < k
    BY <2>3, PageOK
  <2>6. \A k \in B : KeyRank(B, k) > 0
    BY <2>4, RowRankOK
  <2>7. /\ reader'.page = P.rows /\ reader'.more = P.more /\ reader'.step = "rows"
        /\ reader'.index = reader.index /\ reader'.lastKey = reader.lastKey
    BY <2>2 DEF StreamTypes, ReaderRecord
  <2> HIDE DEF P, B
  <2>8. PagesByKey'
    <3>1. \A p \in reader'.page : p > reader'.lastKey
      BY <2>4, <2>5, <2>7
    <3>2. \A k \in stayed : k > reader'.lastKey => Beyond(stayed, k)'
      <4> SUFFICES ASSUME NEW k \in stayed, k > reader.lastKey, k \notin P.rows
                   PROVE  P.more /\ \A p \in P.rows : p < k
        BY <1>1, <2>7 DEF Beyond
      <4> QED BY <1>1, <2>4, <2>5, <2>6
    <3> QED BY <3>1, <3>2, <1>1 DEF PagesByKey
  <2>9. SentByKey'
    BY <1>1, <2>1, <2>7 DEF UnbrokenInv, SentByKey
  <2>10. EnteredBehind'
    BY <1>1, <2>1, <2>7 DEF UnbrokenInv, EnteredBehind
  <2> QED BY <1>1, <2>1, <2>7, <2>8, <2>9, <2>10 DEF UnbrokenInv
<1> QED BY <1>2, <1>3

\* The row the loop is at lies beyond the last key.
LEMMA RowBeyond ==
  ASSUME StreamTypes, UnbrokenInv, reader.step \in Paging, reader.page # {}
  PROVE  /\ Row \in reader.page /\ Row \in Rowids /\ Row \in Nat \ {0} /\ Row <= NumKeys
         /\ reader.lastKey \in Nat /\ Row > reader.lastKey
         /\ \A p \in reader.page : p \in Nat /\ Row <= p
<1>1. /\ Row \in reader.page /\ Row \in Rowids /\ Row \in Nat \ {0}
      /\ \A p \in reader.page : Row <= p
  BY RowOK
<1>2. reader.page \subseteq Rowids /\ reader.lastKey \in {NoKey} \union Rowids /\ NumKeys \in Nat
  BY StreamConstants DEF StreamTypes, ReaderRecord
<1>3. \A k \in Rowids : k \in Nat /\ k <= NumKeys
  BY <1>2 DEF Rowids
<1>4. Row > reader.lastKey
  BY <1>1 DEF UnbrokenInv, PagesByKey
<1>5. reader.lastKey \in Nat
  BY <1>2, <1>3 DEF NoKey
<1>6. \A p \in reader.page : p \in Nat
  BY <1>2, <1>3
<1>7. Row <= NumKeys
  BY <1>1, <1>3
<1> QED BY <1>1, <1>4, <1>5, <1>6, <1>7

\* A row goes out that was not sent before, and gets its entry.
LEMMA UnbrokenSends ==
  ASSUME StreamTypes, LoopAtCursor, UnbrokenInv, SendRow \/ RecordRow
  PROVE  UnbrokenInv'
<1>1. /\ UNCHANGED <<present, stayed, position, breaks>>
      /\ reader.step \in {"rows", "record"} /\ reader.page # {} /\ reader.index \in Nat
      /\ position.status = "running" /\ delivered \in [Rowids -> Nat] /\ stayed \subseteq Rowids
  BY DEF SendRow, RecordRow, StreamAt, LoopAtCursor, StreamTypes, ReaderRecord
<1>2. /\ Row \in Rowids /\ Row \in Nat /\ reader.lastKey \in Nat /\ Row > reader.lastKey
      /\ \A k \in Rowids : k \in Nat
  BY <1>1, RowBeyond, ResultOK DEF Paging
<1>3. \A i \in DOMAIN settled : i < reader.index
  BY <1>1 DEF UnbrokenInv, EnteredBehind
<1>4. /\ reader'.page = reader.page /\ reader'.more = reader.more /\ Row' = Row
      /\ reader'.index = reader.index /\ reader'.lastKey = reader.lastKey
      /\ reader'.step \in {"record", "cursor"}
  BY DEF SendRow, RecordRow, StreamTypes, ReaderRecord, Row
<1>5. PagesByKey'
  BY <1>1, <1>4 DEF UnbrokenInv, PagesByKey, Beyond, Paging
<1>6. CASE SendRow
  <2>1. /\ delivered' = [delivered EXCEPT ![Row] = @ + 1] /\ reader'.step = "record"
        /\ reader.step = "rows" /\ settled' = settled
    <3>1. ~(reader.index \in DOMAIN settled)
      BY <1>1, <1>3
    <3> QED BY <1>6, <3>1 DEF SendRow, StreamAt, StreamTypes, ReaderRecord
  <2>2. delivered[Row] = 0
    BY <2>1, <1>1, <1>2 DEF UnbrokenInv, SentByKey
  <2>3. \A k \in Rowids : delivered'[k] = IF k = Row THEN 1 ELSE delivered[k]
    BY <2>1, <2>2, <1>1
  <2>4. SentByKey'
    <3>1. /\ \A k \in Rowids : delivered'[k] <= 1
          /\ \A k \in Rowids : delivered'[k] = 1 => k <= reader.lastKey \/ k = Row
      BY <2>1, <2>3, <1>1 DEF UnbrokenInv, SentByKey
    <3>2. \A k \in stayed : k <= reader.lastKey => delivered'[k] = 1
      BY <2>3, <1>1, <1>2 DEF UnbrokenInv, SentByKey
    <3> QED BY <3>1, <3>2, <2>1, <2>3, <1>1, <1>2, <1>4 DEF SentByKey
  <2>5. EnteredBehind'
    BY <2>1, <1>1, <1>3, <1>4 DEF UnbrokenInv, EnteredBehind
  <2> QED BY <2>1, <2>4, <2>5, <1>1, <1>5 DEF UnbrokenInv
<1>7. CASE RecordRow
  <2>1. /\ delivered' = delivered /\ reader'.step = "cursor" /\ reader.step = "record"
        /\ DOMAIN settled' = DOMAIN settled \union {reader.index}
    BY <1>7 DEF RecordRow, StreamAt, StreamTypes, ReaderRecord
  <2>2. SentByKey'
    BY <2>1, <1>1, <1>4 DEF UnbrokenInv, SentByKey
  <2>3. EnteredBehind'
    BY <2>1, <1>1, <1>3, <1>4 DEF UnbrokenInv, EnteredBehind
  <2> QED BY <2>1, <2>2, <2>3, <1>1, <1>5 DEF UnbrokenInv
<1> QED BY <1>6, <1>7

\* The last key moves to the row that was sent: no row that stayed lies between.
LEMMA UnbrokenPasses ==
  ASSUME StreamTypes, LoopAtCursor, UnbrokenInv, SetCursor
  PROVE  UnbrokenInv'
<1>1. /\ UNCHANGED <<present, stayed, settled, delivered, breaks>>
      /\ reader.step = "cursor" /\ reader.page # {} /\ reader.index \in Nat
      /\ position.status = "running" /\ stayed \subseteq Rowids
      /\ position'.offset = reader.index + 1 /\ position'.status = "running"
      /\ reader'.page = reader.page \ {Row} /\ reader'.index = reader.index + 1
      /\ reader'.more = reader.more /\ reader'.lastKey = Row /\ reader'.step = "rows"
  BY DEF SetCursor, StreamAt, LoopAtCursor, StreamTypes, ReaderRecord, PositionRecord
<1>2. /\ Row \in reader.page /\ Row \in Nat /\ Row <= NumKeys /\ NumKeys \in Nat
      /\ reader.lastKey \in Nat /\ Row > reader.lastKey
      /\ \A p \in reader.page : p \in Nat /\ Row <= p
      /\ \A k \in Rowids : k \in Nat
  BY <1>1, RowBeyond, ResultOK, StreamConstants DEF Paging
<1>3. \A k \in stayed : k > reader.lastKey /\ k \notin reader.page =>
        reader.more /\ \A p \in reader.page : p < k
  BY <1>1 DEF UnbrokenInv, PagesByKey, Beyond, Paging
<1>4. \A k \in stayed : k <= Row => delivered[k] = 1
  <2> SUFFICES ASSUME NEW k \in stayed, k <= Row PROVE delivered[k] = 1
    OBVIOUS
  <2>1. k \in Nat
    BY <1>1, <1>2
  <2>2. k <= reader.lastKey \/ k = Row
    BY <2>1, <1>2, <1>3
  <2> QED BY <2>2, <1>1 DEF UnbrokenInv, SentByKey
<1>5. SentByKey'
  <2>1. \A k \in Rowids : delivered[k] = 1 => k <= Row
    BY <1>1, <1>2 DEF UnbrokenInv, SentByKey
  <2> QED BY <2>1, <1>1, <1>4 DEF UnbrokenInv, SentByKey
<1>6. PagesByKey'
  <2>1. \A p \in reader'.page : p > Row
    BY <1>1, <1>2
  <2>2. \A k \in stayed : k > Row /\ k \notin reader'.page =>
          reader.more /\ \A p \in reader'.page : p < k
    <3> SUFFICES ASSUME NEW k \in stayed, k > Row, k \notin reader'.page
                 PROVE  reader.more /\ \A p \in reader'.page : p < k
      OBVIOUS
    <3>1. k > reader.lastKey /\ k \notin reader.page
      BY <1>1, <1>2
    <3> QED BY <3>1, <1>1, <1>3
  <2> QED BY <2>1, <2>2, <1>1 DEF PagesByKey, Beyond
<1>7. EnteredBehind'
  <2>1. reader.index <= reader.lastKey
    BY <1>1 DEF UnbrokenInv, EnteredBehind
  <2>2. \A i \in DOMAIN settled : i < reader.index + 1
    BY <1>1 DEF UnbrokenInv, EnteredBehind, StreamTypes
  <2> QED BY <2>1, <2>2, <1>1, <1>2 DEF EnteredBehind
<1> QED BY <1>1, <1>5, <1>6, <1>7 DEF UnbrokenInv

\* The end of a page, and of the table.
LEMMA UnbrokenEnds ==
  ASSUME StreamTypes, LoopAtCursor, UnbrokenInv, PageEnds
  PROVE  UnbrokenInv'
<1>1. /\ UNCHANGED <<present, stayed, settled, delivered, breaks>>
      /\ reader.step = "rows" /\ reader.page = {} /\ position.status = "running"
      /\ position'.offset = position.offset /\ stayed \subseteq Rowids
      /\ reader.lastKey \in Nat /\ \A k \in Rowids : k \in Nat \ {0}
  BY ResultOK DEF PageEnds, StreamAt, LoopAtCursor, StreamTypes, ReaderRecord, PositionRecord, NoKey
<1>2. CASE reader.more
  <2>1. /\ reader'.step = "fetch" /\ position' = position
        /\ reader'.index = reader.index /\ reader'.lastKey = reader.lastKey
    BY <1>2 DEF PageEnds, StreamTypes, ReaderRecord
  <2> QED BY <2>1, <1>1 DEF UnbrokenInv, SentByKey, PagesByKey, EnteredBehind, Paging
<1>3. CASE ~reader.more
  <2>1. reader' = Closed /\ position'.status = "completed"
    BY <1>3 DEF PageEnds, StreamTypes, PositionRecord
  <2>2. reader'.step = "closed" /\ reader'.lastKey = 0
    BY <2>1 DEF Closed, NoKey
  <2>3. \A k \in stayed : delivered[k] = 1
    <3> TAKE k \in stayed
    <3>1. ~(k > reader.lastKey)
      BY <1>1, <1>3 DEF UnbrokenInv, PagesByKey, Beyond, Paging
    <3>2. k <= reader.lastKey
      BY <3>1, <1>1
    <3> QED BY <3>2 DEF UnbrokenInv, SentByKey
  <2>4. SentByKey'
    BY <2>1, <2>2, <1>1 DEF UnbrokenInv, SentByKey
  <2>5. PagesByKey' /\ EnteredBehind'
    BY <2>1, <2>2, <1>1 DEF UnbrokenInv, PagesByKey, EnteredBehind, Paging
  <2> QED BY <2>1, <2>3, <2>4, <2>5, <1>1 DEF UnbrokenInv
<1> QED BY <1>2, <1>3

\* Rows that others write, wherever the run is.
LEMMA UnbrokenChanges ==
  ASSUME UnbrokenInv, NEW k \in Rowids, RowAppears(k) \/ RowGoes(k)
  PROVE  UnbrokenInv'
<1>1. /\ UNCHANGED <<reader, position, settled, delivered, breaks>> /\ stayed' \subseteq stayed
  BY DEF RowAppears, RowGoes, ChangeRow
<1> QED BY <1>1 DEF UnbrokenInv, SentByKey, PagesByKey, EnteredBehind, Beyond, Row

\* The run among others, without interruptions.
LEMMA UnbrokenStep ==
  ASSUME Steady, StreamTypes, LoopAtCursor, ~Quiet(source), UnbrokenInv, StreamNext
  PROVE  UnbrokenInv'
<1>1. ~Break
  <2>1. source.breaks = 0 /\ breaks = 0 /\ MaxBreaks \in Nat
    BY StreamConstants DEF Steady, StreamTypes, Unbroken, UnbrokenInv
  <2>2. {MaxBreaks, 0} \subseteq Nat /\ {MaxBreaks, 0} # {} /\ 0 \in {MaxBreaks, 0}
    BY <2>1
  <2>3. Min({MaxBreaks, 0}) <= 0 /\ Min({MaxBreaks, 0}) \in {MaxBreaks, 0}
    BY <2>2, MinOK
  <2>4. ~(0 < Min({MaxBreaks, 0}))
    BY <2>1, <2>3
  <2> QED BY <2>1, <2>4 DEF Break
<1> QED BY <1>1, UnbrokenReads, UnbrokenSends, UnbrokenPasses, UnbrokenEnds, UnbrokenChanges
        DEF StreamNext
------------------------------------------------------------------------------
(***************************************************************************)
(* The theorem.                                                            *)
(***************************************************************************)

\* A run that was not started, over whatever the source holds.
LEMMA StreamStarts ==
  ASSUME StreamInit
  PROVE  StreamInv
<1>1. /\ source \in Sources /\ reader = Closed /\ position = [offset |-> 0, status |-> "queued"]
      /\ DOMAIN settled = {} /\ delivered = [k \in Rowids |-> 0] /\ stayed = present
      /\ breaks = 0 /\ unrecorded = 0
  BY DEF StreamInit
<1>2. present \subseteq Rowids
  BY StreamConstants DEF StreamInit, Rowids
<1>3. /\ reader.step = "closed" /\ reader.lastKey = 0 /\ ~reader.more
      /\ position.status = "queued" /\ position.offset = 0
      /\ \A k \in Rowids : delivered[k] = 0 /\ k \in Nat \ {0}
  BY <1>1, ResultOK DEF Closed, NoKey
<1>4. StreamTypes /\ LoopAtCursor
  <2>1. reader \in ReaderRecord
    BY <1>1 DEF Closed, ReaderRecord
  <2> QED BY <1>1, <1>2, <1>3, <2>1 DEF StreamTypes, LoopAtCursor, PositionRecord
<1>5. QuietInv
  <2>1. \A k \in present : Place(k) \in Nat \ {0}
    BY <1>4, PlacesDiffer
  <2>2. Cardinality(present) \in Nat
    BY <1>2, ResultOK
  <2>3. SentByPlace
    <3>1. \A k \in present : delivered[k] = 0 /\ ~(Place(k) <= position.offset)
      BY <1>2, <1>3, <2>1
    <3>2. \A k \in present : ~Entered(k)
      BY <1>1 DEF Entered
    <3> QED BY <1>3, <3>1, <3>2, <2>2 DEF SentByPlace
  <2>4. Again = {}
    BY <1>3 DEF Again
  <2>5. ~Owed
    BY <1>2, <1>3 DEF Owed
  <2>6. AgainOwed
    BY <2>4, <2>5, <1>1, FS_EmptySet DEF AgainOwed
  <2> QED BY <2>3, <2>6, <1>1, <1>3 DEF QuietInv, PagesByPlace, Paging
<1>6. UnbrokenInv
  BY <1>1, <1>2, <1>3, StreamConstants
     DEF UnbrokenInv, SentByKey, PagesByKey, EnteredBehind, Paging
<1> QED BY <1>4, <1>5, <1>6 DEF StreamInv

\* Every step keeps the invariant.
LEMMA StreamInvStep ==
  ASSUME Steady, StreamInv, [StreamNext]_streamVars
  PROVE  StreamInv'
<1>1. CASE StreamNext
  <2>1. StreamTypes' /\ LoopAtCursor' /\ source' = source
    BY <1>1, TypesStep DEF StreamInv
  <2>2. Quiet(source)' = Quiet(source)
    BY <2>1 DEF Quiet
  <2> QED BY <1>1, <2>1, <2>2, QuietStep, UnbrokenStep DEF StreamInv
<1>2. CASE UNCHANGED streamVars
  BY <1>2 DEF streamVars, StreamInv, StreamTypes, LoopAtCursor, Quiet, QuietInv, UnbrokenInv,
     SentByPlace, PagesByPlace, AgainOwed, Again, Owed, Entered, Place, Beyond,
     SentByKey, PagesByKey, EnteredBehind, Row
<1> QED BY <1>1, <1>2

\* What the invariant says of the run.
LEMMA StreamInvSafe ==
  ASSUME Steady, StreamInv
  PROVE  StreamSafe
<1>1. /\ present \subseteq Rowids /\ Cardinality(present) \in Nat
      /\ Cardinality(present) <= NumKeys /\ NumKeys \in Nat
      /\ position.offset \in Nat /\ delivered \in [Rowids -> Nat] /\ unrecorded \in Nat
  BY ResultOK, StreamConstants DEF StreamInv, StreamTypes, PositionRecord
<1>2. position.offset <= NumKeys
  BY <1>1 DEF StreamInv, QuietInv, SentByPlace, UnbrokenInv, EnteredBehind
<1>3. StreamTypeOK
  BY <1>1, <1>2 DEF StreamInv, StreamTypes, StreamTypeOK, ReaderRecord, PositionRecord
<1>4. StayersArrive
  BY DEF StreamInv, StayersArrive, QuietInv, SentByPlace, UnbrokenInv
<1>5. SentTwiceByBreak
  <2>1. CASE Quiet(source)
    <3>1. Cardinality(Again) \in Nat
      BY <2>1, FS_CardinalityType DEF StreamInv, QuietInv, AgainOwed
    <3> QED BY <2>1, <3>1, <1>1 DEF StreamInv, QuietInv, AgainOwed, SentTwiceByBreak
  <2>2. CASE ~Quiet(source)
    <3>1. \A k \in Rowids : delivered[k] \in Nat /\ delivered[k] <= 1
      BY <2>2, <1>1 DEF StreamInv, UnbrokenInv, SentByKey
    <3>2. Again = {}
      BY <3>1 DEF Again
    <3> QED BY <3>2, <1>1, FS_EmptySet DEF SentTwiceByBreak
  <2> QED BY <2>1, <2>2
<1> QED BY <1>3, <1>4, <1>5 DEF StreamSafe

\* A completed run has sent every row that was in the source from its start to its end,
\* and a row goes out again only when the run was interrupted between sending it and
\* recording it: for every number of rows, page size and number of interruptions, on an
\* engine that compares keys, and while others write as long as the run is not
\* interrupted and pages by key or reads a query once.
THEOREM StreamKept == Steady /\ StreamSpec => []StreamSafe
<1> SUFFICES ASSUME Steady PROVE StreamSpec => []StreamSafe
  OBVIOUS
<1>1. StreamInit => StreamInv
  BY StreamStarts
<1>2. StreamInv /\ [StreamNext]_streamVars => StreamInv'
  BY StreamInvStep
<1>3. StreamInv => StreamSafe
  BY StreamInvSafe
<1> QED BY <1>1, <1>2, <1>3, PTL DEF StreamSpec
------------------------------------------------------------------------------
(***************************************************************************)
(* Backups.                                                                *)
(***************************************************************************)
ScanRecord == [step : {"keys", "rows", "done"}, at : Nat, left : Seq(Ids)]
TargetRecord == [rows : [Ids -> Held], keyed : BOOLEAN, more : [Ids -> Nat]]
WriteRecord == [step : {"idle", "rows", "set", "ok", "failed"}, at : Nat, tries : Nat, lost : BOOLEAN]
BackupTypes ==
  /\ engine \in {"sql", "mongodb", "redis"} /\ origin \in [Ids -> Contents \union {"gone"}]
  /\ dump \in Seq(DumpRows) /\ scan \in ScanRecord /\ target \in TargetRecord /\ write \in WriteRecord
  /\ steady \subseteq Ids /\ deleted \in BOOLEAN
  /\ rowChanges \in 0 .. MaxRowChanges /\ failures \in 0 .. MaxFailures

\* A restore has the whole backup before it.
WholeBackup ==
  /\ write.at <= Len(dump)
  /\ write.step # "idle" => scan.step = "done"
  /\ write.step = "set" => /\ engine = "redis" /\ write.at < Len(dump)
                           /\ target.rows[dump[write.at + 1].key] = "gone"
  /\ write.step = "ok" => write.at = Len(dump)
  /\ write.lost => engine = "mongodb"

\* A row that nobody touched is in the backup or still before it.
Stays(k) == k \in steady /\ origin[k] # "gone"
InDump(k) == [key |-> k, content |-> origin[k]] \in Range(dump)
Ahead(k) ==
  \/ engine = "sql" /\ scan.step = "rows" /\ KeyRank(Kept(origin), k) > scan.at
  \/ engine = "mongodb" /\ scan.step = "rows" /\ k > scan.at
  \/ engine = "redis" /\ (scan.step = "keys" \/ (scan.step = "rows" /\ k \in Range(scan.left)))
StayersRead == (engine = "sql" => ~deleted) => \A k \in Ids : Stays(k) => InDump(k) \/ Ahead(k)

\* Redis reads a key once; a row has a content, unless its key went away before it was read.
KeysOnce ==
  engine = "redis" =>
    /\ \A i, j \in DOMAIN dump : dump[i].key = dump[j].key => i = j
    /\ \A i, j \in DOMAIN scan.left : scan.left[i] = scan.left[j] => i = j
    /\ \A i \in DOMAIN dump, j \in DOMAIN scan.left : dump[i].key # scan.left[j]
    /\ scan.step = "keys" => dump = <<>>
RowsFilled ==
  /\ ~(engine = "redis" /\ deleted) => \A i \in DOMAIN dump : dump[i].content # "gone"
  /\ engine = "redis" /\ ~deleted => \A j \in DOMAIN scan.left : origin[scan.left[j]] # "gone"

\* What a restore has passed is in the target, unless MongoDB lost it in silence.
Restored ==
  write.step \in {"rows", "set", "ok"} /\ ~write.lost =>
    \A i \in 1 .. write.at :
      /\ dump[i].content # "gone" => target.rows[dump[i].key] # "gone"
      /\ engine = "redis" /\ ~deleted => target.rows[dump[i].key] = dump[i].content

BackupInv == BackupTypes /\ WholeBackup /\ StayersRead /\ KeysOnce /\ RowsFilled /\ Restored
------------------------------------------------------------------------------
\* What the assumption says, without the sets of sets.
LEMMA BackupConstants ==
  /\ IsFiniteSet(Ids) /\ \A k \in Ids : k \in Nat \ {0}
  /\ FetchBatch \in Nat \ {0} /\ RestoreBatch \in Nat \ {0} /\ MaxRowChanges \in Nat /\ MaxFailures \in Nat
  /\ "gone" \notin Contents /\ Contents # {}
BY BackupAssumption

\* Rows are keys of a result.
LEMMA IdsAreKeys == ASSUME NEW S, S \subseteq Ids PROVE Keys(S)
BY BackupConstants, FS_Subset DEF Keys

\* The first rows of a sequence, and the others.
LEMMA UptoOK ==
  ASSUME NEW T, NEW s \in Seq(T), NEW n \in Nat
  PROVE  /\ Upto(n, s) \in Seq(T) /\ Len(Upto(n, s)) = IF n < Len(s) THEN n ELSE Len(s)
         /\ \A i \in 1 .. Len(Upto(n, s)) : Upto(n, s)[i] = s[i]
<1> DEFINE m == IF n < Len(s) THEN n ELSE Len(s)
<1>1. m \in Nat /\ m <= Len(s) /\ Len(s) \in Nat /\ \A i \in 1 .. Len(s) : s[i] \in T
  OBVIOUS
<1> HIDE DEF m
<1>2. \A i \in 1 .. m : s[i] \in T
  BY <1>1
<1>3. /\ SubSeq(s, 1, m) \in Seq(T) /\ Len(SubSeq(s, 1, m)) = IF 1 <= m THEN m - 1 + 1 ELSE 0
      /\ \A i \in 1 .. m - 1 + 1 : SubSeq(s, 1, m)[i] = s[1 + i - 1]
  BY <1>1, <1>2, SubSeqProperties
<1>4. Len(SubSeq(s, 1, m)) = m /\ \A i \in 1 .. m : SubSeq(s, 1, m)[i] = s[i]
  BY <1>1, <1>3
<1> QED BY <1>3, <1>4 DEF Upto, m
LEMMA PastOK ==
  ASSUME NEW T, NEW s \in Seq(T), NEW n \in Nat
  PROVE  /\ Past(n, s) \in Seq(T) /\ Len(Past(n, s)) = IF n < Len(s) THEN Len(s) - n ELSE 0
         /\ \A i \in 1 .. Len(Past(n, s)) : n + i \in 1 .. Len(s) /\ Past(n, s)[i] = s[n + i]
<1>1. Len(s) \in Nat /\ \A i \in n + 1 .. Len(s) : s[i] \in T
  OBVIOUS
<1>3. /\ SubSeq(s, n + 1, Len(s)) \in Seq(T)
      /\ Len(SubSeq(s, n + 1, Len(s))) = IF n + 1 <= Len(s) THEN Len(s) - (n + 1) + 1 ELSE 0
      /\ \A i \in 1 .. Len(s) - (n + 1) + 1 : SubSeq(s, n + 1, Len(s))[i] = s[n + 1 + i - 1]
  <2>1. n + 1 \in Int /\ Len(s) \in Int
    BY <1>1
  <2> QED BY <1>1, <2>1, SubSeqProperties
<1>4. Len(Past(n, s)) = IF n < Len(s) THEN Len(s) - n ELSE 0
  BY <1>1, <1>3 DEF Past
<1>5. \A i \in 1 .. Len(Past(n, s)) : n + i \in 1 .. Len(s) /\ Past(n, s)[i] = s[n + i]
  BY <1>1, <1>3, <1>4 DEF Past
<1> QED BY <1>3, <1>4, <1>5 DEF Past

\* A page: what it leaves out comes after it, and then it is full.
LEMMA PageFacts ==
  ASSUME NEW S, S \subseteq Ids, NEW at \in Nat, NEW n \in Nat \ {0}
  PROVE  LET ks == Upto(n, Past(at, Ordered(S)))
         IN  /\ ks \in Seq(S) /\ Len(ks) \in Nat /\ Len(ks) <= n
             /\ \A k \in S : KeyRank(S, k) > at =>
                  k \in Range(ks) \/ (Len(ks) = n /\ KeyRank(S, k) > at + Len(ks))
<1> DEFINE N == Cardinality(S)
           p == Past(at, Ordered(S))
           ks == Upto(n, p)
<1>1. Keys(S)
  BY IdsAreKeys
<1>2. /\ Ordered(S) \in Seq(S) /\ Len(Ordered(S)) = N /\ N \in Nat
      /\ \A k \in S : KeyRank(S, k) \in 1 .. N /\ Ordered(S)[KeyRank(S, k)] = k
  BY <1>1, OrderedOK
<1>3. /\ p \in Seq(S) /\ Len(p) = IF at < N THEN N - at ELSE 0
      /\ \A i \in 1 .. Len(p) : p[i] = Ordered(S)[at + i]
  BY <1>2, PastOK
<1> HIDE DEF p
<1>4. /\ ks \in Seq(S) /\ Len(ks) = IF n < Len(p) THEN n ELSE Len(p)
      /\ \A i \in 1 .. Len(ks) : ks[i] = p[i]
  BY <1>3, UptoOK
<1> HIDE DEF ks, N
<1>5. ASSUME NEW k \in S, KeyRank(S, k) > at
      PROVE  k \in Range(ks) \/ (Len(ks) = n /\ KeyRank(S, k) > at + Len(ks))
  <2> DEFINE r == KeyRank(S, k)
  <2>1. r \in 1 .. N /\ Ordered(S)[r] = k /\ r > at
    BY <1>2, <1>5
  <2> HIDE DEF r
  <2>2. Len(p) = N - at
    BY <1>2, <1>3, <2>1
  <2>3. CASE r <= at + Len(ks)
    <3>1. r - at \in 1 .. Len(ks) /\ r - at \in 1 .. Len(p) /\ at + (r - at) = r
      BY <1>2, <1>4, <2>1, <2>2, <2>3
    <3>2. ks[r - at] = k
      BY <1>3, <1>4, <2>1, <3>1
    <3>3. r - at \in DOMAIN ks
      BY <1>4, <3>1
    <3> QED BY <3>2, <3>3 DEF Range
  <2>4. CASE r > at + Len(ks)
    BY <1>2, <1>4, <2>1, <2>2, <2>4 DEF r
  <2> QED BY <1>2, <1>4, <2>1, <2>2, <2>3, <2>4
<1> QED BY <1>2, <1>3, <1>4, <1>5 DEF ks, p

\* What a cursor hands out: what it leaves out comes after it.
LEMMA CursorFacts ==
  ASSUME NEW S, S \subseteq Ids, NEW n \in Nat \ {0}
  PROVE  LET ks == Upto(n, Ordered(S))
         IN  /\ ks \in Seq(S) /\ Len(ks) \in Nat
             /\ ks = <<>> => S = {}
             /\ ks # <<>> => /\ Len(ks) \in 1 .. Len(ks) /\ ks[Len(ks)] \in S
                             /\ \A k \in S : k \in Range(ks) \/ k > ks[Len(ks)]
<1> DEFINE N == Cardinality(S)
           ks == Upto(n, Ordered(S))
<1>1. Keys(S)
  BY IdsAreKeys
<1>2. /\ Ordered(S) \in Seq(S) /\ Len(Ordered(S)) = N /\ N \in Nat
      /\ \A i \in 1 .. N : Ordered(S)[i] \in S /\ KeyRank(S, Ordered(S)[i]) = i
      /\ \A k \in S : KeyRank(S, k) \in 1 .. N /\ Ordered(S)[KeyRank(S, k)] = k
  BY <1>1, OrderedOK
<1>3. /\ ks \in Seq(S) /\ Len(ks) = IF n < N THEN n ELSE N
      /\ \A i \in 1 .. Len(ks) : ks[i] = Ordered(S)[i]
  BY <1>2, UptoOK
<1> HIDE DEF ks, N
<1>4. Len(ks) \in Nat /\ (ks # <<>> => Len(ks) \in 1 .. Len(ks)) /\ (ks = <<>> => N = 0)
  BY <1>2, <1>3
<1>5. ks = <<>> => S = {}
  BY <1>2, <1>4
<1>6. ASSUME ks # <<>> PROVE ks[Len(ks)] \in S /\ \A k \in S : k \in Range(ks) \/ k > ks[Len(ks)]
  <2> DEFINE l == ks[Len(ks)]
  <2>1. l \in S /\ KeyRank(S, l) = Len(ks)
    BY <1>2, <1>3, <1>4, <1>6
  <2> HIDE DEF l
  <2>2. ASSUME NEW k \in S PROVE k \in Range(ks) \/ k > l
    <3>1. KeyRank(S, k) \in 1 .. N /\ Ordered(S)[KeyRank(S, k)] = k
      BY <1>2
    <3>2. CASE KeyRank(S, k) <= Len(ks)
      <4>1. KeyRank(S, k) \in 1 .. Len(ks) /\ KeyRank(S, k) \in DOMAIN ks
        BY <1>3, <1>4, <3>1, <3>2
      <4> QED BY <1>3, <3>1, <4>1 DEF Range
    <3>3. CASE KeyRank(S, l) < KeyRank(S, k)
      <4>1. k \in Nat /\ l \in Nat
        BY <1>1, <2>1 DEF Keys
      <4>2. l < k
        BY <1>1, <3>3, <4>1, RankOrder
      <4> QED BY <4>1, <4>2
    <3> QED BY <1>2, <1>4, <2>1, <3>1, <3>2, <3>3
  <2> QED BY <2>1, <2>2 DEF l
<1> QED BY <1>3, <1>4, <1>5, <1>6 DEF ks

\* The rows that are read of keys, and the backup with them.
LEMMA ReadsFacts ==
  ASSUME BackupTypes, NEW ks \in Seq(Ids), dump' = dump \o RowsOf(ks)
  PROVE  /\ dump' \in Seq(DumpRows) /\ Len(dump') = Len(dump) + Len(ks) /\ Len(dump) \in Nat /\ Len(ks) \in Nat
         /\ \A i \in 1 .. Len(dump) : dump'[i] = dump[i]
         /\ \A i \in 1 .. Len(ks) : dump'[Len(dump) + i] = [key |-> ks[i], content |-> origin[ks[i]]]
         /\ Range(dump) \subseteq Range(dump')
         /\ \A k \in Range(ks) : [key |-> k, content |-> origin[k]] \in Range(dump')
         /\ \A i \in DOMAIN dump' :
              \/ i \in DOMAIN dump /\ dump'[i] = dump[i]
              \/ \E j \in DOMAIN ks : i = Len(dump) + j /\ dump'[i] = [key |-> ks[j], content |-> origin[ks[j]]]
<1> DEFINE rows == RowsOf(ks)
<1>1. dump \in Seq(DumpRows) /\ Len(dump) \in Nat /\ Len(ks) \in Nat /\ DOMAIN ks = 1 .. Len(ks)
  BY DEF BackupTypes
<1>2. rows = [i \in 1 .. Len(ks) |-> [key |-> ks[i], content |-> origin[ks[i]]]]
  BY <1>1 DEF RowsOf
<1>3. \A i \in 1 .. Len(ks) : [key |-> ks[i], content |-> origin[ks[i]]] \in DumpRows
  <2> SUFFICES ASSUME NEW i \in 1 .. Len(ks)
               PROVE  [key |-> ks[i], content |-> origin[ks[i]]] \in DumpRows
    OBVIOUS
  <2>1. ks[i] \in Ids
    OBVIOUS
  <2>2. origin[ks[i]] \in Held
    BY <2>1 DEF BackupTypes, Held
  <2> QED BY <2>1, <2>2 DEF DumpRows
<1>4. rows \in Seq(DumpRows) /\ Len(rows) = Len(ks)
      /\ \A i \in 1 .. Len(ks) : rows[i] = [key |-> ks[i], content |-> origin[ks[i]]]
  BY <1>1, <1>2, <1>3
<1> HIDE DEF rows
<1>5. /\ dump \o rows \in Seq(DumpRows) /\ Len(dump \o rows) = Len(dump) + Len(rows)
      /\ \A i \in 1 .. Len(dump) + Len(rows) :
           (dump \o rows)[i] = IF i <= Len(dump) THEN dump[i] ELSE rows[i - Len(dump)]
  <2> DEFINE d == dump
  <2>1. d \in Seq(DumpRows) /\ rows \in Seq(DumpRows)
    BY <1>1, <1>4
  <2> HIDE DEF d
  <2>2. /\ d \o rows \in Seq(DumpRows) /\ Len(d \o rows) = Len(d) + Len(rows)
        /\ \A i \in 1 .. Len(d) + Len(rows) :
             (d \o rows)[i] = IF i <= Len(d) THEN d[i] ELSE rows[i - Len(d)]
    BY <2>1, ConcatProperties
  <2> QED BY <2>2 DEF d
<1>6. dump' = dump \o rows
  BY DEF rows
<1>7. \A i \in 1 .. Len(dump) : dump'[i] = dump[i]
  BY <1>1, <1>4, <1>5, <1>6
<1>8. \A i \in 1 .. Len(ks) : dump'[Len(dump) + i] = [key |-> ks[i], content |-> origin[ks[i]]]
  <2> SUFFICES ASSUME NEW i \in 1 .. Len(ks)
               PROVE  dump'[Len(dump) + i] = [key |-> ks[i], content |-> origin[ks[i]]]
    OBVIOUS
  <2>1. /\ Len(dump) + i \in 1 .. Len(dump) + Len(rows) /\ ~(Len(dump) + i <= Len(dump))
        /\ Len(dump) + i - Len(dump) = i
    BY <1>1, <1>4
  <2> QED BY <1>4, <1>5, <1>6, <2>1
<1>9. DOMAIN dump = 1 .. Len(dump) /\ DOMAIN dump' = 1 .. Len(dump) + Len(ks)
  BY <1>1, <1>4, <1>5, <1>6
<1>10. Range(dump) \subseteq Range(dump')
  <2> SUFFICES ASSUME NEW i \in 1 .. Len(dump) PROVE dump[i] \in Range(dump')
    BY <1>9 DEF Range
  <2>1. i \in DOMAIN dump' /\ dump'[i] = dump[i]
    BY <1>1, <1>7, <1>9
  <2> QED BY <2>1 DEF Range
<1>11. ASSUME NEW k \in Range(ks) PROVE [key |-> k, content |-> origin[k]] \in Range(dump')
  <2>1. PICK i \in 1 .. Len(ks) : ks[i] = k
    BY <1>1, <1>11 DEF Range
  <2>2. Len(dump) + i \in DOMAIN dump'
    BY <1>1, <1>9
  <2> QED BY <1>8, <2>1, <2>2 DEF Range
<1>12. ASSUME NEW i \in DOMAIN dump'
       PROVE  \/ i \in DOMAIN dump /\ dump'[i] = dump[i]
              \/ \E j \in DOMAIN ks : i = Len(dump) + j /\ dump'[i] = [key |-> ks[j], content |-> origin[ks[j]]]
  <2>1. CASE i <= Len(dump)
    BY <1>1, <1>7, <1>9, <2>1
  <2>2. CASE i > Len(dump)
    <3> DEFINE j == i - Len(dump)
    <3>1. j \in 1 .. Len(ks) /\ i = Len(dump) + j
      BY <1>1, <1>9, <2>2
    <3> HIDE DEF j
    <3>2. dump'[i] = [key |-> ks[j], content |-> origin[ks[j]]]
      BY <1>8, <3>1
    <3>3. j \in DOMAIN ks
      BY <1>1, <3>1
    <3>4. \E m \in DOMAIN ks : i = Len(dump) + m /\ dump'[i] = [key |-> ks[m], content |-> origin[ks[m]]]
      BY <3>1, <3>2, <3>3
    <3> QED BY <3>4
  <2>3. i <= Len(dump) \/ i > Len(dump)
    BY <1>1, <1>9
  <2> QED BY ONLY <2>1, <2>2, <2>3, Zenon
<1> QED BY <1>1, <1>4, <1>5, <1>6, <1>7, <1>8, <1>10, <1>11, <1>12
------------------------------------------------------------------------------
\* Before anything is read.
LEMMA BackupInitOK == BackupInit => BackupInv
<1> SUFFICES ASSUME BackupInit PROVE BackupInv
  OBVIOUS
<1> DEFINE some == CHOOSE c \in Contents : TRUE
<1>1. some \in Contents
  BY BackupConstants
<1> HIDE DEF some
<1>2. /\ engine \in {"sql", "mongodb", "redis"} /\ origin \in [Ids -> {some, "gone"}] /\ dump = <<>>
      /\ scan = [step |-> IF engine = "redis" THEN "keys" ELSE "rows", at |-> 0, left |-> <<>>]
      /\ write = [step |-> "idle", at |-> 0, tries |-> 0, lost |-> FALSE] /\ rowChanges = 0 /\ failures = 0
      /\ steady = Ids /\ deleted = FALSE
  BY DEF BackupInit, some
<1>3. origin \in [Ids -> Contents \union {"gone"}]
  BY <1>1, <1>2
<1>4. target \in TargetRecord
  <2>1. PICK rows \in {Gone, origin}, keyed \in BOOLEAN :
          target = [rows |-> rows, keyed |-> keyed, more |-> [k \in Ids |-> 0]]
    BY DEF BackupInit
  <2>2. Gone \in [Ids -> Held] /\ origin \in [Ids -> Held]
    BY <1>3 DEF Gone, Held
  <2> QED BY <2>1, <2>2 DEF TargetRecord
<1>5. scan \in ScanRecord /\ write \in WriteRecord /\ dump \in Seq(DumpRows) /\ Len(dump) = 0
      /\ DOMAIN dump = {} /\ DOMAIN scan.left = {} /\ write.step = "idle" /\ write.at = 0 /\ write.lost = FALSE
  BY <1>2 DEF ScanRecord, WriteRecord
<1>6. BackupTypes
  <2>1. 0 \in 0 .. MaxRowChanges /\ 0 \in 0 .. MaxFailures
    BY BackupConstants
  <2> QED BY <1>2, <1>3, <1>4, <1>5, <2>1 DEF BackupTypes
<1>7. StayersRead
  <2> SUFFICES ASSUME NEW k \in Ids, Stays(k) PROVE Ahead(k)
    BY DEF StayersRead
  <2>1. KeyRank(Kept(origin), k) > 0
    <3>1. k \in Kept(origin) /\ Keys(Kept(origin)) /\ k \in Nat
      BY IdsAreKeys, BackupConstants DEF Kept, Stays
    <3> QED BY <3>1, RankOK
  <2>2. k > 0
    BY BackupConstants
  <2> QED BY <1>2, <2>1, <2>2 DEF Ahead
<1> QED BY <1>2, <1>5, <1>6, <1>7 DEF BackupInv, WholeBackup, KeysOnce, RowsFilled, Restored

\* Others change a row: who stays keeps its content, and its place if none is deleted.
LEMMA ChangesOK == BackupInv /\ Changes => BackupInv'
<1> SUFFICES ASSUME BackupInv, Changes PROVE BackupInv'
  OBVIOUS
<1>1. PICK k \in Ids, c \in Contents \union {"gone"} :
        /\ origin' = [origin EXCEPT ![k] = c] /\ steady' = steady \ {k}
        /\ deleted' = (deleted \/ c = "gone")
  BY DEF Changes
<1>2. /\ UNCHANGED <<engine, dump, scan, target, write, failures>> /\ scan.step # "done"
      /\ rowChanges < MaxRowChanges /\ rowChanges' = rowChanges + 1
  BY DEF Changes
<1>3. /\ BackupTypes /\ WholeBackup /\ origin \in [Ids -> Contents \union {"gone"}]
      /\ write.step = "idle" /\ scan.left \in Seq(Ids)
  BY <1>2 DEF BackupInv, WholeBackup, BackupTypes, ScanRecord
<1>4. \A j \in Ids : origin'[j] = IF j = k THEN c ELSE origin[j]
  BY <1>1, <1>3
<1>5. deleted => deleted'
  BY <1>1
<1>6. ~deleted' => c # "gone"
  BY <1>1
<1>7. BackupTypes'
  <2>1. origin' \in [Ids -> Contents \union {"gone"}] /\ steady' \subseteq Ids
    BY <1>1, <1>3 DEF BackupTypes
  <2>2. deleted' \in BOOLEAN
    BY <1>1
  <2>3. rowChanges' \in 0 .. MaxRowChanges
    BY <1>2, <1>3, BackupConstants DEF BackupTypes
  <2> QED BY <1>2, <1>3, <2>1, <2>2, <2>3 DEF BackupTypes
<1>8. StayersRead'
  <2> SUFFICES ASSUME engine' = "sql" => ~deleted', NEW j \in Ids, Stays(j)' PROVE InDump(j)' \/ Ahead(j)'
    BY DEF StayersRead
  <2>1. j # k /\ Stays(j) /\ origin'[j] = origin[j]
    BY <1>1, <1>4 DEF Stays
  <2>2. InDump(j) \/ Ahead(j)
    <3>1. engine = "sql" => ~deleted
      BY <1>2, <1>5
    <3> QED BY <2>1, <3>1 DEF BackupInv, StayersRead
  <2>3. CASE InDump(j)
    BY <1>2, <2>1, <2>3 DEF InDump
  <2>4. CASE engine = "sql" /\ Ahead(j)
    <3>1. Kept(origin) \subseteq Kept(origin)'
      BY <1>2, <1>4, <1>6, <2>4 DEF Kept
    <3> DEFINE A == {i \in Kept(origin) : i <= j}
               B == {i \in Kept(origin)' : i <= j}
    <3>2. IsFiniteSet(A) /\ IsFiniteSet(B) /\ A \subseteq B
      <4>1. A \subseteq Ids /\ B \subseteq Ids
        BY DEF Kept
      <4> QED BY <3>1, <4>1, BackupConstants, FS_Subset
    <3>3. Cardinality(A) \in Nat /\ Cardinality(B) \in Nat /\ Cardinality(A) <= Cardinality(B)
      <4> HIDE DEF A, B
      <4> QED BY <3>2, FS_Subset, FS_CardinalityType
    <3>4. Cardinality(A) > scan.at /\ scan.step = "rows" /\ scan.at \in Nat
      BY <1>3, <2>4 DEF Ahead, KeyRank, BackupTypes, ScanRecord
    <3>5. Cardinality(B) > scan.at
      <4> HIDE DEF A, B
      <4> QED BY <3>3, <3>4
    <3> QED BY <1>2, <2>4, <3>4, <3>5 DEF Ahead, KeyRank
  <2>5. CASE engine # "sql" /\ Ahead(j)
    BY <1>2, <2>5 DEF Ahead
  <2> QED BY <2>2, <2>3, <2>4, <2>5
<1>9. RowsFilled'
  <2>1. ~(engine' = "redis" /\ deleted') => \A i \in DOMAIN dump' : dump'[i].content # "gone"
    <3>1. ~(engine' = "redis" /\ deleted') => ~(engine = "redis" /\ deleted)
      BY <1>2, <1>5
    <3>2. ~(engine = "redis" /\ deleted) => \A i \in DOMAIN dump : dump[i].content # "gone"
      BY DEF BackupInv, RowsFilled
    <3> QED BY <1>2, <3>1, <3>2
  <2>2. ASSUME engine' = "redis", ~deleted', NEW j \in DOMAIN scan'.left PROVE origin'[scan'.left[j]] # "gone"
    <3>1. scan'.left[j] = scan.left[j] /\ scan.left[j] \in Ids /\ j \in DOMAIN scan.left
      BY <1>2, <1>3, <2>2
    <3>2. origin[scan.left[j]] # "gone"
      BY <1>2, <1>5, <2>2, <3>1 DEF BackupInv, RowsFilled
    <3> QED BY <1>4, <1>6, <2>2, <3>1, <3>2
  <2> QED BY <2>1, <2>2 DEF RowsFilled
<1> QED BY <1>2, <1>3, <1>7, <1>8, <1>9 DEF BackupInv, WholeBackup, KeysOnce, Restored

\* What every step of a backup keeps.
LEMMA ReadsOK ==
  ASSUME BackupInv, NEW ks \in Seq(Ids), NEW next, next \in ScanRecord, Reads(RowsOf(ks), next),
         scan.step # "done"
  PROVE  /\ BackupTypes' /\ WholeBackup' /\ Restored'
         /\ engine # "redis" /\ ks \in Seq(Kept(origin)) => RowsFilled' /\ KeysOnce'
<1>1. /\ dump' = dump \o RowsOf(ks) /\ scan' = next
      /\ UNCHANGED <<engine, origin, target, write, rowChanges, failures, steady, deleted>>
  BY DEF Reads
<1>2. BackupTypes /\ WholeBackup /\ write.step = "idle" /\ write.at \in Nat
  BY DEF BackupInv, WholeBackup, BackupTypes, WriteRecord
<1>3. dump' \in Seq(DumpRows) /\ Len(dump') = Len(dump) + Len(ks) /\ Len(dump) \in Nat /\ Len(ks) \in Nat
  BY <1>1, <1>2, ReadsFacts
<1>4. BackupTypes'
  BY <1>1, <1>2, <1>3 DEF BackupTypes
<1>5. WholeBackup' /\ Restored'
  BY <1>1, <1>2, <1>3 DEF WholeBackup, Restored
<1>6. ASSUME engine # "redis", ks \in Seq(Kept(origin)) PROVE RowsFilled' /\ KeysOnce'
  <2>1. \A i \in DOMAIN dump : dump[i].content # "gone"
    BY <1>6 DEF BackupInv, RowsFilled
  <2>2. \A j \in DOMAIN ks : origin[ks[j]] # "gone"
    <3>1. \A j \in DOMAIN ks : ks[j] \in Kept(origin)
      BY <1>6
    <3> QED BY <3>1 DEF Kept
  <2>3. \A i \in DOMAIN dump' : dump'[i].content # "gone"
    <3> SUFFICES ASSUME NEW i \in DOMAIN dump' PROVE dump'[i].content # "gone"
      OBVIOUS
    <3>1. \/ i \in DOMAIN dump /\ dump'[i] = dump[i]
          \/ \E j \in DOMAIN ks : i = Len(dump) + j /\ dump'[i] = [key |-> ks[j], content |-> origin[ks[j]]]
      BY <1>1, <1>2, ReadsFacts
    <3> QED BY <2>1, <2>2, <3>1
  <2> QED BY <1>1, <1>6, <2>3 DEF RowsFilled, KeysOnce
<1> QED BY <1>4, <1>5, <1>6

\* A page of SQL, a batch of MongoDB's cursor.
LEMMA PageReadsOK == BackupInv /\ PageReads => BackupInv'
<1> SUFFICES ASSUME BackupInv, PageReads PROVE BackupInv'
  OBVIOUS
<1> DEFINE S == Kept(origin)
           ks == Upto(FetchBatch, Past(scan.at, Ordered(S)))
           next == [scan EXCEPT !.at = @ + Len(ks), !.step = IF Len(ks) < FetchBatch THEN "done" ELSE @]
<1>1. BackupTypes /\ scan \in ScanRecord /\ scan.at \in Nat /\ engine = "sql" /\ scan.step = "rows"
  BY DEF BackupInv, BackupTypes, ScanRecord, PageReads
<1>2. Reads(RowsOf(ks), next)
  BY DEF PageReads
<1>3. S \subseteq Ids
  BY DEF Kept
<1>4. /\ ks \in Seq(S) /\ Len(ks) \in Nat /\ Len(ks) <= FetchBatch
      /\ \A k \in S : KeyRank(S, k) > scan.at =>
           k \in Range(ks) \/ (Len(ks) = FetchBatch /\ KeyRank(S, k) > scan.at + Len(ks))
  <2> HIDE DEF S
  <2> QED BY <1>1, <1>3, BackupConstants, PageFacts
<1> HIDE DEF ks
<1>5. ks \in Seq(Ids)
  BY <1>3, <1>4
<1>6. next \in ScanRecord
  <2>1. scan.at + Len(ks) \in Nat
    BY <1>1, <1>4
  <2>2. (IF Len(ks) < FetchBatch THEN "done" ELSE scan.step) \in {"keys", "rows", "done"}
    BY <1>1
  <2> QED BY <1>1, <2>1, <2>2 DEF ScanRecord
<1>10. next.at = scan.at + Len(ks) /\ next.step = IF Len(ks) < FetchBatch THEN "done" ELSE "rows"
  BY <1>1, <1>4 DEF ScanRecord
<1> HIDE DEF next
<1>7. BackupTypes' /\ WholeBackup' /\ Restored' /\ RowsFilled' /\ KeysOnce'
  BY <1>1, <1>2, <1>4, <1>5, <1>6, ReadsOK
<1>8. /\ UNCHANGED <<engine, origin, steady, deleted>> /\ dump' = dump \o RowsOf(ks) /\ scan' = next
  BY <1>2 DEF Reads
<1>9. StayersRead'
  <2> SUFFICES ASSUME engine' = "sql" => ~deleted', NEW k \in Ids, Stays(k)' PROVE InDump(k)' \/ Ahead(k)'
    BY DEF StayersRead
  <2>1. Stays(k) /\ (InDump(k) \/ Ahead(k)) /\ k \in S
    BY <1>8 DEF BackupInv, StayersRead, Stays, Kept
  <2>2. CASE InDump(k)
    BY <1>1, <1>5, <1>8, <2>2, ReadsFacts DEF InDump
  <2>3. CASE k \in Range(ks)
    BY <1>1, <1>5, <1>8, <2>3, ReadsFacts DEF InDump
  <2>4. CASE Ahead(k) /\ k \notin Range(ks)
    <3>1. Len(ks) = FetchBatch /\ KeyRank(S, k) > scan.at + Len(ks)
      BY <1>1, <1>4, <2>1, <2>4 DEF Ahead
    <3>2. scan'.step = "rows" /\ scan'.at = scan.at + Len(ks)
      BY <1>4, <1>8, <1>10, <3>1, BackupConstants
    <3> QED BY <1>1, <1>8, <3>1, <3>2 DEF Ahead
  <2> QED BY <2>1, <2>2, <2>3, <2>4
<1> QED BY <1>7, <1>9 DEF BackupInv

LEMMA CursorReadsOK == BackupInv /\ CursorReads => BackupInv'
<1> SUFFICES ASSUME BackupInv, CursorReads PROVE BackupInv'
  OBVIOUS
<1> DEFINE S == {k \in Kept(origin) : k > scan.at}
           ks == Upto(FetchBatch, Ordered(S))
           next == IF ks = <<>> THEN [step |-> "done", at |-> scan.at, left |-> scan.left]
                   ELSE [step |-> scan.step, at |-> ks[Len(ks)], left |-> scan.left]
<1>1. BackupTypes /\ scan \in ScanRecord /\ scan.at \in Nat /\ engine = "mongodb" /\ scan.step = "rows"
  BY DEF BackupInv, BackupTypes, ScanRecord, CursorReads
<1>2. Reads(RowsOf(ks), next)
  <2>1. next = IF ks = <<>> THEN [scan EXCEPT !.step = "done"] ELSE [scan EXCEPT !.at = ks[Len(ks)]]
    BY <1>1 DEF ScanRecord
  <2> QED BY <2>1 DEF CursorReads
<1>3. S \subseteq Ids /\ S \subseteq Kept(origin)
  BY DEF Kept
<1>4. /\ ks \in Seq(S) /\ Len(ks) \in Nat
      /\ ks = <<>> => S = {}
      /\ ks # <<>> => ks[Len(ks)] \in S /\ \A k \in S : k \in Range(ks) \/ k > ks[Len(ks)]
  <2> HIDE DEF S
  <2> QED BY <1>3, BackupConstants, CursorFacts
<1> HIDE DEF ks
<1>5. ks \in Seq(Ids) /\ ks \in Seq(Kept(origin))
  BY <1>3, <1>4
<1>6. next \in ScanRecord
  <2>1. ks # <<>> => ks[Len(ks)] \in Nat
    BY <1>3, <1>4, BackupConstants
  <2> QED BY <1>1, <2>1 DEF ScanRecord
<1>7. BackupTypes' /\ WholeBackup' /\ Restored' /\ RowsFilled' /\ KeysOnce'
  <2> HIDE DEF next
  <2> QED BY <1>1, <1>2, <1>5, <1>6, ReadsOK
<1>8. /\ UNCHANGED <<engine, origin, steady, deleted>> /\ dump' = dump \o RowsOf(ks) /\ scan' = next
  BY <1>2 DEF Reads
<1>9. StayersRead'
  <2> SUFFICES ASSUME NEW k \in Ids, Stays(k)' PROVE InDump(k)' \/ Ahead(k)'
    BY DEF StayersRead
  <2>1. Stays(k) /\ (InDump(k) \/ Ahead(k)) /\ k \in Kept(origin)
    BY <1>1, <1>8 DEF BackupInv, StayersRead, Stays, Kept
  <2>2. CASE InDump(k)
    BY <1>1, <1>5, <1>8, <2>2, ReadsFacts DEF InDump
  <2>3. CASE k \in Range(ks)
    BY <1>1, <1>5, <1>8, <2>3, ReadsFacts DEF InDump
  <2>4. CASE Ahead(k) /\ k \notin Range(ks)
    <3>1. k \in S /\ ks # <<>> /\ k > ks[Len(ks)]
      BY <1>1, <1>4, <2>1, <2>4 DEF Ahead
    <3>2. scan'.step = "rows" /\ scan'.at = ks[Len(ks)]
      BY <1>1, <1>8, <3>1
    <3> QED BY <1>1, <1>8, <3>1, <3>2 DEF Ahead
  <2> QED BY <2>1, <2>2, <2>3, <2>4
<1> QED BY <1>7, <1>9 DEF BackupInv

\* Redis: first the keys, then their values.
LEMMA ScanReadsOK == BackupInv /\ ScanReads => BackupInv'
<1> SUFFICES ASSUME BackupInv, ScanReads PROVE BackupInv'
  OBVIOUS
<1> DEFINE S == Kept(origin)
           next == [step |-> "rows", at |-> scan.at, left |-> Ordered(S)]
<1>1. BackupTypes /\ scan \in ScanRecord /\ engine = "redis" /\ scan.step = "keys" /\ dump \in Seq(DumpRows)
  BY DEF BackupInv, BackupTypes, ScanReads
<1>2. /\ UNCHANGED <<engine, origin, target, write, rowChanges, failures, steady, deleted>>
      /\ dump' = dump \o <<>> /\ scan' = next
  BY <1>1 DEF ScanReads, Reads, ScanRecord
<1>3. dump' = dump
  BY <1>1, <1>2, ConcatEmptySeq
<1>4. S \subseteq Ids /\ Keys(S)
  BY IdsAreKeys DEF Kept
<1>5. /\ Ordered(S) \in Seq(S) /\ DOMAIN Ordered(S) = 1 .. Cardinality(S)
      /\ \A n \in 1 .. Cardinality(S) : Ordered(S)[n] \in S /\ KeyRank(S, Ordered(S)[n]) = n
      /\ \A k \in S : KeyRank(S, k) \in 1 .. Cardinality(S) /\ Ordered(S)[KeyRank(S, k)] = k
  BY <1>4, OrderedOK
<1>6. next \in ScanRecord
  <2>1. Ordered(S) \in Seq(Ids)
    BY <1>4, <1>5
  <2> QED BY <1>1, <2>1 DEF ScanRecord
<1>7. BackupTypes' /\ WholeBackup' /\ Restored'
  BY <1>1, <1>2, <1>3, <1>6 DEF BackupInv, BackupTypes, WholeBackup, Restored
<1>8. dump = <<>> /\ DOMAIN dump = {}
  BY <1>1 DEF BackupInv, KeysOnce
<1>9. KeysOnce'
  <2>1. \A i, j \in DOMAIN Ordered(S) : Ordered(S)[i] = Ordered(S)[j] => i = j
    BY <1>5
  <2> QED BY <1>2, <1>3, <1>8, <2>1 DEF KeysOnce
<1>10. RowsFilled'
  <2>1. \A j \in DOMAIN Ordered(S) : origin[Ordered(S)[j]] # "gone"
    BY <1>5 DEF Kept
  <2> QED BY <1>2, <1>3, <1>8, <2>1 DEF RowsFilled
<1>11. StayersRead'
  <2> SUFFICES ASSUME NEW k \in Ids, Stays(k)' PROVE InDump(k)' \/ Ahead(k)'
    BY DEF StayersRead
  <2>1. k \in S
    BY <1>2 DEF Stays, Kept
  <2>2. k \in Range(Ordered(S))
    BY <1>5, <2>1 DEF Range
  <2> QED BY <1>1, <1>2, <2>2 DEF Ahead
<1> QED BY <1>7, <1>9, <1>10, <1>11 DEF BackupInv

LEMMA KeysReadOK == BackupInv /\ KeysRead => BackupInv'
<1> SUFFICES ASSUME BackupInv, KeysRead PROVE BackupInv'
  OBVIOUS
<1> DEFINE l == scan.left
           ks == Upto(FetchBatch, l)
           left == Past(FetchBatch, l)
           next == [scan EXCEPT !.left = left, !.step = IF left = <<>> THEN "done" ELSE "rows"]
<1>1. /\ BackupTypes /\ scan \in ScanRecord /\ engine = "redis" /\ scan.step = "rows"
      /\ dump \in Seq(DumpRows) /\ l \in Seq(Ids)
  BY DEF BackupInv, BackupTypes, KeysRead, ScanRecord
<1>2. Reads(RowsOf(ks), next)
  BY DEF KeysRead
<1>3. /\ ks \in Seq(Ids) /\ Len(ks) = IF FetchBatch < Len(l) THEN FetchBatch ELSE Len(l)
      /\ \A i \in 1 .. Len(ks) : ks[i] = l[i]
  BY <1>1, BackupConstants, UptoOK
<1>4. /\ left \in Seq(Ids) /\ Len(left) = IF FetchBatch < Len(l) THEN Len(l) - FetchBatch ELSE 0
      /\ \A i \in 1 .. Len(left) : FetchBatch + i \in 1 .. Len(l) /\ left[i] = l[FetchBatch + i]
  BY <1>1, BackupConstants, PastOK
<1> HIDE DEF ks, left, l
<1>5. /\ DOMAIN l = 1 .. Len(l) /\ DOMAIN ks = 1 .. Len(ks) /\ DOMAIN left = 1 .. Len(left)
      /\ Len(l) \in Nat /\ FetchBatch \in Nat \ {0} /\ Len(ks) \in Nat /\ Len(left) \in Nat
      /\ Len(ks) <= Len(l) /\ Len(ks) <= FetchBatch
  BY <1>1, <1>3, <1>4, BackupConstants
<1>6. next \in ScanRecord
  BY <1>1, <1>4 DEF ScanRecord
<1>16. next.left = left /\ next.step = IF left = <<>> THEN "done" ELSE "rows"
  BY <1>1, <1>4 DEF ScanRecord
<1> HIDE DEF next
<1>7. BackupTypes' /\ WholeBackup' /\ Restored'
  BY <1>1, <1>2, <1>3, <1>6, ReadsOK
<1>8. /\ UNCHANGED <<engine, origin, steady, deleted>> /\ dump' = dump \o RowsOf(ks) /\ scan' = next
  BY <1>2 DEF Reads
<1>9. \A i \in DOMAIN dump' :
        \/ i \in DOMAIN dump /\ dump'[i] = dump[i]
        \/ \E j \in DOMAIN ks : i = Len(dump) + j /\ dump'[i] = [key |-> ks[j], content |-> origin[ks[j]]]
  BY <1>1, <1>3, <1>8, ReadsFacts
<1>10. /\ \A i, j \in DOMAIN dump : dump[i].key = dump[j].key => i = j
       /\ \A i, j \in DOMAIN l : l[i] = l[j] => i = j
       /\ \A i \in DOMAIN dump, j \in DOMAIN l : dump[i].key # l[j]
  BY <1>1 DEF BackupInv, KeysOnce, l
<1>11. \A j \in DOMAIN ks : j \in DOMAIN l /\ ks[j] = l[j]
  BY <1>3, <1>5
<1>12. \A j \in DOMAIN left : FetchBatch + j \in DOMAIN l /\ left[j] = l[FetchBatch + j]
  BY <1>4, <1>5
<1>13. KeysOnce'
  <2>1. ASSUME NEW i \in DOMAIN dump', NEW j \in DOMAIN dump', dump'[i].key = dump'[j].key PROVE i = j
    <3>1. Len(dump) \in Nat /\ DOMAIN dump = 1 .. Len(dump)
      BY <1>1
    <3>2. CASE i \in DOMAIN dump /\ dump'[i] = dump[i]
      BY <1>9, <1>10, <1>11, <2>1, <3>2
    <3>3. CASE j \in DOMAIN dump /\ dump'[j] = dump[j]
      BY <1>9, <1>10, <1>11, <2>1, <3>3
    <3>4. CASE /\ \E a \in DOMAIN ks : i = Len(dump) + a /\ dump'[i] = [key |-> ks[a], content |-> origin[ks[a]]]
               /\ \E b \in DOMAIN ks : j = Len(dump) + b /\ dump'[j] = [key |-> ks[b], content |-> origin[ks[b]]]
      BY <1>10, <1>11, <2>1, <3>4
    <3> QED BY <1>9, <3>2, <3>3, <3>4
  <2>2. \A i, j \in DOMAIN left : left[i] = left[j] => i = j
    <3> SUFFICES ASSUME NEW i \in DOMAIN left, NEW j \in DOMAIN left, left[i] = left[j] PROVE i = j
      OBVIOUS
    <3>1. FetchBatch + i = FetchBatch + j
      BY <1>10, <1>12
    <3> QED BY <1>5, <3>1
  <2>3. ASSUME NEW i \in DOMAIN dump', NEW j \in DOMAIN left PROVE dump'[i].key # left[j]
    <3>1. CASE i \in DOMAIN dump /\ dump'[i] = dump[i]
      BY <1>10, <1>12, <3>1
    <3>2. CASE \E a \in DOMAIN ks : i = Len(dump) + a /\ dump'[i] = [key |-> ks[a], content |-> origin[ks[a]]]
      <4>1. PICK a \in DOMAIN ks : dump'[i] = [key |-> ks[a], content |-> origin[ks[a]]]
        BY <3>2
      <4>2. a # FetchBatch + j
        BY <1>5
      <4> QED BY <1>10, <1>11, <1>12, <4>1, <4>2
    <3> QED BY <1>9, <3>1, <3>2
  <2>4. scan'.left = left /\ scan'.step # "keys"
    BY <1>8, <1>16
  <2> QED BY <2>1, <2>2, <2>3, <2>4 DEF KeysOnce
<1>14. RowsFilled'
  <2>1. ~deleted => /\ \A i \in DOMAIN dump : dump[i].content # "gone"
                    /\ \A j \in DOMAIN l : origin[l[j]] # "gone"
    BY <1>1 DEF BackupInv, RowsFilled, l
  <2>2. ~deleted => \A i \in DOMAIN dump' : dump'[i].content # "gone"
    BY <1>9, <1>11, <2>1
  <2>3. ~deleted => \A j \in DOMAIN left : origin[left[j]] # "gone"
    BY <1>12, <2>1
  <2> QED BY <1>1, <1>8, <1>16, <2>2, <2>3 DEF RowsFilled
<1>15. StayersRead'
  <2> SUFFICES ASSUME NEW k \in Ids, Stays(k)' PROVE InDump(k)' \/ Ahead(k)'
    BY DEF StayersRead
  <2>1. Stays(k) /\ (InDump(k) \/ Ahead(k))
    BY <1>1, <1>8 DEF BackupInv, StayersRead, Stays
  <2>2. CASE InDump(k)
    BY <1>1, <1>3, <1>8, <2>2, ReadsFacts DEF InDump
  <2>3. CASE k \in Range(ks)
    BY <1>1, <1>3, <1>8, <2>3, ReadsFacts DEF InDump
  <2>4. CASE Ahead(k) /\ k \notin Range(ks)
    <3>1. PICK i \in DOMAIN l : l[i] = k
      BY <1>1, <2>4 DEF Ahead, Range, l
    <3>2. i \notin DOMAIN ks
      BY <1>11, <2>4, <3>1 DEF Range
    <3> DEFINE j == i - FetchBatch
    <3>3. j \in DOMAIN left /\ FetchBatch + j = i
      <4>1. i \in 1 .. Len(l) /\ ~(i \in 1 .. Len(ks))
        BY <1>5, <3>2
      <4>2. FetchBatch < Len(l) /\ Len(ks) = FetchBatch /\ Len(left) = Len(l) - FetchBatch
        BY <1>3, <1>4, <1>5, <4>1
      <4>3. j \in 1 .. Len(left) /\ FetchBatch + j = i
        BY <1>5, <4>1, <4>2
      <4> QED BY <1>5, <4>3
    <3> HIDE DEF j
    <3>4. left[j] = k
      BY <1>12, <3>1, <3>3
    <3>5. k \in Range(left) /\ left # <<>>
      BY <3>3, <3>4 DEF Range
    <3>6. scan'.step = "rows" /\ scan'.left = left /\ engine' = "redis"
      BY <1>1, <1>8, <1>16, <3>5
    <3> QED BY <3>5, <3>6 DEF Ahead
  <2> QED BY <2>1, <2>2, <2>3, <2>4
<1> QED BY <1>7, <1>13, <1>14, <1>15 DEF BackupInv
------------------------------------------------------------------------------
(***************************************************************************)
(* Restores.                                                               *)
(***************************************************************************)

\* A restore leaves the backup as it is.
LEMMA RestoreKeeps ==
  ASSUME BackupInv, UNCHANGED restoreStays, target' \in TargetRecord, write' \in WriteRecord,
         failures' \in 0 .. MaxFailures, scan.step = "done", WholeBackup', Restored'
  PROVE  BackupInv'
<1>1. UNCHANGED <<engine, origin, dump, scan, rowChanges, steady, deleted>>
  BY DEF restoreStays
<1>2. BackupTypes'
  BY <1>1 DEF BackupInv, BackupTypes
<1>3. StayersRead'
  <2>1. \A k : (InDump(k)' <=> InDump(k)) /\ (Ahead(k)' <=> Ahead(k)) /\ (Stays(k)' <=> Stays(k))
    BY <1>1 DEF InDump, Ahead, Stays, Kept, KeyRank
  <2> QED BY <1>1, <2>1 DEF BackupInv, StayersRead
<1> QED BY <1>1, <1>2, <1>3 DEF BackupInv, KeysOnce, RowsFilled

\* What a restore works with.
LEMMA RestoreFacts ==
  ASSUME BackupInv, write.step # "idle" \/ scan.step = "done"
  PROVE  /\ scan.step = "done" /\ dump \in Seq(DumpRows) /\ Len(dump) \in Nat /\ DOMAIN dump = 1 .. Len(dump)
         /\ write \in WriteRecord /\ write.at \in Nat /\ write.at <= Len(dump) /\ write.tries \in Nat
         /\ target \in TargetRecord /\ target.rows \in [Ids -> Held] /\ target.more \in [Ids -> Nat]
         /\ failures \in 0 .. MaxFailures
         /\ \A i \in 1 .. Len(dump) : dump[i] \in DumpRows /\ dump[i].key \in Ids /\ dump[i].content \in Held
<1>1. scan.step = "done"
  BY DEF BackupInv, WholeBackup
<1>2. dump \in Seq(DumpRows) /\ Len(dump) \in Nat /\ DOMAIN dump = 1 .. Len(dump)
  BY DEF BackupInv, BackupTypes
<1>3. write \in WriteRecord /\ target \in TargetRecord /\ failures \in 0 .. MaxFailures
  BY DEF BackupInv, BackupTypes
<1>4. write.at \in Nat /\ write.tries \in Nat /\ write.at <= Len(dump)
  BY <1>2, <1>3 DEF BackupInv, WholeBackup, WriteRecord
<1>5. target.rows \in [Ids -> Held] /\ target.more \in [Ids -> Nat]
  BY <1>3 DEF TargetRecord
<1>6. \A i \in 1 .. Len(dump) : dump[i] \in DumpRows
  BY <1>2
<1>7. \A r \in DumpRows : r.key \in Ids /\ r.content \in Held
  BY DEF DumpRows
<1> QED BY <1>1, <1>2, <1>3, <1>4, <1>5, <1>6, <1>7

LEMMA RestoreBeginsOK == BackupInv /\ RestoreBegins => BackupInv'
<1> SUFFICES ASSUME BackupInv, RestoreBegins PROVE BackupInv'
  OBVIOUS
<1>1. /\ scan.step = "done" /\ write' = [step |-> "rows", at |-> 0, tries |-> write.tries + 1, lost |-> FALSE]
      /\ UNCHANGED <<restoreStays, target, failures>>
  BY DEF RestoreBegins
<1>2. UNCHANGED <<engine, origin, dump, scan, rowChanges, steady, deleted>>
  BY <1>1 DEF restoreStays
<1>3. write' \in WriteRecord /\ write'.at = 0 /\ write'.step = "rows" /\ write'.lost = FALSE
  BY <1>1, RestoreFacts DEF WriteRecord
<1>4. WholeBackup' /\ Restored'
  BY <1>1, <1>2, <1>3, RestoreFacts DEF WholeBackup, Restored
<1> QED BY <1>1, <1>3, <1>4, RestoreFacts, RestoreKeeps

LEMMA RestoreEndsOK == BackupInv /\ RestoreEnds => BackupInv'
<1> SUFFICES ASSUME BackupInv, RestoreEnds PROVE BackupInv'
  OBVIOUS
<1>1. /\ write.step = "rows" /\ write.at = Len(dump) /\ write' = [write EXCEPT !.step = "ok"]
      /\ UNCHANGED <<restoreStays, target, failures>> /\ scan.step = "done"
  BY RestoreFacts DEF RestoreEnds
<1>2. UNCHANGED <<engine, origin, dump, scan, rowChanges, steady, deleted>>
  BY <1>1 DEF restoreStays
<1>3. write' \in WriteRecord /\ write'.at = write.at /\ write'.step = "ok" /\ write'.lost = write.lost
  BY <1>1, RestoreFacts DEF WriteRecord
<1>4. WholeBackup' /\ Restored'
  BY <1>1, <1>2, <1>3, RestoreFacts DEF BackupInv, WholeBackup, Restored
<1> QED BY <1>1, <1>3, <1>4, RestoreFacts, RestoreKeeps

\* A statement that fails ends the restore, for now.
LEMMA RestoreFailsOK ==
  ASSUME BackupInv, RestoreFails, UNCHANGED restoreStays, failures' \in 0 .. MaxFailures, scan.step = "done"
  PROVE  BackupInv'
<1>1. write' = [write EXCEPT !.step = "failed"] /\ target' = target
  BY DEF RestoreFails
<1>2. UNCHANGED <<engine, origin, dump, scan, rowChanges, steady, deleted>>
  BY DEF restoreStays
<1>3. write' \in WriteRecord /\ write'.at = write.at /\ write'.step = "failed" /\ write'.lost = write.lost
  BY <1>1, RestoreFacts DEF WriteRecord
<1>4. WholeBackup' /\ Restored'
  BY <1>1, <1>2, <1>3, RestoreFacts DEF BackupInv, WholeBackup, Restored
<1> QED BY <1>1, <1>3, <1>4, RestoreFacts, RestoreKeeps

LEMMA StatementFailsOK == BackupInv /\ (StatementFails \/ GetDbFails) => BackupInv'
<1> SUFFICES ASSUME BackupInv, StatementFails \/ GetDbFails PROVE BackupInv'
  OBVIOUS
<1>1. /\ write.step # "idle" /\ RestoreFails /\ UNCHANGED restoreStays
      /\ failures < MaxFailures /\ failures' = failures + 1
  BY DEF StatementFails, GetDbFails, Fault, ABatchIsLeft
<1>2. scan.step = "done" /\ failures \in 0 .. MaxFailures
  BY <1>1, RestoreFacts
<1>3. failures' \in 0 .. MaxFailures
  BY <1>1, <1>2, BackupConstants
<1> QED BY <1>1, <1>2, <1>3, RestoreFailsOK

\* A batch of rows for SQL: what it writes is there, what was there stays.
LEMMA BatchInsertsOK == BackupInv /\ BatchInserts => BackupInv'
<1> SUFFICES ASSUME BackupInv, BatchInserts PROVE BackupInv'
  OBVIOUS
<1> DEFINE rows == Upto(RestoreBatch, Past(write.at, dump))
           ks == {rows[i].key : i \in DOMAIN rows}
           new == [k \in Ids |-> IF k \in ks THEN (CHOOSE r \in Range(rows) : r.key = k).content
                                 ELSE target.rows[k]]
           more == [k \in Ids |-> IF k \in ks /\ target.rows[k] # "gone" THEN target.more[k] + 1
                                  ELSE target.more[k]]
<1>1. engine = "sql" /\ write.step = "rows" /\ write.at < Len(dump) /\ UNCHANGED <<restoreStays, failures>>
  BY DEF BatchInserts, ABatchIsLeft
<1>2. UNCHANGED <<engine, origin, dump, scan, rowChanges, steady, deleted>>
  BY <1>1 DEF restoreStays
<1>3. CASE RestoreFails
  BY <1>1, <1>3, RestoreFacts, RestoreFailsOK
<1>4. CASE /\ target' = [target EXCEPT !.rows = new, !.more = more]
           /\ write' = [write EXCEPT !.at = @ + Len(rows)]
  <2>1. /\ Past(write.at, dump) \in Seq(DumpRows) /\ Len(Past(write.at, dump)) = Len(dump) - write.at
        /\ \A i \in 1 .. Len(Past(write.at, dump)) : Past(write.at, dump)[i] = dump[write.at + i]
    BY <1>1, RestoreFacts, PastOK
  <2>2. /\ rows \in Seq(DumpRows) /\ Len(rows) <= Len(dump) - write.at /\ Len(rows) \in Nat
        /\ \A i \in 1 .. Len(rows) : rows[i] = dump[write.at + i]
    <3> DEFINE past == Past(write.at, dump)
    <3>1. past \in Seq(DumpRows) /\ Len(past) \in Nat
      BY <2>1
    <3> HIDE DEF past
    <3>2. /\ Upto(RestoreBatch, past) \in Seq(DumpRows)
          /\ Len(Upto(RestoreBatch, past)) = IF RestoreBatch < Len(past) THEN RestoreBatch ELSE Len(past)
          /\ \A i \in 1 .. Len(Upto(RestoreBatch, past)) : Upto(RestoreBatch, past)[i] = past[i]
      BY <3>1, BackupConstants, UptoOK
    <3> DEFINE upto == Upto(RestoreBatch, past)
    <3> HIDE DEF upto
    <3>3. Len(upto) <= Len(past) /\ Len(upto) \in Nat
      BY <3>1, <3>2, BackupConstants DEF upto
    <3>4. \A i \in 1 .. Len(upto) : i \in 1 .. Len(past) /\ upto[i] = past[i]
      BY <3>1, <3>2, <3>3 DEF upto
    <3> QED BY <2>1, <3>2, <3>3, <3>4 DEF upto, past
  <2> HIDE DEF rows
  <2>3. ASSUME NEW i \in 1 .. Len(rows)
        PROVE  rows[i].key \in Ids /\ rows[i].content \in Held /\ rows[i].content # "gone"
    <3>1. write.at + i \in 1 .. Len(dump) /\ rows[i] = dump[write.at + i]
      BY <1>1, <2>2, RestoreFacts
    <3>2. dump[write.at + i].content # "gone"
      BY <1>1, <3>1, RestoreFacts DEF BackupInv, RowsFilled
    <3> QED BY <1>1, <3>1, <3>2, RestoreFacts
  <2>4. DOMAIN rows = 1 .. Len(rows)
    BY <2>2
  <2>5. ASSUME NEW k \in ks PROVE LET r == CHOOSE r \in Range(rows) : r.key = k
                                  IN  r.content \in Held /\ r.content # "gone"
    <3>1. \E r \in Range(rows) : r.key = k
      BY DEF Range
    <3>2. \A r \in Range(rows) : r.content \in Held /\ r.content # "gone"
      BY <2>3, <2>4 DEF Range
    <3> QED BY <3>1, <3>2
  <2>6. new \in [Ids -> Held] /\ more \in [Ids -> Nat]
    <3>1. \A k \in Ids : target.rows[k] \in Held /\ target.more[k] \in Nat
      BY <1>1, RestoreFacts
    <3> QED BY <2>5, <3>1
  <2>7. \A k \in Ids : k \in ks \/ target.rows[k] # "gone" => new[k] # "gone"
    BY <2>5
  <2> HIDE DEF new, more
  <2>8. target' \in TargetRecord /\ target'.rows = new
    BY <1>1, <1>4, <2>6, RestoreFacts DEF TargetRecord
  <2>9. /\ write' \in WriteRecord /\ write'.at = write.at + Len(rows)
        /\ write'.step = "rows" /\ write'.lost = write.lost
    <3>1. write \in WriteRecord /\ write.step = "rows"
      BY <1>1, RestoreFacts
    <3>2. write.at + Len(rows) \in Nat
      BY <1>1, <2>2, RestoreFacts
    <3> QED BY <1>4, <3>1, <3>2 DEF WriteRecord
  <2>10. WholeBackup'
    BY <1>1, <1>2, <2>2, <2>9, RestoreFacts DEF BackupInv, WholeBackup
  <2>11. Restored'
    <3> SUFFICES ASSUME NEW i \in 1 .. write'.at PROVE new[dump[i].key] # "gone"
      BY <1>1, <1>2, <2>8 DEF Restored
    <3>1. i \in 1 .. Len(dump) /\ dump[i].key \in Ids
      BY <1>1, <2>2, <2>9, RestoreFacts
    <3>2. CASE i <= write.at
      <4>1. target.rows[dump[i].key] # "gone"
        BY <1>1, <3>1, <3>2, RestoreFacts DEF BackupInv, WholeBackup, RowsFilled, Restored
      <4> QED BY <2>7, <3>1, <4>1
    <3>3. CASE i > write.at
      <4> DEFINE j == i - write.at
      <4>1. j \in 1 .. Len(rows) /\ write.at + j = i
        BY <1>1, <2>2, <2>9, <3>3, RestoreFacts
      <4> HIDE DEF j
      <4>2. dump[i].key \in ks
        BY <2>2, <2>4, <4>1
      <4> QED BY <2>7, <3>1, <4>2
    <3> QED BY <1>1, <3>1, <3>2, <3>3, RestoreFacts
  <2> QED BY <1>1, <2>8, <2>9, <2>10, <2>11, RestoreFacts, RestoreKeeps
<1> QED BY <1>3, <1>4 DEF BatchInserts

\* MongoDB: every key that is not taken.
LEMMA ManyInsertsOK == BackupInv /\ ManyInserts => BackupInv'
<1> SUFFICES ASSUME BackupInv, ManyInserts PROVE BackupInv'
  OBVIOUS
<1> DEFINE rows == {r \in Range(dump) : target.rows[r.key] = "gone"}
           new == [k \in Ids |-> IF \E r \in rows : r.key = k
                                 THEN (CHOOSE r \in rows : r.key = k).content ELSE target.rows[k]]
<1>1. /\ engine = "mongodb" /\ write.step = "rows" /\ UNCHANGED <<restoreStays, failures>>
      /\ target' = [target EXCEPT !.rows = new] /\ write' = [write EXCEPT !.at = Len(dump)]
  BY DEF ManyInserts, ABatchIsLeft, Inserts, Missing
<1>2. UNCHANGED <<engine, origin, dump, scan, rowChanges, steady, deleted>>
  BY <1>1 DEF restoreStays
<1>3. \A r \in rows : r.content \in Held /\ r.content # "gone"
  <2>1. \A i \in 1 .. Len(dump) : dump[i].content \in Held /\ dump[i].content # "gone"
    BY <1>1, RestoreFacts DEF BackupInv, RowsFilled
  <2> QED BY <1>1, <2>1, RestoreFacts DEF Range
<1>4. new \in [Ids -> Held]
  <2>1. \A k \in Ids : target.rows[k] \in Held
    BY <1>1, RestoreFacts
  <2> HIDE DEF rows
  <2> QED BY <1>3, <2>1
<1>5. \A i \in 1 .. Len(dump) : new[dump[i].key] # "gone"
  <2> SUFFICES ASSUME NEW i \in 1 .. Len(dump) PROVE new[dump[i].key] # "gone"
    OBVIOUS
  <2>1. dump[i].key \in Ids /\ dump[i] \in Range(dump)
    BY <1>1, RestoreFacts DEF Range
  <2>2. target.rows[dump[i].key] = "gone" => \E r \in rows : r.key = dump[i].key
    BY <2>1
  <2> HIDE DEF rows
  <2> QED BY <1>3, <2>1, <2>2
<1> HIDE DEF new
<1>6. target' \in TargetRecord /\ target'.rows = new
  BY <1>1, <1>4, RestoreFacts DEF TargetRecord
<1>7. write' \in WriteRecord /\ write'.at = Len(dump) /\ write'.step = "rows"
  BY <1>1, RestoreFacts DEF WriteRecord
<1>8. WholeBackup' /\ Restored'
  BY <1>1, <1>2, <1>5, <1>6, <1>7, RestoreFacts DEF WholeBackup, Restored
<1> QED BY <1>1, <1>6, <1>7, <1>8, RestoreFacts, RestoreKeeps

\* MongoDB: an error that is swallowed, whichever documents were inserted before it.
LEMMA InsertsAreLostOK == BackupInv /\ InsertsAreLost => BackupInv'
<1> SUFFICES ASSUME BackupInv, InsertsAreLost PROVE BackupInv'
  OBVIOUS
<1>1. PICK rows \in SUBSET Missing : Inserts(rows)
  BY DEF InsertsAreLost
<1> DEFINE new == [k \in Ids |-> IF \E r \in rows : r.key = k
                                 THEN (CHOOSE r \in rows : r.key = k).content ELSE target.rows[k]]
<1>2. /\ engine = "mongodb" /\ write.step = "rows" /\ UNCHANGED restoreStays
      /\ failures < MaxFailures /\ failures' = failures + 1
      /\ target' = [target EXCEPT !.rows = new]
      /\ write' = [write EXCEPT !.at = Len(dump), !.lost = TRUE]
  BY <1>1 DEF InsertsAreLost, ABatchIsLeft, Fault, Inserts
<1>3. UNCHANGED <<engine, origin, dump, scan, rowChanges, steady, deleted>>
  BY <1>2 DEF restoreStays
<1>4. \A r \in rows : r.content \in Held
  <2>1. \A r \in rows : r \in Range(dump)
    BY DEF Missing
  <2> QED BY <1>2, <2>1, RestoreFacts DEF Range
<1>5. new \in [Ids -> Held]
  <2>1. \A k \in Ids : target.rows[k] \in Held
    BY <1>2, RestoreFacts
  <2> QED BY <1>4, <2>1
<1> HIDE DEF new
<1>6. target' \in TargetRecord
  BY <1>2, <1>5, RestoreFacts DEF TargetRecord
<1>7. /\ write' \in WriteRecord /\ write'.at = Len(dump)
      /\ write'.step = "rows" /\ write'.lost = TRUE
  BY <1>2, RestoreFacts DEF WriteRecord
<1>8. WholeBackup' /\ Restored'
  BY <1>2, <1>3, <1>7, RestoreFacts DEF WholeBackup, Restored
<1>9. failures' \in 0 .. MaxFailures
  BY <1>2, RestoreFacts, BackupConstants
<1> QED BY <1>2, <1>6, <1>7, <1>8, <1>9, RestoreFacts, RestoreKeeps

\* Redis: a key is deleted and set, and no other row of the backup has it.
LEMMA KeyDeletesOK == BackupInv /\ KeyDeletes => BackupInv'
<1> SUFFICES ASSUME BackupInv, KeyDeletes PROVE BackupInv'
  OBVIOUS
<1> DEFINE n == write.at + 1
           new == [target.rows EXCEPT ![dump[n].key] = "gone"]
<1>1. /\ engine = "redis" /\ write.step = "rows" /\ write.at < Len(dump) /\ UNCHANGED <<restoreStays, failures>>
      /\ target' = [target EXCEPT !.rows = new] /\ write' = [write EXCEPT !.step = "set"]
  BY DEF KeyDeletes, ABatchIsLeft
<1>2. UNCHANGED <<engine, origin, dump, scan, rowChanges, steady, deleted>>
  BY <1>1 DEF restoreStays
<1>3. n \in 1 .. Len(dump) /\ dump[n].key \in Ids
  BY <1>1, RestoreFacts
<1>4. new \in [Ids -> Held] /\ new[dump[n].key] = "gone"
      /\ \A k \in Ids : k # dump[n].key => new[k] = target.rows[k]
  BY <1>1, <1>3, RestoreFacts DEF Held
<1> HIDE DEF new
<1>5. target' \in TargetRecord /\ target'.rows = new
  BY <1>1, <1>4, RestoreFacts DEF TargetRecord
<1>6. write' \in WriteRecord /\ write'.at = write.at /\ write'.step = "set" /\ write'.lost = write.lost
  BY <1>1, RestoreFacts DEF WriteRecord
<1>7. WholeBackup'
  BY <1>1, <1>2, <1>4, <1>5, <1>6, RestoreFacts DEF BackupInv, WholeBackup
<1>8. Restored'
  <2> SUFFICES ASSUME NEW i \in 1 .. write.at
               PROVE  /\ dump[i].content # "gone" => new[dump[i].key] # "gone"
                      /\ ~deleted => new[dump[i].key] = dump[i].content
    BY <1>1, <1>2, <1>5, <1>6 DEF Restored
  <2>1. i \in 1 .. Len(dump) /\ i # n /\ dump[i].key \in Ids
    BY <1>1, RestoreFacts
  <2>2. dump[i].key # dump[n].key
    BY <1>1, <1>3, <2>1, RestoreFacts DEF BackupInv, KeysOnce
  <2>3. new[dump[i].key] = target.rows[dump[i].key]
    BY <1>4, <2>1, <2>2
  <2> QED BY <1>1, <2>3 DEF BackupInv, WholeBackup, Restored
<1> QED BY <1>1, <1>5, <1>6, <1>7, <1>8, RestoreFacts, RestoreKeeps

LEMMA KeySetsOK == BackupInv /\ KeySets => BackupInv'
<1> SUFFICES ASSUME BackupInv, KeySets PROVE BackupInv'
  OBVIOUS
<1> DEFINE n == write.at + 1
<1>10. PICK text \in Sets(dump[n].content) : target' = [target EXCEPT !.rows[dump[n].key] = text]
  BY DEF KeySets
<1> DEFINE new == [target.rows EXCEPT ![dump[n].key] = text]
<1>1. /\ write.step = "set" /\ UNCHANGED <<restoreStays, failures>>
      /\ target' = [target EXCEPT !.rows = new] /\ write' = [write EXCEPT !.step = "rows", !.at = @ + 1]
  BY <1>10 DEF KeySets
<1>2. UNCHANGED <<engine, origin, dump, scan, rowChanges, steady, deleted>>
  BY <1>1 DEF restoreStays
<1>3. engine = "redis" /\ n \in 1 .. Len(dump) /\ dump[n].key \in Ids /\ dump[n].content \in Held
  <2>1. engine = "redis" /\ write.at < Len(dump)
    BY <1>1 DEF BackupInv, WholeBackup
  <2>2. n \in 1 .. Len(dump)
    BY <1>1, <2>1, RestoreFacts
  <2> QED BY <1>1, <2>1, <2>2, RestoreFacts
<1>9. text \in Held /\ (dump[n].content # "gone" => text # "gone") /\ (~deleted => text = dump[n].content)
  <2>1. ~deleted => dump[n].content # "gone"
    BY <1>1, <1>3, RestoreFacts DEF BackupInv, RowsFilled
  <2> QED BY <1>3, <1>10, <2>1 DEF Held, Sets
<1>4. /\ new \in [Ids -> Held] /\ new[dump[n].key] = text
      /\ \A k \in Ids : k # dump[n].key => new[k] = target.rows[k]
  BY <1>1, <1>3, <1>9, RestoreFacts
<1> HIDE DEF new
<1>5. target' \in TargetRecord /\ target'.rows = new
  BY <1>1, <1>4, RestoreFacts DEF TargetRecord
<1>6. write' \in WriteRecord /\ write'.at = n /\ write'.step = "rows" /\ write'.lost = write.lost
  <2>1. write \in WriteRecord /\ n \in Nat
    BY <1>1, RestoreFacts
  <2> HIDE DEF n
  <2>2. write' = [write EXCEPT !.step = "rows", !.at = n]
    BY <1>1 DEF n
  <2> QED BY <2>1, <2>2 DEF WriteRecord
<1>7. WholeBackup'
  BY <1>2, <1>3, <1>6, <1>1, RestoreFacts DEF BackupInv, WholeBackup
<1>8. Restored'
  <2> SUFFICES ASSUME NEW i \in 1 .. n
               PROVE  /\ dump[i].content # "gone" => new[dump[i].key] # "gone"
                      /\ ~deleted => new[dump[i].key] = dump[i].content
    BY <1>1, <1>2, <1>3, <1>5, <1>6 DEF Restored
  <2>1. CASE i = n
    BY <1>4, <1>9, <2>1
  <2>2. CASE i # n
    <3>1. i \in 1 .. write.at /\ i \in 1 .. Len(dump) /\ dump[i].key \in Ids
      BY <1>1, <1>3, <2>2, RestoreFacts
    <3>2. dump[i].key # dump[n].key
      BY <1>1, <1>3, <2>2, <3>1, RestoreFacts DEF BackupInv, KeysOnce
    <3>3. new[dump[i].key] = target.rows[dump[i].key]
      BY <1>4, <3>1, <3>2
    <3> QED BY <1>1, <1>3, <3>1, <3>3 DEF BackupInv, WholeBackup, Restored
  <2> QED BY <2>1, <2>2
<1> QED BY <1>1, <1>5, <1>6, <1>7, <1>8, RestoreFacts, RestoreKeeps
------------------------------------------------------------------------------
\* What backup and restore promise follows.
LEMMA BackupInvSuffices == BackupInv => BackupSafe
<1> SUFFICES ASSUME BackupInv PROVE BackupSafe
  OBVIOUS
<1>1. BackupTypeOK
  <2>1. /\ write \in WriteRecord /\ target \in TargetRecord /\ scan \in ScanRecord /\ dump \in Seq(DumpRows)
    BY DEF BackupInv, BackupTypes
  <2>2. write.at \in 0 .. Len(dump) /\ \A k \in Ids : target.more[k] \in Nat
    BY <2>1 DEF BackupInv, WholeBackup, WriteRecord, TargetRecord
  <2> QED BY <2>1, <2>2 DEF BackupInv, BackupTypes, WholeBackup, BackupTypeOK, WriteRecord, TargetRecord, ScanRecord
<1>2. StayersBackedUp
  <2> SUFFICES ASSUME scan.step = "done", engine = "sql" => ~deleted, NEW k \in steady \intersect Kept(origin)
               PROVE  InDump(k)
    BY DEF StayersBackedUp, InDump
  <2>1. k \in Ids /\ Stays(k)
    BY DEF Stays, Kept
  <2>2. ~Ahead(k)
    BY DEF Ahead
  <2> QED BY <2>1, <2>2 DEF BackupInv, StayersRead
<1>3. RestoreIsWhole
  <2> SUFFICES ASSUME write.step = "ok", ~write.lost, NEW r \in Range(dump)
               PROVE  /\ r.content # "gone" => target.rows[r.key] # "gone"
                      /\ engine = "redis" /\ ~deleted => target.rows[r.key] = r.content
    BY DEF RestoreIsWhole
  <2>1. PICK i \in 1 .. write.at : r = dump[i]
    BY RestoreFacts DEF BackupInv, WholeBackup, Range
  <2> QED BY <2>1 DEF BackupInv, Restored
<1> QED BY <1>1, <1>2, <1>3 DEF BackupSafe

(***************************************************************************)
(* Of every table, engine, page and batch size, whatever others write      *)
(* meanwhile and whichever statements fail: a backup holds the rows that   *)
(* were there all the time, and a restore that says it succeeded has left  *)
(* none of the backup's rows out, unless it is one of MongoDB in which an  *)
(* error was swallowed (backup and restore of the adapters); one more that *)
(* meets no error then puts what was lost.                                 *)
(***************************************************************************)
THEOREM BackupKept == BackupSpec => []BackupSafe
<1>1. BackupInit => BackupInv
  BY BackupInitOK
<1>2. BackupInv /\ [BackupNext]_backupVars => BackupInv'
  <2> SUFFICES ASSUME BackupInv, [BackupNext]_backupVars PROVE BackupInv'
    OBVIOUS
  <2>1. CASE UNCHANGED backupVars
    <3>1. UNCHANGED <<engine, origin, dump, scan, target, write, rowChanges, failures, steady, deleted>>
      BY <2>1 DEF backupVars
    <3>2. \A k : (InDump(k)' <=> InDump(k)) /\ (Ahead(k)' <=> Ahead(k)) /\ (Stays(k)' <=> Stays(k))
      BY <3>1 DEF InDump, Ahead, Stays, Kept, KeyRank
    <3> QED BY <3>1, <3>2 DEF BackupInv, BackupTypes, WholeBackup, StayersRead, KeysOnce, RowsFilled, Restored
  <2> QED BY <2>1, ChangesOK, PageReadsOK, CursorReadsOK, ScanReadsOK, KeysReadOK, RestoreBeginsOK, RestoreEndsOK,
         StatementFailsOK, BatchInsertsOK, ManyInsertsOK, InsertsAreLostOK, KeyDeletesOK, KeySetsOK DEF BackupNext
<1>3. BackupInv => BackupSafe
  BY BackupInvSuffices
<1> QED BY <1>1, <1>2, <1>3, PTL DEF BackupSpec
===============================================================================
