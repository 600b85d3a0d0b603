--------------------------- MODULE WatchRun_proofs ---------------------------
(***************************************************************************)
(* Theorems about WatchRun, for every set of keys, of hooks and of callers, *)
(* every column and every number of calls and faults.  First types and the  *)
(* rows that are passed; then what is sent: the sequences number it, the    *)
(* scheduler keeps up with it, every row is sent once, and a start from now *)
(* sends none of the rows it finds.                                         *)
(***************************************************************************)
EXTENDS WatchRun, FiniteSetTheorems, SequenceTheorems, WellFoundedInduction, TLAPS

(***************************************************************************)
(* Data: least and greatest elements, and the rows a poll keeps.            *)
(***************************************************************************)

\* A set of naturals has a least element: what stands for induction below.
LEMMA LeastOf ==
  ASSUME NEW T, T \subseteq Nat, T # {}
  PROVE  \E m \in T : \A n \in T : m <= n
<1> DEFINE R == OpToRel(<, Nat)
<1>1. IsWellFoundedOn(R, Nat)
  BY NatLessThanWellFounded
<1>2. \A m, n \in Nat : n < m => <<n, m>> \in R
  BY DEF OpToRel
<1> HIDE DEF R
<1>3. PICK m \in T : \A n \in T : ~(<<n, m>> \in R)
  BY <1>1, WFMin
<1>4. \A n \in T : ~(n < m)
  BY <1>2, <1>3
<1> QED BY <1>4

\* Max of a bounded set of naturals.
LEMMA MaxOf ==
  ASSUME NEW S, S \subseteq Nat, S # {}, NEW n \in Nat, \A x \in S : x <= n
  PROVE  Max(S) \in S /\ \A x \in S : x <= Max(S)
<1> DEFINE T == {m \in Nat : \A x \in S : x <= m}
<1>1. PICK m \in T : \A k \in T : m <= k
  BY LeastOf
<1>2. m \in S
  <2>1. CASE m = 0
    <3>1. PICK x \in S : TRUE
      OBVIOUS
    <3>2. x = 0
      BY <1>1, <2>1, <3>1
    <3> QED BY <2>1, <3>2
  <2>2. CASE m # 0 /\ m \notin S
    <3>1. m - 1 \in T
      BY <2>2
    <3> QED BY <3>1, <1>1
  <2> QED BY <2>1, <2>2
<1>3. \E x \in S : \A y \in S : x >= y
  BY <1>1, <1>2
<1> QED BY <1>3 DEF Max

\* The function Without defines, up to index n.
IsKept(f, page, keys, n) ==
  f = [i \in 0 .. n |->
         IF i = 0 THEN <<>>
         ELSE IF page[i] \in keys THEN f[i - 1] ELSE Append(f[i - 1], page[i])]

\* There is such a function: by the least index without one.
LEMMA KeptExists ==
  ASSUME NEW page, NEW keys, NEW n \in Nat
  PROVE  \E f : IsKept(f, page, keys, n)
<1> DEFINE T == {m \in Nat : ~ \E f : IsKept(f, page, keys, m)}
<1> SUFFICES ASSUME T # {} PROVE FALSE
  OBVIOUS
<1>1. PICK m \in T : \A k \in T : m <= k
  BY LeastOf
<1>2. m # 0
  <2> DEFINE g == [i \in 0 .. 0 |-> <<>>]
  <2>1. IsKept(g, page, keys, 0)
    BY DEF IsKept
  <2> QED BY <2>1
<1>3. PICK f : IsKept(f, page, keys, m - 1)
  BY <1>1, <1>2
<1> DEFINE g == [i \in 0 .. m |->
                   IF i < m THEN f[i]
                   ELSE IF page[i] \in keys THEN f[i - 1] ELSE Append(f[i - 1], page[i])]
<1>4. /\ m \in Nat \ {0}
      /\ \A i \in 1 .. m : i - 1 \in 0 .. m - 1 /\ (i < m <=> i \in 1 .. m - 1)
  BY <1>2
<1>5. \A i \in 0 .. m - 1 :
         f[i] = IF i = 0 THEN <<>>
                ELSE IF page[i] \in keys THEN f[i - 1] ELSE Append(f[i - 1], page[i])
  BY <1>3, <1>4 DEF IsKept
<1>6. \A i \in 0 .. m - 1 : g[i] = f[i]
  BY <1>4
<1>7. \A i \in 0 .. m :
         g[i] = IF i = 0 THEN <<>>
                ELSE IF page[i] \in keys THEN g[i - 1] ELSE Append(g[i - 1], page[i])
  <2> SUFFICES ASSUME NEW i \in 0 .. m
               PROVE  g[i] = IF i = 0 THEN <<>>
                             ELSE IF page[i] \in keys THEN g[i - 1]
                                  ELSE Append(g[i - 1], page[i])
    OBVIOUS
  <2>1. CASE i = m
    <3>1. g[m] = IF page[m] \in keys THEN f[m - 1] ELSE Append(f[m - 1], page[m])
      BY <1>4
    <3> HIDE DEF g
    <3> QED BY <1>4, <1>6, <2>1, <3>1
  <2>2. CASE i \in 0 .. m - 1
    <3> HIDE DEF g
    <3>1. i # 0 => i - 1 \in 0 .. m - 1
      BY <1>4, <2>2
    <3> QED BY <1>5, <1>6, <2>2, <3>1
  <2> QED BY <1>4, <2>1, <2>2
<1>8. IsKept(g, page, keys, m)
  <2>1. g = [i \in 0 .. m |-> g[i]]
    OBVIOUS
  <2> HIDE DEF g
  <2> QED BY <1>7, <2>1 DEF IsKept
<1> QED BY <1>8
\* Without is its last value.
LEMMA WithoutKept ==
  ASSUME NEW page, NEW keys, Len(page) \in Nat
  PROVE  \E f : IsKept(f, page, keys, Len(page)) /\ Without(page, keys) = f[Len(page)]
<1>1. \E f : IsKept(f, page, keys, Len(page))
  BY KeptExists
<1> QED BY <1>1 DEF Without, IsKept

\* A sequence of what the first n elements of the page have outside keys, without
\* repetition if the page has none.
IsPart(s, K, page, keys, n) ==
  /\ s \in Seq(K)
  /\ \A j \in 1 .. Len(s) : \E i \in 1 .. n : s[j] = page[i] /\ page[i] \notin keys
  /\ \A i \in 1 .. n : page[i] \notin keys => \E j \in 1 .. Len(s) : s[j] = page[i]
  /\ (\A i, j \in 1 .. n : page[i] = page[j] => i = j)
       => \A i, j \in 1 .. Len(s) : s[i] = s[j] => i = j

\* One more element.
LEMMA PartStep ==
  ASSUME NEW K, NEW page \in Seq(K), NEW keys, NEW m \in 1 .. Len(page), NEW s,
         IsPart(s, K, page, keys, m - 1)
  PROVE  IsPart(IF page[m] \in keys THEN s ELSE Append(s, page[m]), K, page, keys, m)
<1>1. CASE page[m] \in keys
  BY <1>1 DEF IsPart
<1>2. CASE page[m] \notin keys
  <2> DEFINE t == Append(s, page[m])
  <2>1. s \in Seq(K) /\ page[m] \in K
    BY DEF IsPart
  <2>2. /\ t \in Seq(K)
        /\ Len(t) = Len(s) + 1
        /\ Len(s) \in Nat
        /\ \A j \in 1 .. Len(s) : t[j] = s[j]
        /\ t[Len(s) + 1] = page[m]
    BY <2>1
  <2> HIDE DEF t
  <2>3. ASSUME NEW j \in 1 .. Len(t)
        PROVE  \E i \in 1 .. m : t[j] = page[i] /\ page[i] \notin keys
    <3>1. CASE j = Len(s) + 1
      <4>1. m \in 1 .. m
        OBVIOUS
      <4> QED BY <1>2, <2>2, <3>1, <4>1
    <3>2. CASE j \in 1 .. Len(s)
      <4>1. PICK i \in 1 .. m - 1 : s[j] = page[i] /\ page[i] \notin keys
        BY <3>2 DEF IsPart
      <4> QED BY <2>2, <3>2, <4>1
    <3> QED BY <2>2, <3>1, <3>2
  <2>4. ASSUME NEW i \in 1 .. m, page[i] \notin keys
        PROVE  \E j \in 1 .. Len(t) : t[j] = page[i]
    <3>1. CASE i = m
      BY <2>2, <3>1
    <3>2. CASE i \in 1 .. m - 1
      BY <2>2, <2>4, <3>2 DEF IsPart
    <3> QED BY <3>1, <3>2
  <2>5. ASSUME \A i, j \in 1 .. m : page[i] = page[j] => i = j,
               NEW i \in 1 .. Len(t), NEW j \in 1 .. Len(t), t[i] = t[j]
        PROVE  i = j
    <3>1. \A k \in 1 .. Len(s) : s[k] # page[m]
      BY <2>5 DEF IsPart
    <3>2. \A k, l \in 1 .. Len(s) : s[k] = s[l] => k = l
      BY <2>5 DEF IsPart
    <3> QED BY <2>2, <2>5, <3>1, <3>2
  <2>6. IsPart(t, K, page, keys, m)
    BY <2>2, <2>3, <2>4, <2>5 DEF IsPart
  <2> QED BY <1>2, <2>6 DEF t
<1> QED BY <1>1, <1>2

\* What advanceCursor's filter leaves of a page.
LEMMA WithoutParts ==
  ASSUME NEW K, NEW page \in Seq(K), NEW keys
  PROVE  IsPart(Without(page, keys), K, page, keys, Len(page))
<1>1. PICK f : IsKept(f, page, keys, Len(page)) /\ Without(page, keys) = f[Len(page)]
  BY WithoutKept
<1> DEFINE T == {m \in 0 .. Len(page) : ~IsPart(f[m], K, page, keys, m)}
<1> SUFFICES ASSUME T # {} PROVE FALSE
  BY <1>1
<1>2. PICK m \in T : \A k \in T : m <= k
  <2>1. T \subseteq Nat
    OBVIOUS
  <2> HIDE DEF T
  <2> QED BY <2>1, LeastOf
<1>3. IsPart(f[0], K, page, keys, 0)
  <2>1. f[0] = <<>>
    BY <1>1 DEF IsKept
  <2> QED BY <2>1 DEF IsPart
<1>4. m # 0
  BY <1>3
<1>5. IsPart(f[m - 1], K, page, keys, m - 1)
  BY <1>2, <1>4
<1>6. f[m] = IF page[m] \in keys THEN f[m - 1] ELSE Append(f[m - 1], page[m])
  BY <1>1, <1>4 DEF IsKept
<1>7. IsPart(f[m], K, page, keys, m)
  BY <1>4, <1>5, <1>6, PartStep
<1> QED BY <1>7
------------------------------------------------------------------------------
(***************************************************************************)
(* The engine: pages, and where the cursor goes.                            *)
(***************************************************************************)

\* A table whose tracked values are at most n.
TableIn(t, n) ==
  /\ n \in Nat
  /\ DOMAIN t \subseteq Keys
  /\ IsFiniteSet(DOMAIN t)
  /\ \A k \in DOMAIN t : t[k] \in 0 .. n

\* A cursor over a table with values up to n and keys D.
CursorOK(cursor, n, D) ==
  /\ cursor \in Cursor(Keys)
  /\ cursor.at <= n
  /\ cursor.keys \subseteq D
  /\ \A i \in 1 .. Len(cursor.seen) : cursor.seen[i] \in D
  /\ cursor.strategy = "increment" => cursor.keys = {}
  /\ cursor.strategy # "snapshot" => cursor.seen = <<>>

\* A cursor stays one as the table grows.
LEMMA CursorGrows ==
  ASSUME NEW n \in Nat, NEW m \in Nat, n <= m, NEW D, NEW F, D \subseteq F,
         NEW cursor, CursorOK(cursor, n, D)
  PROVE  CursorOK(cursor, m, F)
BY DEF CursorOK, Cursor

LEMMA EmptyCursorOK ==
  ASSUME NEW n \in Nat, NEW D, NEW s \in Strategies
  PROVE  CursorOK(EmptyCursor(s), n, D)
BY DEF CursorOK, EmptyCursor, Cursor, Null

\* A page has the first candidates, each once.
LEMMA PageOK ==
  ASSUME NEW n, NEW t, TableIn(t, n), NEW trigger \in Trigger, NEW cursor,
         NEW page \in Pages(t, trigger, cursor)
  PROVE  /\ page \in Seq(Keys)
         /\ \A i \in 1 .. Len(page) : page[i] \in Candidates(t, trigger, cursor)
         /\ \A i, j \in 1 .. Len(page) : page[i] = page[j] => i = j
         /\ Follows(trigger, cursor) =>
              \A k \in Candidates(t, trigger, cursor), i \in 1 .. Len(page) :
                (\A j \in 1 .. Len(page) : page[j] # k) => ~Precedes(t[k], t[page[i]])
<1> DEFINE rows == Candidates(t, trigger, cursor)
           size == PageSize(trigger, rows)
           Sorted(k, l) == Follows(trigger, cursor) => ~Precedes(t[l], t[k])
<1>1. IsFiniteSet(rows) /\ rows \subseteq Keys
  BY FS_Subset DEF TableIn, Candidates
<1>2. Cardinality(rows) \in Nat
  BY <1>1, FS_CardinalityType
<1>3. size \in Nat
  BY <1>2 DEF PageSize, Trigger
<1>4. /\ page \in [1 .. size -> rows]
      /\ \A i \in DOMAIN page :
           /\ \A j \in DOMAIN page : i < j => page[i] # page[j] /\ Sorted(page[i], page[j])
           /\ \A k \in rows \ Range(page) : Sorted(page[i], k)
  BY DEF Pages
<1> HIDE DEF rows, size
<1>5. page \in Seq(rows) /\ Len(page) = size /\ DOMAIN page = 1 .. size
  BY <1>3, <1>4
<1>6. \A i, j \in 1 .. size : page[i] = page[j] => i = j
  BY <1>3, <1>4, <1>5
<1>7. ASSUME Follows(trigger, cursor), NEW k \in rows, NEW i \in 1 .. size,
             \A j \in 1 .. size : page[j] # k
      PROVE  ~Precedes(t[k], t[page[i]])
  <2>1. k \notin Range(page)
    BY <1>5, <1>7 DEF Range
  <2> QED BY <1>4, <1>5, <1>7, <2>1
<1> QED BY <1>1, <1>4, <1>5, <1>6, <1>7 DEF rows

\* TopOf is the greatest value of a page.
LEMMA TopOK ==
  ASSUME NEW n, NEW t, TableIn(t, n), NEW page \in Seq(DOMAIN t)
  PROVE  /\ TopOf(t, page) \in 0 .. n
         /\ \A i \in 1 .. Len(page) : t[page[i]] <= TopOf(t, page)
         /\ \/ TopOf(t, page) = Null
            \/ \E i \in 1 .. Len(page) : t[page[i]] = TopOf(t, page)
<1> DEFINE S == {t[k] : k \in Range(page)} \union {Null}
<1>1. Range(page) = {page[i] : i \in 1 .. Len(page)}
  BY DEF Range
<1>2. S \subseteq 0 .. n
  BY <1>1 DEF TableIn, Null
<1>3. n \in Nat /\ S # {} /\ S \subseteq Nat /\ \A x \in S : x <= n
  BY <1>2 DEF TableIn
<1>4. \A i \in 1 .. Len(page) : t[page[i]] \in S
  BY <1>1
<1>5. \A x \in S : x = Null \/ \E i \in 1 .. Len(page) : t[page[i]] = x
  BY <1>1
<1>6. TopOf(t, page) = Max(S)
  BY DEF TopOf
<1> HIDE DEF S
<1>7. Max(S) \in S /\ \A x \in S : x <= Max(S)
  BY <1>3, MaxOf
<1> QED BY <1>2, <1>4, <1>5, <1>6, <1>7

\* The new rows are those of the page that were not emitted, each once.
LEMMA NewRowsOK ==
  ASSUME NEW trigger, NEW cursor, NEW page \in Seq(Keys),
         \A i, j \in 1 .. Len(page) : page[i] = page[j] => i = j
  PROVE  LET new  == NewRows(trigger, cursor, page)
             gone == Emitted(trigger, cursor)
         IN  /\ new \in Seq(Keys)
             /\ \A j \in 1 .. Len(new) :
                  new[j] \notin gone /\ \E i \in 1 .. Len(page) : new[j] = page[i]
             /\ \A i \in 1 .. Len(page) : page[i] \notin gone =>
                  \E j \in 1 .. Len(new) : new[j] = page[i]
             /\ \A i, j \in 1 .. Len(new) : new[i] = new[j] => i = j
<1> DEFINE new  == NewRows(trigger, cursor, page)
           gone == Emitted(trigger, cursor)
<1>1. IsPart(new, Keys, page, gone, Len(page))
  BY WithoutParts DEF NewRows
<1> HIDE DEF new, gone
<1>2. /\ new \in Seq(Keys)
      /\ \A j \in 1 .. Len(new) :
           new[j] \notin gone /\ \E i \in 1 .. Len(page) : new[j] = page[i]
      /\ \A i \in 1 .. Len(page) : page[i] \notin gone =>
           \E j \in 1 .. Len(new) : new[j] = page[i]
      /\ \A i, j \in 1 .. Len(new) : new[i] = new[j] => i = j
  BY <1>1 DEF IsPart
<1> QED BY <1>2 DEF new, gone

\* What Newest keeps is in the sequence.
LEMMA NewestOK ==
  ASSUME NEW K, NEW s \in Seq(K), NEW n \in Nat
  PROVE  /\ Newest(s, n) \in Seq(K)
         /\ \A i \in 1 .. Len(Newest(s, n)) : \E j \in 1 .. Len(s) : Newest(s, n)[i] = s[j]
         /\ Len(s) <= n => Newest(s, n) = s
<1> DEFINE m == Len(s) - n + 1
           r == SubSeq(s, m, Len(s))
<1>1. CASE Len(s) <= n
  BY <1>1 DEF Newest
<1>2. CASE Len(s) > n
  <2>1. m \in 1 .. Len(s) + 1 /\ Len(s) - m + 1 = n
    BY <1>2
  <2>2. r \in Seq(K) /\ Len(r) = n /\ \A i \in 1 .. n : r[i] = s[m + i - 1]
    <3> HIDE DEF m
    <3>1. \A i \in m .. Len(s) : s[i] \in K
      BY <2>1
    <3> QED BY <2>1, <3>1, SubSeqProperties
  <2>3. \A i \in 1 .. n : m + i - 1 \in 1 .. Len(s)
    BY <2>1
  <2>4. Newest(s, n) = r
    BY <1>2 DEF Newest
  <2> HIDE DEF m, r
  <2> QED BY <1>2, <2>2, <2>3, <2>4
<1> QED BY <1>1, <1>2

\* The three ways a cursor moves on.
LEMMA NextCases ==
  ASSUME NEW n, NEW t, TableIn(t, n), NEW trigger \in Trigger, NEW cursor,
         CursorOK(cursor, n, DOMAIN t), NEW page \in Pages(t, trigger, cursor)
  PROVE  LET next == NextCursor(t, trigger, cursor, page)
             seen == cursor.seen \o NewRows(trigger, cursor, page)
             top  == TopOf(t, page)
         IN  /\ ~Follows(trigger, cursor) =>
                  /\ next.strategy = "snapshot" /\ next.at = Null /\ next.keys = {}
                  /\ next.seen = IF trigger.strategy = "snapshot"
                                 THEN Newest(seen, trigger.max) ELSE seen
                  /\ next.seen \in Seq(Keys)
                  /\ \A i \in 1 .. Len(next.seen) :
                       \E j \in 1 .. Len(seen) : next.seen[i] = seen[j]
             /\ Follows(trigger, cursor) /\ top = Null => next = cursor
             /\ Follows(trigger, cursor) /\ top # Null =>
                  /\ next.strategy = cursor.strategy /\ next.at = top
                  /\ next.seen = cursor.seen
                  /\ next.keys = IF trigger.strategy = "timestamp"
                                 THEN Boundary(t, cursor, page, top) ELSE {}
             /\ next = [strategy |-> next.strategy, at |-> next.at, keys |-> next.keys,
                        seen |-> next.seen]
<1> DEFINE next == NextCursor(t, trigger, cursor, page)
           new  == NewRows(trigger, cursor, page)
           seen == cursor.seen \o new
           top  == TopOf(t, page)
<1>1. page \in Seq(Keys) /\ \A i, j \in 1 .. Len(page) : page[i] = page[j] => i = j
  BY PageOK
<1>2. new \in Seq(Keys)
  BY <1>1, NewRowsOK
<1>3. cursor \in Cursor(Keys) /\ cursor.seen \in Seq(Keys)
  BY DEF CursorOK, Cursor
<1>4. seen \in Seq(Keys)
  BY <1>2, <1>3
<1>5. CASE ~Follows(trigger, cursor)
  <2> DEFINE kept == IF trigger.strategy = "snapshot" THEN Newest(seen, trigger.max) ELSE seen
  <2>1. next = [strategy |-> "snapshot", at |-> Null, keys |-> {}, seen |-> kept]
    BY <1>5 DEF NextCursor, EmptyCursor
  <2>2. /\ kept \in Seq(Keys)
        /\ \A i \in 1 .. Len(kept) : \E j \in 1 .. Len(seen) : kept[i] = seen[j]
    <3>1. trigger.max \in Nat
      BY DEF Trigger
    <3> HIDE DEF seen
    <3> QED BY <1>4, <3>1, NewestOK
  <2> HIDE DEF next, kept, seen
  <2>3. next.seen = kept /\ next.strategy = "snapshot" /\ next.at = Null /\ next.keys = {}
    BY <2>1
  <2> QED BY <1>5, <2>1, <2>2, <2>3 DEF kept, next, seen
<1>6. CASE Follows(trigger, cursor) /\ top = Null
  <2>1. next = cursor
    BY <1>6 DEF NextCursor
  <2>2. cursor = [strategy |-> cursor.strategy, at |-> cursor.at, keys |-> cursor.keys,
                  seen |-> cursor.seen]
    BY <1>3 DEF Cursor
  <2> QED BY <1>6, <2>1, <2>2
<1>7. CASE Follows(trigger, cursor) /\ top # Null
  <2> DEFINE keys == IF trigger.strategy = "timestamp"
                     THEN Boundary(t, cursor, page, top) ELSE {}
  <2>1. next = [cursor EXCEPT !.at = top, !.keys = keys]
    BY <1>7 DEF NextCursor
  <2> HIDE DEF next, top, keys
  <2>2. next = [strategy |-> cursor.strategy, at |-> top, keys |-> keys,
                seen |-> cursor.seen]
    BY <1>3, <2>1 DEF Cursor
  <2> QED BY <1>7, <2>2 DEF next, top, keys
<1> QED BY <1>5, <1>6, <1>7

\* It stays a cursor over the table.
LEMMA NextCursorOK ==
  ASSUME NEW n, NEW t, TableIn(t, n), NEW trigger \in Trigger, NEW cursor,
         CursorOK(cursor, n, DOMAIN t), NEW page \in Pages(t, trigger, cursor)
  PROVE  CursorOK(NextCursor(t, trigger, cursor, page), n, DOMAIN t)
<1> DEFINE next == NextCursor(t, trigger, cursor, page)
           new  == NewRows(trigger, cursor, page)
           seen == cursor.seen \o new
           top  == TopOf(t, page)
<1>1. /\ page \in Seq(Keys)
      /\ \A i, j \in 1 .. Len(page) : page[i] = page[j] => i = j
      /\ \A i \in 1 .. Len(page) : page[i] \in DOMAIN t
  BY PageOK DEF Candidates
<1>2. page \in Seq(DOMAIN t)
  BY <1>1
<1>3. new \in Seq(Keys) /\ \A j \in 1 .. Len(new) : new[j] \in DOMAIN t
  BY <1>1, NewRowsOK
<1>4. top \in 0 .. n
  BY <1>2, TopOK
<1>5. cursor \in Cursor(Keys) /\ cursor.seen \in Seq(Keys)
  BY DEF CursorOK, Cursor
<1>6. /\ seen \in Seq(Keys)
      /\ \A i \in 1 .. Len(seen) : seen[i] \in DOMAIN t
  <2>1. \A i \in 1 .. Len(cursor.seen) : cursor.seen[i] \in DOMAIN t
    BY DEF CursorOK
  <2> HIDE DEF new
  <2>2. /\ seen \in Seq(Keys)
        /\ Len(seen) = Len(cursor.seen) + Len(new)
        /\ \A i \in 1 .. Len(cursor.seen) + Len(new) :
             seen[i] = IF i <= Len(cursor.seen) THEN cursor.seen[i]
                       ELSE new[i - Len(cursor.seen)]
    BY <1>3, <1>5, ConcatProperties
  <2> HIDE DEF seen
  <2>3. ASSUME NEW i \in 1 .. Len(seen) PROVE seen[i] \in DOMAIN t
    <3>1. Len(cursor.seen) \in Nat /\ Len(new) \in Nat
      BY <1>3, <1>5
    <3>2. CASE i <= Len(cursor.seen)
      BY <2>1, <2>2, <3>1, <3>2
    <3>3. CASE i > Len(cursor.seen)
      <4>1. i - Len(cursor.seen) \in 1 .. Len(new) /\ seen[i] = new[i - Len(cursor.seen)]
        BY <2>2, <3>1, <3>3
      <4> QED BY <1>3, <4>1
    <3> QED BY <3>1, <3>2, <3>3
  <2> QED BY <2>2, <2>3
<1>7. CASE ~Follows(trigger, cursor)
  <2>1. /\ next = [strategy |-> "snapshot", at |-> Null, keys |-> {}, seen |-> next.seen]
        /\ next.seen \in Seq(Keys)
        /\ \A i \in 1 .. Len(next.seen) : \E j \in 1 .. Len(seen) : next.seen[i] = seen[j]
    BY <1>7, NextCases
  <2> HIDE DEF next, seen
  <2>2. \A i \in 1 .. Len(next.seen) : next.seen[i] \in DOMAIN t
    BY <1>6, <2>1
  <2>3. next \in Cursor(Keys) /\ next.strategy = "snapshot" /\ next.at = Null /\ next.keys = {}
    BY <2>1 DEF Cursor, Null, Strategies
  <2>4. Null <= n
    BY DEF Null, TableIn
  <2> QED BY <2>2, <2>3, <2>4 DEF CursorOK, next
<1>8. CASE Follows(trigger, cursor) /\ top = Null
  BY <1>8, NextCases
<1>9. CASE Follows(trigger, cursor) /\ top # Null
  <2> DEFINE keys == IF trigger.strategy = "timestamp"
                     THEN Boundary(t, cursor, page, top) ELSE {}
  <2>1. next = [strategy |-> cursor.strategy, at |-> top, keys |-> keys,
                seen |-> cursor.seen]
    BY <1>9, NextCases
  <2>2. keys \subseteq DOMAIN t
    <3>1. Range(page) \subseteq DOMAIN t
      BY <1>2 DEF Range
    <3> QED BY <3>1 DEF Boundary, CursorOK
  <2>3. DOMAIN t \subseteq Keys
    BY DEF TableIn
  <2>4. cursor.strategy = "increment" => keys = {}
    BY <1>9 DEF Follows
  <2> HIDE DEF next, top, keys
  <2>5. next \in Cursor(Keys) /\ next.strategy = cursor.strategy /\ next.at = top
        /\ next.keys = keys /\ next.seen = cursor.seen
    BY <1>4, <1>5, <2>1, <2>2, <2>3 DEF Cursor
  <2> QED BY <1>4, <2>2, <2>4, <2>5 DEF CursorOK, next
<1> QED BY <1>7, <1>8, <1>9

\* Passed, for a table t.
PassedIn(t, cursor, k) ==
  CASE cursor.strategy = "increment" -> t[k] \in 1 .. cursor.at
    [] cursor.strategy = "timestamp" -> \/ t[k] \in 1 .. cursor.at - 1
                                        \/ t[k] # Null /\ k \in cursor.keys
    [] OTHER -> k \in Range(cursor.seen)

\* No two rows have the same value.
DistinctIn(t) == \A k, l \in DOMAIN t : t[k] = t[l] /\ t[k] # Null => k = l

\* A cursor that moves on passes new rows of the page, and no other.
LEMMA NextPassed ==
  ASSUME NEW n, NEW t, TableIn(t, n), NEW trigger \in Trigger, NEW cursor,
         CursorOK(cursor, n, DOMAIN t), NEW page \in Pages(t, trigger, cursor),
         cursor.strategy = "increment" => DistinctIn(t),
         NEW k \in DOMAIN t, PassedIn(t, NextCursor(t, trigger, cursor, page), k)
  PROVE  \/ PassedIn(t, cursor, k)
         \/ \E j \in 1 .. Len(NewRows(trigger, cursor, page)) :
              NewRows(trigger, cursor, page)[j] = k
<1> DEFINE next == NextCursor(t, trigger, cursor, page)
           new  == NewRows(trigger, cursor, page)
           seen == cursor.seen \o new
           top  == TopOf(t, page)
<1>1. /\ page \in Seq(Keys)
      /\ \A i, j \in 1 .. Len(page) : page[i] = page[j] => i = j
      /\ \A i \in 1 .. Len(page) : page[i] \in DOMAIN t
  BY PageOK DEF Candidates
<1>2. page \in Seq(DOMAIN t)
  BY <1>1
<1>3. new \in Seq(Keys)
  BY <1>1, NewRowsOK
<1>4. \A i \in 1 .. Len(page) :
         page[i] \in Emitted(trigger, cursor) \/ \E j \in 1 .. Len(new) : new[j] = page[i]
  BY <1>1, NewRowsOK
<1>5. cursor.strategy \in Strategies /\ cursor.seen \in Seq(Keys) /\ cursor.at \in Nat
  BY DEF CursorOK, Cursor
<1>6. CASE ~Follows(trigger, cursor)
  <2>1. /\ next.strategy = "snapshot"
        /\ next.seen \in Seq(Keys)
        /\ \A i \in 1 .. Len(next.seen) : \E j \in 1 .. Len(seen) : next.seen[i] = seen[j]
    BY <1>6, NextCases
  <2> HIDE DEF next, new
  <2>2. k \in Range(next.seen)
    BY <2>1 DEF PassedIn, next
  <2>3. PICK i \in 1 .. Len(next.seen) : next.seen[i] = k
    BY <2>1, <2>2 DEF Range
  <2>4. PICK j \in 1 .. Len(seen) : seen[j] = k
    BY <2>1, <2>3
  <2>5. /\ Len(seen) = Len(cursor.seen) + Len(new)
        /\ \A x \in 1 .. Len(cursor.seen) + Len(new) :
             seen[x] = IF x <= Len(cursor.seen) THEN cursor.seen[x]
                       ELSE new[x - Len(cursor.seen)]
    BY <1>3, <1>5, ConcatProperties
  <2> HIDE DEF seen
  <2>6. CASE j <= Len(cursor.seen)
    <3>1. j \in 1 .. Len(cursor.seen) /\ cursor.seen[j] = k
      BY <1>5, <2>4, <2>5, <2>6
    <3>2. cursor.strategy = "snapshot"
      BY <3>1 DEF CursorOK
    <3>3. k \in Range(cursor.seen)
      BY <1>5, <3>1 DEF Range
    <3> QED BY <3>2, <3>3 DEF PassedIn
  <2>7. CASE j > Len(cursor.seen)
    <3>1. j - Len(cursor.seen) \in 1 .. Len(new) /\ new[j - Len(cursor.seen)] = k
      BY <1>3, <1>5, <2>4, <2>5, <2>7
    <3> QED BY <3>1 DEF new
  <2> QED BY <1>5, <2>4, <2>6, <2>7
<1>7. CASE Follows(trigger, cursor) /\ top = Null
  BY <1>7, NextCases
<1>8. CASE Follows(trigger, cursor) /\ top # Null
  <2> DEFINE keys == IF trigger.strategy = "timestamp"
                     THEN Boundary(t, cursor, page, top) ELSE {}
  <2>1. next.strategy = cursor.strategy /\ next.at = top /\ next.keys = keys
    BY <1>8, NextCases
  <2>2. /\ top \in 0 .. n
        /\ \E i \in 1 .. Len(page) : t[page[i]] = top
    BY <1>2, <1>8, TopOK
  <2>3. PICK last \in 1 .. Len(page) : t[page[last]] = top
    BY <2>2
  <2>4. t[k] \in 0 .. n
    BY DEF TableIn
  <2>5. ASSUME NEW i \in 1 .. Len(page), page[i] = k, k \notin Emitted(trigger, cursor)
        PROVE  \E j \in 1 .. Len(new) : new[j] = k
    BY <1>4, <2>5
  <2>6. ASSUME k \in Candidates(t, trigger, cursor), \A i \in 1 .. Len(page) : page[i] # k
        PROVE  ~(t[k] # Null /\ t[k] < top)
    <3>1. ~Precedes(t[k], top)
      BY <1>8, <2>3, <2>6, PageOK
    <3> QED BY <1>8, <2>2, <2>4, <3>1 DEF Precedes, Null
  <2>7. CASE cursor.strategy = "increment"
    <3>1. t[k] \in 1 .. top
      BY <2>1, <2>7 DEF PassedIn
    <3>2. Emitted(trigger, cursor) = {}
      BY <1>8, <2>7 DEF Emitted, CursorOK
    <3>3. CASE k \in Candidates(t, trigger, cursor)
      <4>1. CASE \E i \in 1 .. Len(page) : page[i] = k
        BY <2>5, <3>2, <4>1
      <4>2. CASE \A i \in 1 .. Len(page) : page[i] # k
        <5>1. t[k] = top
          BY <2>2, <2>6, <3>1, <3>3, <4>2 DEF Null
        <5>2. page[last] = k
          BY <1>1, <2>3, <2>7, <5>1, <1>8 DEF DistinctIn
        <5> QED BY <4>2, <5>2
      <4> QED BY <4>1, <4>2
    <3>4. CASE k \notin Candidates(t, trigger, cursor)
      <4>1. cursor.at # Null /\ ~(t[k] > cursor.at)
        BY <3>4 DEF Candidates
      <4>2. t[k] \in 1 .. cursor.at
        BY <1>5, <3>1, <4>1
      <4> QED BY <2>7, <4>2 DEF PassedIn
    <3> QED BY <3>3, <3>4
  <2>8. CASE cursor.strategy = "timestamp"
    <3>1. Emitted(trigger, cursor) = cursor.keys
      BY <1>8 DEF Emitted
    <3>2. trigger.strategy = "timestamp"
      BY <1>8, <2>8 DEF Follows
    <3>3. t[k] # Null /\ k \in cursor.keys => PassedIn(t, cursor, k)
      BY <2>8 DEF PassedIn
    <3>4. CASE t[k] \in 1 .. top - 1
      <4>1. CASE k \in Candidates(t, trigger, cursor)
        <5>1. t[k] # Null /\ t[k] < top
          BY <2>2, <3>4 DEF Null
        <5>2. PICK i \in 1 .. Len(page) : page[i] = k
          BY <2>6, <4>1, <5>1
        <5> QED BY <2>5, <3>1, <3>3, <5>1, <5>2
      <4>2. CASE k \notin Candidates(t, trigger, cursor)
        <5>1. cursor.at # Null /\ ~(t[k] > cursor.at) /\ t[k] # cursor.at
          BY <3>2, <4>2 DEF Candidates
        <5>2. t[k] \in 1 .. cursor.at - 1
          BY <1>5, <2>4, <3>4, <5>1
        <5> QED BY <2>8, <5>2 DEF PassedIn
      <4> QED BY <4>1, <4>2
    <3>5. CASE t[k] # Null /\ k \in keys
      <4>1. k \in cursor.keys \/ k \in Range(page)
        BY <3>2, <3>5 DEF Boundary
      <4>2. CASE k \in cursor.keys
        BY <3>3, <3>5, <4>2
      <4>3. CASE k \in Range(page) /\ k \notin cursor.keys
        <5>1. PICK i \in 1 .. Len(page) : page[i] = k
          BY <1>2, <4>3 DEF Range
        <5> QED BY <2>5, <3>1, <4>3, <5>1
      <4> QED BY <4>1, <4>2, <4>3
    <3> HIDE DEF next, keys, top
    <3>6. t[k] \in 1 .. top - 1 \/ (t[k] # Null /\ k \in keys)
      BY <2>1, <2>8 DEF PassedIn, next
    <3> QED BY <3>4, <3>5, <3>6
  <2>9. cursor.strategy # "snapshot"
    BY <1>8 DEF Follows
  <2> QED BY <1>5, <2>7, <2>8, <2>9 DEF Strategies
<1> QED BY <1>6, <1>7, <1>8
------------------------------------------------------------------------------
(***************************************************************************)
(* Type correctness.                                                        *)
(***************************************************************************)

\* The runs, the poll and a request over a table with values up to n and keys D, and
\* with len runs.
RunsIn(rs, n, D) ==
  rs \in Seq(Run) /\ \A i \in 1 .. Len(rs) : CursorOK(rs[i].cursor, n, D)

PollIn(p, len, n, D) ==
  /\ p \in PollState
  /\ CursorOK(p.cursor, n, D)
  /\ p.step \notin {"idle", "retire"} => p.run \in 1 .. len
  /\ p.step \in {"deliver", "record", "checkpoint"} => p.page # <<>>
  /\ p.step = "advance" => p.page = <<>>

CallIn(q, len, n, D) ==
  /\ q \in CallState
  /\ CursorOK(q.cursor, n, D)
  /\ q.step \in {"resume", "pause"} => q.run \in 1 .. len
  /\ q.step \in {"seed", "boundary", "write"} => q.run \in 0 .. len
  /\ q.step = "boundary" => q.cursor.strategy = "timestamp"
  /\ q.step = "edit" => q.op = "edit"

SourceOK == TableIn(table, clock) /\ clock <= MaxClock
RunsOK   == RunsIn(runs, clock, DOMAIN table)
PollOK   == PollIn(poll, Len(runs), clock, DOMAIN table)
CallsOK  == /\ call \in [Callers -> CallState]
            /\ \A c \in Callers : CallIn(call[c], Len(runs), clock, DOMAIN table)
StoreOK  == hook \in Hooks /\ ledger \subseteq Delivery
QueueOK  == scheduler \in Cadence /\ fire \in BOOLEAN
ProcOK   == proc \in {"down", "up"} /\ cadence \in Cadence /\ streak \in 0 .. CooldownPolls
HistOK   == sent \subseteq Delivery /\ baseline \subseteq Row /\ meanwhile \subseteq Row
BoundOK  == made \in 0 .. MaxCalls /\ faults \in 0 .. MaxFaults

TypeInv ==
  /\ SourceOK /\ RunsOK /\ PollOK /\ CallsOK
  /\ StoreOK /\ QueueOK /\ ProcOK /\ HistOK /\ BoundOK

\* It is what TypeOK says, and more.
LEMMA TypeInvTypes == TypeInv => TypeOK
<1> SUFFICES ASSUME TypeInv PROVE TypeOK
  OBVIOUS
<1>1. DOMAIN runs = 1 .. Len(runs)
  BY DEF TypeInv, RunsOK, RunsIn
<1>2. clock \in 0 .. MaxClock
  BY BoundsAssumption DEF TypeInv, SourceOK, TableIn
<1>3. /\ DOMAIN table \subseteq Keys
      /\ \A k \in DOMAIN table : table[k] \in 0 .. clock
  BY DEF TypeInv, SourceOK, TableIn
<1>4. runs \in Seq(Run) /\ poll \in PollState /\ call \in [Callers -> CallState]
  BY DEF TypeInv, RunsOK, RunsIn, PollOK, PollIn, CallsOK
<1>5. poll.step \notin {"idle", "retire"} => poll.run \in DOMAIN runs
  BY <1>1 DEF TypeInv, PollOK, PollIn
<1> QED
  BY <1>2, <1>3, <1>4, <1>5
  DEF TypeOK, TypeInv, StoreOK, QueueOK, ProcOK, HistOK, BoundOK

\* What holds over a table and its runs holds as they grow.
LEMMA PollGrows ==
  ASSUME NEW n \in Nat, NEW m \in Nat, n <= m, NEW D, NEW F, D \subseteq F,
         NEW a \in Nat, NEW b \in Nat, a <= b, NEW p, PollIn(p, a, n, D)
  PROVE  PollIn(p, b, m, F)
BY CursorGrows DEF PollIn, PollState

LEMMA CallGrows ==
  ASSUME NEW n \in Nat, NEW m \in Nat, n <= m, NEW D, NEW F, D \subseteq F,
         NEW a \in Nat, NEW b \in Nat, a <= b, NEW q, CallIn(q, a, n, D)
  PROVE  CallIn(q, b, m, F)
BY CursorGrows DEF CallIn, CallState

LEMMA RunsGrow ==
  ASSUME NEW n \in Nat, NEW m \in Nat, n <= m, NEW D, NEW F, D \subseteq F,
         NEW rs, RunsIn(rs, n, D)
  PROVE  RunsIn(rs, m, F)
BY CursorGrows DEF RunsIn

\* One run changes.
LEMMA RunChanges ==
  ASSUME NEW n, NEW D, NEW rs, RunsIn(rs, n, D), NEW i \in 1 .. Len(rs),
         NEW r \in Run, CursorOK(r.cursor, n, D)
  PROVE  /\ RunsIn([rs EXCEPT ![i] = r], n, D)
         /\ Len([rs EXCEPT ![i] = r]) = Len(rs)
<1> DEFINE us == [rs EXCEPT ![i] = r]
<1>1. rs \in Seq(Run)
  BY DEF RunsIn
<1>2. /\ us \in Seq(Run)
      /\ Len(us) = Len(rs)
      /\ \A j \in 1 .. Len(rs) : us[j] = IF j = i THEN r ELSE rs[j]
  BY <1>1, ExceptSeq
<1> HIDE DEF us
<1>3. RunsIn(us, n, D)
  BY <1>2 DEF RunsIn
<1> QED BY <1>2, <1>3 DEF us

LEMMA AnyTriggerOK == AnyTrigger \in Trigger
BY HooksAssumption DEF AnyTrigger, Hook

LEMMA IdlePollOK ==
  ASSUME NEW n \in Nat, NEW D, NEW len
  PROVE  PollIn(IdlePoll, len, n, D)
<1>1. CursorOK(NoCursor, n, D)
  BY EmptyCursorOK DEF NoCursor, Strategies
<1>2. IdlePoll \in PollState
  BY <1>1, AnyTriggerOK DEF IdlePoll, PollState, PollSteps, CursorOK
<1> QED BY <1>1, <1>2 DEF PollIn, IdlePoll

LEMMA IdleCallOK ==
  ASSUME NEW n \in Nat, NEW D, NEW len
  PROVE  CallIn(IdleCall, len, n, D)
<1>1. CursorOK(NoCursor, n, D)
  BY EmptyCursorOK DEF NoCursor, Strategies
<1>2. IdleCall \in CallState
  BY <1>1, AnyTriggerOK DEF IdleCall, CallState, CallSteps, CursorOK
<1> QED BY <1>1, <1>2 DEF CallIn, IdleCall

LEMMA InitType == Init => TypeInv
<1> SUFFICES ASSUME Init PROVE TypeInv
  OBVIOUS
<1>1. DOMAIN table = {}
  BY DEF Init
<1>2. SourceOK
  BY <1>1, FS_EmptySet, BoundsAssumption DEF Init, SourceOK, TableIn
<1>3. RunsOK
  BY DEF Init, RunsOK, RunsIn
<1>4. PollOK
  BY IdlePollOK DEF Init, PollOK
<1>5. CallsOK
  BY IdleCallOK DEF Init, CallsOK, CallIn
<1>6. QueueOK
  BY DEF Init, QueueOK, Cadence
<1>7. ProcOK /\ BoundOK
  <2>1. 0 \in 0 .. CooldownPolls /\ 0 \in 0 .. MaxCalls /\ 0 \in 0 .. MaxFaults
    BY BoundsAssumption
  <2> QED BY <2>1 DEF Init, ProcOK, BoundOK, Cadence
<1>8. StoreOK /\ HistOK
  BY DEF Init, StoreOK, HistOK
<1> QED BY <1>2, <1>3, <1>4, <1>5, <1>6, <1>7, <1>8 DEF TypeInv

\* The source gets a value for a key.
LEMMA PutType ==
  ASSUME TypeInv, NEW k \in Keys, NEW at \in Nat, Put(k, at),
         clock' \in Nat, clock <= clock', clock' <= MaxClock, at <= clock'
  PROVE  TypeInv'
<1>1. /\ DOMAIN table' = DOMAIN table \union {k}
      /\ \A x \in DOMAIN table' : table'[x] = IF x = k THEN at ELSE table[x]
  BY DEF Put
<1>2. UNCHANGED <<storeVars, queueVars, procVars, poll, call, histVars, boundVars>>
  BY DEF Put
<1>3. SourceOK'
  <2>1. IsFiniteSet(DOMAIN table') /\ DOMAIN table' \subseteq Keys
    BY <1>1, FS_AddElement DEF TypeInv, SourceOK, TableIn
  <2>2. \A x \in DOMAIN table' : table'[x] \in 0 .. clock'
    BY <1>1 DEF TypeInv, SourceOK, TableIn
  <2> QED BY <2>1, <2>2 DEF SourceOK, TableIn
<1>4. clock \in Nat /\ DOMAIN table \subseteq DOMAIN table' /\ Len(runs) \in Nat
  BY <1>1 DEF TypeInv, SourceOK, TableIn, RunsOK, RunsIn
<1>5. runs' = runs /\ poll' = poll /\ call' = call
  BY <1>2 DEF storeVars
<1>6. RunsOK'
  BY <1>4, <1>5, RunsGrow DEF TypeInv, RunsOK
<1>7. PollOK'
  BY <1>4, <1>5, PollGrows DEF TypeInv, PollOK
<1>8. CallsOK'
  BY <1>4, <1>5, CallGrows DEF TypeInv, CallsOK
<1> QED
  BY <1>2, <1>3, <1>6, <1>7, <1>8
  DEF TypeInv, StoreOK, QueueOK, ProcOK, HistOK, BoundOK, storeVars, queueVars, procVars,
      histVars, boundVars

LEMMA SourceType ==
  ASSUME TypeInv, SourceNext
  PROVE  TypeInv'
<1>1. clock \in Nat /\ MaxClock \in Nat /\ clock <= MaxClock
  BY BoundsAssumption DEF TypeInv, SourceOK, TableIn
<1>2. DOMAIN table \subseteq Keys
  BY DEF TypeInv, SourceOK, TableIn
<1>3. ASSUME Insert PROVE TypeInv'
  BY <1>1, <1>3, PutType DEF Insert, Fresh
<1>4. ASSUME InsertTie PROVE TypeInv'
  BY <1>1, <1>4, PutType DEF InsertTie, Fresh
<1>5. ASSUME TakeValue PROVE TypeInv'
  <2>1. clock' = clock + 1 /\ clock' <= MaxClock /\ table' = table
    BY <1>1, <1>5 DEF TakeValue
  <2>2. UNCHANGED <<storeVars, queueVars, procVars, poll, call, histVars, boundVars>>
    BY <1>5 DEF TakeValue
  <2>3. SourceOK'
    BY <2>1 DEF TypeInv, SourceOK, TableIn
  <2>4. runs' = runs /\ poll' = poll /\ call' = call /\ Len(runs) \in Nat
    BY <2>2 DEF storeVars, TypeInv, RunsOK, RunsIn
  <2>5. clock' \in Nat /\ clock <= clock' /\ DOMAIN table \subseteq DOMAIN table'
    BY <1>1, <2>1
  <2>6. RunsOK' /\ PollOK'
    BY <1>1, <2>4, <2>5, RunsGrow, PollGrows DEF TypeInv, RunsOK, PollOK
  <2>7. CallsOK'
    BY <1>1, <2>4, <2>5, CallGrows DEF TypeInv, CallsOK
  <2> QED
    BY <2>2, <2>3, <2>6, <2>7
    DEF TypeInv, StoreOK, QueueOK, ProcOK, HistOK, BoundOK, storeVars, queueVars, procVars,
        histVars, boundVars
<1>6. ASSUME InsertLate PROVE TypeInv'
  BY <1>1, <1>6, PutType DEF InsertLate, Fresh
<1>7. ASSUME InsertNull PROVE TypeInv'
  BY <1>1, <1>7, PutType DEF InsertNull, Fresh, Null
<1>8. ASSUME Update PROVE TypeInv'
  BY <1>1, <1>2, <1>8, PutType DEF Update
<1> QED BY <1>3, <1>4, <1>5, <1>6, <1>7, <1>8 DEF SourceNext

RestOK == StoreOK /\ QueueOK /\ ProcOK /\ HistOK /\ BoundOK

\* A step that leaves the source, the runs and the requests alone.
LEMMA PollMoves ==
  ASSUME TypeInv, UNCHANGED <<table, clock, runs, call>>, PollOK', RestOK'
  PROVE  TypeInv'
BY DEF TypeInv, RestOK, SourceOK, RunsOK, CallsOK

\* One run changes, and the poll or a request goes on.
LEMMA RunMoves ==
  ASSUME TypeInv, UNCHANGED <<table, clock>>, NEW i \in 1 .. Len(runs),
         NEW r \in Run, CursorOK(r.cursor, clock, DOMAIN table),
         runs' = [runs EXCEPT ![i] = r],
         PollIn(poll', Len(runs), clock, DOMAIN table),
         call' \in [Callers -> CallState],
         \A c \in Callers : CallIn(call'[c], Len(runs), clock, DOMAIN table),
         RestOK'
  PROVE  TypeInv'
<1>1. RunsIn(runs', clock, DOMAIN table) /\ Len(runs') = Len(runs)
  <2>1. RunsIn(runs, clock, DOMAIN table)
    BY DEF TypeInv, RunsOK
  <2> DEFINE us == [runs EXCEPT ![i] = r]
  <2>2. RunsIn(us, clock, DOMAIN table) /\ Len(us) = Len(runs)
    BY ONLY <2>1, i \in 1 .. Len(runs), r \in Run, CursorOK(r.cursor, clock, DOMAIN table),
       RunChanges
  <2> QED BY <2>2
<1> QED BY <1>1 DEF TypeInv, RestOK, SourceOK, RunsOK, PollOK, CallsOK

\* One request goes on.
LEMMA CallMoves ==
  ASSUME NEW c \in Callers, NEW q, CallsOK, call' = [call EXCEPT ![c] = q],
         NEW len, CallIn(q, len, clock, DOMAIN table),
         \A b \in Callers : CallIn(call[b], len, clock, DOMAIN table)
  PROVE  /\ call' \in [Callers -> CallState]
         /\ \A b \in Callers : CallIn(call'[b], len, clock, DOMAIN table)
BY DEF CallsOK, CallIn

\* What a step of the poll finds.
LEMMA PollFacts ==
  ASSUME TypeInv
  PROVE  /\ clock \in Nat /\ Len(runs) \in Nat /\ DOMAIN runs = 1 .. Len(runs)
         /\ poll \in PollState /\ CursorOK(poll.cursor, clock, DOMAIN table)
         /\ poll.step \notin {"idle", "retire"} => poll.run \in 1 .. Len(runs)
         /\ poll.page \in Seq(Row) /\ poll.seq \in Nat /\ poll.cursor \in Cursor(Keys)
         /\ \A i \in 1 .. Len(runs) :
              runs[i] \in Run /\ CursorOK(runs[i].cursor, clock, DOMAIN table)
         /\ hook.trigger \in Trigger
BY HooksAssumption
DEF TypeInv, SourceOK, TableIn, RunsOK, RunsIn, PollOK, PollIn, PollState, StoreOK, Hook

\* The newest running run.
LEMMA RunningOK ==
  ASSUME TypeInv, Listening
  PROVE  Max(Running) \in Running /\ Max(Running) \in 1 .. Len(runs)
<1>1. Running \subseteq 1 .. Len(runs)
  BY PollFacts DEF Running
<1>2. Running # {} /\ Running \subseteq Nat /\ \A x \in Running : x <= Len(runs)
  BY <1>1, PollFacts DEF Listening
<1>3. Max(Running) \in Running
  BY <1>2, MaxOf, PollFacts
<1> QED BY <1>1, <1>3

LEMMA FireType ==
  ASSUME TypeInv, Fire \/ SkipOverlap
  PROVE  TypeInv'
BY PollMoves
DEF Fire, SkipOverlap, TypeInv, PollOK, RestOK, StoreOK, QueueOK, ProcOK, HistOK, BoundOK,
    sourceVars, storeVars, procVars, histVars, boundVars

LEMMA BeginPollType ==
  ASSUME TypeInv, BeginPoll
  PROVE  TypeInv'
<1>1. RestOK' /\ UNCHANGED <<table, clock, runs, call>>
  BY DEF BeginPoll, TypeInv, RestOK, StoreOK, QueueOK, ProcOK, HistOK, BoundOK,
         sourceVars, storeVars, procVars, histVars, boundVars
<1>2. PollOK'
  <2>1. CASE Listening
    <3> DEFINE i == Max(Running)
    <3>1. i \in 1 .. Len(runs) /\ runs[i] \in Run
      BY <2>1, RunningOK, PollFacts
    <3> HIDE DEF i
    <3>2. poll' = [poll EXCEPT !.step = "resolve", !.run = i,
                     !.cursor = runs[i].cursor, !.seq = runs[i].offset]
      BY <2>1 DEF BeginPoll, i
    <3>3. poll' \in PollState
      <4>1. i \in Nat /\ runs[i].cursor \in Cursor(Keys) /\ runs[i].offset \in Nat
        BY <3>1 DEF Run
      <4> QED BY <3>2, <4>1, PollFacts DEF PollState, PollSteps
    <3> QED
      BY <1>1, <3>1, <3>2, <3>3, PollFacts DEF PollOK, PollIn, PollState
  <2>2. CASE ~Listening
    BY <1>1, <2>2, PollFacts DEF BeginPoll, PollOK, PollIn, PollState, PollSteps
  <2> QED BY <2>1, <2>2
<1> QED BY <1>1, <1>2, PollMoves

LEMMA RetireType ==
  ASSUME TypeInv, Retire
  PROVE  TypeInv'
<1>1. RestOK' /\ UNCHANGED <<table, clock, runs, call>>
  BY BoundsAssumption
  DEF Retire, Unscheduled, TypeInv, RestOK, StoreOK, QueueOK, ProcOK, HistOK, BoundOK, Cadence,
      sourceVars, storeVars, procVars, histVars, boundVars
<1>2. PollOK'
  BY <1>1, IdlePollOK, PollFacts DEF Retire, PollOK
<1> QED BY <1>1, <1>2, PollMoves

LEMMA ResolveType ==
  ASSUME TypeInv, ResolveHook
  PROVE  TypeInv'
<1>1. RestOK' /\ UNCHANGED <<table, clock, runs, call>>
  BY DEF ResolveHook, TypeInv, RestOK, StoreOK, QueueOK, ProcOK, HistOK, BoundOK,
         sourceVars, storeVars, queueVars, procVars, histVars, boundVars
<1>2. PollOK'
  BY <1>1, PollFacts DEF ResolveHook, PollOK, PollIn, PollState, PollSteps
<1> QED BY <1>1, <1>2, PollMoves

LEMMA RejectType ==
  ASSUME TypeInv, RejectRun
  PROVE  TypeInv'
<1>1. RestOK' /\ UNCHANGED <<table, clock, call>>
  BY DEF RejectRun, TypeInv, RestOK, StoreOK, QueueOK, ProcOK, HistOK, BoundOK,
         sourceVars, queueVars, procVars, histVars, boundVars
<1>2. poll.run \in 1 .. Len(runs)
  BY PollFacts DEF RejectRun
<1> DEFINE r == [runs[poll.run] EXCEPT !.status = "canceled"]
<1>3. r \in Run /\ CursorOK(r.cursor, clock, DOMAIN table)
  BY <1>2, PollFacts DEF Run
<1>4. runs' = [runs EXCEPT ![poll.run] = r]
  BY DEF RejectRun
<1>5. PollIn(poll', Len(runs), clock, DOMAIN table)
  BY PollFacts DEF RejectRun, PollIn, PollState, PollSteps
<1> HIDE DEF r
<1> QED BY <1>1, <1>2, <1>3, <1>4, <1>5, RunMoves DEF TypeInv, CallsOK

LEMMA QueryType ==
  ASSUME TypeInv, QueryPage
  PROVE  TypeInv'
<1>1. RestOK' /\ UNCHANGED <<table, clock, runs, call>>
  BY DEF QueryPage, TypeInv, RestOK, StoreOK, QueueOK, ProcOK, HistOK, BoundOK,
         sourceVars, storeVars, queueVars, procVars, histVars, boundVars
<1>2. PICK page \in Pages(table, poll.trigger, poll.cursor) :
        LET new == NewRows(poll.trigger, poll.cursor, page)
        IN  poll' = [poll EXCEPT
              !.step    = IF new = <<>> THEN "advance" ELSE "deliver",
              !.page    = [i \in DOMAIN new |-> [key |-> new[i], at |-> table[new[i]]]],
              !.flowing = new # <<>>,
              !.cursor  = NextCursor(table, poll.trigger, poll.cursor, page)]
  BY DEF QueryPage
<1> DEFINE new  == NewRows(poll.trigger, poll.cursor, page)
           next == NextCursor(table, poll.trigger, poll.cursor, page)
           rows == [i \in 1 .. Len(new) |-> [key |-> new[i], at |-> table[new[i]]]]
<1>3. TableIn(table, clock) /\ poll.trigger \in Trigger
  BY PollFacts DEF TypeInv, SourceOK, PollState
<1>4. CursorOK(next, clock, DOMAIN table)
  BY <1>3, NextCursorOK, PollFacts
<1>5. /\ new \in Seq(Keys)
      /\ \A i \in 1 .. Len(new) : new[i] \in DOMAIN table
  <2>1. /\ page \in Seq(Keys)
        /\ \A i, j \in 1 .. Len(page) : page[i] = page[j] => i = j
        /\ \A i \in 1 .. Len(page) : page[i] \in DOMAIN table
    BY <1>3, PageOK DEF Candidates
  <2> QED BY <2>1, NewRowsOK
<1>6. /\ rows \in Seq(Row)
      /\ rows = <<>> <=> new = <<>>
  <2> HIDE DEF new
  <2>1. \A i \in 1 .. Len(new) : [key |-> new[i], at |-> table[new[i]]] \in Row
    BY <1>3, <1>5 DEF TableIn, Row
  <2>2. Len(new) \in Nat
    BY <1>5
  <2>3. rows \in Seq(Row) /\ Len(rows) = Len(new)
    BY <2>1, <2>2
  <2> QED BY <1>5, <2>3
<1>7. poll' = [poll EXCEPT !.step = IF new = <<>> THEN "advance" ELSE "deliver",
                           !.page = rows, !.flowing = new # <<>>, !.cursor = next]
  <2>1. DOMAIN new = 1 .. Len(new)
    BY <1>5
  <2> QED BY <1>2, <2>1
<1>8. poll.step = "query" /\ poll.run \in 1 .. Len(runs)
  BY PollFacts DEF QueryPage
<1> HIDE DEF new, next, rows
<1>9. poll' \in PollState
  BY <1>4, <1>6, <1>7, PollFacts DEF PollState, PollSteps, CursorOK
<1>10. PollIn(poll', Len(runs), clock, DOMAIN table)
  BY <1>4, <1>6, <1>7, <1>8, <1>9, PollFacts DEF PollIn, PollState
<1> QED BY <1>1, <1>10, PollMoves DEF PollOK

LEMMA PollFailsType ==
  ASSUME TypeInv, PollFails
  PROVE  TypeInv'
<1>1. UNCHANGED <<table, clock, runs, call>>
  BY DEF PollFails, sourceVars, storeVars
<1>2. BoundOK'
  BY BoundsAssumption DEF PollFails, Fails, TypeInv, BoundOK
<1>3. RestOK'
  BY <1>2
  DEF PollFails, TypeInv, RestOK, StoreOK, QueueOK, ProcOK, HistOK,
      storeVars, queueVars, procVars, histVars
<1>4. PollOK'
  BY <1>1, IdlePollOK, PollFacts DEF PollFails, PollOK
<1> QED BY <1>1, <1>3, <1>4, PollMoves

LEMMA HeadOfPage ==
  ASSUME TypeInv, poll.step \in {"deliver", "record", "checkpoint"}
  PROVE  /\ poll.page # <<>> /\ Head(poll.page) \in Row /\ Tail(poll.page) \in Seq(Row)
         /\ [run |-> poll.run, seq |-> poll.seq, row |-> Head(poll.page)] \in Delivery
         /\ Len(poll.page) = 1 <=> Tail(poll.page) = <<>>
<1>1. poll.page \in Seq(Row) /\ poll.page # <<>> /\ poll.run \in Nat /\ poll.seq \in Nat
  BY DEF TypeInv, PollOK, PollIn, PollState
<1> DEFINE p == poll.page
<1> HIDE DEF p
<1>2. p \in Seq(Row) /\ p # <<>>
  BY <1>1 DEF p
<1>3. Head(p) \in Row /\ Tail(p) \in Seq(Row) /\ Len(Tail(p)) = Len(p) - 1
  BY <1>2
<1>4. Len(p) = 1 <=> Tail(p) = <<>>
  <2>1. Len(p) \in Nat
    BY <1>2
  <2>2. Tail(p) = <<>> <=> Len(Tail(p)) = 0
    <3> DEFINE t == Tail(p)
    <3>1. t \in Seq(Row)
      BY <1>3
    <3> HIDE DEF t
    <3>2. t = <<>> <=> Len(t) = 0
      BY <3>1
    <3> QED BY <3>2 DEF t
  <2> QED BY <1>3, <2>1, <2>2
<1> QED BY <1>1, <1>3, <1>4 DEF p, Delivery

LEMMA DeliverType ==
  ASSUME TypeInv, DeliverRow
  PROVE  TypeInv'
<1>1. UNCHANGED <<table, clock, runs, call>>
  BY DEF DeliverRow, sourceVars, storeVars
<1>2. HistOK'
  BY HeadOfPage DEF DeliverRow, TypeInv, HistOK
<1>3. RestOK'
  BY <1>2
  DEF DeliverRow, TypeInv, RestOK, StoreOK, QueueOK, ProcOK, BoundOK,
      storeVars, queueVars, procVars, boundVars
<1>4. PollOK'
  BY <1>1, PollFacts, HeadOfPage DEF DeliverRow, PollOK, PollIn, PollState, PollSteps
<1> QED BY <1>1, <1>3, <1>4, PollMoves

LEMMA RecordType ==
  ASSUME TypeInv, RecordRow
  PROVE  TypeInv'
<1>1. UNCHANGED <<table, clock, runs, call>>
  BY DEF RecordRow, sourceVars
<1>2. StoreOK'
  BY HeadOfPage DEF RecordRow, TypeInv, StoreOK
<1>3. RestOK'
  BY <1>2
  DEF RecordRow, TypeInv, RestOK, HistOK, QueueOK, ProcOK, BoundOK,
      histVars, queueVars, procVars, boundVars
<1>4. PollOK'
  BY <1>1, PollFacts, HeadOfPage DEF RecordRow, PollOK, PollIn, PollState, PollSteps
<1> QED BY <1>1, <1>3, <1>4, PollMoves

LEMMA CheckpointType ==
  ASSUME TypeInv, CheckpointRow
  PROVE  TypeInv'
<1>1. RestOK' /\ UNCHANGED <<table, clock, call>>
  BY DEF CheckpointRow, TypeInv, RestOK, StoreOK, QueueOK, ProcOK, HistOK, BoundOK,
         sourceVars, queueVars, procVars, histVars, boundVars
<1>2. poll.run \in 1 .. Len(runs) /\ poll.seq + 1 \in Nat
  BY PollFacts DEF CheckpointRow
<1> DEFINE r == [runs[poll.run] EXCEPT !.offset = poll.seq + 1]
<1>3. r \in Run /\ CursorOK(r.cursor, clock, DOMAIN table)
  BY <1>2, PollFacts DEF Run
<1>4. runs' = [runs EXCEPT ![poll.run] = r]
  BY DEF CheckpointRow
<1>5. PollIn(poll', Len(runs), clock, DOMAIN table)
  <2>1. poll' = [poll EXCEPT !.seq = poll.seq + 1, !.page = Tail(poll.page),
                   !.step = IF Tail(poll.page) = <<>> THEN "advance" ELSE "deliver"]
    BY HeadOfPage DEF CheckpointRow
  <2>2. Tail(poll.page) \in Seq(Row)
    BY HeadOfPage DEF CheckpointRow
  <2> QED BY <1>2, <2>1, <2>2, PollFacts DEF PollIn, PollState, PollSteps
<1> HIDE DEF r
<1> QED BY <1>1, <1>2, <1>3, <1>4, <1>5, RunMoves DEF TypeInv, CallsOK

LEMMA SaveCursorType ==
  ASSUME TypeInv, SaveCursor
  PROVE  TypeInv'
<1>1. RestOK' /\ UNCHANGED <<table, clock, call>>
  BY DEF SaveCursor, TypeInv, RestOK, StoreOK, QueueOK, ProcOK, HistOK, BoundOK,
         sourceVars, queueVars, procVars, histVars, boundVars
<1>2. poll.run \in 1 .. Len(runs)
  BY PollFacts DEF SaveCursor
<1> DEFINE r == [runs[poll.run] EXCEPT !.cursor = poll.cursor, !.offset = poll.seq]
<1>3. r \in Run /\ CursorOK(r.cursor, clock, DOMAIN table)
  BY <1>2, PollFacts DEF Run
<1>4. runs' = [runs EXCEPT ![poll.run] = r]
  BY DEF SaveCursor
<1>5. PollIn(poll', Len(runs), clock, DOMAIN table)
  BY PollFacts DEF SaveCursor, PollIn, PollState, PollSteps
<1> HIDE DEF r
<1> QED BY <1>1, <1>2, <1>3, <1>4, <1>5, RunMoves DEF TypeInv, CallsOK

LEMMA AdaptType ==
  ASSUME TypeInv, Adapt
  PROVE  TypeInv'
<1>1. UNCHANGED <<table, clock, runs, call>>
  BY DEF Adapt, sourceVars, storeVars
<1>2. streak' \in 0 .. CooldownPolls /\ scheduler' \in Cadence /\ cadence' \in Cadence
  BY BoundsAssumption DEF Adapt, TypeInv, ProcOK, QueueOK, Cadence
<1>3. RestOK'
  BY <1>2
  DEF Adapt, TypeInv, RestOK, StoreOK, QueueOK, ProcOK, HistOK, BoundOK,
      storeVars, histVars, boundVars
<1>4. PollOK'
  BY <1>1, IdlePollOK, PollFacts DEF Adapt, PollOK
<1> QED BY <1>1, <1>3, <1>4, PollMoves

\* A request that goes on alone.
LEMMA CallAlone ==
  ASSUME TypeInv, UNCHANGED <<table, clock, runs, poll>>, RestOK',
         NEW c \in Callers, NEW q, call' = [call EXCEPT ![c] = q],
         CallIn(q, Len(runs), clock, DOMAIN table)
  PROVE  TypeInv'
<1>1. /\ call' \in [Callers -> CallState]
      /\ \A b \in Callers : CallIn(call'[b], Len(runs), clock, DOMAIN table)
  BY CallMoves DEF TypeInv, CallsOK
<1> QED BY <1>1 DEF TypeInv, RestOK, SourceOK, RunsOK, PollOK, CallsOK

\* What a step of a request finds.
LEMMA CallFacts ==
  ASSUME TypeInv, NEW c \in Callers
  PROVE  /\ CallIn(call[c], Len(runs), clock, DOMAIN table)
         /\ call[c] \in CallState /\ call[c].cursor \in Cursor(Keys)
         /\ call \in [Callers -> CallState]
         /\ CallIn(IdleCall, Len(runs), clock, DOMAIN table)
BY IdleCallOK, PollFacts DEF TypeInv, CallsOK, CallIn, CallState

LEMMA AskType ==
  ASSUME TypeInv, NEW c \in Callers, AskStart(c) \/ AskStop(c)
  PROVE  TypeInv'
<1>1. MaxCalls \in Nat /\ 0 \in 0 .. CooldownPolls
  BY BoundsAssumption
<1>2. BoundOK'
  BY <1>1 DEF AskStart, AskStop, Asked, TypeInv, BoundOK
<1>3. RestOK' /\ UNCHANGED <<table, clock, runs, poll>>
  BY <1>1, <1>2
  DEF AskStart, AskStop, Unscheduled, TypeInv, RestOK, StoreOK, QueueOK, ProcOK, HistOK,
      Cadence, sourceVars, storeVars, queueVars, procVars, histVars
<1>4. PICK op \in Ops, s \in {"check", "find"} :
        call' = [call EXCEPT ![c] = [call[c] EXCEPT !.step = s, !.op = op]]
  BY DEF AskStart, AskStop, Asked
<1> DEFINE q == [call[c] EXCEPT !.step = s, !.op = op]
<1>5. CallIn(q, Len(runs), clock, DOMAIN table)
  BY CallFacts DEF CallIn, CallState, CallSteps
<1> HIDE DEF q
<1> QED BY <1>3, <1>4, <1>5, CallAlone DEF q

LEMMA CheckType ==
  ASSUME TypeInv, NEW c \in Callers, CheckActive(c)
  PROVE  TypeInv'
<1>1. RestOK' /\ UNCHANGED <<table, clock, runs, poll>>
  BY DEF CheckActive, TypeInv, RestOK, StoreOK, QueueOK, ProcOK, HistOK, BoundOK,
         sourceVars, storeVars, queueVars, procVars, histVars, boundVars
<1> DEFINE q == IF Listening THEN IdleCall
                ELSE [call[c] EXCEPT !.step = "latest", !.trigger = hook.trigger]
<1>2. call' = [call EXCEPT ![c] = q]
  BY DEF CheckActive, Done
<1>3. CallIn(q, Len(runs), clock, DOMAIN table)
  BY CallFacts, PollFacts DEF CallIn, CallState, CallSteps
<1> HIDE DEF q
<1> QED BY <1>1, <1>2, <1>3, CallAlone

LEMMA LatestType ==
  ASSUME TypeInv, NEW c \in Callers, ReadLatest(c)
  PROVE  TypeInv'
<1>1. RestOK' /\ UNCHANGED <<table, clock, runs, poll>>
  BY DEF ReadLatest, TypeInv, RestOK, StoreOK, QueueOK, ProcOK, HistOK, BoundOK,
         sourceVars, storeVars, queueVars, procVars, histVars, boundVars
<1> DEFINE i    == Len(runs)
           fits == i # 0 /\ runs[i].cursor.strategy = call[c].trigger.strategy
           q    == [call[c] EXCEPT !.run = i, !.step = IF fits THEN "resume" ELSE "seed"]
<1>2. call' = [call EXCEPT ![c] = q]
  BY DEF ReadLatest
<1>3. CallIn(q, Len(runs), clock, DOMAIN table)
  <2>1. /\ Len(runs) \in Nat /\ Len(runs) \in 0 .. Len(runs)
        /\ fits => Len(runs) \in 1 .. Len(runs)
    BY PollFacts
  <2> HIDE DEF fits
  <2>2. q \in CallState /\ q.cursor = call[c].cursor /\ q.run = Len(runs) /\ q.op = call[c].op
    BY <2>1, CallFacts DEF CallState, CallSteps
  <2>3. q.step = IF fits THEN "resume" ELSE "seed"
    BY CallFacts DEF CallState
  <2> HIDE DEF q, i
  <2> QED BY <2>1, <2>2, <2>3, CallFacts DEF CallIn
<1> HIDE DEF q
<1> QED BY <1>1, <1>2, <1>3, CallAlone

\* A request changes the status of a run, and goes on.
LEMMA StatusType ==
  ASSUME TypeInv, NEW c \in Callers, UNCHANGED <<table, clock, poll>>, RestOK',
         NEW status \in {"running", "paused"}, call[c].run \in 1 .. Len(runs),
         runs' = [runs EXCEPT ![call[c].run].status = status],
         NEW q, call' = [call EXCEPT ![c] = q], CallIn(q, Len(runs), clock, DOMAIN table)
  PROVE  TypeInv'
<1> DEFINE i == call[c].run
           r == [runs[i] EXCEPT !.status = status]
<1>1. r \in Run /\ CursorOK(r.cursor, clock, DOMAIN table)
  BY PollFacts DEF Run
<1>2. runs' = [runs EXCEPT ![i] = r]
  OBVIOUS
<1>3. /\ call' \in [Callers -> CallState]
      /\ \A b \in Callers : CallIn(call'[b], Len(runs), clock, DOMAIN table)
  BY CallMoves DEF TypeInv, CallsOK
<1>4. PollIn(poll', Len(runs), clock, DOMAIN table)
  BY DEF TypeInv, PollOK
<1> HIDE DEF r
<1> QED BY <1>1, <1>2, <1>3, <1>4, RunMoves

LEMMA ResumeType ==
  ASSUME TypeInv, NEW c \in Callers, ResumeRun(c)
  PROVE  TypeInv'
<1>1. RestOK' /\ UNCHANGED <<table, clock, poll>>
  BY DEF ResumeRun, TypeInv, RestOK, StoreOK, QueueOK, ProcOK, HistOK, BoundOK,
         sourceVars, queueVars, procVars, histVars, boundVars
<1> DEFINE q == [call[c] EXCEPT !.step = "schedule"]
<1>2. call' = [call EXCEPT ![c] = q]
  BY DEF ResumeRun, Goto
<1>3. CallIn(q, Len(runs), clock, DOMAIN table)
  BY CallFacts DEF CallIn, CallState, CallSteps
<1>4. call[c].run \in 1 .. Len(runs)
  BY CallFacts DEF ResumeRun, CallIn
<1>5. runs' = [runs EXCEPT ![call[c].run].status = "running"]
  BY DEF ResumeRun
<1> HIDE DEF q
<1> QED BY <1>1, <1>2, <1>3, <1>4, <1>5, StatusType

LEMMA PauseType ==
  ASSUME TypeInv, NEW c \in Callers, PauseRun(c)
  PROVE  TypeInv'
<1>1. RestOK' /\ UNCHANGED <<table, clock, poll>>
  BY DEF PauseRun, TypeInv, RestOK, StoreOK, QueueOK, ProcOK, HistOK, BoundOK,
         sourceVars, queueVars, procVars, histVars, boundVars
<1> DEFINE q == IF call[c].op = "edit" THEN [call[c] EXCEPT !.step = "edit"] ELSE IdleCall
<1>2. call' = [call EXCEPT ![c] = q]
  BY DEF PauseRun, Goto, Done
<1>3. CallIn(q, Len(runs), clock, DOMAIN table)
  BY CallFacts DEF CallIn, CallState, CallSteps
<1>4. call[c].run \in 1 .. Len(runs)
  BY CallFacts DEF PauseRun, CallIn
<1>5. runs' = [runs EXCEPT ![call[c].run].status = "paused"]
  BY DEF PauseRun
<1> HIDE DEF q
<1> QED BY <1>1, <1>2, <1>3, <1>4, <1>5, StatusType

LEMMA RowsOK == TypeInv => Rows \subseteq Row
BY DEF TypeInv, SourceOK, TableIn, Rows, Row

\* The last value in the order of the source.
LEMMA LastAtOK == TypeInv => LastAt \in 0 .. clock
<1> SUFFICES ASSUME TypeInv PROVE LastAt \in 0 .. clock
  OBVIOUS
<1> DEFINE S == Range(table) \union {Null}
<1>1. clock \in Nat /\ S # {} /\ S \subseteq 0 .. clock
  BY DEF TypeInv, SourceOK, TableIn, Range, Null
<1>2. S \subseteq Nat /\ \A x \in S : x <= clock
  BY <1>1
<1> HIDE DEF S
<1>3. Max(S) \in S
  BY <1>1, <1>2, MaxOf
<1>4. LastAt = Null \/ LastAt = Max(S)
  BY DEF LastAt, S
<1>5. Null \in 0 .. clock
  BY <1>1 DEF Null
<1>6. Max(S) \in 0 .. clock
  BY <1>1, <1>3
<1> QED BY <1>4, <1>5, <1>6

\* A cursor after some value.
LEMMA CursorAtOK ==
  ASSUME NEW n \in Nat, NEW D, NEW s \in Strategies, NEW at \in 0 .. n
  PROVE  /\ CursorOK([EmptyCursor(s) EXCEPT !.at = at], n, D)
         /\ [EmptyCursor(s) EXCEPT !.at = at].strategy = s
<1> DEFINE e == EmptyCursor(s)
           f == [e EXCEPT !.at = at]
<1>1. e = [strategy |-> s, at |-> Null, keys |-> {}, seen |-> <<>>]
  BY DEF EmptyCursor
<1>2. <<>> \in Seq(Keys) /\ Len(<<>>) = 0 /\ at \in Nat /\ at <= n /\ Null \in Nat
  BY DEF Null
<1> HIDE DEF e
<1>3. f \in Cursor(Keys)
  BY <1>1, <1>2 DEF Cursor
<1>4. f.strategy = s /\ f.at = at /\ f.keys = {} /\ f.seen = <<>>
  BY <1>1
<1> HIDE DEF f
<1>5. CursorOK(f, n, D)
  BY <1>2, <1>3, <1>4 DEF CursorOK
<1> QED BY <1>4, <1>5 DEF e, f

LEMMA SeedType ==
  ASSUME TypeInv, NEW c \in Callers, SeedCursor(c)
  PROVE  TypeInv'
<1>1. RestOK' /\ UNCHANGED <<table, clock, runs, poll>>
  BY DEF SeedCursor, TypeInv, RestOK, StoreOK, QueueOK, ProcOK, HistOK, BoundOK,
         sourceVars, storeVars, queueVars, procVars, histVars, boundVars
<1> DEFINE strategy == call[c].trigger.strategy
           empty    == EmptyCursor(strategy)
<1>2. /\ call[c].step = "seed" /\ call[c].run \in 0 .. Len(runs)
      /\ call[c].trigger \in Trigger /\ strategy \in Strategies
  BY CallFacts DEF SeedCursor, CallIn, CallState, Trigger
<1>3. CursorOK(empty, clock, DOMAIN table)
  BY <1>2, EmptyCursorOK, PollFacts
<1>4. ASSUME NEW step \in {"write", "boundary"}, NEW cursor, Seeded(c, step, cursor),
             CursorOK(cursor, clock, DOMAIN table),
             step = "boundary" => cursor.strategy = "timestamp"
      PROVE  TypeInv'
  <2> DEFINE old == IF call[c].trigger.from = "now" THEN Rows ELSE {}
             q   == [call[c] EXCEPT !.step = step, !.cursor = cursor, !.old = old]
  <2>1. call' = [call EXCEPT ![c] = q]
    BY <1>4 DEF Seeded
  <2>2. old \subseteq Row
    BY RowsOK
  <2>3. cursor \in Cursor(Keys)
    BY <1>4 DEF CursorOK
  <2> HIDE DEF old
  <2>4. CallIn(q, Len(runs), clock, DOMAIN table)
    BY <1>2, <1>4, <2>2, <2>3, CallFacts DEF CallIn, CallState, CallSteps
  <2> HIDE DEF q
  <2> QED BY <1>1, <2>1, <2>4, CallAlone
<1>5. CASE call[c].trigger.from = "beginning" /\ Seeded(c, "write", empty)
  BY <1>3, <1>4, <1>5
<1>6. CASE /\ strategy # "snapshot"
           /\ Seeded(c, IF strategy = "timestamp" /\ LastAt # Null
                        THEN "boundary" ELSE "write", [empty EXCEPT !.at = LastAt])
  <2> DEFINE step   == IF strategy = "timestamp" /\ LastAt # Null THEN "boundary" ELSE "write"
             cursor == [empty EXCEPT !.at = LastAt]
  <2>1. CursorOK(cursor, clock, DOMAIN table) /\ cursor.strategy = strategy
    <3> HIDE DEF strategy
    <3>1. /\ CursorOK([EmptyCursor(strategy) EXCEPT !.at = LastAt], clock, DOMAIN table)
          /\ [EmptyCursor(strategy) EXCEPT !.at = LastAt].strategy = strategy
      BY <1>2, LastAtOK, PollFacts, CursorAtOK
    <3> QED BY <3>1 DEF cursor, empty
  <2>2. step \in {"write", "boundary"} /\ (step = "boundary" => strategy = "timestamp")
    OBVIOUS
  <2>3. Seeded(c, step, cursor)
    BY <1>6
  <2> HIDE DEF step, cursor
  <2> QED BY <1>4, <2>1, <2>2, <2>3
<1>7. CASE /\ strategy = "snapshot"
           /\ \E page \in Pages(table, call[c].trigger, empty) :
                Seeded(c, "write", [empty EXCEPT !.seen = page])
  <2>1. PICK page \in Pages(table, call[c].trigger, empty) :
               Seeded(c, "write", [empty EXCEPT !.seen = page])
    BY <1>7
  <2>2. page \in Seq(Keys) /\ \A i \in 1 .. Len(page) : page[i] \in DOMAIN table
    BY <1>2, PageOK DEF TypeInv, SourceOK, Candidates
  <2>3. CursorOK([empty EXCEPT !.seen = page], clock, DOMAIN table)
    BY <1>3, <1>7, <2>2 DEF CursorOK, Cursor, EmptyCursor
  <2> QED BY <1>4, <2>1, <2>3
<1> QED BY <1>5, <1>6, <1>7 DEF SeedCursor

LEMMA BoundaryType ==
  ASSUME TypeInv, NEW c \in Callers, SeedBoundary(c)
  PROVE  TypeInv'
<1>1. RestOK' /\ UNCHANGED <<table, clock, runs, poll>>
  BY DEF SeedBoundary, TypeInv, RestOK, StoreOK, QueueOK, ProcOK, HistOK, BoundOK,
         sourceVars, storeVars, queueVars, procVars, histVars, boundVars
<1> DEFINE keys == {k \in DOMAIN table : table[k] >= call[c].cursor.at}
           cur  == [call[c].cursor EXCEPT !.keys = keys]
           new  == Rows \ call[c].old
           q    == [call[c] EXCEPT !.step = "write", !.new = new, !.cursor = cur]
<1>2. call' = [call EXCEPT ![c] = q]
  BY DEF SeedBoundary
<1>3. call[c].step = "boundary" /\ call[c].cursor.strategy = "timestamp"
      /\ call[c].run \in 0 .. Len(runs) /\ CursorOK(call[c].cursor, clock, DOMAIN table)
  BY CallFacts DEF SeedBoundary, CallIn
<1>4. new \subseteq Row
  BY RowsOK
<1>5. keys \subseteq DOMAIN table /\ DOMAIN table \subseteq Keys
  BY DEF TypeInv, SourceOK, TableIn
<1> HIDE DEF new, keys
<1>6. CursorOK(cur, clock, DOMAIN table)
  BY <1>3, <1>5 DEF CursorOK, Cursor
<1>7. cur \in Cursor(Keys)
  BY <1>6 DEF CursorOK
<1> HIDE DEF cur
<1>8. CallIn(q, Len(runs), clock, DOMAIN table)
  BY <1>3, <1>4, <1>6, <1>7, CallFacts DEF CallIn, CallState, CallSteps
<1> HIDE DEF q
<1> QED BY <1>1, <1>2, <1>8, CallAlone

LEMMA WriteType ==
  ASSUME TypeInv, NEW c \in Callers, WriteRun(c)
  PROVE  TypeInv'
<1>1. UNCHANGED <<table, clock, poll>>
  BY DEF WriteRun, sourceVars
<1>2. HistOK'
  BY CallFacts DEF WriteRun, TypeInv, HistOK, CallState
<1>3. RestOK'
  BY <1>2 DEF WriteRun, TypeInv, RestOK, StoreOK, QueueOK, ProcOK, BoundOK,
              queueVars, procVars, boundVars
<1> DEFINE q == [call[c] EXCEPT !.step = "schedule"]
           i == call[c].run
<1>4. call' = [call EXCEPT ![c] = q]
  BY DEF WriteRun, Goto
<1>5. CallIn(q, Len(runs), clock, DOMAIN table)
  BY CallFacts DEF CallIn, CallState, CallSteps
<1>6. i \in 0 .. Len(runs) /\ CursorOK(call[c].cursor, clock, DOMAIN table)
  BY CallFacts DEF WriteRun, CallIn
<1>7. call[c].cursor \in Cursor(Keys)
  BY <1>6 DEF CursorOK
<1> HIDE DEF q
<1>8. CASE i # 0
  <2> DEFINE r == [runs[i] EXCEPT !.status = "running", !.cursor = call[c].cursor]
  <2>1. i \in 1 .. Len(runs)
    BY <1>6, <1>8, PollFacts
  <2>2. r \in Run /\ CursorOK(r.cursor, clock, DOMAIN table)
    BY <1>6, <1>7, <2>1, PollFacts DEF Run
  <2>3. runs' = [runs EXCEPT ![i] = r]
    BY <1>8 DEF WriteRun
  <2>4. /\ call' \in [Callers -> CallState]
        /\ \A b \in Callers : CallIn(call'[b], Len(runs), clock, DOMAIN table)
    BY <1>4, <1>5, CallMoves DEF TypeInv, CallsOK
  <2>5. PollIn(poll', Len(runs), clock, DOMAIN table)
    BY <1>1 DEF TypeInv, PollOK
  <2> HIDE DEF r, i
  <2> QED BY <1>1, <1>3, <2>1, <2>2, <2>3, <2>4, <2>5, RunMoves
<1>9. CASE i = 0
  <2> DEFINE r == [status |-> "running", cursor |-> call[c].cursor, offset |-> 0]
             len == Len(runs)
  <2>1. runs' = Append(runs, r)
    BY <1>9 DEF WriteRun
  <2>2. r \in Run /\ CursorOK(r.cursor, clock, DOMAIN table)
    BY <1>6, <1>7 DEF Run
  <2>3. runs \in Seq(Run) /\ len \in Nat /\ clock \in Nat
    BY PollFacts DEF TypeInv, RunsOK, RunsIn
  <2> HIDE DEF r
  <2>4. /\ runs' \in Seq(Run) /\ Len(runs') = len + 1
        /\ \A j \in 1 .. len : runs'[j] = runs[j]
        /\ runs'[len + 1] = r
    BY <2>1, <2>2, <2>3, AppendProperties
  <2>5. RunsIn(runs', clock, DOMAIN table)
    <3>1. ASSUME NEW j \in 1 .. Len(runs')
          PROVE  CursorOK(runs'[j].cursor, clock, DOMAIN table)
      <4>1. j \in 1 .. len \/ j = len + 1
        BY <2>3, <2>4
      <4> QED BY <2>2, <2>4, <4>1, PollFacts
    <3> QED BY <2>4, <3>1 DEF RunsIn
  <2>6. PollIn(poll, Len(runs'), clock, DOMAIN table)
    <3>1. PollIn(poll, len, clock, DOMAIN table)
      BY DEF TypeInv, PollOK
    <3>2. len + 1 \in Nat /\ len <= len + 1 /\ clock <= clock
      BY <2>3
    <3> HIDE DEF len
    <3> QED BY <2>3, <2>4, <3>1, <3>2, PollGrows
  <2>7. \A b \in Callers : CallIn(call[b], Len(runs'), clock, DOMAIN table)
    BY <2>3, <2>4, CallGrows DEF TypeInv, CallsOK
  <2>8. CallIn(q, Len(runs'), clock, DOMAIN table)
    BY <1>5, <2>3, <2>4, CallGrows
  <2>9. CallsOK'
    BY <1>1, <1>4, <2>7, <2>8, CallMoves DEF TypeInv, CallsOK
  <2> QED
    BY <1>1, <1>3, <2>5, <2>6, <2>9 DEF TypeInv, RestOK, SourceOK, RunsOK, PollOK
<1> QED BY <1>8, <1>9

LEMMA ScheduleType ==
  ASSUME TypeInv, NEW c \in Callers, Schedule(c)
  PROVE  TypeInv'
<1>1. 0 \in 0 .. CooldownPolls
  BY BoundsAssumption
<1>2. RestOK' /\ UNCHANGED <<table, clock, runs, poll>>
  BY <1>1
  DEF Schedule, TypeInv, RestOK, StoreOK, QueueOK, ProcOK, HistOK, BoundOK, Cadence,
      sourceVars, storeVars, histVars, boundVars
<1>3. call' = [call EXCEPT ![c] = IdleCall]
  BY DEF Schedule, Done
<1> QED BY <1>2, <1>3, CallFacts, CallAlone

LEMMA FindType ==
  ASSUME TypeInv, NEW c \in Callers, FindRunning(c)
  PROVE  TypeInv'
<1>1. RestOK' /\ UNCHANGED <<table, clock, runs, poll>>
  BY DEF FindRunning, TypeInv, RestOK, StoreOK, QueueOK, ProcOK, HistOK, BoundOK,
         sourceVars, storeVars, queueVars, procVars, histVars, boundVars
<1>2. CASE Listening
  <2> DEFINE i == Max(Running)
             q == [call[c] EXCEPT !.step = "pause", !.run = i, !.live = TRUE]
  <2>1. call' = [call EXCEPT ![c] = q]
    BY <1>2 DEF FindRunning
  <2>2. i \in 1 .. Len(runs) /\ i \in Nat
    BY <1>2, RunningOK
  <2> HIDE DEF i
  <2>3. CallIn(q, Len(runs), clock, DOMAIN table)
    BY <2>2, CallFacts DEF CallIn, CallState, CallSteps
  <2> HIDE DEF q
  <2> QED BY <1>1, <2>1, <2>3, CallAlone
<1>3. CASE ~Listening
  <2> DEFINE q == IF call[c].op = "edit" THEN [call[c] EXCEPT !.step = "edit"] ELSE IdleCall
  <2>1. call' = [call EXCEPT ![c] = q]
    BY <1>3 DEF FindRunning, Goto, Done
  <2>2. CallIn(q, Len(runs), clock, DOMAIN table)
    BY CallFacts DEF CallIn, CallState, CallSteps
  <2> HIDE DEF q
  <2> QED BY <1>1, <2>1, <2>2, CallAlone
<1> QED BY <1>2, <1>3

LEMMA EditType ==
  ASSUME TypeInv, NEW c \in Callers, EditHook(c)
  PROVE  TypeInv'
<1>1. RestOK' /\ UNCHANGED <<table, clock, runs, poll>>
  BY DEF EditHook, TypeInv, RestOK, StoreOK, QueueOK, ProcOK, HistOK, BoundOK,
         sourceVars, queueVars, procVars, histVars, boundVars
<1>2. PICK q \in {[call[c] EXCEPT !.step = "check"], IdleCall} : call' = [call EXCEPT ![c] = q]
  BY DEF EditHook, Goto, Done
<1>3. CallIn(q, Len(runs), clock, DOMAIN table)
  BY CallFacts DEF CallIn, CallState, CallSteps
<1> QED BY <1>1, <1>2, <1>3, CallAlone

LEMMA CallFailsType ==
  ASSUME TypeInv, NEW c \in Callers, CallFails(c)
  PROVE  TypeInv'
<1>1. BoundOK'
  BY BoundsAssumption DEF CallFails, Fails, TypeInv, BoundOK
<1>2. RestOK' /\ UNCHANGED <<table, clock, runs, poll>>
  BY <1>1
  DEF CallFails, TypeInv, RestOK, StoreOK, QueueOK, ProcOK, HistOK,
      sourceVars, storeVars, queueVars, procVars, histVars
<1> DEFINE q == IF call[c].op = "edit" /\ call[c].step \in {"find", "pause"}
                THEN [call[c] EXCEPT !.step = "edit", !.live = FALSE] ELSE IdleCall
<1>3. call' = [call EXCEPT ![c] = q]
  BY DEF CallFails, Done
<1>4. CallIn(q, Len(runs), clock, DOMAIN table)
  BY CallFacts DEF CallIn, CallState, CallSteps
<1> HIDE DEF q
<1> QED BY <1>2, <1>3, <1>4, CallAlone

LEMMA CrashType ==
  ASSUME TypeInv, Crash \/ Boot
  PROVE  TypeInv'
<1>1. BoundOK'
  BY BoundsAssumption DEF Crash, Boot, Fails, TypeInv, BoundOK, boundVars
<1>2. ProcOK' /\ QueueOK'
  <2>1. 0 \in 0 .. CooldownPolls
    BY BoundsAssumption
  <2> QED BY <2>1 DEF Crash, Boot, TypeInv, ProcOK, QueueOK, Cadence
<1>3. RestOK' /\ UNCHANGED <<table, clock, runs>>
  BY <1>1, <1>2
  DEF Crash, Boot, TypeInv, RestOK, StoreOK, HistOK, sourceVars, storeVars, histVars
<1>4. PollOK'
  BY <1>3, IdlePollOK, PollFacts DEF Crash, Boot, PollOK, TypeInv
<1>5. CallsOK'
  BY <1>3, IdleCallOK, PollFacts DEF Crash, Boot, CallsOK, TypeInv, CallIn
<1> QED BY <1>3, <1>4, <1>5 DEF TypeInv, RestOK, SourceOK, RunsOK

\* Every step keeps the invariant.
LEMMA StepType == TypeInv /\ [Next]_vars => TypeInv'
<1> SUFFICES ASSUME TypeInv, [Next]_vars PROVE TypeInv'
  OBVIOUS
<1>1. CASE SourceNext
  BY <1>1, SourceType
<1>2. CASE Fire \/ SkipOverlap
  BY <1>2, FireType
<1>3. CASE PollNext
  BY <1>3, BeginPollType, RetireType, ResolveType, RejectType, QueryType, DeliverType,
     RecordType, CheckpointType, SaveCursorType, AdaptType DEF PollNext
<1>4. CASE PollFails
  BY <1>4, PollFailsType
<1>5. CASE Crash \/ Boot
  BY <1>5, CrashType
<1>6. ASSUME NEW c \in Callers, CallerNext(c) PROVE TypeInv'
  BY <1>6, AskType, CheckType, LatestType, ResumeType, SeedType, BoundaryType, WriteType,
     ScheduleType, FindType, PauseType, EditType, CallFailsType DEF CallerNext, CallGoesOn
<1>7. CASE UNCHANGED vars
  BY <1>7
  DEF vars, sourceVars, storeVars, queueVars, procVars, histVars, boundVars, TypeInv,
      SourceOK, RunsOK, PollOK, CallsOK, StoreOK, QueueOK, ProcOK, HistOK, BoundOK
<1> QED BY <1>1, <1>2, <1>3, <1>4, <1>5, <1>6, <1>7 DEF Next

LEMMA TypeInvariant == Spec => []TypeInv
BY InitType, StepType, PTL DEF Spec

\* Every variable keeps its type, whatever the users, the polls, the source and the
\* failures do: cursors stay cursors of rows that exist, and polls and requests point
\* at runs that exist.
THEOREM TypeCorrect == Spec => []TypeOK
BY TypeInvariant, TypeInvTypes, PTL
------------------------------------------------------------------------------
(***************************************************************************)
(* No row is lost.                                                          *)
(***************************************************************************)

\* The source only grows: values increase, but for rows that share one in the source of
\* a hook that nobody edits, and rows without a value.
AppendOnly ==
  /\ Changes \subseteq {"insert", "tie", "null"}
  /\ "tie" \in Changes => "edit" \notin Ops

Known == SentRows \union baseline \union meanwhile

\* The rows a cursor has passed are known, or are among some others.
BackedIn(t, known, cursor, others) ==
  \A k \in DOMAIN t :
    PassedIn(t, cursor, k) => [key |-> k, at |-> t[k]] \in known \union others

Backed(cursor, others) == BackedIn(table, Known, cursor, others)

RunsBacked == \A i \in 1 .. Len(runs) : Backed(runs[i].cursor, {})

Holding == {"deliver", "record", "checkpoint", "advance"}

\* The poll's cursor has passed rows the poll still holds.
PollBacked ==
  /\ poll.step \in {"resolve", "query"} => Backed(poll.cursor, {})
  /\ poll.step \in Holding => Backed(poll.cursor, Range(poll.page))
  /\ poll.step \in {"record", "checkpoint"} => Head(poll.page) \in Known

\* The cursor of a start has passed the rows that were there as it looked.
CallsBacked ==
  \A c \in Callers : call[c].step \in {"boundary", "write"} =>
    Backed(call[c].cursor, call[c].old \union call[c].new)

\* Rows share a value where no cursor of the increment strategy looks.
Ties == "tie" \in Changes /\ hook.trigger.strategy # "increment"

NoIncrement ==
  /\ \A i \in 1 .. Len(runs) : runs[i].cursor.strategy # "increment"
  /\ poll.cursor.strategy # "increment"
  /\ \A c \in Callers :
       /\ call[c].cursor.strategy # "increment"
       /\ call[c].step \in {"latest", "seed"} => call[c].trigger.strategy # "increment"

TiesOK == (Ties => NoIncrement) /\ (~Ties => DistinctIn(table))

BackedInv == RunsBacked /\ PollBacked /\ CallsBacked /\ TiesOK

\* A row that comes with a value no cursor has reached is passed by none.
LEMMA FreshUnpassed ==
  ASSUME NEW n \in Nat, NEW D, NEW cursor, CursorOK(cursor, n, D), NEW k, k \notin D,
         NEW u, u[k] \in Nat,
         u[k] > n \/ u[k] = Null \/ (u[k] = n /\ cursor.strategy # "increment")
  PROVE  ~PassedIn(u, cursor, k)
<1>1. cursor.strategy \in Strategies /\ cursor.at \in Nat /\ cursor.at <= n
      /\ k \notin cursor.keys /\ cursor.seen \in Seq(Keys)
  BY DEF CursorOK, Cursor
<1>2. k \notin Range(cursor.seen)
  BY <1>1 DEF CursorOK, Range
<1>3. ~(u[k] \in 1 .. cursor.at - 1)
  BY <1>1 DEF Null
<1>4. cursor.strategy = "increment" => ~(u[k] \in 1 .. cursor.at)
  BY <1>1 DEF Null
<1> QED BY <1>1, <1>2, <1>3, <1>4 DEF PassedIn

\* What backs a cursor goes on backing it.
LEMMA BackedGrows ==
  ASSUME NEW t, NEW u, DOMAIN t \subseteq DOMAIN u, \A k \in DOMAIN t : u[k] = t[k],
         NEW a, NEW b, a \subseteq b, NEW cursor,
         \A k \in DOMAIN u : k \notin DOMAIN t => ~PassedIn(u, cursor, k),
         NEW others, BackedIn(t, a, cursor, others)
  PROVE  BackedIn(u, b, cursor, others)
<1> SUFFICES ASSUME NEW k \in DOMAIN u, PassedIn(u, cursor, k)
             PROVE  [key |-> k, at |-> u[k]] \in b \union others
  BY DEF BackedIn
<1>1. k \in DOMAIN t /\ u[k] = t[k]
  OBVIOUS
<1>2. PassedIn(t, cursor, k)
  BY <1>1 DEF PassedIn
<1> QED BY <1>1, <1>2 DEF BackedIn

\* History grows.
LEMMA KnownGrows ==
  ASSUME [Next]_vars
  PROVE  Known \subseteq Known'
<1>1. sent \subseteq sent' /\ baseline \subseteq baseline' /\ meanwhile \subseteq meanwhile'
  BY DEF Next, SourceNext, Insert, InsertTie, TakeValue, InsertLate, InsertNull, Update, Put,
         Fire, SkipOverlap, PollNext, BeginPoll, Retire, ResolveHook, RejectRun, QueryPage,
         DeliverRow, RecordRow, CheckpointRow, SaveCursor, Adapt, PollFails, Crash, Boot,
         CallerNext, CallGoesOn, AskStart, AskStop, CheckActive, ReadLatest, ResumeRun,
         SeedCursor, SeedBoundary, WriteRun, Schedule, FindRunning, PauseRun, EditHook,
         CallFails, vars, histVars
<1> QED BY <1>1 DEF Known, SentRows

\* Everything the invariant says goes on holding of the old cursors, if the source keeps
\* its rows and what comes is passed by none of them.
LEMMA BackedFrame ==
  ASSUME TypeInv, BackedInv, [Next]_vars,
         DOMAIN table \subseteq DOMAIN table', \A k \in DOMAIN table : table'[k] = table[k],
         \A k \in DOMAIN table' : \A cursor :
           (/\ k \notin DOMAIN table
            /\ CursorOK(cursor, clock, DOMAIN table)
            /\ Ties => cursor.strategy # "increment")
             => ~PassedIn(table', cursor, k)
  PROVE  LET Goes(cursor, others) == BackedIn(table', Known', cursor, others)
         IN  /\ \A i \in 1 .. Len(runs) : Goes(runs[i].cursor, {})
             /\ poll.step \in {"resolve", "query"} => Goes(poll.cursor, {})
             /\ poll.step \in Holding => Goes(poll.cursor, Range(poll.page))
             /\ poll.step \in {"record", "checkpoint"} => Head(poll.page) \in Known'
             /\ \A c \in Callers : call[c].step \in {"boundary", "write"} =>
                  Goes(call[c].cursor, call[c].old \union call[c].new)
<1>1. Known \subseteq Known'
  BY KnownGrows
<1>2. ASSUME NEW cursor, NEW others, CursorOK(cursor, clock, DOMAIN table),
             Ties => cursor.strategy # "increment", Backed(cursor, others)
      PROVE  BackedIn(table', Known', cursor, others)
  BY <1>1, <1>2, BackedGrows DEF Backed
<1>3. ASSUME NEW i \in 1 .. Len(runs)
      PROVE  BackedIn(table', Known', runs[i].cursor, {})
  BY <1>2, <1>3 DEF BackedInv, RunsBacked, TiesOK, NoIncrement, TypeInv, RunsOK, RunsIn
<1>4. ASSUME NEW others, Backed(poll.cursor, others)
      PROVE  BackedIn(table', Known', poll.cursor, others)
  BY <1>2, <1>4 DEF BackedInv, TiesOK, NoIncrement, TypeInv, PollOK, PollIn
<1>5. ASSUME NEW c \in Callers, NEW others, Backed(call[c].cursor, others)
      PROVE  BackedIn(table', Known', call[c].cursor, others)
  BY <1>2, <1>5 DEF BackedInv, TiesOK, NoIncrement, TypeInv, CallsOK, CallIn
<1> QED BY <1>1, <1>3, <1>4, <1>5 DEF BackedInv, PollBacked, CallsBacked

LEMMA SourceBacked ==
  ASSUME TypeInv, BackedInv, AppendOnly, SourceNext
  PROVE  BackedInv'
<1>1. UNCHANGED <<hook, runs, poll, call, sent, baseline, meanwhile>>
  BY DEF SourceNext, Insert, InsertTie, TakeValue, InsertLate, InsertNull, Update, Put,
         AppendOnly, storeVars, histVars
<1>2. clock \in Nat /\ \A k \in DOMAIN table : table[k] \in 0 .. clock
  BY DEF TypeInv, SourceOK, TableIn
<1>3. PICK k \in Keys \ DOMAIN table, at \in {clock + 1, clock, Null} :
        /\ Put(k, at)
        /\ at = clock => Ties \/ at = Null
  <2>1. Insert \/ InsertTie \/ InsertNull
    BY DEF SourceNext, AppendOnly, TakeValue, InsertLate, Update
  <2>2. CASE Insert
    BY <1>2, <2>2 DEF Insert, Fresh
  <2>3. CASE InsertTie
    BY <2>3 DEF InsertTie, Fresh, Ties
  <2>4. CASE InsertNull
    BY <2>4 DEF InsertNull, Fresh
  <2> QED BY <2>1, <2>2, <2>3, <2>4
<1>4. /\ DOMAIN table' = DOMAIN table \union {k}
      /\ table'[k] = at
      /\ \A x \in DOMAIN table : table'[x] = table[x]
  BY <1>3 DEF Put
<1>5. ASSUME NEW x \in DOMAIN table', NEW cursor, x \notin DOMAIN table,
             CursorOK(cursor, clock, DOMAIN table), Ties => cursor.strategy # "increment"
      PROVE  ~PassedIn(table', cursor, x)
  <2>1. x = k /\ table'[x] = at /\ at \in Nat
    BY <1>2, <1>4, <1>5 DEF Null
  <2>2. at > clock \/ at = Null \/ (at = clock /\ cursor.strategy # "increment")
    BY <1>2, <1>3, <1>5
  <2> QED BY <1>2, <1>5, <2>1, <2>2, FreshUnpassed
<1>6. [Next]_vars
  BY DEF Next
<1>7. /\ \A i \in 1 .. Len(runs) : BackedIn(table', Known', runs[i].cursor, {})
      /\ poll.step \in {"resolve", "query"} => BackedIn(table', Known', poll.cursor, {})
      /\ poll.step \in Holding => BackedIn(table', Known', poll.cursor, Range(poll.page))
      /\ poll.step \in {"record", "checkpoint"} => Head(poll.page) \in Known'
      /\ \A c \in Callers : call[c].step \in {"boundary", "write"} =>
           BackedIn(table', Known', call[c].cursor, call[c].old \union call[c].new)
  BY <1>4, <1>5, <1>6, BackedFrame
<1>8. TiesOK'
  <2>1. Ties' = Ties /\ (Ties => NoIncrement')
    BY <1>1 DEF BackedInv, TiesOK, Ties, NoIncrement
  <2>2. ASSUME ~Ties PROVE DistinctIn(table')
    <3>1. DistinctIn(table)
      BY <2>2 DEF BackedInv, TiesOK
    <3>2. at = clock + 1 \/ at = Null
      BY <1>3, <2>2
    <3>3. \A x \in DOMAIN table : table[x] # Null => table[x] # at
      BY <1>2, <3>2
    <3> QED BY <1>4, <3>1, <3>3 DEF DistinctIn
  <2> QED BY <2>1, <2>2 DEF TiesOK
<1> QED
  BY <1>1, <1>7, <1>8 DEF BackedInv, RunsBacked, PollBacked, CallsBacked, Backed

\* A step that leaves the source alone keeps what backs the old cursors.
LEMMA SameTable ==
  ASSUME TypeInv, BackedInv, [Next]_vars, table' = table
  PROVE  /\ \A i \in 1 .. Len(runs) : BackedIn(table', Known', runs[i].cursor, {})
         /\ poll.step \in {"resolve", "query"} => BackedIn(table', Known', poll.cursor, {})
         /\ poll.step \in Holding => BackedIn(table', Known', poll.cursor, Range(poll.page))
         /\ poll.step \in {"record", "checkpoint"} => Head(poll.page) \in Known'
         /\ \A c \in Callers : call[c].step \in {"boundary", "write"} =>
              BackedIn(table', Known', call[c].cursor, call[c].old \union call[c].new)
BY BackedFrame

\* Nobody edits the hook of a source with ties.
LEMMA TiesStay ==
  ASSUME TypeInv, AppendOnly, [Next]_vars
  PROVE  Ties' = Ties
<1>1. CASE hook' = hook
  BY <1>1 DEF Ties
<1>2. CASE hook' # hook
  <2>1. \E c \in Callers : EditHook(c)
    BY <1>2
    DEF Next, SourceNext, Insert, InsertTie, TakeValue, InsertLate, InsertNull, Update, Put,
        Fire, SkipOverlap, PollNext, BeginPoll, Retire, ResolveHook, RejectRun, QueryPage,
        DeliverRow, RecordRow, CheckpointRow, SaveCursor, Adapt, PollFails, Crash, Boot,
        CallerNext, CallGoesOn, AskStart, AskStop, CheckActive, ReadLatest, ResumeRun,
        SeedCursor, SeedBoundary, WriteRun, Schedule, FindRunning, PauseRun, CallFails, vars,
        storeVars
  <2>2. "edit" \in Ops
    BY <2>1, CallFacts DEF EditHook, CallIn, CallState
  <2> QED BY <2>2 DEF AppendOnly, Ties
<1> QED BY <1>1, <1>2

\* No cursor of the increment strategy comes up.
LEMMA TiesStep ==
  ASSUME TypeInv, BackedInv, AppendOnly, [Next]_vars, table' = table,
         Ties => NoIncrement'
  PROVE  TiesOK'
BY TiesStay DEF BackedInv, TiesOK

\* A step of the poll that leaves the requests and the cursors of the runs alone.
LEMMA PollBackedStep ==
  ASSUME TypeInv, BackedInv, AppendOnly, [Next]_vars,
         UNCHANGED <<table, call>>, Len(runs') = Len(runs),
         \A i \in 1 .. Len(runs) : runs'[i].cursor = runs[i].cursor,
         Ties => poll'.cursor.strategy # "increment", PollBacked'
  PROVE  BackedInv'
<1>1. RunsBacked' /\ CallsBacked'
  BY SameTable DEF RunsBacked, CallsBacked, Backed
<1>2. Ties => NoIncrement'
  BY DEF BackedInv, TiesOK, NoIncrement
<1> QED BY <1>1, <1>2, TiesStep DEF BackedInv

LEMMA BeginPollBacked ==
  ASSUME TypeInv, BackedInv, AppendOnly, BeginPoll
  PROVE  BackedInv'
<1>1. UNCHANGED <<table, call, runs>> /\ [Next]_vars
  BY DEF BeginPoll, sourceVars, storeVars, Next, PollNext
<1>2. CASE Listening
  <2> DEFINE i == Max(Running)
  <2>1. i \in 1 .. Len(runs)
    BY <1>2, RunningOK
  <2> HIDE DEF i
  <2>2. poll' = [poll EXCEPT !.step = "resolve", !.run = i,
                   !.cursor = runs[i].cursor, !.seq = runs[i].offset]
    BY <1>2 DEF BeginPoll, i
  <2>3. poll'.step = "resolve" /\ poll'.cursor = runs[i].cursor
    BY <2>2, PollFacts DEF PollState
  <2>4. PollBacked'
    BY <1>1, <2>1, <2>3, SameTable DEF PollBacked, Backed, Holding
  <2>5. Ties => poll'.cursor.strategy # "increment"
    BY <2>1, <2>3 DEF BackedInv, TiesOK, NoIncrement
  <2> QED BY <1>1, <2>4, <2>5, PollBackedStep
<1>3. CASE ~Listening
  <2>1. poll'.step = "retire" /\ poll'.cursor = poll.cursor
    BY <1>3, PollFacts DEF BeginPoll, PollState
  <2>2. PollBacked'
    BY <2>1 DEF PollBacked, Holding
  <2>3. Ties => poll'.cursor.strategy # "increment"
    BY <2>1 DEF BackedInv, TiesOK, NoIncrement
  <2> QED BY <1>1, <2>2, <2>3, PollBackedStep
<1> QED BY <1>2, <1>3

\* The poll ends, or goes to a step without a cursor.
LEMMA PollEndsBacked ==
  ASSUME TypeInv, BackedInv, AppendOnly, [Next]_vars, UNCHANGED <<table, call, runs>>,
         \/ poll' = IdlePoll
         \/ poll'.cursor = poll.cursor /\ poll'.step \notin Holding \union {"resolve", "query"}
  PROVE  BackedInv'
<1>1. PollBacked'
  BY DEF PollBacked, IdlePoll, Holding
<1>2. Ties => poll'.cursor.strategy # "increment"
  BY DEF BackedInv, TiesOK, NoIncrement, IdlePoll, NoCursor, EmptyCursor
<1> QED BY <1>1, <1>2, PollBackedStep

LEMMA ResolveBacked ==
  ASSUME TypeInv, BackedInv, AppendOnly, ResolveHook
  PROVE  BackedInv'
<1>1. UNCHANGED <<table, call, runs>> /\ [Next]_vars
  BY DEF ResolveHook, sourceVars, storeVars, Next, PollNext
<1>2. poll.step = "resolve" /\ poll'.cursor = poll.cursor /\ poll'.step \in {"query", "reject"}
  BY PollFacts DEF ResolveHook, PollState
<1>3. PollBacked'
  BY <1>1, <1>2, SameTable DEF PollBacked, Backed, Holding
<1>4. Ties => poll'.cursor.strategy # "increment"
  BY <1>2 DEF BackedInv, TiesOK, NoIncrement
<1> QED BY <1>1, <1>3, <1>4, PollBackedStep

\* A run's status or offset changes.
LEMMA CursorsKept ==
  ASSUME TypeInv, NEW i \in 1 .. Len(runs), NEW r, runs' = [runs EXCEPT ![i] = r],
         r.cursor = runs[i].cursor
  PROVE  /\ Len(runs') = Len(runs)
         /\ \A j \in 1 .. Len(runs) : runs'[j].cursor = runs[j].cursor
BY DEF TypeInv, RunsOK, RunsIn

LEMMA RejectBacked ==
  ASSUME TypeInv, BackedInv, AppendOnly, RejectRun
  PROVE  BackedInv'
<1>1. UNCHANGED <<table, call>> /\ [Next]_vars
  BY DEF RejectRun, sourceVars, Next, PollNext
<1>2. poll.run \in 1 .. Len(runs) /\ poll'.cursor = poll.cursor /\ poll'.step = "retire"
  BY PollFacts DEF RejectRun, PollState
<1> DEFINE r == [runs[poll.run] EXCEPT !.status = "canceled"]
<1>3. r.cursor = runs[poll.run].cursor
  BY <1>2, PollFacts DEF Run
<1>4. runs' = [runs EXCEPT ![poll.run] = r]
  BY DEF RejectRun
<1> HIDE DEF r
<1>5. /\ Len(runs') = Len(runs)
      /\ \A j \in 1 .. Len(runs) : runs'[j].cursor = runs[j].cursor
  BY <1>2, <1>3, <1>4, CursorsKept
<1>6. PollBacked' /\ (Ties => poll'.cursor.strategy # "increment")
  BY <1>2 DEF PollBacked, Holding, BackedInv, TiesOK, NoIncrement
<1> QED BY <1>1, <1>5, <1>6, PollBackedStep

\* The page as the poll reads it, and the cursor after it.
LEMMA QueryFacts ==
  ASSUME TypeInv, QueryPage
  PROVE  \E page \in Pages(table, poll.trigger, poll.cursor) :
           LET new == NewRows(poll.trigger, poll.cursor, page)
           IN  /\ poll'.step = IF new = <<>> THEN "advance" ELSE "deliver"
               /\ Len(new) \in Nat
               /\ poll'.page = [i \in 1 .. Len(new) |-> [key |-> new[i], at |-> table[new[i]]]]
               /\ poll'.cursor = NextCursor(table, poll.trigger, poll.cursor, page)
               /\ poll'.run = poll.run /\ poll'.seq = poll.seq
               /\ poll'.trigger = poll.trigger
<1>1. PICK page \in Pages(table, poll.trigger, poll.cursor) :
        LET new == NewRows(poll.trigger, poll.cursor, page)
        IN  poll' = [poll EXCEPT
              !.step    = IF new = <<>> THEN "advance" ELSE "deliver",
              !.page    = [i \in DOMAIN new |-> [key |-> new[i], at |-> table[new[i]]]],
              !.flowing = new # <<>>,
              !.cursor  = NextCursor(table, poll.trigger, poll.cursor, page)]
  BY DEF QueryPage
<1> DEFINE new == NewRows(poll.trigger, poll.cursor, page)
<1>2. TableIn(table, clock) /\ poll.trigger \in Trigger
  BY PollFacts DEF TypeInv, SourceOK, PollState
<1>3. new \in Seq(Keys)
  BY <1>2, PageOK, NewRowsOK
<1>4. DOMAIN new = 1 .. Len(new) /\ Len(new) \in Nat
  BY <1>3
<1> HIDE DEF new
<1> QED BY <1>1, <1>4, PollFacts DEF new, PollState

LEMMA QueryBacked ==
  ASSUME TypeInv, BackedInv, AppendOnly, QueryPage
  PROVE  BackedInv'
<1>1. UNCHANGED <<table, call, runs>> /\ [Next]_vars
  BY DEF QueryPage, sourceVars, storeVars, Next, PollNext
<1> DEFINE cursor == poll.cursor
<1>2. PICK page \in Pages(table, poll.trigger, cursor) :
        LET new == NewRows(poll.trigger, cursor, page)
        IN  /\ poll'.step = IF new = <<>> THEN "advance" ELSE "deliver"
            /\ Len(new) \in Nat
            /\ poll'.page = [i \in 1 .. Len(new) |-> [key |-> new[i], at |-> table[new[i]]]]
            /\ poll'.cursor = NextCursor(table, poll.trigger, cursor, page)
  BY QueryFacts
<1> DEFINE new  == NewRows(poll.trigger, cursor, page)
           next == NextCursor(table, poll.trigger, cursor, page)
<1>3. /\ TableIn(table, clock) /\ poll.trigger \in Trigger
      /\ CursorOK(cursor, clock, DOMAIN table)
  BY PollFacts DEF TypeInv, SourceOK, PollState
<1>4. BackedIn(table', Known', cursor, {})
  BY <1>1, SameTable DEF QueryPage
<1>5. cursor.strategy = "increment" => DistinctIn(table)
  BY DEF BackedInv, TiesOK, NoIncrement
<1>6. ASSUME NEW k \in DOMAIN table, PassedIn(table, next, k)
      PROVE  [key |-> k, at |-> table[k]] \in Known' \union Range(poll'.page)
  <2>1. CASE PassedIn(table, cursor, k)
    BY <1>1, <1>4, <2>1 DEF BackedIn
  <2>2. CASE \E j \in 1 .. Len(new) : new[j] = k
    <3>1. PICK j \in 1 .. Len(new) : new[j] = k
      BY <2>2
    <3> HIDE DEF new, next
    <3>2. poll'.page[j] = [key |-> k, at |-> table[k]] /\ j \in DOMAIN poll'.page
      BY <1>2, <3>1 DEF new
    <3> QED BY <3>2 DEF Range
  <2> HIDE DEF cursor, new, next
  <2> QED BY <1>3, <1>5, <1>6, <2>1, <2>2, NextPassed DEF new, next
<1>7. PollBacked'
  BY <1>1, <1>2, <1>6 DEF PollBacked, Backed, BackedIn, Holding
<1>8. next.strategy \in {cursor.strategy, "snapshot"}
  BY <1>3, NextCases
<1>9. Ties => poll'.cursor.strategy # "increment"
  BY <1>2, <1>8 DEF BackedInv, TiesOK, NoIncrement
<1> QED BY <1>1, <1>7, <1>9, PollBackedStep

LEMMA DeliverBacked ==
  ASSUME TypeInv, BackedInv, AppendOnly, DeliverRow
  PROVE  BackedInv'
<1>1. UNCHANGED <<table, call, runs>> /\ [Next]_vars
  BY DEF DeliverRow, sourceVars, storeVars, Next, PollNext
<1>2. /\ poll.step = "deliver" /\ poll'.step = "record"
      /\ poll'.cursor = poll.cursor /\ poll'.page = poll.page
  BY PollFacts DEF DeliverRow, PollState
<1>3. Head(poll.page) \in Known'
  <2> DEFINE d == [run |-> poll.run, seq |-> poll.seq, row |-> Head(poll.page)]
  <2>1. d \in sent' /\ d.row = Head(poll.page)
    BY DEF DeliverRow
  <2> HIDE DEF d
  <2> QED BY <2>1 DEF Known, SentRows
<1>4. PollBacked'
  BY <1>1, <1>2, <1>3, SameTable DEF PollBacked, Backed, Holding
<1>5. Ties => poll'.cursor.strategy # "increment"
  BY <1>2 DEF BackedInv, TiesOK, NoIncrement
<1> QED BY <1>1, <1>4, <1>5, PollBackedStep

LEMMA RecordBacked ==
  ASSUME TypeInv, BackedInv, AppendOnly, RecordRow
  PROVE  BackedInv'
<1>1. UNCHANGED <<table, call, runs>> /\ [Next]_vars
  BY DEF RecordRow, sourceVars, Next, PollNext
<1>2. /\ poll.step = "record" /\ poll'.step = "checkpoint"
      /\ poll'.cursor = poll.cursor /\ poll'.page = poll.page
  BY PollFacts DEF RecordRow, PollState
<1>3. PollBacked'
  BY <1>1, <1>2, SameTable DEF PollBacked, Backed, Holding
<1>4. Ties => poll'.cursor.strategy # "increment"
  BY <1>2 DEF BackedInv, TiesOK, NoIncrement
<1> QED BY <1>1, <1>3, <1>4, PollBackedStep

\* A page is its head and its tail.
LEMMA RangeOfTail ==
  ASSUME NEW S, NEW s \in Seq(S), s # <<>>
  PROVE  Range(s) = {Head(s)} \union Range(Tail(s))
<1>1. /\ DOMAIN s = 1 .. Len(s) /\ Len(s) \in Nat \ {0}
      /\ DOMAIN Tail(s) = 1 .. Len(s) - 1
      /\ \A i \in 1 .. Len(s) - 1 : Tail(s)[i] = s[i + 1]
      /\ Head(s) = s[1]
  OBVIOUS
<1>2. ASSUME NEW x \in Range(s) PROVE x = Head(s) \/ x \in Range(Tail(s))
  <2>1. PICK i \in 1 .. Len(s) : s[i] = x
    BY <1>1, <1>2 DEF Range
  <2>2. CASE i = 1
    BY <1>1, <2>1, <2>2
  <2>3. CASE i # 1
    <3>1. i - 1 \in 1 .. Len(s) - 1 /\ Tail(s)[i - 1] = x
      BY <1>1, <2>1, <2>3
    <3> QED BY <1>1, <3>1 DEF Range
  <2> QED BY <2>2, <2>3
<1>3. Head(s) \in Range(s)
  BY <1>1 DEF Range
<1>4. ASSUME NEW x \in Range(Tail(s)) PROVE x \in Range(s)
  <2>1. PICK i \in 1 .. Len(s) - 1 : s[i + 1] = x
    BY <1>1, <1>4 DEF Range
  <2>2. i + 1 \in 1 .. Len(s)
    BY <1>1
  <2> QED BY <1>1, <2>1, <2>2 DEF Range
<1> QED BY <1>2, <1>3, <1>4

LEMMA CheckpointBacked ==
  ASSUME TypeInv, BackedInv, AppendOnly, CheckpointRow
  PROVE  BackedInv'
<1>1. UNCHANGED <<table, call>> /\ [Next]_vars
  BY DEF CheckpointRow, sourceVars, Next, PollNext
<1>2. /\ poll.step = "checkpoint" /\ poll'.step \in {"advance", "deliver"}
      /\ poll'.cursor = poll.cursor /\ poll'.page = Tail(poll.page)
      /\ poll.run \in 1 .. Len(runs)
  BY PollFacts DEF CheckpointRow, PollState
<1> DEFINE r == [runs[poll.run] EXCEPT !.offset = poll.seq + 1]
<1>3. r.cursor = runs[poll.run].cursor
  BY <1>2, PollFacts DEF Run
<1>4. runs' = [runs EXCEPT ![poll.run] = r]
  BY DEF CheckpointRow
<1> HIDE DEF r
<1>5. /\ Len(runs') = Len(runs)
      /\ \A j \in 1 .. Len(runs) : runs'[j].cursor = runs[j].cursor
  BY <1>2, <1>3, <1>4, CursorsKept
<1>6. Range(poll.page) \subseteq Known' \union Range(poll'.page)
  <2>1. poll.page # <<>> /\ poll.page \in Seq(Row)
    BY <1>2, HeadOfPage, PollFacts
  <2>2. Head(poll.page) \in Known'
    BY <1>1, <1>2, SameTable
  <2> QED BY <1>2, <2>1, <2>2, RangeOfTail
<1>7. BackedIn(table', Known', poll.cursor, Range(poll.page))
  BY <1>1, <1>2, SameTable DEF Holding
<1>8. PollBacked'
  BY <1>2, <1>6, <1>7 DEF PollBacked, Backed, BackedIn
<1>9. Ties => poll'.cursor.strategy # "increment"
  BY <1>2 DEF BackedInv, TiesOK, NoIncrement
<1> QED BY <1>1, <1>5, <1>8, <1>9, PollBackedStep

LEMMA SaveCursorBacked ==
  ASSUME TypeInv, BackedInv, AppendOnly, SaveCursor
  PROVE  BackedInv'
<1>1. UNCHANGED <<table, call>> /\ [Next]_vars
  BY DEF SaveCursor, sourceVars, Next, PollNext
<1>2. /\ poll.step = "advance" /\ poll'.step = "adapt"
      /\ poll'.cursor = poll.cursor /\ poll.run \in 1 .. Len(runs)
      /\ poll.page = <<>>
  BY PollFacts DEF SaveCursor, PollState, TypeInv, PollOK, PollIn
<1>3. /\ Len(runs') = Len(runs)
      /\ \A i \in 1 .. Len(runs) :
           runs'[i].cursor = IF i = poll.run THEN poll.cursor ELSE runs[i].cursor
  <2> DEFINE r == [runs[poll.run] EXCEPT !.cursor = poll.cursor, !.offset = poll.seq]
  <2>1. r.cursor = poll.cursor
    BY <1>2, PollFacts DEF Run
  <2>2. runs' = [runs EXCEPT ![poll.run] = r]
    BY DEF SaveCursor
  <2> HIDE DEF r
  <2> QED BY <1>2, <2>1, <2>2, PollFacts DEF TypeInv, RunsOK, RunsIn
<1>4. BackedIn(table', Known', poll.cursor, {})
  <2>1. Range(poll.page) = {}
    BY <1>2 DEF Range
  <2> QED BY <1>1, <1>2, <2>1, SameTable DEF Holding
<1>5. RunsBacked'
  BY <1>1, <1>3, <1>4, SameTable DEF RunsBacked, Backed
<1>6. PollBacked'
  BY <1>2 DEF PollBacked, Holding
<1>7. CallsBacked'
  BY <1>1, SameTable DEF CallsBacked, Backed
<1>8. Ties => NoIncrement'
  BY <1>1, <1>2, <1>3 DEF BackedInv, TiesOK, NoIncrement
<1> QED BY <1>1, <1>5, <1>6, <1>7, <1>8, TiesStep DEF BackedInv

\* A step of a request that leaves the poll and the cursors of the runs alone.
LEMMA CallBackedStep ==
  ASSUME TypeInv, BackedInv, AppendOnly, [Next]_vars,
         UNCHANGED <<table, poll>>, Len(runs') = Len(runs),
         \A i \in 1 .. Len(runs) : runs'[i].cursor = runs[i].cursor,
         NEW c \in Callers, NEW q, call' = [call EXCEPT ![c] = q],
         q.step \in {"boundary", "write"} =>
           BackedIn(table', Known', q.cursor, q.old \union q.new),
         Ties => /\ q.cursor.strategy # "increment"
                 /\ q.step \in {"latest", "seed"} => q.trigger.strategy # "increment"
  PROVE  BackedInv'
<1>1. RunsBacked' /\ PollBacked'
  BY SameTable DEF RunsBacked, PollBacked, Backed
<1>2. \A b \in Callers : call'[b] = IF b = c THEN q ELSE call[b]
  BY DEF TypeInv, CallsOK
<1>3. CallsBacked'
  BY <1>2, SameTable DEF CallsBacked, Backed
<1>4. Ties => NoIncrement'
  BY <1>2 DEF BackedInv, TiesOK, NoIncrement
<1> QED BY <1>1, <1>3, <1>4, TiesStep DEF BackedInv

\* A request ends, or goes on with the cursor it has to a step that needs none.
LEMMA CallGoesBacked ==
  ASSUME TypeInv, BackedInv, AppendOnly, [Next]_vars,
         UNCHANGED <<table, poll>>, Len(runs') = Len(runs),
         \A i \in 1 .. Len(runs) : runs'[i].cursor = runs[i].cursor,
         NEW c \in Callers, NEW q, call' = [call EXCEPT ![c] = q],
         \/ q = IdleCall
         \/ /\ q.cursor = call[c].cursor
            /\ q.step \notin {"boundary", "write"}
            /\ q.step \in {"latest", "seed"} =>
                 \/ q.trigger = hook.trigger
                 \/ q.trigger = call[c].trigger /\ call[c].step \in {"latest", "seed"}
  PROVE  BackedInv'
<1>1. q.step \notin {"boundary", "write"}
  BY DEF IdleCall
<1>2. ASSUME Ties
      PROVE  /\ q.cursor.strategy # "increment"
             /\ q.step \in {"latest", "seed"} => q.trigger.strategy # "increment"
  <2>1. CASE q = IdleCall
    BY <2>1 DEF IdleCall, NoCursor, EmptyCursor
  <2>2. CASE q # IdleCall
    BY <1>2, <2>2 DEF BackedInv, TiesOK, NoIncrement, Ties
  <2> QED BY <2>1, <2>2
<1> QED BY <1>1, <1>2, CallBackedStep

LEMMA AskBacked ==
  ASSUME TypeInv, BackedInv, AppendOnly, NEW c \in Callers,
         AskStart(c) \/ AskStop(c) \/ CheckActive(c) \/ Schedule(c) \/ EditHook(c)
         \/ CallFails(c)
  PROVE  BackedInv'
<1>1. UNCHANGED <<table, poll, runs>> /\ [Next]_vars
  BY DEF AskStart, AskStop, CheckActive, Schedule, EditHook, CallFails,
         sourceVars, storeVars, Next, CallerNext, CallGoesOn
<1>2. \E q : /\ call' = [call EXCEPT ![c] = q]
             /\ \/ q = IdleCall
                \/ /\ q.cursor = call[c].cursor
                   /\ q.step \in {"check", "find", "edit", "latest"}
                   /\ q.step = "latest" => q.trigger = hook.trigger
  <2>1. call[c] \in CallState
    BY CallFacts
  <2>2. CASE AskStart(c) \/ AskStop(c)
    <3>1. PICK op \in Ops, s \in {"check", "find"} :
            call' = [call EXCEPT ![c] = [call[c] EXCEPT !.step = s, !.op = op]]
      BY <2>2 DEF AskStart, AskStop, Asked
    <3> DEFINE q == [call[c] EXCEPT !.step = s, !.op = op]
    <3>2. q.cursor = call[c].cursor /\ q.step = s
      BY <2>1 DEF CallState
    <3> QED BY <3>1, <3>2
  <2>3. CASE CheckActive(c)
    <3> DEFINE q == [call[c] EXCEPT !.step = "latest", !.trigger = hook.trigger]
    <3>1. call' = [call EXCEPT ![c] = q] \/ call' = [call EXCEPT ![c] = IdleCall]
      BY <2>3 DEF CheckActive, Done
    <3>2. q.cursor = call[c].cursor /\ q.step = "latest" /\ q.trigger = hook.trigger
      BY <2>1 DEF CallState
    <3> QED BY <3>1, <3>2
  <2>4. CASE Schedule(c)
    BY <2>4 DEF Schedule, Done
  <2>5. CASE EditHook(c)
    <3> DEFINE q == [call[c] EXCEPT !.step = "check"]
    <3>1. call' = [call EXCEPT ![c] = q] \/ call' = [call EXCEPT ![c] = IdleCall]
      BY <2>5 DEF EditHook, Goto, Done
    <3>2. q.cursor = call[c].cursor /\ q.step = "check"
      BY <2>1 DEF CallState
    <3> QED BY <3>1, <3>2
  <2>6. CASE CallFails(c)
    <3> DEFINE q == [call[c] EXCEPT !.step = "edit", !.live = FALSE]
    <3>1. call' = [call EXCEPT ![c] = q] \/ call' = [call EXCEPT ![c] = IdleCall]
      BY <2>6 DEF CallFails, Done
    <3>2. q.cursor = call[c].cursor /\ q.step = "edit"
      BY <2>1 DEF CallState
    <3> QED BY <3>1, <3>2
  <2> QED BY <2>2, <2>3, <2>4, <2>5, <2>6
<1>3. PICK q : /\ call' = [call EXCEPT ![c] = q]
               /\ \/ q = IdleCall
                  \/ /\ q.cursor = call[c].cursor
                     /\ q.step \in {"check", "find", "edit", "latest"}
                     /\ q.step = "latest" => q.trigger = hook.trigger
  BY <1>2
<1> QED BY <1>1, <1>3, CallGoesBacked

LEMMA LatestBacked ==
  ASSUME TypeInv, BackedInv, AppendOnly, NEW c \in Callers, ReadLatest(c)
  PROVE  BackedInv'
<1>1. UNCHANGED <<table, poll, runs>> /\ [Next]_vars
  BY DEF ReadLatest, sourceVars, storeVars, Next, CallerNext, CallGoesOn
<1> DEFINE i == Len(runs)
           fits == i # 0 /\ runs[i].cursor.strategy = call[c].trigger.strategy
           s == IF fits THEN "resume" ELSE "seed"
           q == [call[c] EXCEPT !.run = i, !.step = s]
<1>2. call' = [call EXCEPT ![c] = q]
  BY DEF ReadLatest
<1>3. /\ q.cursor = call[c].cursor /\ q.trigger = call[c].trigger /\ q.step = s
      /\ call[c].step = "latest" /\ s \in {"resume", "seed"}
  BY CallFacts DEF CallState, ReadLatest
<1> HIDE DEF q, i, fits, s
<1> QED BY <1>1, <1>2, <1>3, CallGoesBacked DEF q

LEMMA StatusBacked ==
  ASSUME TypeInv, BackedInv, AppendOnly, NEW c \in Callers,
         ResumeRun(c) \/ PauseRun(c) \/ FindRunning(c)
  PROVE  BackedInv'
<1>1. UNCHANGED <<table, poll>> /\ [Next]_vars
  BY DEF ResumeRun, PauseRun, FindRunning, sourceVars, Next, CallerNext, CallGoesOn
<1>2. /\ Len(runs') = Len(runs)
      /\ \A i \in 1 .. Len(runs) : runs'[i].cursor = runs[i].cursor
  <2>1. CASE FindRunning(c)
    BY <2>1 DEF FindRunning, storeVars
  <2>2. CASE ResumeRun(c) \/ PauseRun(c)
    <3> DEFINE i == call[c].run
    <3>1. i \in 1 .. Len(runs)
      BY <2>2, CallFacts DEF ResumeRun, PauseRun, CallIn
    <3>2. PICK s : runs' = [runs EXCEPT ![i] = [runs[i] EXCEPT !.status = s]]
      BY <2>2 DEF ResumeRun, PauseRun
    <3> DEFINE r == [runs[i] EXCEPT !.status = s]
    <3>3. r.cursor = runs[i].cursor
      BY <3>1, PollFacts DEF Run
    <3> HIDE DEF r, i
    <3> QED BY <3>1, <3>2, <3>3, CursorsKept DEF r
  <2> QED BY <2>1, <2>2
<1>3. \E q : /\ call' = [call EXCEPT ![c] = q]
             /\ \/ q = IdleCall
                \/ /\ q.cursor = call[c].cursor
                   /\ q.step \in {"schedule", "edit", "pause"}
  <2> DEFINE g(s) == [call[c] EXCEPT !.step = s]
             p == [call[c] EXCEPT !.step = "pause", !.run = Max(Running), !.live = TRUE]
  <2>1. /\ \A s : g(s).cursor = call[c].cursor /\ g(s).step = s
        /\ p.cursor = call[c].cursor /\ p.step = "pause"
    BY CallFacts DEF CallState
  <2>2. \/ call' = [call EXCEPT ![c] = g("schedule")]
        \/ call' = [call EXCEPT ![c] = g("edit")]
        \/ call' = [call EXCEPT ![c] = p]
        \/ call' = [call EXCEPT ![c] = IdleCall]
    BY DEF ResumeRun, PauseRun, FindRunning, Goto, Done
  <2> HIDE DEF g, p
  <2> QED BY <2>1, <2>2
<1>4. PICK q : /\ call' = [call EXCEPT ![c] = q]
               /\ \/ q = IdleCall
                  \/ /\ q.cursor = call[c].cursor
                     /\ q.step \in {"schedule", "edit", "pause"}
  BY <1>3
<1> QED BY <1>1, <1>2, <1>4, CallGoesBacked

\* Whatever a cursor has passed is among all the rows.
LEMMA AllRowsBack ==
  ASSUME NEW known, NEW cursor, NEW others, Rows \subseteq others
  PROVE  BackedIn(table, known, cursor, others)
BY DEF BackedIn, Rows

\* The cursors a start begins with.
LEMMA SeedCases ==
  ASSUME TypeInv, NEW c \in Callers, SeedCursor(c)
  PROVE  \E step \in {"write", "boundary"} : \E cursor, old :
           /\ call' = [call EXCEPT ![c] =
                         [call[c] EXCEPT !.step = step, !.cursor = cursor, !.old = old]]
           /\ old = IF call[c].trigger.from = "now" THEN Rows ELSE {}
           /\ cursor.strategy = call[c].trigger.strategy
           /\ call[c].trigger.from = "now" \/ cursor = EmptyCursor(cursor.strategy)
<1> DEFINE strategy == call[c].trigger.strategy
           empty    == EmptyCursor(strategy)
           old      == IF call[c].trigger.from = "now" THEN Rows ELSE {}
<1>1. empty.strategy = strategy /\ \A at : [empty EXCEPT !.at = at].strategy = strategy
      /\ \A seen : [empty EXCEPT !.seen = seen].strategy = strategy
  BY DEF EmptyCursor
<1>2a. PICK step \in {"write", "boundary"} : \E cursor :
        /\ Seeded(c, step, cursor)
        /\ \/ cursor = empty /\ call[c].trigger.from = "beginning"
           \/ call[c].trigger.from = "now" /\ cursor = [empty EXCEPT !.at = LastAt]
           \/ call[c].trigger.from = "now" /\ \E page : cursor = [empty EXCEPT !.seen = page]
  BY DEF SeedCursor
<1>2. PICK cursor :
        /\ Seeded(c, step, cursor)
        /\ \/ cursor = empty /\ call[c].trigger.from = "beginning"
           \/ call[c].trigger.from = "now" /\ cursor = [empty EXCEPT !.at = LastAt]
           \/ call[c].trigger.from = "now" /\ \E page : cursor = [empty EXCEPT !.seen = page]
  BY <1>2a
<1>3. cursor.strategy = strategy
  BY <1>1, <1>2
<1>4. call[c].trigger.from = "now" \/ cursor = EmptyCursor(cursor.strategy)
  BY <1>1, <1>2
<1>5. call' = [call EXCEPT ![c] =
                 [call[c] EXCEPT !.step = step, !.cursor = cursor, !.old = old]]
  BY <1>2 DEF Seeded
<1> QED BY <1>3, <1>4, <1>5

LEMMA SeedBacked ==
  ASSUME TypeInv, BackedInv, AppendOnly, NEW c \in Callers, SeedCursor(c)
  PROVE  BackedInv'
<1>1. UNCHANGED <<table, poll, runs>> /\ [Next]_vars
  BY DEF SeedCursor, sourceVars, storeVars, Next, CallerNext, CallGoesOn
<1>2a. PICK step \in {"write", "boundary"} : \E cursor, old :
        /\ call' = [call EXCEPT ![c] =
                      [call[c] EXCEPT !.step = step, !.cursor = cursor, !.old = old]]
        /\ old = IF call[c].trigger.from = "now" THEN Rows ELSE {}
        /\ cursor.strategy = call[c].trigger.strategy
        /\ call[c].trigger.from = "now" \/ cursor = EmptyCursor(cursor.strategy)
  BY SeedCases
<1>2. PICK cursor, old :
        /\ call' = [call EXCEPT ![c] =
                      [call[c] EXCEPT !.step = step, !.cursor = cursor, !.old = old]]
        /\ old = IF call[c].trigger.from = "now" THEN Rows ELSE {}
        /\ cursor.strategy = call[c].trigger.strategy
        /\ call[c].trigger.from = "now" \/ cursor = EmptyCursor(cursor.strategy)
  BY <1>2a
<1> DEFINE q == [call[c] EXCEPT !.step = step, !.cursor = cursor, !.old = old]
<1>3. q.step = step /\ q.cursor = cursor /\ q.old = old /\ q.new = call[c].new
  BY CallFacts DEF CallState
<1> HIDE DEF q
<1>4. BackedIn(table', Known', cursor, old \union call[c].new)
  <2>1. CASE call[c].trigger.from = "now"
    BY <1>1, <1>2, <2>1, AllRowsBack
  <2>2. CASE cursor = EmptyCursor(cursor.strategy)
    <3>1. cursor.at = 0 /\ cursor.keys = {} /\ cursor.seen = <<>>
      BY <2>2 DEF EmptyCursor, Null
    <3>2. \A k \in DOMAIN table : ~PassedIn(table, cursor, k)
      BY <3>1 DEF PassedIn, Range
    <3> QED BY <1>1, <3>2 DEF BackedIn
  <2> QED BY <1>2, <2>1, <2>2
<1>5. Ties => cursor.strategy # "increment"
  BY <1>2 DEF BackedInv, TiesOK, NoIncrement, SeedCursor
<1>6. call' = [call EXCEPT ![c] = q]
  BY <1>2 DEF q
<1> QED BY <1>1, <1>3, <1>4, <1>5, <1>6, CallBackedStep

LEMMA BoundaryBacked ==
  ASSUME TypeInv, BackedInv, AppendOnly, NEW c \in Callers, SeedBoundary(c)
  PROVE  BackedInv'
<1>1. UNCHANGED <<table, poll, runs>> /\ [Next]_vars
  BY DEF SeedBoundary, sourceVars, storeVars, Next, CallerNext, CallGoesOn
<1> DEFINE keys == {k \in DOMAIN table : table[k] >= call[c].cursor.at}
           cur  == [call[c].cursor EXCEPT !.keys = keys]
           new  == Rows \ call[c].old
           q    == [call[c] EXCEPT !.step = "write", !.new = new, !.cursor = cur]
<1>2. call' = [call EXCEPT ![c] = q]
  BY DEF SeedBoundary
<1>3. cur.strategy = call[c].cursor.strategy
  BY CallFacts DEF Cursor
<1> HIDE DEF keys, cur, new
<1>4. q.step = "write" /\ q.cursor = cur /\ q.old = call[c].old /\ q.new = new
  BY CallFacts DEF CallState
<1>5. BackedIn(table', Known', cur, call[c].old \union new)
  <2>1. Rows \subseteq call[c].old \union new
    BY DEF new
  <2> QED BY <1>1, <2>1, AllRowsBack
<1>6. Ties => cur.strategy # "increment"
  BY <1>3 DEF BackedInv, TiesOK, NoIncrement
<1> HIDE DEF q
<1> QED BY <1>1, <1>2, <1>4, <1>5, <1>6, CallBackedStep

LEMMA WriteBacked ==
  ASSUME TypeInv, BackedInv, AppendOnly, NEW c \in Callers, WriteRun(c)
  PROVE  BackedInv'
<1>1. UNCHANGED <<table, poll>> /\ [Next]_vars
  BY DEF WriteRun, sourceVars, Next, CallerNext, CallGoesOn
<1> DEFINE i   == call[c].run
           cur == call[c].cursor
           q   == [call[c] EXCEPT !.step = "schedule"]
<1>2. call[c].step = "write" /\ i \in 0 .. Len(runs)
  BY CallFacts DEF WriteRun, CallIn
<1>3. call' = [call EXCEPT ![c] = q] /\ q.step = "schedule" /\ q.cursor = cur
  BY CallFacts DEF WriteRun, Goto, CallState
<1>4. call[c].old \union call[c].new \subseteq Known'
  BY DEF WriteRun, Known
<1>5. BackedIn(table', Known', cur, {})
  BY <1>1, <1>2, <1>4, SameTable DEF BackedIn
<1>6. \A j \in 1 .. Len(runs') :
         runs'[j].cursor = cur \/ (j \in 1 .. Len(runs) /\ runs'[j].cursor = runs[j].cursor)
  <2>1. runs \in Seq(Run)
    BY DEF TypeInv, RunsOK, RunsIn
  <2>2. CASE i = 0
    <3> DEFINE r == [status |-> "running", cursor |-> cur, offset |-> 0]
    <3>1. runs' = Append(runs, r) /\ r.cursor = cur
      BY <2>2 DEF WriteRun
    <3>2. r \in Run
      BY CallFacts DEF Run
    <3> HIDE DEF r
    <3>3. /\ Len(runs') = Len(runs) + 1 /\ Len(runs) \in Nat
          /\ \A j \in 1 .. Len(runs) : runs'[j] = runs[j]
          /\ runs'[Len(runs) + 1] = r
      BY <2>1, <3>1, <3>2, AppendProperties
    <3>4. \A j \in 1 .. Len(runs') : j \in 1 .. Len(runs) \/ j = Len(runs) + 1
      BY <3>3
    <3> QED BY <3>1, <3>3, <3>4
  <2>3. CASE i # 0
    <3> DEFINE r == [runs[i] EXCEPT !.status = "running", !.cursor = cur]
    <3>1. i \in 1 .. Len(runs)
      BY <1>2, <2>3, PollFacts
    <3>2. runs' = [runs EXCEPT ![i] = r]
      BY <2>3 DEF WriteRun
    <3>3. r.cursor = cur
      BY <3>1, PollFacts DEF Run
    <3> HIDE DEF r, i
    <3>4. Len(runs') = Len(runs) /\ \A j \in 1 .. Len(runs) :
            runs'[j] = IF j = i THEN r ELSE runs[j]
      BY <2>1, <3>1, <3>2
    <3> QED BY <3>3, <3>4
  <2> QED BY <2>2, <2>3
<1>7. RunsBacked'
  BY <1>1, <1>5, <1>6, SameTable DEF RunsBacked, Backed
<1>8. PollBacked'
  BY <1>1, SameTable DEF PollBacked, Backed
<1>9. \A b \in Callers : call'[b] = IF b = c THEN q ELSE call[b]
  BY <1>3 DEF TypeInv, CallsOK
<1>10. CallsBacked'
  <2> HIDE DEF q
  <2> QED BY <1>1, <1>3, <1>9, SameTable DEF CallsBacked, Backed
<1>11. Ties => NoIncrement'
  <2> HIDE DEF q
  <2> QED BY <1>1, <1>3, <1>6, <1>9 DEF BackedInv, TiesOK, NoIncrement
<1> QED BY <1>1, <1>7, <1>8, <1>10, <1>11, TiesStep DEF BackedInv

LEMMA CrashBacked ==
  ASSUME TypeInv, BackedInv, AppendOnly, Crash
  PROVE  BackedInv'
<1>1. UNCHANGED <<table, runs>> /\ [Next]_vars
  BY DEF Crash, sourceVars, storeVars, Next
<1>2. poll' = IdlePoll /\ call' = [c \in Callers |-> IdleCall]
  BY DEF Crash
<1>3. RunsBacked'
  BY <1>1, SameTable DEF RunsBacked, Backed
<1>4. PollBacked' /\ CallsBacked'
  BY <1>2 DEF PollBacked, CallsBacked, IdlePoll, IdleCall, Holding
<1>5. Ties => NoIncrement'
  BY <1>1, <1>2
  DEF BackedInv, TiesOK, NoIncrement, IdlePoll, IdleCall, NoCursor, EmptyCursor
<1> QED BY <1>1, <1>3, <1>4, <1>5, TiesStep DEF BackedInv

\* A step that leaves what the invariant is about alone.
LEMMA StutterBacked ==
  ASSUME TypeInv, BackedInv, AppendOnly, Fire \/ SkipOverlap \/ Boot \/ UNCHANGED vars
  PROVE  BackedInv'
<1>1. UNCHANGED <<table, runs, poll, call>> /\ [Next]_vars
  BY DEF Fire, SkipOverlap, Boot, sourceVars, storeVars, vars, Next
<1>2. RunsBacked' /\ PollBacked' /\ CallsBacked'
  BY <1>1, SameTable DEF RunsBacked, PollBacked, CallsBacked, Backed
<1>3. Ties => NoIncrement'
  BY <1>1 DEF BackedInv, TiesOK, NoIncrement
<1> QED BY <1>1, <1>2, <1>3, TiesStep DEF BackedInv

LEMMA StepBacked == TypeInv /\ BackedInv /\ AppendOnly /\ [Next]_vars => BackedInv'
<1> SUFFICES ASSUME TypeInv, BackedInv, AppendOnly, [Next]_vars PROVE BackedInv'
  OBVIOUS
<1>1. CASE SourceNext
  BY <1>1, SourceBacked
<1>2. CASE Fire \/ SkipOverlap \/ Boot \/ UNCHANGED vars
  BY <1>2, StutterBacked
<1>3. CASE PollNext
  <2>1. CASE Retire \/ Adapt
    <3>1. UNCHANGED <<table, call, runs>> /\ poll' = IdlePoll
      BY <2>1 DEF Retire, Adapt, sourceVars, storeVars
    <3> QED BY <3>1, PollEndsBacked
  <2> QED
    BY <1>3, <2>1, BeginPollBacked, ResolveBacked, RejectBacked, QueryBacked, DeliverBacked,
       RecordBacked, CheckpointBacked, SaveCursorBacked DEF PollNext
<1>4. CASE PollFails
  <2>1. UNCHANGED <<table, call, runs>> /\ poll' = IdlePoll
    BY <1>4 DEF PollFails, sourceVars, storeVars
  <2> QED BY <2>1, PollEndsBacked
<1>5. CASE Crash
  BY <1>5, CrashBacked
<1>6. ASSUME NEW c \in Callers, CallerNext(c) PROVE BackedInv'
  BY <1>6, AskBacked, LatestBacked, StatusBacked, SeedBacked, BoundaryBacked, WriteBacked
  DEF CallerNext, CallGoesOn
<1> QED BY <1>1, <1>2, <1>3, <1>4, <1>5, <1>6 DEF Next

LEMMA InitBacked == Init => BackedInv
<1> SUFFICES ASSUME Init PROVE BackedInv
  OBVIOUS
<1>1. DOMAIN table = {} /\ DOMAIN runs = {} /\ Len(runs) = 0
  BY DEF Init
<1>2. RunsBacked /\ PollBacked /\ CallsBacked
  BY <1>1 DEF Init, RunsBacked, PollBacked, CallsBacked, IdlePoll, IdleCall, Holding
<1>3. NoIncrement /\ DistinctIn(table)
  BY <1>1
  DEF Init, NoIncrement, DistinctIn, IdlePoll, IdleCall, NoCursor, EmptyCursor
<1> QED BY <1>2, <1>3 DEF BackedInv, TiesOK

\* Backed cursors are what PassedWasSent is about.
LEMMA BackedPassed == TypeInv /\ BackedInv => PassedWasSent
<1> SUFFICES ASSUME TypeInv, BackedInv, NEW i \in DOMAIN runs, NEW k \in DOMAIN table,
                    Passed(runs[i].cursor, k)
             PROVE  [key |-> k, at |-> table[k]] \in SentRows \union baseline \union meanwhile
  BY DEF PassedWasSent
<1>1. PassedIn(table, runs[i].cursor, k)
  BY DEF Passed, PassedIn
<1>2. i \in 1 .. Len(runs)
  BY PollFacts
<1> QED BY <1>1, <1>2 DEF BackedInv, RunsBacked, Backed, BackedIn, Known

LEMMA BackedInvariant == AppendOnly /\ Spec => []BackedInv
<1>1. TypeInv /\ AppendOnly /\ BackedInv /\ [Next]_vars => BackedInv'
  BY StepBacked
<1>2. ASSUME AppendOnly PROVE Spec => []BackedInv
  <2>1. TypeInv /\ BackedInv /\ [Next]_vars => BackedInv'
    BY <1>1, <1>2
  <2> QED BY InitBacked, TypeInvariant, <2>1, PTL DEF Spec
<1> QED BY <1>2

\* No row of a source that only grows is lost, whatever stops, edits, restarts, failures
\* and crashes interleave with the polls: a row the saved cursor of a run has passed was
\* delivered, or was there by the time a start from now had looked.
THEOREM NoRowLost == AppendOnly /\ Spec => []PassedWasSent
BY BackedInvariant, TypeInvariant, BackedPassed, PTL

(***************************************************************************)
(* Sequences number what was sent.                                          *)
(***************************************************************************)

\* A poll that has sent a row records it and saves the sequence: neither the store nor
\* the process fails.
PollsFinish == Faults \subseteq {"source", "request"}

Sending == [run |-> poll.run, seq |-> poll.seq, row |-> Head(poll.page)]
InFlight == {"record", "checkpoint"}

\* The poll works with the sequence its run has saved ...
SeqIsOffset ==
  poll.step \in {"resolve", "query"} \union Holding =>
    poll.run \in 1 .. Len(runs) /\ poll.seq = runs[poll.run].offset

\* ... which is past every delivery but the one it is about to record.
SentNumbered ==
  /\ \A d \in sent : /\ d.run \in 1 .. Len(runs)
                     /\ d.seq < runs[d.run].offset \/ (poll.step \in InFlight /\ d = Sending)
  /\ poll.step \in InFlight => Sending \in sent

NumberInv == SeqIsOffset /\ SentNumbered /\ KeyNamesRow /\ ledger \subseteq sent

\* Runs keep their offsets, and the poll has no row in flight.
LEMMA NumberFrame ==
  ASSUME TypeInv, NumberInv, UNCHANGED <<sent, ledger>>,
         Len(runs') \in Nat, Len(runs) <= Len(runs'),
         \A i \in 1 .. Len(runs) : runs'[i].offset = runs[i].offset,
         \/ poll' = poll
         \/ /\ poll.step \notin InFlight /\ poll'.step \notin InFlight
            /\ poll'.step \in {"resolve", "query"} \union Holding =>
                 poll'.run \in 1 .. Len(runs) /\ poll'.seq = runs[poll'.run].offset
  PROVE  NumberInv'
<1>1. Len(runs) \in Nat /\ \A i \in 1 .. Len(runs) : i \in 1 .. Len(runs')
  BY PollFacts
<1>2. KeyNamesRow' /\ (ledger \subseteq sent)'
  BY DEF NumberInv, KeyNamesRow
<1>3. SeqIsOffset'
  BY <1>1 DEF NumberInv, SeqIsOffset
<1>4. SentNumbered'
  <2>1. CASE poll' = poll
    BY <1>1, <2>1 DEF NumberInv, SentNumbered, Sending
  <2>2. CASE poll.step \notin InFlight /\ poll'.step \notin InFlight
    BY <1>1, <2>2 DEF NumberInv, SentNumbered
  <2> QED BY <2>1, <2>2
<1> QED BY <1>2, <1>3, <1>4 DEF NumberInv

\* Requests leave the offsets of the runs alone.
LEMMA OffsetsStay ==
  ASSUME TypeInv, NEW c \in Callers, CallerNext(c)
  PROVE  /\ Len(runs') \in Nat /\ Len(runs) <= Len(runs')
         /\ \A i \in 1 .. Len(runs) : runs'[i].offset = runs[i].offset
<1>1. runs \in Seq(Run) /\ Len(runs) \in Nat
  BY DEF TypeInv, RunsOK, RunsIn
<1>2. ASSUME NEW i \in 1 .. Len(runs), NEW r, runs' = [runs EXCEPT ![i] = r],
             r.offset = runs[i].offset
      PROVE  /\ Len(runs') \in Nat /\ Len(runs) <= Len(runs')
             /\ \A j \in 1 .. Len(runs) : runs'[j].offset = runs[j].offset
  BY <1>1, <1>2
<1>3. CASE runs' = runs
  BY <1>1, <1>3
<1>4. CASE ResumeRun(c) \/ PauseRun(c)
  <2> DEFINE i == call[c].run
  <2>1. i \in 1 .. Len(runs)
    BY <1>4, CallFacts DEF ResumeRun, PauseRun, CallIn
  <2>2. PICK s : runs' = [runs EXCEPT ![i] = [runs[i] EXCEPT !.status = s]]
    BY <1>4 DEF ResumeRun, PauseRun
  <2> DEFINE r == [runs[i] EXCEPT !.status = s]
  <2>3. r.offset = runs[i].offset
    BY <2>1, PollFacts DEF Run
  <2> HIDE DEF r, i
  <2> QED BY <1>2, <2>1, <2>2, <2>3 DEF r
<1>5. CASE WriteRun(c)
  <2> DEFINE i == call[c].run
             q == [status |-> "running", cursor |-> call[c].cursor, offset |-> 0]
             r == [runs[i] EXCEPT !.status = "running", !.cursor = call[c].cursor]
  <2>1. i \in 0 .. Len(runs)
    BY <1>5, CallFacts DEF WriteRun, CallIn
  <2>2. runs' = IF i = 0 THEN Append(runs, q) ELSE [runs EXCEPT ![i] = r]
    BY <1>5 DEF WriteRun
  <2>3. CASE i = 0
    <3>1. q \in Run
      BY CallFacts DEF Run
    <3> HIDE DEF q
    <3> QED BY <1>1, <2>2, <2>3, <3>1, AppendProperties
  <2>4. CASE i # 0
    <3>1. i \in 1 .. Len(runs)
      BY <1>1, <2>1, <2>4
    <3>2. r.offset = runs[i].offset
      BY <3>1, PollFacts DEF Run
    <3> HIDE DEF r, i
    <3> QED BY <1>2, <2>2, <2>4, <3>1, <3>2
  <2> QED BY <2>3, <2>4
<1>6. runs' = runs \/ ResumeRun(c) \/ PauseRun(c) \/ WriteRun(c)
  BY DEF CallerNext, CallGoesOn, AskStart, AskStop, CheckActive, ReadLatest, SeedCursor,
         SeedBoundary, Schedule, FindRunning, EditHook, CallFails, storeVars
<1> QED BY <1>3, <1>4, <1>5, <1>6

\* The row of the poll goes out under a sequence nothing was sent under.
LEMMA DeliverNumbered ==
  ASSUME TypeInv, NumberInv, DeliverRow
  PROVE  NumberInv'
<1>1. sent' = sent \union {Sending} /\ UNCHANGED <<runs, ledger>>
  BY DEF DeliverRow, Sending, storeVars
<1>2. /\ poll.step = "deliver" /\ poll'.step = "record" /\ poll'.run = poll.run
      /\ poll'.seq = poll.seq /\ poll'.page = poll.page
  BY PollFacts DEF DeliverRow, PollState
<1>3. Sending' = Sending /\ Sending.run = poll.run /\ Sending.seq = poll.seq
  BY <1>2 DEF Sending
<1>4. /\ poll.run \in 1 .. Len(runs) /\ poll.seq = runs[poll.run].offset
      /\ \A d \in sent : d.run \in 1 .. Len(runs) /\ d.seq < runs[d.run].offset
  BY <1>2 DEF NumberInv, SeqIsOffset, SentNumbered, Holding, InFlight
<1>5. \A d \in sent : d.run = poll.run => d.seq # poll.seq
  <2>1. poll.seq \in Nat /\ \A d \in sent : d.seq \in Nat
    BY PollFacts DEF TypeInv, HistOK, Delivery
  <2> QED BY <1>4, <2>1
<1>6. SeqIsOffset' /\ SentNumbered'
  BY <1>1, <1>2, <1>3, <1>4 DEF SeqIsOffset, SentNumbered, InFlight
<1>7. KeyNamesRow'
  BY <1>1, <1>3, <1>5 DEF NumberInv, KeyNamesRow
<1>8. (ledger \subseteq sent)'
  BY <1>1 DEF NumberInv
<1> QED BY <1>6, <1>7, <1>8 DEF NumberInv

\* What is recorded over is the same delivery.
LEMMA RecordNumbered ==
  ASSUME TypeInv, NumberInv, RecordRow
  PROVE  NumberInv' /\ ledger \subseteq ledger'
<1>1. /\ ledger' = {d \in ledger : d.run # poll.run \/ d.seq # poll.seq} \union {Sending}
      /\ UNCHANGED <<runs, sent>>
  BY DEF RecordRow, Sending, histVars
<1>2. /\ poll.step = "record" /\ poll'.step = "checkpoint" /\ poll'.run = poll.run
      /\ poll'.seq = poll.seq /\ poll'.page = poll.page
  BY PollFacts DEF RecordRow, PollState
<1>3. Sending' = Sending /\ Sending.run = poll.run /\ Sending.seq = poll.seq
  BY <1>2 DEF Sending
<1>4. Sending \in sent /\ ledger \subseteq sent
  BY <1>2 DEF NumberInv, SentNumbered, InFlight
<1>5. ASSUME NEW d \in ledger, d.run = poll.run, d.seq = poll.seq PROVE d = Sending
  <2>1. d.row = Sending.row
    BY <1>3, <1>4, <1>5 DEF NumberInv, KeyNamesRow
  <2>2. d \in Delivery /\ Sending \in Delivery
    BY <1>4 DEF TypeInv, HistOK
  <2> QED BY <1>3, <1>5, <2>1, <2>2 DEF Delivery
<1>6. SeqIsOffset' /\ SentNumbered'
  BY <1>1, <1>2, <1>3 DEF NumberInv, SeqIsOffset, SentNumbered, InFlight, Holding
<1>7. KeyNamesRow' /\ (ledger \subseteq sent)'
  BY <1>1, <1>4 DEF NumberInv, KeyNamesRow
<1> QED BY <1>1, <1>5, <1>6, <1>7 DEF NumberInv

\* The offset goes past the row just recorded.
LEMMA CheckpointNumbered ==
  ASSUME TypeInv, NumberInv, CheckpointRow
  PROVE  NumberInv'
<1>1. UNCHANGED <<ledger, sent>>
  BY DEF CheckpointRow, histVars
<1>2. /\ poll.step = "checkpoint" /\ poll'.step \in {"advance", "deliver"}
      /\ poll'.run = poll.run /\ poll'.seq = poll.seq + 1 /\ poll.run \in 1 .. Len(runs)
  BY PollFacts DEF CheckpointRow, PollState
<1>3. poll.seq = runs[poll.run].offset /\ poll.seq \in Nat
  BY <1>2, PollFacts DEF NumberInv, SeqIsOffset, Holding
<1>4. /\ Len(runs') = Len(runs)
      /\ \A i \in 1 .. Len(runs) :
           runs'[i].offset = IF i = poll.run THEN poll.seq + 1 ELSE runs[i].offset
  <2> DEFINE r == [runs[poll.run] EXCEPT !.offset = poll.seq + 1]
  <2>1. r.offset = poll.seq + 1
    BY <1>2, PollFacts DEF Run
  <2>2. runs' = [runs EXCEPT ![poll.run] = r]
    BY DEF CheckpointRow
  <2> HIDE DEF r
  <2> QED BY <1>2, <2>1, <2>2 DEF TypeInv, RunsOK, RunsIn
<1>5. SeqIsOffset'
  BY <1>2, <1>4 DEF SeqIsOffset
<1>6. SentNumbered'
  <2>1. ASSUME NEW d \in sent
        PROVE  d.run \in 1 .. Len(runs') /\ d.seq < runs'[d.run].offset
    <3>1. d.run \in 1 .. Len(runs) /\ d.seq \in Nat
      BY DEF NumberInv, SentNumbered, TypeInv, HistOK, Delivery
    <3>2. d.seq < runs[d.run].offset \/ d = Sending
      BY DEF NumberInv, SentNumbered
    <3>3. CASE d = Sending
      <4>1. d.run = poll.run /\ d.seq = poll.seq
        BY <3>3 DEF Sending
      <4> QED BY <1>2, <1>3, <1>4, <4>1
    <3>4. CASE d.seq < runs[d.run].offset
      BY <1>2, <1>3, <1>4, <3>1, <3>4
    <3> QED BY <3>2, <3>3, <3>4
  <2> QED BY <1>1, <1>2, <2>1 DEF SentNumbered, InFlight
<1> QED BY <1>1, <1>5, <1>6 DEF NumberInv, KeyNamesRow

LEMMA SaveNumbered ==
  ASSUME TypeInv, NumberInv, SaveCursor
  PROVE  NumberInv'
<1>1. UNCHANGED <<ledger, sent>>
  BY DEF SaveCursor, histVars
<1>2. poll.step = "advance" /\ poll'.step = "adapt" /\ poll.run \in 1 .. Len(runs)
  BY PollFacts DEF SaveCursor, PollState
<1>3. poll.seq = runs[poll.run].offset
  BY <1>2, PollFacts DEF NumberInv, SeqIsOffset, Holding
<1>4. /\ Len(runs') = Len(runs)
      /\ \A i \in 1 .. Len(runs) : runs'[i].offset = runs[i].offset
  <2> DEFINE r == [runs[poll.run] EXCEPT !.cursor = poll.cursor, !.offset = poll.seq]
  <2>1. r.offset = poll.seq
    BY <1>2, PollFacts DEF Run
  <2>2. runs' = [runs EXCEPT ![poll.run] = r]
    BY DEF SaveCursor
  <2> HIDE DEF r
  <2> QED BY <1>2, <1>3, <2>1, <2>2 DEF TypeInv, RunsOK, RunsIn
<1>5. Len(runs') \in Nat /\ Len(runs) <= Len(runs')
  BY <1>4, PollFacts
<1> QED BY <1>1, <1>2, <1>4, <1>5, NumberFrame DEF InFlight, Holding

\* The other steps of the poll.
LEMMA PollNumbered ==
  ASSUME TypeInv, NumberInv, PollsFinish,
         BeginPoll \/ Retire \/ ResolveHook \/ RejectRun \/ QueryPage \/ Adapt \/ PollFails
  PROVE  NumberInv' /\ UNCHANGED ledger
<1>1. UNCHANGED <<ledger, sent>>
  BY DEF BeginPoll, Retire, ResolveHook, RejectRun, QueryPage, Adapt, PollFails, storeVars,
         histVars
<1>2. /\ Len(runs') \in Nat /\ Len(runs) <= Len(runs')
      /\ \A i \in 1 .. Len(runs) : runs'[i].offset = runs[i].offset
  <2>1. CASE ~RejectRun
    <3>1. runs' = runs
      BY <2>1 DEF BeginPoll, Retire, ResolveHook, QueryPage, Adapt, PollFails, storeVars
    <3> QED BY <3>1, PollFacts
  <2>2. CASE RejectRun
    <3> DEFINE r == [runs[poll.run] EXCEPT !.status = "canceled"]
    <3>1. poll.run \in 1 .. Len(runs)
      BY <2>2, PollFacts DEF RejectRun
    <3>2. r.offset = runs[poll.run].offset
      BY <3>1, PollFacts DEF Run
    <3>3. runs' = [runs EXCEPT ![poll.run] = r]
      BY <2>2 DEF RejectRun
    <3> HIDE DEF r
    <3> QED BY <3>1, <3>2, <3>3, PollFacts DEF TypeInv, RunsOK, RunsIn
  <2> QED BY <2>1, <2>2
<1>3. poll.step \notin InFlight
  BY DEF BeginPoll, Retire, ResolveHook, RejectRun, QueryPage, Adapt, PollFails, InFlight,
         Fails, PollsFinish
<1>4. /\ poll'.step \notin InFlight
      /\ poll'.step \in {"resolve", "query"} \union Holding =>
           poll'.run \in 1 .. Len(runs) /\ poll'.seq = runs[poll'.run].offset
  <2>1. CASE Retire \/ Adapt \/ PollFails
    BY <2>1 DEF Retire, Adapt, PollFails, IdlePoll, InFlight, Holding
  <2>2. CASE RejectRun
    BY <2>2, PollFacts DEF RejectRun, InFlight, Holding, PollState
  <2>3. CASE ResolveHook
    BY <2>3, PollFacts DEF ResolveHook, InFlight, NumberInv, SeqIsOffset, PollState
  <2>4. CASE QueryPage
    <3>1. poll'.step \in {"advance", "deliver"} /\ poll'.run = poll.run /\ poll'.seq = poll.seq
      BY <2>4, QueryFacts
    <3>2. poll.step = "query"
      BY <2>4 DEF QueryPage
    <3> QED BY <3>1, <3>2 DEF InFlight, NumberInv, SeqIsOffset
  <2>5. CASE BeginPoll /\ Listening
    <3> DEFINE i == Max(Running)
    <3>1. i \in 1 .. Len(runs)
      BY <2>5, RunningOK
    <3>2. poll' = [poll EXCEPT !.step = "resolve", !.run = i,
                     !.cursor = runs[i].cursor, !.seq = runs[i].offset]
      BY <2>5 DEF BeginPoll
    <3> HIDE DEF i
    <3> QED BY <3>1, <3>2, PollFacts DEF InFlight, PollState
  <2>6. CASE BeginPoll /\ ~Listening
    BY <2>6, PollFacts DEF BeginPoll, InFlight, Holding, PollState
  <2> QED BY <2>1, <2>2, <2>3, <2>4, <2>5, <2>6
<1> QED BY <1>1, <1>2, <1>3, <1>4, NumberFrame

\* Every step keeps the numbering and what is recorded.
LEMMA StepNumbered ==
  TypeInv /\ NumberInv /\ PollsFinish /\ [Next]_vars => NumberInv' /\ ledger \subseteq ledger'
<1> SUFFICES ASSUME TypeInv, NumberInv, PollsFinish, [Next]_vars
             PROVE  NumberInv' /\ ledger \subseteq ledger'
  OBVIOUS
<1>1. CASE DeliverRow \/ RecordRow \/ CheckpointRow \/ SaveCursor
  <2>1. ~RecordRow => ledger' = ledger
    BY <1>1 DEF DeliverRow, CheckpointRow, SaveCursor, storeVars
  <2> QED
    BY <1>1, <2>1, DeliverNumbered, RecordNumbered, CheckpointNumbered, SaveNumbered
<1>2. CASE BeginPoll \/ Retire \/ ResolveHook \/ RejectRun \/ QueryPage \/ Adapt \/ PollFails
  BY <1>2, PollNumbered
<1>3. ASSUME NEW c \in Callers, CallerNext(c)
      PROVE  NumberInv' /\ ledger \subseteq ledger'
  <2>1. UNCHANGED <<poll, sent, ledger>>
    BY <1>3
    DEF CallerNext, CallGoesOn, AskStart, AskStop, CheckActive, ReadLatest, ResumeRun,
        SeedCursor, SeedBoundary, WriteRun, Schedule, FindRunning, PauseRun, EditHook,
        CallFails, storeVars, histVars
  <2> QED BY <1>3, <2>1, OffsetsStay, NumberFrame
<1>4. CASE SourceNext \/ Fire \/ SkipOverlap \/ Boot \/ UNCHANGED vars
  <2>1. UNCHANGED <<runs, poll, sent, ledger>>
    BY <1>4
    DEF SourceNext, Insert, InsertTie, TakeValue, InsertLate, InsertNull, Update, Put, Fire,
        SkipOverlap, Boot, vars, storeVars, histVars
  <2> QED BY <2>1, NumberFrame, PollFacts
<1>5. ~Crash
  BY DEF Crash, Fails, PollsFinish
<1> QED BY <1>1, <1>2, <1>3, <1>4, <1>5 DEF Next, PollNext

LEMMA InitNumbered == Init => NumberInv
BY DEF Init, NumberInv, SeqIsOffset, SentNumbered, KeyNamesRow, IdlePoll, Holding, InFlight

\* A run and a sequence, the idempotency key of a delivery, stand for one row for good,
\* and no delivered row of the ledger is overwritten: whatever users and the source do, if
\* no poll ends between the delivery of a row and the sequence saved after it.
THEOREM SequencesNumber == PollsFinish /\ Spec => NumberingHolds
<1>1. ASSUME PollsFinish PROVE Spec => NumberingHolds
  <2>1. TypeInv /\ NumberInv /\ [Next]_vars => NumberInv'
    BY <1>1, StepNumbered
  <2>2. TypeInv /\ NumberInv /\ [Next]_vars => [ledger \subseteq ledger']_vars
    BY <1>1, StepNumbered
  <2>3. NumberInv => KeyNamesRow
    BY DEF NumberInv
  <2> QED
    BY <2>1, <2>2, <2>3, InitNumbered, TypeInvariant, PTL
    DEF Spec, NumberingHolds, RecordStays
<1> QED BY <1>1
------------------------------------------------------------------------------
(***************************************************************************)
(* The scheduler.                                                           *)
(***************************************************************************)

\* Without a crash the process knows the cadence of the scheduler.
CadenceKnown == proc = "up" /\ scheduler = cadence

\* Whoever changes the scheduler notes its cadence.
LEMMA StepCadence ==
  ASSUME "crash" \notin Faults, CadenceKnown, [Next]_vars
  PROVE  CadenceKnown'
<1>1. CASE Adapt
  BY <1>1 DEF Adapt, CadenceKnown
<1>2. CASE PollNext /\ ~Adapt
  BY <1>2
  DEF PollNext, BeginPoll, Retire, Unscheduled, ResolveHook, RejectRun, QueryPage, DeliverRow,
      RecordRow, CheckpointRow, SaveCursor, CadenceKnown, queueVars, procVars
<1>3. CASE SourceNext \/ Fire \/ SkipOverlap \/ PollFails \/ UNCHANGED vars
  BY <1>3
  DEF SourceNext, Insert, InsertTie, TakeValue, InsertLate, InsertNull, Update, Put, Fire,
      SkipOverlap, PollFails, CadenceKnown, vars, queueVars, procVars
<1>4. ASSUME NEW c \in Callers, CallerNext(c) PROVE CadenceKnown'
  BY <1>4
  DEF CallerNext, CallGoesOn, AskStart, AskStop, Unscheduled, CheckActive, ReadLatest,
      ResumeRun, SeedCursor, SeedBoundary, WriteRun, Schedule, FindRunning, PauseRun,
      EditHook, CallFails, CadenceKnown, queueVars, procVars
<1>5. ~Crash /\ ~Boot
  BY DEF Crash, Boot, Fails, CadenceKnown
<1> QED BY <1>1, <1>2, <1>3, <1>4, <1>5 DEF Next

\* Only the end of a poll takes it from adapt to idle.
LEMMA AdaptStep ==
  ASSUME TypeInv, [Next]_vars, poll.step = "adapt", poll'.step = "idle", proc' = "up"
  PROVE  Adapt
<1>1. CASE PollNext
  BY <1>1
  DEF PollNext, BeginPoll, Retire, ResolveHook, RejectRun, QueryPage, DeliverRow, RecordRow,
      CheckpointRow, SaveCursor
<1>2. CASE SourceNext \/ Fire \/ SkipOverlap \/ Boot \/ UNCHANGED vars
  BY <1>2
  DEF SourceNext, Insert, InsertTie, TakeValue, InsertLate, InsertNull, Update, Put, Fire,
      SkipOverlap, Boot, vars
<1>3. CASE PollFails \/ Crash
  BY <1>3 DEF PollFails, Crash
<1>4. ASSUME NEW c \in Callers, CallerNext(c) PROVE Adapt
  BY <1>4
  DEF CallerNext, CallGoesOn, AskStart, AskStop, CheckActive, ReadLatest, ResumeRun,
      SeedCursor, SeedBoundary, WriteRun, Schedule, FindRunning, PauseRun, EditHook, CallFails
<1> QED BY <1>1, <1>2, <1>3, <1>4 DEF Next

\* A poll that found rows leaves a scheduled hook polling fast, as long as the process
\* keeps its memory of the cadence; the source, users and failures do what they like.
THEOREM FlowingIsFast ==
  "crash" \notin Faults /\ CooldownPolls > 0 /\ Spec => FastWhileFlowing
<1>1. ASSUME "crash" \notin Faults, CooldownPolls > 0 PROVE Spec => FastWhileFlowing
  <2>1. CadenceKnown /\ [Next]_vars => CadenceKnown'
    BY <1>1, StepCadence
  <2>2. Init => CadenceKnown
    BY DEF Init, CadenceKnown
  <2>3. ASSUME TypeInv, CadenceKnown, [Next]_vars, poll.step = "adapt",
               poll'.step = "idle", poll.flowing, proc' = "up"
        PROVE  scheduler' # "idle"
    <3>1. Adapt
      BY <2>3, AdaptStep
    <3> QED BY <1>1, <2>3, <3>1 DEF Adapt, CadenceKnown
  <2>4. TypeInv /\ CadenceKnown /\ [Next]_vars =>
          [(poll.step = "adapt" /\ poll'.step = "idle" /\ poll.flowing /\ proc' = "up")
             => scheduler' # "idle"]_vars
    BY <2>3
  <2> QED BY <2>1, <2>2, <2>4, TypeInvariant, PTL DEF Spec, FastWhileFlowing
<1> QED BY <1>1

\* Users only start a hook, which stays enabled, and a start that has begun ends.
OnlyStarts ==
  /\ Ops \subseteq {"start"}
  /\ \A h \in Hooks : h.enabled
  /\ "request" \notin Faults

\* All runs go on, polls have one, and while there are runs there is a scheduler or a
\* start is about to make one.
ListenInv ==
  /\ hook \in Hooks
  /\ \A i \in 1 .. Len(runs) : runs[i].status = "running"
  /\ poll.step \notin {"retire", "reject"}
  /\ \A c \in Callers : call[c].step \notin {"find", "pause", "edit"}
  /\ (\/ fire \/ scheduler # "none" \/ poll.step # "idle"
      \/ \E c \in Callers : call[c].step = "schedule") => Len(runs) # 0
  /\ proc = "up" /\ Len(runs) # 0 =>
       scheduler # "none" \/ \E c \in Callers : call[c].step = "schedule"

\* Then the hook listens as soon as it has a run.
LEMMA ListensByRuns ==
  ASSUME TypeInv, ListenInv
  PROVE  Listening <=> Len(runs) # 0
<1>1. Running = 1 .. Len(runs) /\ Len(runs) \in Nat
  BY PollFacts DEF Running, ListenInv
<1> QED BY <1>1 DEF Listening

LEMMA PollListens ==
  ASSUME TypeInv, ListenInv, OnlyStarts,
         PollNext \/ PollFails \/ Fire \/ SkipOverlap
  PROVE  ListenInv'
<1>1. UNCHANGED <<hook, proc, call>>
  BY DEF PollNext, BeginPoll, Retire, ResolveHook, RejectRun, QueryPage, DeliverRow, RecordRow,
         CheckpointRow, SaveCursor, Adapt, PollFails, Fire, SkipOverlap, storeVars, procVars
<1>2. /\ Len(runs') = Len(runs)
      /\ \A i \in 1 .. Len(runs) : runs'[i].status = runs[i].status
  <2>1. CASE CheckpointRow \/ SaveCursor
    <3>1. poll.run \in 1 .. Len(runs)
      BY <2>1, PollFacts DEF CheckpointRow, SaveCursor
    <3>2. PICK r : runs' = [runs EXCEPT ![poll.run] = r] /\ r.status = runs[poll.run].status
      <4>1. CASE CheckpointRow
        <5> DEFINE r == [runs[poll.run] EXCEPT !.offset = poll.seq + 1]
        <5>1. r.status = runs[poll.run].status
          BY <3>1, PollFacts DEF Run
        <5>2. runs' = [runs EXCEPT ![poll.run] = r]
          BY <4>1 DEF CheckpointRow
        <5> HIDE DEF r
        <5> QED BY <5>1, <5>2
      <4>2. CASE SaveCursor
        <5> DEFINE r == [runs[poll.run] EXCEPT !.cursor = poll.cursor, !.offset = poll.seq]
        <5>1. r.status = runs[poll.run].status
          BY <3>1, PollFacts DEF Run
        <5>2. runs' = [runs EXCEPT ![poll.run] = r]
          BY <4>2 DEF SaveCursor
        <5> HIDE DEF r
        <5> QED BY <5>1, <5>2
      <4> QED BY <2>1, <4>1, <4>2
    <3> QED BY <3>1, <3>2 DEF TypeInv, RunsOK, RunsIn
  <2>2. CASE ~CheckpointRow /\ ~SaveCursor
    <3>1. runs' = runs
      BY <2>2
      DEF PollNext, BeginPoll, Retire, ResolveHook, RejectRun, QueryPage, DeliverRow, RecordRow,
          Adapt, PollFails, Fire, SkipOverlap, storeVars, ListenInv
    <3> QED BY <3>1
  <2> QED BY <2>1, <2>2
<1>3. poll.step # "idle" \/ fire \/ scheduler # "none"
  BY DEF PollNext, BeginPoll, Retire, ResolveHook, RejectRun, QueryPage, DeliverRow, RecordRow,
         CheckpointRow, SaveCursor, Adapt, PollFails, Fire, SkipOverlap
<1>4. Len(runs) # 0 /\ Listening
  BY <1>3, ListensByRuns DEF ListenInv
<1>5. poll'.step \notin {"retire", "reject"}
  <2>1. CASE BeginPoll
    BY <1>4, <2>1, PollFacts DEF BeginPoll, PollState
  <2>2. CASE ResolveHook
    BY <2>2, PollFacts DEF ResolveHook, PollState, ListenInv, OnlyStarts
  <2>3. CASE QueryPage
    BY <2>3, QueryFacts
  <2>4. CASE DeliverRow \/ RecordRow \/ CheckpointRow \/ SaveCursor
    BY <2>4, PollFacts DEF DeliverRow, RecordRow, CheckpointRow, SaveCursor, PollState
  <2>5. CASE Adapt \/ PollFails
    BY <2>5 DEF Adapt, PollFails, IdlePoll
  <2>6. CASE Fire \/ SkipOverlap
    BY <2>6 DEF Fire, SkipOverlap, ListenInv
  <2>7. ~Retire /\ ~RejectRun
    BY DEF Retire, RejectRun, ListenInv
  <2> QED BY <2>1, <2>2, <2>3, <2>4, <2>5, <2>6, <2>7 DEF PollNext
<1>6. scheduler # "none" => scheduler' # "none"
  BY DEF PollNext, BeginPoll, Retire, ResolveHook, RejectRun, QueryPage, DeliverRow, RecordRow,
         CheckpointRow, SaveCursor, Adapt, PollFails, Fire, SkipOverlap, queueVars, ListenInv
<1> QED BY <1>1, <1>2, <1>4, <1>5, <1>6 DEF ListenInv

\* Where the steps of a start lead.
StartStep(c) ==
  \/ AskStart(c) \/ CheckActive(c) \/ ReadLatest(c) \/ ResumeRun(c) \/ SeedCursor(c)
  \/ SeedBoundary(c) \/ WriteRun(c) \/ Schedule(c)

LEMMA StartSteps ==
  ASSUME TypeInv, NEW c \in Callers,
         StartStep(c)
  PROVE  /\ \E q : /\ call' = [call EXCEPT ![c] = q]
                  /\ q.step \in CallSteps \ {"find", "pause", "edit"}
         /\ call'[c].step = "schedule" => ResumeRun(c) \/ WriteRun(c)
<1>1. ASSUME NEW s \in CallSteps \ {"find", "pause", "edit", "schedule"}, NEW q,
             call' = [call EXCEPT ![c] = q], q.step = s
      PROVE  /\ \E r : /\ call' = [call EXCEPT ![c] = r]
                      /\ r.step \in CallSteps \ {"find", "pause", "edit"}
             /\ call'[c].step = "schedule" => ResumeRun(c) \/ WriteRun(c)
  BY <1>1, CallFacts
<1>2. CASE AskStart(c)
  <2> DEFINE q == [call[c] EXCEPT !.step = "check", !.op = "start"]
  <2>1. call' = [call EXCEPT ![c] = q]
    BY <1>2 DEF AskStart
  <2>2. q.step = "check"
    BY CallFacts DEF CallState
  <2> HIDE DEF q
  <2> QED BY <1>1, <2>1, <2>2 DEF CallSteps
<1>3. CASE CheckActive(c)
  <2> DEFINE q == IF Listening THEN IdleCall
                  ELSE [call[c] EXCEPT !.step = "latest", !.trigger = hook.trigger]
  <2>1. call' = [call EXCEPT ![c] = q]
    BY <1>3 DEF CheckActive, Done
  <2>2. q.step \in {"idle", "latest"}
    BY CallFacts DEF CallState, IdleCall
  <2> HIDE DEF q
  <2> QED BY <1>1, <2>1, <2>2 DEF CallSteps
<1>4. CASE ReadLatest(c)
  <2> DEFINE i    == Len(runs)
             fits == i # 0 /\ runs[i].cursor.strategy = call[c].trigger.strategy
             s    == IF fits THEN "resume" ELSE "seed"
             q    == [call[c] EXCEPT !.run = i, !.step = s]
  <2>1. call' = [call EXCEPT ![c] = q]
    BY <1>4 DEF ReadLatest
  <2>2. q.step \in {"resume", "seed"}
    BY CallFacts DEF CallState
  <2> HIDE DEF q
  <2> QED BY <1>1, <2>1, <2>2 DEF CallSteps
<1>5. CASE ResumeRun(c) \/ WriteRun(c)
  <2> DEFINE q == [call[c] EXCEPT !.step = "schedule"]
  <2>1. call' = [call EXCEPT ![c] = q]
    BY <1>5 DEF ResumeRun, WriteRun, Goto
  <2>2. q.step = "schedule"
    BY CallFacts DEF CallState
  <2> HIDE DEF q
  <2> QED BY <1>5, <2>1, <2>2 DEF CallSteps
<1>6. CASE SeedCursor(c)
  <2>4. PICK s \in {"write", "boundary"} : \E cursor : Seeded(c, s, cursor)
    BY <1>6 DEF SeedCursor
  <2>1. PICK cursor : Seeded(c, s, cursor)
    BY <2>4
  <2> DEFINE q == [call[c] EXCEPT !.step = s, !.cursor = cursor,
                     !.old = IF call[c].trigger.from = "now" THEN Rows ELSE {}]
  <2>2. call' = [call EXCEPT ![c] = q]
    BY <2>1 DEF Seeded
  <2>3. q.step = s
    BY CallFacts DEF CallState
  <2> HIDE DEF q
  <2> QED BY <1>1, <2>2, <2>3 DEF CallSteps
<1>7. CASE SeedBoundary(c)
  <2> DEFINE cur == [call[c].cursor EXCEPT
                       !.keys = {k \in DOMAIN table : table[k] >= call[c].cursor.at}]
             new == Rows \ call[c].old
             q   == [call[c] EXCEPT !.step = "write", !.new = new, !.cursor = cur]
  <2>1. call' = [call EXCEPT ![c] = q]
    BY <1>7 DEF SeedBoundary
  <2> HIDE DEF cur, new
  <2>2. q.step = "write"
    BY CallFacts DEF CallState
  <2> HIDE DEF q
  <2> QED BY <1>1, <2>1, <2>2 DEF CallSteps
<1>8. CASE Schedule(c)
  <2>1. call' = [call EXCEPT ![c] = IdleCall]
    BY <1>8 DEF Schedule, Done
  <2>2. IdleCall.step = "idle"
    BY DEF IdleCall
  <2> QED BY <1>1, <2>1, <2>2 DEF CallSteps
<1> QED BY <1>2, <1>3, <1>4, <1>5, <1>6, <1>7, <1>8 DEF StartStep

\* A request is at one of the steps of a start.
LEMMA CallListens ==
  ASSUME TypeInv, ListenInv, OnlyStarts, NEW c \in Callers, CallerNext(c)
  PROVE  ListenInv'
<1>1. UNCHANGED <<proc, poll, fire>>
  BY DEF CallerNext, CallGoesOn, AskStart, AskStop, CheckActive, ReadLatest, ResumeRun,
         SeedCursor, SeedBoundary, WriteRun, Schedule, FindRunning, PauseRun, EditHook,
         CallFails, procVars, queueVars
<1>2. ~AskStop(c) /\ ~FindRunning(c) /\ ~PauseRun(c) /\ ~EditHook(c) /\ ~CallFails(c)
  BY DEF AskStop, Asked, FindRunning, PauseRun, EditHook, CallFails, Fails, ListenInv,
         OnlyStarts
<1>3. StartStep(c)
  BY <1>2 DEF CallerNext, CallGoesOn, StartStep
<1>4. PICK q : /\ call' = [call EXCEPT ![c] = q]
               /\ q.step \in CallSteps \ {"find", "pause", "edit"}
  BY <1>3, StartSteps
<1>5. /\ \A b \in Callers : b # c => call'[b] = call[b]
      /\ call'[c] = q
  BY <1>4, CallFacts
<1>6. call'[c].step = "schedule" => ResumeRun(c) \/ WriteRun(c)
  BY <1>3, StartSteps
<1>7. hook' = hook
  BY <1>3
  DEF StartStep, AskStart, CheckActive, ReadLatest, ResumeRun, SeedCursor, SeedBoundary,
      WriteRun, Schedule, storeVars
<1>8. /\ Len(runs') \in Nat /\ Len(runs) <= Len(runs')
      /\ \A i \in 1 .. Len(runs') : runs'[i].status = "running"
      /\ ResumeRun(c) \/ WriteRun(c) => Len(runs') # 0
      /\ Len(runs') # 0 => Len(runs) # 0 \/ WriteRun(c)
  <2>1. runs \in Seq(Run) /\ Len(runs) \in Nat
    BY DEF TypeInv, RunsOK, RunsIn
  <2>2. CASE ResumeRun(c)
    <3> DEFINE i == call[c].run
               r == [runs[i] EXCEPT !.status = "running"]
    <3>1. i \in 1 .. Len(runs)
      BY <2>2, CallFacts DEF ResumeRun, CallIn
    <3>2. runs' = [runs EXCEPT ![i] = r] /\ r.status = "running"
      BY <2>2, <3>1, PollFacts DEF ResumeRun, Run
    <3> HIDE DEF r, i
    <3> QED BY <2>1, <3>1, <3>2 DEF ListenInv
  <2>3. CASE WriteRun(c) /\ call[c].run = 0
    <3> DEFINE r == [status |-> "running", cursor |-> call[c].cursor, offset |-> 0]
    <3>1. r \in Run /\ r.status = "running"
      BY CallFacts DEF Run
    <3>2. runs' = Append(runs, r)
      BY <2>3 DEF WriteRun
    <3> HIDE DEF r
    <3>3. /\ Len(runs') = Len(runs) + 1
          /\ \A j \in 1 .. Len(runs) : runs'[j] = runs[j]
          /\ runs'[Len(runs) + 1] = r
      BY <2>1, <3>1, <3>2, AppendProperties
    <3>4. ASSUME NEW j \in 1 .. Len(runs') PROVE runs'[j].status = "running"
      <4>1. j \in 1 .. Len(runs) \/ j = Len(runs) + 1
        BY <2>1, <3>3
      <4> QED BY <3>1, <3>3, <4>1 DEF ListenInv
    <3> QED BY <2>1, <2>3, <3>3, <3>4
  <2>4. CASE WriteRun(c) /\ call[c].run # 0
    <3> DEFINE i == call[c].run
               r == [runs[i] EXCEPT !.status = "running", !.cursor = call[c].cursor]
    <3>1. i \in 1 .. Len(runs)
      BY <2>1, <2>4, CallFacts DEF WriteRun, CallIn
    <3>2. runs' = [runs EXCEPT ![i] = r] /\ r.status = "running"
      BY <2>4, <3>1, PollFacts DEF WriteRun, Run
    <3> HIDE DEF r, i
    <3> QED BY <2>1, <3>1, <3>2 DEF ListenInv
  <2>5. CASE ~ResumeRun(c) /\ ~WriteRun(c)
    <3>1. runs' = runs
      BY <1>3, <2>5
      DEF StartStep, AskStart, CheckActive, ReadLatest, SeedCursor, SeedBoundary,
          Schedule, storeVars
    <3> QED BY <2>1, <2>5, <3>1 DEF ListenInv
  <2> QED BY <2>2, <2>3, <2>4, <2>5
<1>9. IF Schedule(c) THEN scheduler' = "fast" ELSE scheduler' = scheduler
  BY <1>3
  DEF StartStep, AskStart, CheckActive, ReadLatest, ResumeRun, SeedCursor, SeedBoundary,
      WriteRun, Schedule, queueVars
<1>10. Schedule(c) <=> call[c].step = "schedule"
  BY <1>3
  DEF StartStep, AskStart, Asked, CheckActive, ReadLatest, ResumeRun, SeedCursor,
      SeedBoundary, WriteRun, Schedule
<1>11. ResumeRun(c) \/ WriteRun(c) => call'[c].step = "schedule"
  BY CallFacts DEF ResumeRun, WriteRun, Goto, CallState
<1>12. (\/ fire' \/ scheduler' # "none" \/ poll'.step # "idle"
       \/ \E b \in Callers : call'[b].step = "schedule") => Len(runs') # 0
  <2>1. Len(runs) \in Nat /\ (Len(runs) # 0 => Len(runs') # 0)
    BY <1>8, PollFacts
  <2> QED BY <1>1, <1>6, <1>5, <1>8, <1>9, <1>10, <2>1 DEF ListenInv
<1>13. proc' = "up" /\ Len(runs') # 0 =>
         scheduler' # "none" \/ \E b \in Callers : call'[b].step = "schedule"
  BY <1>1, <1>5, <1>8, <1>9, <1>10, <1>11 DEF ListenInv
<1>14. \A b \in Callers : call'[b].step \notin {"find", "pause", "edit"}
  BY <1>4, <1>5 DEF ListenInv
<1> QED BY <1>1, <1>7, <1>8, <1>12, <1>13, <1>14 DEF ListenInv

LEMMA CrashListens ==
  ASSUME TypeInv, ListenInv, OnlyStarts, Crash \/ Boot
  PROVE  ListenInv'
<1>1. UNCHANGED <<hook, runs>>
  BY DEF Crash, Boot, storeVars
<1>2. CASE Crash
  BY <1>1, <1>2, PollFacts DEF Crash, ListenInv, IdlePoll, IdleCall
<1>3. CASE Boot
  <2>1. Listening <=> Len(runs) # 0
    BY ListensByRuns
  <2>2. hook.enabled
    BY DEF ListenInv, OnlyStarts
  <2> QED BY <1>1, <1>3, <2>1, <2>2 DEF Boot, ListenInv
<1> QED BY <1>2, <1>3

LEMMA StepListens == TypeInv /\ ListenInv /\ OnlyStarts /\ [Next]_vars => ListenInv'
<1> SUFFICES ASSUME TypeInv, ListenInv, OnlyStarts, [Next]_vars PROVE ListenInv'
  OBVIOUS
<1>1. CASE SourceNext \/ UNCHANGED vars
  <2>1. UNCHANGED <<hook, runs, scheduler, fire, proc, poll, call>>
    BY <1>1
    DEF SourceNext, Insert, InsertTie, TakeValue, InsertLate, InsertNull, Update, Put, vars,
        storeVars, queueVars, procVars
  <2> QED BY <2>1 DEF ListenInv
<1>2. CASE PollNext \/ PollFails \/ Fire \/ SkipOverlap
  BY <1>2, PollListens
<1>3. CASE Crash \/ Boot
  BY <1>3, CrashListens
<1>4. ASSUME NEW c \in Callers, CallerNext(c) PROVE ListenInv'
  BY <1>4, CallListens
<1> QED BY <1>1, <1>2, <1>3, <1>4 DEF Next

LEMMA InitListens == Init => ListenInv
BY DEF Init, ListenInv, IdlePoll, IdleCall

\* A listening hook is polled: once no request and no poll is under way it has a scheduler,
\* through crashes of the process, failures of the source and of the store and starts at
\* the same time.
THEOREM ListenersScheduled == OnlyStarts /\ Spec => []ListeningIsScheduled
<1>1. ASSUME OnlyStarts PROVE Spec => []ListeningIsScheduled
  <2>1. TypeInv /\ ListenInv /\ [Next]_vars => ListenInv'
    BY <1>1, StepListens
  <2>2. TypeInv /\ ListenInv => ListeningIsScheduled
    <3> SUFFICES ASSUME TypeInv, ListenInv PROVE ListeningIsScheduled
      OBVIOUS
    <3>1. Listening <=> Len(runs) # 0
      BY ListensByRuns
    <3> QED BY <3>1 DEF ListenInv, ListeningIsScheduled
  <2> QED BY <2>1, <2>2, InitListens, TypeInvariant, PTL DEF Spec
<1> QED BY <1>1
------------------------------------------------------------------------------
(***************************************************************************)
(* Every row once.                                                          *)
(***************************************************************************)

\* One user at a time starts and stops a hook nobody edits, rows are only inserted and have
\* a value, a poll that has sent a row records it, and a snapshot tracks every key.
Undisturbed ==
  /\ \A b, c \in Callers : b = c
  /\ Ops \subseteq {"start", "stop"}
  /\ Changes \subseteq {"insert", "tie"}
  /\ PollsFinish
  /\ IsFiniteSet(Keys)
  /\ \A h \in Hooks : h.trigger.strategy = "snapshot" => Cardinality(Keys) <= h.trigger.max

NoRepeats(s) == \A i, j \in 1 .. Len(s) : s[i] = s[j] => i = j

\* A poll from the cursor does not take the row for a new one.
SettledIn(t, cursor, k) ==
  CASE cursor.strategy = "increment" -> t[k] <= cursor.at
    [] cursor.strategy = "timestamp" -> \/ t[k] < cursor.at
                                        \/ t[k] = cursor.at /\ k \in cursor.keys
    [] OTHER -> k \in Range(cursor.seen)

InTable(t, r) == r.key \in DOMAIN t /\ r.at = t[r.key]
AllSettled(t, cursor, rows) ==
  \A r \in rows : InTable(t, r) /\ SettledIn(t, cursor, r.key)

\* What is not to be sent again.
Finished == SentRows \union baseline

Fits(cursor) == cursor.strategy = hook.trigger.strategy /\ NoRepeats(cursor.seen)

\* There is one run at most, and unless a poll is going to move its cursor, everything
\* finished is settled by it.
RunsOnce ==
  /\ Len(runs) <= 1
  /\ Len(runs) = 0 => Finished = {} /\ poll.step \in {"idle", "retire"}
  /\ \A i \in 1 .. Len(runs) :
       /\ Fits(runs[i].cursor)
       /\ poll.step \notin Holding => AllSettled(table, runs[i].cursor, Finished)

\* The poll starts from the run's cursor; its own settles what is finished and what is left
\* of its page, which is not finished but for the row it has just sent.
PollOnce ==
  /\ poll.step \in {"resolve", "query"} => poll.cursor = runs[poll.run].cursor
  /\ poll.step = "query" => poll.trigger = hook.trigger
  /\ poll.step \in Holding =>
       /\ Fits(poll.cursor)
       /\ AllSettled(table, poll.cursor, Finished \union Range(poll.page))
       /\ NoRepeats(poll.page)
       /\ \A i \in 1 .. Len(poll.page) :
            poll.page[i] \in Finished => i = 1 /\ poll.step \in InFlight

\* A start that seeds a cursor is the first, and the cursor settles the rows it has seen.
CallOnce(q) ==
  /\ q.step \in {"latest", "seed", "boundary", "write"} => q.trigger = hook.trigger
  /\ q.step \in {"seed", "boundary", "write"} => q.run = 0 /\ Len(runs) = 0
  /\ q.step \in {"boundary", "write"} => Fits(q.cursor)
  /\ q.step = "boundary" => \A r \in q.old : InTable(table, r) /\ r.at <= q.cursor.at
  /\ q.step = "write" => AllSettled(table, q.cursor, q.old)

OnceInv ==
  /\ \A k \in DOMAIN table : table[k] # Null
  /\ RunsOnce
  /\ PollOnce
  /\ \A c \in Callers : CallOnce(call[c])
  /\ SentOnce
  /\ NowIgnoresRows

\* A sequence without repetition is no longer than the set of its elements, and has them all
\* if it is as long.
LEMMA NoRepeatsLength ==
  ASSUME NEW S, IsFiniteSet(S), NEW s \in Seq(S), NoRepeats(s)
  PROVE  /\ Len(s) <= Cardinality(S)
         /\ Len(s) = Cardinality(S) => \A x \in S : \E i \in 1 .. Len(s) : s[i] = x
<1> DEFINE D == 1 .. Len(s)
<1>1. Len(s) \in Nat /\ s \in [D -> S] /\ DOMAIN s = D
  OBVIOUS
<1>2. s \in Injection(D, S)
  BY <1>1 DEF Injection, IsInjective, NoRepeats
<1>3. IsFiniteSet(D) /\ Cardinality(D) = Len(s)
  BY <1>1, FS_Interval
<1>4. /\ Cardinality(D) <= Cardinality(S)
      /\ Cardinality(D) = Cardinality(S) => s \in Surjection(D, S)
  BY <1>2, FS_Injection
<1> QED BY <1>3, <1>4 DEF Surjection

\* What is settled stays settled in the cursor after a page, whose new rows were not, and are.
LEMMA NextSettles ==
  ASSUME NEW n, NEW t, TableIn(t, n), \A k \in DOMAIN t : t[k] # Null,
         NEW trigger \in Trigger, NEW cursor, CursorOK(cursor, n, DOMAIN t),
         cursor.strategy = trigger.strategy, NoRepeats(cursor.seen),
         trigger.strategy = "snapshot" => Cardinality(DOMAIN t) <= trigger.max,
         NEW page \in Pages(t, trigger, cursor)
  PROVE  LET next == NextCursor(t, trigger, cursor, page)
             new  == NewRows(trigger, cursor, page)
         IN  /\ next.strategy = cursor.strategy
             /\ NoRepeats(next.seen)
             /\ \A k \in DOMAIN t : SettledIn(t, cursor, k) => SettledIn(t, next, k)
             /\ NoRepeats(new)
             /\ \A j \in 1 .. Len(new) :
                  /\ new[j] \in DOMAIN t
                  /\ SettledIn(t, next, new[j])
                  /\ ~SettledIn(t, cursor, new[j])
<1> DEFINE next == NextCursor(t, trigger, cursor, page)
           new  == NewRows(trigger, cursor, page)
           seen == cursor.seen \o new
           top  == TopOf(t, page)
<1>1. /\ page \in Seq(Keys)
      /\ \A i, j \in 1 .. Len(page) : page[i] = page[j] => i = j
      /\ \A i \in 1 .. Len(page) : page[i] \in Candidates(t, trigger, cursor)
  BY PageOK
<1>2. page \in Seq(DOMAIN t)
  BY <1>1 DEF Candidates
<1>3. /\ new \in Seq(Keys) /\ NoRepeats(new)
      /\ \A j \in 1 .. Len(new) :
           /\ new[j] \notin Emitted(trigger, cursor)
           /\ \E i \in 1 .. Len(page) : new[j] = page[i]
  BY <1>1, NewRowsOK DEF NoRepeats
<1>4. \A j \in 1 .. Len(new) : new[j] \in Candidates(t, trigger, cursor) /\ new[j] \in DOMAIN t
  BY <1>1, <1>3 DEF Candidates
<1>5. cursor.strategy \in Strategies /\ cursor.seen \in Seq(Keys) /\ cursor.at \in Nat
  BY DEF CursorOK, Cursor
<1>6. CASE cursor.strategy = "snapshot"
  <2>1. ~Follows(trigger, cursor) /\ Emitted(trigger, cursor) = Range(cursor.seen)
    BY <1>6 DEF Follows, Emitted
  <2>2. next.strategy = "snapshot" /\ next.seen = Newest(seen, trigger.max)
    <3>1. /\ next.strategy = "snapshot"
          /\ next.seen = IF trigger.strategy = "snapshot"
                         THEN Newest(seen, trigger.max) ELSE seen
      BY <2>1, NextCases
    <3>2. trigger.strategy = "snapshot"
      BY <1>6
    <3> HIDE DEF next, seen
    <3> QED BY <3>1, <3>2
  <2> HIDE DEF new, next
  <2>3. /\ seen \in Seq(Keys)
        /\ Len(seen) = Len(cursor.seen) + Len(new)
        /\ \A i \in 1 .. Len(cursor.seen) + Len(new) :
             seen[i] = IF i <= Len(cursor.seen) THEN cursor.seen[i]
                       ELSE new[i - Len(cursor.seen)]
    BY <1>3, <1>5, ConcatProperties
  <2> HIDE DEF seen
  <2>4. /\ Len(cursor.seen) \in Nat /\ Len(new) \in Nat
        /\ \A i \in 1 .. Len(cursor.seen) : seen[i] = cursor.seen[i] /\ i \in 1 .. Len(seen)
        /\ \A j \in 1 .. Len(new) :
             seen[Len(cursor.seen) + j] = new[j] /\ Len(cursor.seen) + j \in 1 .. Len(seen)
    <3>1. Len(cursor.seen) \in Nat /\ Len(new) \in Nat
      BY <1>3, <1>5 DEF new
    <3>2. ASSUME NEW j \in 1 .. Len(new)
          PROVE  seen[Len(cursor.seen) + j] = new[j] /\ Len(cursor.seen) + j \in 1 .. Len(seen)
      <4> DEFINE x == Len(cursor.seen) + j
      <4>1. /\ x \in 1 .. Len(cursor.seen) + Len(new)
            /\ ~(x <= Len(cursor.seen))
            /\ x - Len(cursor.seen) = j
        BY <3>1
      <4> HIDE DEF x
      <4>2. seen[x] = new[j] /\ x \in 1 .. Len(seen)
        BY <2>3, <4>1
      <4> QED BY <4>2 DEF x
    <3>3. ASSUME NEW i \in 1 .. Len(cursor.seen)
          PROVE  seen[i] = cursor.seen[i] /\ i \in 1 .. Len(seen)
      <4>1. i \in 1 .. Len(cursor.seen) + Len(new) /\ i <= Len(cursor.seen)
        BY <3>1
      <4> QED BY <2>3, <4>1
    <3> QED BY <3>1, <3>2, <3>3
  <2>5. \A i \in 1 .. Len(seen) :
          \/ i \in 1 .. Len(cursor.seen)
          \/ \E j \in 1 .. Len(new) : i = Len(cursor.seen) + j
    <3> TAKE i \in 1 .. Len(seen)
    <3>1. CASE i > Len(cursor.seen)
      <4>1. Len(cursor.seen) \in Nat /\ Len(new) \in Nat /\ Len(seen) = Len(cursor.seen) + Len(new)
        BY <2>3, <2>4
      <4>2. i - Len(cursor.seen) \in 1 .. Len(new)
            /\ i = Len(cursor.seen) + (i - Len(cursor.seen))
        BY <3>1, <4>1
      <4> QED BY <4>2
    <3>2. CASE i <= Len(cursor.seen)
      BY <2>4, <3>2
    <3> QED BY <2>4, <3>1, <3>2
  <2>6. \A i \in 1 .. Len(cursor.seen), j \in 1 .. Len(new) : cursor.seen[i] # new[j]
    BY <1>3, <1>5, <2>1 DEF Range
  <2>7. NoRepeats(seen)
    <3> SUFFICES ASSUME NEW i \in 1 .. Len(seen), NEW j \in 1 .. Len(seen), seen[i] = seen[j]
                 PROVE  i = j
      BY DEF NoRepeats
    <3>1. CASE i \in 1 .. Len(cursor.seen) /\ j \in 1 .. Len(cursor.seen)
      BY <2>4, <3>1 DEF NoRepeats
    <3>2. CASE /\ \E k \in 1 .. Len(new) : i = Len(cursor.seen) + k
               /\ \E k \in 1 .. Len(new) : j = Len(cursor.seen) + k
      BY <1>3, <2>4, <3>2 DEF NoRepeats
    <3>3. CASE i \in 1 .. Len(cursor.seen) /\ \E k \in 1 .. Len(new) : j = Len(cursor.seen) + k
      <4>1. PICK k \in 1 .. Len(new) : j = Len(cursor.seen) + k
        BY <3>3
      <4>2. seen[j] = new[k] /\ seen[i] = cursor.seen[i]
        BY <2>4, <3>3, <4>1
      <4> QED BY <2>6, <3>3, <4>2
    <3>4. CASE j \in 1 .. Len(cursor.seen) /\ \E k \in 1 .. Len(new) : i = Len(cursor.seen) + k
      <4>1. PICK k \in 1 .. Len(new) : i = Len(cursor.seen) + k
        BY <3>4
      <4>2. seen[i] = new[k] /\ seen[j] = cursor.seen[j]
        BY <2>4, <3>4, <4>1
      <4> QED BY <2>6, <3>4, <4>2
    <3> QED BY <2>5, <3>1, <3>2, <3>3, <3>4
  <2>8. seen \in Seq(DOMAIN t)
    <3>1. \A i \in 1 .. Len(cursor.seen) : cursor.seen[i] \in DOMAIN t
      BY DEF CursorOK
    <3>2. \A i \in 1 .. Len(seen) : seen[i] \in DOMAIN t
      BY <1>4, <2>4, <2>5, <3>1 DEF new
    <3> QED BY <2>3, <3>2
  <2>9. Len(seen) <= trigger.max /\ trigger.max \in Nat /\ Len(seen) \in Nat
    <3>1. Len(seen) <= Cardinality(DOMAIN t) /\ Cardinality(DOMAIN t) \in Nat
      BY <2>7, <2>8, NoRepeatsLength, FS_CardinalityType DEF TableIn
    <3>2. Cardinality(DOMAIN t) <= trigger.max /\ trigger.max \in Nat /\ Len(seen) \in Nat
      BY <1>6, <2>3 DEF Trigger
    <3> QED BY <3>1, <3>2
  <2>10. next.seen = seen
    BY <2>2, <2>3, <2>9, NewestOK
  <2>11. /\ \A i \in 1 .. Len(cursor.seen) : cursor.seen[i] \in Range(seen)
         /\ \A j \in 1 .. Len(new) : new[j] \in Range(seen)
    <3>1. \A i \in 1 .. Len(seen) : seen[i] \in Range(seen)
      BY <2>3 DEF Range
    <3> QED BY <2>4, <3>1
  <2>12. \A k : SettledIn(t, cursor, k) <=> k \in Range(cursor.seen)
    BY <1>6 DEF SettledIn
  <2>13. \A k : SettledIn(t, next, k) <=> k \in Range(seen)
    BY <2>2, <2>10 DEF SettledIn
  <2>14. Range(cursor.seen) \subseteq Range(seen)
    BY <1>5, <2>11 DEF Range
  <2>15. \A j \in 1 .. Len(new) : new[j] \notin Range(cursor.seen)
    BY <1>3, <2>1 DEF new
  <2>16. \A k : SettledIn(t, cursor, k) => SettledIn(t, next, k)
    BY <2>12, <2>13, <2>14
  <2>17. \A j \in 1 .. Len(new) : SettledIn(t, next, new[j]) /\ ~SettledIn(t, cursor, new[j])
    BY <2>11, <2>12, <2>13, <2>15
  <2>18. NoRepeats(next.seen) /\ next.strategy = cursor.strategy
    BY <1>6, <2>2, <2>7, <2>10
  <2> QED BY <1>3, <1>4, <2>16, <2>17, <2>18 DEF new, next
<1>7. CASE cursor.strategy # "snapshot"
  <2>1. Follows(trigger, cursor) /\ Emitted(trigger, cursor) = cursor.keys
    BY <1>7 DEF Follows, Emitted
  <2>2. /\ top \in 0 .. n
        /\ \A i \in 1 .. Len(page) : t[page[i]] <= top
        /\ top = Null \/ \E i \in 1 .. Len(page) : t[page[i]] = top
    BY <1>2, TopOK
  <2>3. \A k \in DOMAIN t : t[k] \in Nat /\ t[k] > 0
    BY DEF TableIn, Null
  <2>4. CASE top = Null
    <3>1. next = cursor
      BY <2>1, <2>4, NextCases
    <3>2. \A i \in 1 .. Len(page) : FALSE
      BY <1>2, <2>2, <2>3, <2>4 DEF Null
    <3>3. \A j \in 1 .. Len(new) : FALSE
      BY <1>3, <3>2
    <3> HIDE DEF next, new
    <3> QED BY <1>3, <3>1, <3>3 DEF next, new
  <2>5. CASE top # Null
    <3> DEFINE keys == IF trigger.strategy = "timestamp"
                       THEN Boundary(t, cursor, page, top) ELSE {}
    <3>1. next.strategy = cursor.strategy /\ next.at = top /\ next.keys = keys
          /\ next.seen = cursor.seen
      BY <2>1, <2>5, NextCases
    <3>2. \A k \in Candidates(t, trigger, cursor) :
            /\ k \in DOMAIN t
            /\ t[k] > cursor.at \/ (cursor.strategy = "timestamp" /\ t[k] = cursor.at)
      BY <1>5, <2>1, <2>3 DEF Candidates, Null
    <3>3. top >= cursor.at /\ top \in Nat
      <4>1. PICK i \in 1 .. Len(page) : t[page[i]] = top
        BY <2>2, <2>5
      <4> QED BY <1>1, <1>5, <2>2, <3>2, <4>1
    <3>4. \A j \in 1 .. Len(new) : t[new[j]] <= top /\ new[j] \in Range(page)
      BY <1>2, <1>3, <2>2 DEF Range
    <3>5. cursor.strategy = "timestamp" =>
            keys = {k \in Range(page) : t[k] = top} \union
                     (IF top = cursor.at THEN cursor.keys ELSE {})
      BY DEF Boundary
    <3> HIDE DEF next, new, keys, top
    <3>6. ASSUME NEW k \in DOMAIN t, SettledIn(t, cursor, k) PROVE SettledIn(t, next, k)
      <4>1. CASE cursor.strategy = "increment"
        BY <1>5, <2>3, <3>1, <3>3, <3>6, <4>1 DEF SettledIn
      <4>2. CASE cursor.strategy = "timestamp"
        BY <1>5, <2>3, <3>1, <3>3, <3>5, <3>6, <4>2 DEF SettledIn
      <4> QED BY <1>5, <1>7, <4>1, <4>2 DEF Strategies
    <3>7. ASSUME NEW j \in 1 .. Len(new)
          PROVE  SettledIn(t, next, new[j]) /\ ~SettledIn(t, cursor, new[j])
      <4> DEFINE k == new[j]
      <4>1. /\ k \in DOMAIN t /\ t[k] <= top /\ k \in Range(page) /\ k \notin cursor.keys
            /\ t[k] > cursor.at \/ (cursor.strategy = "timestamp" /\ t[k] = cursor.at)
        BY <1>3, <1>4, <2>1, <3>2, <3>4 DEF new
      <4> HIDE DEF k
      <4>2. CASE cursor.strategy = "increment"
        BY <1>5, <2>3, <3>1, <3>3, <4>1, <4>2 DEF SettledIn, k
      <4>3. CASE cursor.strategy = "timestamp"
        BY <1>5, <2>3, <3>1, <3>3, <3>5, <4>1, <4>3 DEF SettledIn, k
      <4> QED BY <1>5, <1>7, <4>2, <4>3 DEF Strategies
    <3> QED BY <1>3, <1>4, <3>1, <3>6, <3>7 DEF next, new
  <2> QED BY <2>4, <2>5
<1> QED BY <1>6, <1>7

\* What the steps of the poll find.
LEMMA OnceFacts ==
  ASSUME TypeInv, OnceInv
  PROVE  /\ TableIn(table, clock)
         /\ \A i, j \in 1 .. Len(runs) : i = j
         /\ poll.step \notin {"idle", "retire"} => poll.run \in 1 .. Len(runs) /\ Len(runs) # 0
         /\ poll.step \in {"idle", "retire", "adapt", "reject", "resolve", "query"} =>
              poll.step \notin Holding
BY PollFacts DEF TypeInv, SourceOK, OnceInv, RunsOnce, Holding

\* A step of the poll that sends nothing.
LEMMA OncePollStep ==
  ASSUME TypeInv, OnceInv, UNCHANGED <<table, hook, call, sent, baseline>>,
         Len(runs') = Len(runs),
         \A i \in 1 .. Len(runs) : runs'[i].cursor = runs[i].cursor,
         Len(runs) = 0 => poll'.step \in {"idle", "retire"},
         poll'.step \notin Holding => poll.step \notin Holding,
         PollOnce'
  PROVE  OnceInv'
<1>1. RunsOnce'
  BY DEF OnceInv, RunsOnce, Finished, SentRows, Fits
<1>2. \A c \in Callers : CallOnce(call[c])'
  BY DEF OnceInv, CallOnce, Fits
<1>3. SentOnce' /\ NowIgnoresRows'
  BY DEF OnceInv, SentOnce, NowIgnoresRows, SentRows
<1> QED BY <1>1, <1>2, <1>3 DEF OnceInv

LEMMA BeginOnce ==
  ASSUME TypeInv, OnceInv, BeginPoll
  PROVE  OnceInv'
<1>1. UNCHANGED <<table, hook, runs, call, sent, baseline>> /\ poll.step = "idle"
  BY DEF BeginPoll, sourceVars, storeVars, histVars
<1>2. CASE Listening
  <2> DEFINE i == Max(Running)
  <2>1. i \in 1 .. Len(runs)
    BY <1>2, RunningOK
  <2>2. poll' = [poll EXCEPT !.step = "resolve", !.run = i,
                   !.cursor = runs[i].cursor, !.seq = runs[i].offset]
    BY <1>2 DEF BeginPoll
  <2> HIDE DEF i
  <2>3. poll'.step = "resolve" /\ poll'.run = i /\ poll'.cursor = runs[i].cursor
    BY <2>2, PollFacts DEF PollState
  <2>4. PollOnce'
    BY <1>1, <2>3 DEF PollOnce, Holding
  <2>5. Len(runs) # 0
    BY <2>1, PollFacts
  <2> QED BY <1>1, <2>3, <2>4, <2>5, OncePollStep, OnceFacts DEF Holding
<1>3. CASE ~Listening
  <2>1. poll'.step = "retire"
    BY <1>3, PollFacts DEF BeginPoll, PollState
  <2>2. PollOnce'
    BY <2>1 DEF PollOnce, Holding
  <2> QED BY <1>1, <2>1, <2>2, OncePollStep DEF Holding
<1> QED BY <1>2, <1>3

\* The poll ends at a step that holds no rows.
LEMMA EndsOnce ==
  ASSUME TypeInv, OnceInv, PollsFinish, Retire \/ Adapt \/ PollFails
  PROVE  OnceInv'
<1>1. UNCHANGED <<table, hook, runs, call, sent, baseline>> /\ poll' = IdlePoll
  BY DEF Retire, Adapt, PollFails, sourceVars, storeVars, histVars
<1>2. poll.step \notin Holding
  BY DEF Retire, Adapt, PollFails, Fails, PollsFinish, Holding
<1>3. PollOnce' /\ poll'.step = "idle"
  BY <1>1 DEF PollOnce, IdlePoll, Holding
<1> QED BY <1>1, <1>2, <1>3, OncePollStep

LEMMA ResolveOnce ==
  ASSUME TypeInv, OnceInv, ResolveHook
  PROVE  OnceInv'
<1>1. UNCHANGED <<table, hook, runs, call, sent, baseline>> /\ poll.step = "resolve"
  BY DEF ResolveHook, sourceVars, storeVars, histVars
<1>2. /\ poll'.cursor = poll.cursor /\ poll'.run = poll.run
      /\ poll'.step \in {"query", "reject"}
      /\ poll'.step = "query" => poll'.trigger = hook.trigger
  BY PollFacts DEF ResolveHook, PollState
<1>3. PollOnce'
  BY <1>1, <1>2 DEF OnceInv, PollOnce, Holding
<1>4. Len(runs) # 0 /\ poll.step \notin Holding
  BY <1>1, OnceFacts
<1> QED BY <1>1, <1>3, <1>4, OncePollStep

LEMMA RejectOnce ==
  ASSUME TypeInv, OnceInv, RejectRun
  PROVE  OnceInv'
<1>1. UNCHANGED <<table, hook, call, sent, baseline>> /\ poll.step = "reject"
  BY DEF RejectRun, sourceVars, histVars
<1>2. poll.run \in 1 .. Len(runs) /\ poll'.step = "retire"
  BY PollFacts DEF RejectRun, PollState
<1> DEFINE r == [runs[poll.run] EXCEPT !.status = "canceled"]
<1>3. r.cursor = runs[poll.run].cursor
  BY <1>2, PollFacts DEF Run
<1>4. runs' = [runs EXCEPT ![poll.run] = r]
  BY DEF RejectRun
<1> HIDE DEF r
<1>5. /\ Len(runs') = Len(runs)
      /\ \A j \in 1 .. Len(runs) : runs'[j].cursor = runs[j].cursor
  BY <1>2, <1>3, <1>4, CursorsKept
<1>6. PollOnce' /\ poll.step \notin Holding
  BY <1>1, <1>2 DEF PollOnce, Holding
<1> QED BY <1>1, <1>2, <1>5, <1>6, OncePollStep

\* The page has rows that are not settled by the run's cursor, and the cursor after it settles.
LEMMA QueryOnce ==
  ASSUME TypeInv, OnceInv, Undisturbed, QueryPage
  PROVE  OnceInv'
<1>1. UNCHANGED <<table, hook, runs, call, sent, baseline>> /\ poll.step = "query"
  BY DEF QueryPage, sourceVars, storeVars, histVars
<1> DEFINE cursor == poll.cursor
<1>2. PICK page \in Pages(table, poll.trigger, cursor) :
        LET new == NewRows(poll.trigger, cursor, page)
        IN  /\ poll'.step = IF new = <<>> THEN "advance" ELSE "deliver"
            /\ Len(new) \in Nat
            /\ poll'.page = [i \in 1 .. Len(new) |-> [key |-> new[i], at |-> table[new[i]]]]
            /\ poll'.cursor = NextCursor(table, poll.trigger, cursor, page)
  BY QueryFacts
<1> DEFINE new  == NewRows(poll.trigger, cursor, page)
           next == NextCursor(table, poll.trigger, cursor, page)
           row(k) == [key |-> k, at |-> table[k]]
<1>3. /\ poll.run \in 1 .. Len(runs) /\ Len(runs) # 0 /\ cursor = runs[poll.run].cursor
      /\ poll.trigger = hook.trigger /\ poll.trigger \in Trigger
  BY <1>1, OnceFacts, PollFacts DEF OnceInv, PollOnce
<1>4. Fits(cursor) /\ AllSettled(table, cursor, Finished)
  BY <1>1, <1>3, OnceFacts DEF OnceInv, RunsOnce
<1>5. /\ TableIn(table, clock) /\ \A k \in DOMAIN table : table[k] # Null
      /\ CursorOK(cursor, clock, DOMAIN table)
  BY OnceFacts, PollFacts DEF OnceInv
<1>6. poll.trigger.strategy = "snapshot" => Cardinality(DOMAIN table) <= poll.trigger.max
  <2>1. /\ Cardinality(DOMAIN table) <= Cardinality(Keys)
        /\ Cardinality(DOMAIN table) \in Nat /\ Cardinality(Keys) \in Nat
    BY <1>5, FS_Subset, FS_CardinalityType DEF TableIn, Undisturbed
  <2>2. poll.trigger.strategy = "snapshot" => Cardinality(Keys) <= poll.trigger.max
    BY <1>3 DEF Undisturbed, TypeInv, StoreOK
  <2>3. poll.trigger.max \in Nat
    BY <1>3 DEF Trigger
  <2> QED BY <2>1, <2>2, <2>3
<1>7. /\ next.strategy = cursor.strategy
      /\ NoRepeats(next.seen)
      /\ \A k \in DOMAIN table : SettledIn(table, cursor, k) => SettledIn(table, next, k)
      /\ NoRepeats(new)
      /\ \A j \in 1 .. Len(new) :
           /\ new[j] \in DOMAIN table
           /\ SettledIn(table, next, new[j])
           /\ ~SettledIn(table, cursor, new[j])
  <2>1. cursor.strategy = poll.trigger.strategy /\ NoRepeats(cursor.seen)
    BY <1>3, <1>4 DEF Fits
  <2> HIDE DEF cursor
  <2> QED BY <1>3, <1>5, <1>6, <2>1, NextSettles
<1>8. /\ Len(new) \in Nat
      /\ poll'.step \in {"advance", "deliver"}
      /\ poll'.page = [i \in 1 .. Len(new) |-> row(new[i])]
      /\ poll'.cursor = next
  BY <1>2
<1> HIDE DEF new, next
<1>9. /\ Len(poll'.page) = Len(new)
      /\ \A j \in 1 .. Len(new) : poll'.page[j] = row(new[j])
      /\ \A r \in Range(poll'.page) : \E j \in 1 .. Len(new) : r = row(new[j])
  BY <1>8 DEF Range
<1>10. \A k : row(k).key = k
  OBVIOUS
<1>11. Fits(poll.cursor)' /\ NoRepeats(poll.page)'
  <2>1. ASSUME NEW i \in 1 .. Len(new), NEW j \in 1 .. Len(new),
               poll'.page[i] = poll'.page[j]
        PROVE  i = j
    <3>1. row(new[i]) = row(new[j])
      BY <1>9, <2>1
    <3>2. new[i] = new[j]
      BY <1>10, <3>1
    <3> QED BY <1>7, <3>2 DEF NoRepeats
  <2>2. NoRepeats(poll'.page)
    BY <1>9, <2>1 DEF NoRepeats
  <2> QED BY <1>1, <1>4, <1>7, <1>8, <2>2 DEF Fits
<1>12. AllSettled(table, next, Finished \union Range(poll'.page))
  BY <1>4, <1>7, <1>9 DEF AllSettled, InTable
<1>13. \A i \in 1 .. Len(poll'.page) : poll'.page[i] \notin Finished
  <2> SUFFICES ASSUME NEW j \in 1 .. Len(new), poll'.page[j] \in Finished PROVE FALSE
    BY <1>9
  <2>1. SettledIn(table, cursor, poll'.page[j].key)
    BY <1>4 DEF AllSettled
  <2>2. poll'.page[j].key = new[j]
    BY <1>9, <1>10
  <2> QED BY <1>7, <2>1, <2>2
<1>14. Finished' = Finished
  BY <1>1 DEF Finished, SentRows
<1>15. PollOnce'
  BY <1>1, <1>8, <1>11, <1>12, <1>13, <1>14 DEF PollOnce, Holding
<1> QED BY <1>1, <1>3, <1>8, <1>15, OncePollStep DEF Holding

LEMMA DeliverOnce ==
  ASSUME TypeInv, OnceInv, DeliverRow
  PROVE  OnceInv'
<1>1. UNCHANGED <<table, hook, runs, call, baseline>> /\ poll.step = "deliver"
  BY DEF DeliverRow, sourceVars, storeVars
<1>2. /\ poll'.step = "record" /\ poll'.page = poll.page /\ poll'.cursor = poll.cursor
  BY PollFacts DEF DeliverRow, PollState
<1> DEFINE row == Head(poll.page)
<1>3. /\ poll.page \in Seq(Row) /\ poll.page # <<>>
      /\ Range(poll.page) = {row} \union Range(Tail(poll.page))
  BY <1>1, HeadOfPage, PollFacts, RangeOfTail
<1>4. 1 \in 1 .. Len(poll.page) /\ row = poll.page[1] /\ row \in Range(poll.page)
  BY <1>3
<1>5. /\ Fits(poll.cursor) /\ AllSettled(table, poll.cursor, Finished \union Range(poll.page))
      /\ NoRepeats(poll.page)
      /\ \A i \in 1 .. Len(poll.page) : poll.page[i] \notin Finished
  BY <1>1 DEF OnceInv, PollOnce, Holding, InFlight
<1>6. /\ SentRows' = SentRows \union {row}
      /\ \A d \in sent' : d \in sent \/ (d = Sending /\ d.row = row)
  <2>1. sent' = sent \union {Sending}
    BY DEF DeliverRow, Sending
  <2>2. Sending.row = row
    BY DEF Sending
  <2> HIDE DEF row
  <2> QED BY <2>1, <2>2 DEF SentRows
<1>7. Finished' = Finished \union {row}
  BY <1>1, <1>6 DEF Finished
<1>8. row \notin SentRows /\ row \notin baseline
  BY <1>4, <1>5 DEF Finished
<1>9. PollOnce'
  <2>1. \A i \in 1 .. Len(poll.page) : poll.page[i] \in Finished' => i = 1
    BY <1>4, <1>5, <1>7 DEF NoRepeats
  <2>2. AllSettled(table, poll.cursor, Finished' \union Range(poll.page))
    BY <1>4, <1>5, <1>7 DEF AllSettled
  <2> HIDE DEF row
  <2> QED BY <1>1, <1>2, <1>5, <2>1, <2>2 DEF PollOnce, Holding, InFlight, Fits
<1>10. Len(runs) # 0
  BY <1>1, OnceFacts
<1>11. RunsOnce'
  BY <1>1, <1>2, <1>10 DEF OnceInv, RunsOnce, Holding, Fits
<1>12. \A c \in Callers : CallOnce(call[c])'
  BY <1>1 DEF OnceInv, CallOnce, Fits
<1>13. SentOnce'
  <2>1. \A d \in sent : d.row # row
    BY <1>8 DEF SentRows
  <2> QED BY <1>6, <2>1 DEF OnceInv, SentOnce
<1>14. NowIgnoresRows'
  BY <1>1, <1>6, <1>8 DEF OnceInv, NowIgnoresRows
<1> QED BY <1>1, <1>9, <1>11, <1>12, <1>13, <1>14 DEF OnceInv

LEMMA RecordOnce ==
  ASSUME TypeInv, OnceInv, RecordRow
  PROVE  OnceInv'
<1>1. UNCHANGED <<table, hook, runs, call, sent, baseline>> /\ poll.step = "record"
  BY DEF RecordRow, sourceVars, histVars
<1>2. poll'.step = "checkpoint" /\ poll'.page = poll.page /\ poll'.cursor = poll.cursor
  BY PollFacts DEF RecordRow, PollState
<1>3. Finished' = Finished
  BY <1>1 DEF Finished, SentRows
<1>4. PollOnce'
  BY <1>1, <1>2, <1>3 DEF OnceInv, PollOnce, Holding, InFlight, Fits
<1>5. Len(runs) # 0
  BY <1>1, OnceFacts
<1> QED BY <1>1, <1>2, <1>4, <1>5, OncePollStep DEF Holding

LEMMA CheckpointOnce ==
  ASSUME TypeInv, OnceInv, CheckpointRow
  PROVE  OnceInv'
<1>1. UNCHANGED <<table, hook, call, sent, baseline>> /\ poll.step = "checkpoint"
  BY DEF CheckpointRow, sourceVars, histVars
<1>2. /\ poll'.step \in {"advance", "deliver"} /\ poll'.page = Tail(poll.page)
      /\ poll'.cursor = poll.cursor /\ poll.run \in 1 .. Len(runs)
  BY PollFacts DEF CheckpointRow, PollState
<1> DEFINE r == [runs[poll.run] EXCEPT !.offset = poll.seq + 1]
<1>3. r.cursor = runs[poll.run].cursor
  BY <1>2, PollFacts DEF Run
<1>4. runs' = [runs EXCEPT ![poll.run] = r]
  BY DEF CheckpointRow
<1> HIDE DEF r
<1>5. /\ Len(runs') = Len(runs)
      /\ \A j \in 1 .. Len(runs) : runs'[j].cursor = runs[j].cursor
  BY <1>2, <1>3, <1>4, CursorsKept
<1>6. /\ poll.page \in Seq(Row) /\ poll.page # <<>>
      /\ Range(poll.page) = {Head(poll.page)} \union Range(Tail(poll.page))
  BY <1>1, HeadOfPage, PollFacts, RangeOfTail
<1> DEFINE p == poll.page
           q == Tail(p)
<1>7. Len(p) \in Nat /\ Len(q) = Len(p) - 1 /\ \A i \in 1 .. Len(q) : q[i] = p[i + 1]
  BY <1>6
<1>8. /\ Fits(poll.cursor) /\ AllSettled(table, poll.cursor, Finished \union Range(p))
      /\ NoRepeats(p) /\ \A i \in 1 .. Len(p) : p[i] \in Finished => i = 1
  BY <1>1 DEF OnceInv, PollOnce, Holding
<1>9. NoRepeats(q) /\ \A i \in 1 .. Len(q) : q[i] \notin Finished
  <2> HIDE DEF p, q
  <2>1. \A i \in 1 .. Len(q) : i + 1 \in 1 .. Len(p) /\ i + 1 # 1
    BY <1>7
  <2>2. NoRepeats(q)
    <3> SUFFICES ASSUME NEW i \in 1 .. Len(q), NEW j \in 1 .. Len(q), q[i] = q[j] PROVE i = j
      BY DEF NoRepeats
    <3>1. i + 1 = j + 1
      BY <1>7, <1>8, <2>1 DEF NoRepeats
    <3> QED BY <1>7, <3>1
  <2> QED BY <1>7, <1>8, <2>1, <2>2
<1>10. AllSettled(table, poll.cursor, Finished \union Range(q))
  BY <1>6, <1>8 DEF AllSettled
<1>11. Finished' = Finished
  BY <1>1 DEF Finished, SentRows
<1> HIDE DEF p, q
<1>12. PollOnce'
  BY <1>1, <1>2, <1>8, <1>9, <1>10, <1>11 DEF PollOnce, Holding, Fits, p, q
<1>13. Len(runs) # 0
  BY <1>1, OnceFacts
<1> QED BY <1>1, <1>2, <1>5, <1>12, <1>13, OncePollStep DEF Holding

LEMMA SaveOnce ==
  ASSUME TypeInv, OnceInv, SaveCursor
  PROVE  OnceInv'
<1>1. UNCHANGED <<table, hook, call, sent, baseline>> /\ poll.step = "advance"
  BY DEF SaveCursor, sourceVars, histVars
<1>2. poll'.step = "adapt" /\ poll.run \in 1 .. Len(runs) /\ Len(runs) # 0
  BY <1>1, PollFacts, OnceFacts DEF SaveCursor, PollState
<1>3. Len(runs') = Len(runs) /\ runs'[poll.run].cursor = poll.cursor
  <2> DEFINE r == [runs[poll.run] EXCEPT !.cursor = poll.cursor, !.offset = poll.seq]
  <2>1. r.cursor = poll.cursor
    BY <1>2, PollFacts DEF Run
  <2>2. runs' = [runs EXCEPT ![poll.run] = r]
    BY DEF SaveCursor
  <2> HIDE DEF r
  <2> QED BY <1>2, <2>1, <2>2, PollFacts DEF TypeInv, RunsOK, RunsIn
<1>4. \A i \in 1 .. Len(runs) : i = poll.run
  BY <1>2, OnceFacts
<1>5. Fits(poll.cursor) /\ AllSettled(table, poll.cursor, Finished)
  BY <1>1 DEF OnceInv, PollOnce, Holding, AllSettled
<1>6. RunsOnce'
  BY <1>1, <1>2, <1>3, <1>4, <1>5 DEF OnceInv, RunsOnce, Finished, SentRows, Fits
<1>7. PollOnce'
  BY <1>2 DEF PollOnce, Holding
<1>8. \A c \in Callers : CallOnce(call[c])'
  BY <1>1, <1>3 DEF OnceInv, CallOnce, Fits
<1>9. SentOnce' /\ NowIgnoresRows'
  BY <1>1 DEF OnceInv, SentOnce, NowIgnoresRows, SentRows
<1> QED BY <1>1, <1>6, <1>7, <1>8, <1>9 DEF OnceInv

\* The source inserts a row that has a value: what is settled stays settled.
LEMMA SourceOnce ==
  ASSUME TypeInv, OnceInv, Undisturbed, SourceNext
  PROVE  OnceInv'
<1>1. UNCHANGED <<hook, runs, poll, call, sent, baseline>>
  BY DEF SourceNext, Insert, InsertTie, TakeValue, InsertLate, InsertNull, Update, Put,
         Undisturbed, storeVars, histVars
<1>2. PICK k \in Keys \ DOMAIN table, at \in Nat : Put(k, at) /\ at # Null
  <2>1. Insert \/ InsertTie
    BY DEF SourceNext, Undisturbed, TakeValue, InsertLate, InsertNull, Update
  <2>2. clock \in Nat
    BY PollFacts
  <2>3. clock + 1 \in Nat /\ clock + 1 # Null
    BY <2>2 DEF Null
  <2>4. CASE Insert
    BY <2>3, <2>4 DEF Insert, Fresh
  <2>5. CASE InsertTie
    <3>1. clock # Null
      BY <2>2, <2>5 DEF InsertTie, Null
    <3> QED BY <2>2, <2>5, <3>1 DEF InsertTie, Fresh
  <2> QED BY <2>1, <2>4, <2>5
<1>3. /\ DOMAIN table' = DOMAIN table \union {k}
      /\ table'[k] = at
      /\ \A x \in DOMAIN table : table'[x] = table[x]
  BY <1>2 DEF Put
<1>4. \A r : InTable(table, r) => InTable(table', r)
  BY <1>3 DEF InTable
<1>5. \A cursor : \A x \in DOMAIN table :
         SettledIn(table, cursor, x) => SettledIn(table', cursor, x)
  BY <1>3 DEF SettledIn
<1>6. \A cursor, rows : AllSettled(table, cursor, rows) => AllSettled(table', cursor, rows)
  BY <1>4, <1>5 DEF AllSettled, InTable
<1>7. \A x \in DOMAIN table' : table'[x] # Null
  BY <1>2, <1>3 DEF OnceInv
<1>8. RunsOnce'
  BY <1>1, <1>6 DEF OnceInv, RunsOnce, Finished, SentRows, Fits
<1>9. PollOnce'
  BY <1>1, <1>6 DEF OnceInv, PollOnce, Finished, SentRows, Fits
<1>10. \A c \in Callers : CallOnce(call[c])'
  BY <1>1, <1>4, <1>6 DEF OnceInv, CallOnce, Fits
<1>11. SentOnce' /\ NowIgnoresRows'
  BY <1>1 DEF OnceInv, SentOnce, NowIgnoresRows, SentRows
<1> QED BY <1>7, <1>8, <1>9, <1>10, <1>11 DEF OnceInv

\* A step of a request that moves no cursor of a run.
LEMMA OnceCallStep ==
  ASSUME TypeInv, OnceInv, UNCHANGED <<table, hook, poll, sent, baseline>>,
         Len(runs') = Len(runs),
         \A i \in 1 .. Len(runs) : runs'[i].cursor = runs[i].cursor,
         NEW c \in Callers, NEW q, call' = [call EXCEPT ![c] = q],
         CallOnce(q)
  PROVE  OnceInv'
<1>1. RunsOnce'
  BY DEF OnceInv, RunsOnce, Finished, SentRows, Fits
<1>2. PollOnce'
  <2>1. poll.step \in {"resolve", "query"} => poll.run \in 1 .. Len(runs)
    BY OnceFacts
  <2> QED BY <2>1 DEF OnceInv, PollOnce, Finished, SentRows, Fits
<1>3. \A b \in Callers : call'[b] = IF b = c THEN q ELSE call[b]
  BY DEF TypeInv, CallsOK
<1>4. \A b \in Callers : CallOnce(call[b])'
  BY <1>3 DEF OnceInv, CallOnce, Fits
<1>5. SentOnce' /\ NowIgnoresRows'
  BY DEF OnceInv, SentOnce, NowIgnoresRows, SentRows
<1> QED BY <1>1, <1>2, <1>4, <1>5 DEF OnceInv

\* Requests begin, look, and end.
LEMMA AskOnce ==
  ASSUME TypeInv, OnceInv, NEW c \in Callers,
         AskStart(c) \/ AskStop(c) \/ CheckActive(c) \/ Schedule(c) \/ CallFails(c)
  PROVE  OnceInv'
<1>1. UNCHANGED <<table, hook, runs, poll, sent, baseline>>
  BY DEF AskStart, AskStop, CheckActive, Schedule, CallFails,
         sourceVars, storeVars, histVars
<1>2. \E q : /\ call' = [call EXCEPT ![c] = q]
             /\ q.step \in {"idle", "check", "find", "edit", "latest"}
             /\ q.step = "latest" => q.trigger = hook.trigger
  <2>1. call[c] \in CallState /\ IdleCall.step = "idle"
    BY CallFacts DEF IdleCall
  <2>2. CASE AskStart(c) \/ AskStop(c)
    <3>1. PICK op \in Ops, s \in {"check", "find"} :
            call' = [call EXCEPT ![c] = [call[c] EXCEPT !.step = s, !.op = op]]
      BY <2>2 DEF AskStart, AskStop, Asked
    <3> DEFINE q == [call[c] EXCEPT !.step = s, !.op = op]
    <3>2. q.step = s
      BY <2>1 DEF CallState
    <3> QED BY <3>1, <3>2
  <2>3. CASE CheckActive(c)
    <3> DEFINE q == [call[c] EXCEPT !.step = "latest", !.trigger = hook.trigger]
    <3>1. call' = [call EXCEPT ![c] = q] \/ call' = [call EXCEPT ![c] = IdleCall]
      BY <2>3 DEF CheckActive, Done
    <3>2. q.step = "latest" /\ q.trigger = hook.trigger
      BY <2>1 DEF CallState
    <3> QED BY <2>1, <3>1, <3>2
  <2>4. CASE Schedule(c)
    BY <2>1, <2>4 DEF Schedule, Done
  <2>5. CASE CallFails(c)
    <3> DEFINE q == [call[c] EXCEPT !.step = "edit", !.live = FALSE]
    <3>1. call' = [call EXCEPT ![c] = q] \/ call' = [call EXCEPT ![c] = IdleCall]
      BY <2>5 DEF CallFails, Done
    <3>2. q.step = "edit"
      BY <2>1 DEF CallState
    <3> QED BY <2>1, <3>1, <3>2
  <2> QED BY <2>2, <2>3, <2>4, <2>5
<1>3. PICK q : /\ call' = [call EXCEPT ![c] = q]
               /\ q.step \in {"idle", "check", "find", "edit", "latest"}
               /\ q.step = "latest" => q.trigger = hook.trigger
  BY <1>2
<1>4. CallOnce(q)
  BY <1>3 DEF CallOnce
<1> QED BY <1>1, <1>3, <1>4, OnceCallStep

\* The only run there is fits, so that only a hook without a run is given a cursor.
LEMMA LatestOnce ==
  ASSUME TypeInv, OnceInv, NEW c \in Callers, ReadLatest(c)
  PROVE  OnceInv'
<1>1. UNCHANGED <<table, hook, runs, poll, sent, baseline>>
  BY DEF ReadLatest, sourceVars, storeVars, histVars
<1> DEFINE i == Len(runs)
           fits == i # 0 /\ runs[i].cursor.strategy = call[c].trigger.strategy
           s == IF fits THEN "resume" ELSE "seed"
           q == [call[c] EXCEPT !.run = i, !.step = s]
<1>2. call' = [call EXCEPT ![c] = q]
  BY DEF ReadLatest
<1>3. /\ q.trigger = call[c].trigger /\ q.step = s /\ q.run = i
      /\ call[c].step = "latest" /\ s \in {"resume", "seed"}
  BY CallFacts DEF CallState, ReadLatest
<1>4. call[c].trigger = hook.trigger
  BY <1>3 DEF OnceInv, CallOnce
<1>5. s = "seed" => i = 0
  <2>1. SUFFICES ASSUME i # 0 PROVE fits
    OBVIOUS
  <2>2. i \in 1 .. Len(runs)
    BY <2>1, PollFacts
  <2> QED BY <1>4, <2>1, <2>2 DEF OnceInv, RunsOnce, Fits
<1> HIDE DEF q, fits, s
<1>6. CallOnce(q)
  BY <1>3, <1>4, <1>5 DEF CallOnce
<1> QED BY <1>1, <1>2, <1>6, OnceCallStep

LEMMA StatusOnce ==
  ASSUME TypeInv, OnceInv, NEW c \in Callers,
         ResumeRun(c) \/ PauseRun(c) \/ FindRunning(c)
  PROVE  OnceInv'
<1>1. UNCHANGED <<table, hook, poll, sent, baseline>>
  BY DEF ResumeRun, PauseRun, FindRunning, sourceVars, storeVars, histVars
<1>2. /\ Len(runs') = Len(runs)
      /\ \A i \in 1 .. Len(runs) : runs'[i].cursor = runs[i].cursor
  <2>1. CASE FindRunning(c)
    BY <2>1 DEF FindRunning, storeVars
  <2>2. CASE ResumeRun(c) \/ PauseRun(c)
    <3> DEFINE i == call[c].run
    <3>1. i \in 1 .. Len(runs)
      BY <2>2, CallFacts DEF ResumeRun, PauseRun, CallIn
    <3>2. PICK s : runs' = [runs EXCEPT ![i] = [runs[i] EXCEPT !.status = s]]
      BY <2>2 DEF ResumeRun, PauseRun
    <3> DEFINE r == [runs[i] EXCEPT !.status = s]
    <3>3. r.cursor = runs[i].cursor
      BY <3>1, PollFacts DEF Run
    <3> HIDE DEF r, i
    <3> QED BY <3>1, <3>2, <3>3, CursorsKept DEF r
  <2> QED BY <2>1, <2>2
<1>3. \E q : /\ call' = [call EXCEPT ![c] = q]
             /\ q.step \in {"idle", "schedule", "edit", "pause"}
  <2> DEFINE g(s) == [call[c] EXCEPT !.step = s]
             p == [call[c] EXCEPT !.step = "pause", !.run = Max(Running), !.live = TRUE]
  <2>1. (\A s : g(s).step = s) /\ p.step = "pause" /\ IdleCall.step = "idle"
    BY CallFacts DEF CallState, IdleCall
  <2>2. \/ call' = [call EXCEPT ![c] = g("schedule")]
        \/ call' = [call EXCEPT ![c] = g("edit")]
        \/ call' = [call EXCEPT ![c] = p]
        \/ call' = [call EXCEPT ![c] = IdleCall]
    BY DEF ResumeRun, PauseRun, FindRunning, Goto, Done
  <2> HIDE DEF g, p
  <2> QED BY <2>1, <2>2
<1>4. PICK q : /\ call' = [call EXCEPT ![c] = q]
               /\ q.step \in {"idle", "schedule", "edit", "pause"}
  BY <1>3
<1>5. CallOnce(q)
  BY <1>4 DEF CallOnce
<1> QED BY <1>1, <1>2, <1>4, <1>5, OnceCallStep

\* In a table without nulls, the last value is the greatest.
LEMMA LastIsGreatest ==
  ASSUME TypeInv, \A k \in DOMAIN table : table[k] # Null
  PROVE  LastAt \in Nat /\ \A k \in DOMAIN table : table[k] <= LastAt
<1> DEFINE S == Range(table) \union {Null}
<1>1. clock \in Nat /\ S # {} /\ S \subseteq 0 .. clock
  BY DEF TypeInv, SourceOK, TableIn, Range, Null
<1>2. S \subseteq Nat /\ \A x \in S : x <= clock
  BY <1>1
<1>3. Null \notin Range(table)
  BY DEF Range
<1>4. LastAt = Max(S)
  BY <1>3 DEF LastAt
<1>5. \A k \in DOMAIN table : table[k] \in S
  BY DEF Range
<1> HIDE DEF S
<1>6. Max(S) \in S /\ \A x \in S : x <= Max(S)
  BY <1>1, <1>2, MaxOf
<1> QED BY <1>2, <1>4, <1>5, <1>6

\* A page of a snapshot has every row.
LEMMA SnapshotPage ==
  ASSUME NEW n, NEW t, TableIn(t, n), NEW trigger \in Trigger,
         Cardinality(DOMAIN t) <= trigger.max,
         NEW cursor, ~Follows(trigger, cursor), NEW page \in Pages(t, trigger, cursor)
  PROVE  NoRepeats(page) /\ DOMAIN t \subseteq Range(page)
<1>1. Candidates(t, trigger, cursor) = DOMAIN t
  BY DEF Candidates
<1>2. /\ page \in Seq(Keys)
      /\ \A i, j \in 1 .. Len(page) : page[i] = page[j] => i = j
      /\ \A i \in 1 .. Len(page) : page[i] \in DOMAIN t
  BY <1>1, PageOK
<1>3. page \in Seq(DOMAIN t) /\ NoRepeats(page)
  BY <1>2 DEF NoRepeats
<1>4. IsFiniteSet(DOMAIN t) /\ Cardinality(DOMAIN t) \in Nat /\ trigger.max \in Nat
  BY FS_CardinalityType DEF TableIn, Trigger
<1>5. PageSize(trigger, DOMAIN t) = Cardinality(DOMAIN t)
  BY <1>4 DEF PageSize
<1>6. page \in [1 .. Cardinality(DOMAIN t) -> DOMAIN t]
  BY <1>1, <1>5 DEF Pages
<1>7. Len(page) = Cardinality(DOMAIN t)
  BY <1>3, <1>4, <1>6
<1>8. \A x \in DOMAIN t : \E i \in 1 .. Len(page) : page[i] = x
  BY <1>3, <1>4, <1>7, NoRepeatsLength
<1> QED BY <1>3, <1>8 DEF Range

\* The cursor of a start from now settles every row that is there, or will when the rows at
\* its timestamp are known.
LEMMA SeedSettles ==
  ASSUME TypeInv, OnceInv, Undisturbed, NEW c \in Callers, SeedCursor(c)
  PROVE  \E step \in {"write", "boundary"} : \E cursor, old :
           /\ call' = [call EXCEPT ![c] =
                         [call[c] EXCEPT !.step = step, !.cursor = cursor, !.old = old]]
           /\ old \subseteq Rows
           /\ Fits(cursor)
           /\ step = "boundary" => \A k \in DOMAIN table : table[k] <= cursor.at
           /\ step = "write" => AllSettled(table, cursor, old)
<1> DEFINE trigger  == call[c].trigger
           strategy == trigger.strategy
           empty    == EmptyCursor(strategy)
           old      == IF trigger.from = "now" THEN Rows ELSE {}
           q(step, cursor) == [call[c] EXCEPT !.step = step, !.cursor = cursor, !.old = old]
<1>1. /\ trigger = hook.trigger /\ trigger \in Trigger
      /\ \A k \in DOMAIN table : table[k] # Null
  BY CallFacts DEF OnceInv, CallOnce, SeedCursor, CallState
<1>2. \A step, cursor : Seeded(c, step, cursor) => call' = [call EXCEPT ![c] = q(step, cursor)]
  BY DEF Seeded
<1>3. /\ empty.strategy = strategy /\ empty.seen = <<>>
      /\ \A at : /\ [empty EXCEPT !.at = at].strategy = strategy
                 /\ [empty EXCEPT !.at = at].seen = <<>>
                 /\ [empty EXCEPT !.at = at].at = at
      /\ \A page : /\ [empty EXCEPT !.seen = page].strategy = strategy
                   /\ [empty EXCEPT !.seen = page].seen = page
  BY DEF EmptyCursor
<1>4. \A cursor : cursor.strategy = strategy /\ cursor.seen = <<>> => Fits(cursor)
  BY <1>1 DEF Fits, NoRepeats
<1>5. \A r \in Rows : InTable(table, r)
  BY DEF Rows, InTable
<1>6. old \subseteq Rows
  OBVIOUS
<1>7. LastAt \in Nat /\ \A k \in DOMAIN table : table[k] <= LastAt
  BY <1>1, LastIsGreatest
<1>8. CASE trigger.from = "beginning"
  <2>1. call' = [call EXCEPT ![c] = q("write", empty)]
    BY <1>2, <1>8 DEF SeedCursor
  <2>2. AllSettled(table, empty, old)
    BY <1>8 DEF AllSettled
  <2>3. Fits(empty)
    BY <1>3, <1>4
  <2> HIDE DEF empty, old, trigger
  <2> QED BY <1>6, <2>1, <2>2, <2>3
<1>9. CASE trigger.from = "now" /\ strategy # "snapshot"
  <2> DEFINE step   == IF strategy = "timestamp" /\ LastAt # Null THEN "boundary" ELSE "write"
             cursor == [empty EXCEPT !.at = LastAt]
  <2>1. call' = [call EXCEPT ![c] = q(step, cursor)]
    <3>1. Seeded(c, step, cursor)
      BY <1>9 DEF SeedCursor
    <3> HIDE DEF step, cursor, q
    <3> QED BY <1>2, <3>1
  <2>2. Fits(cursor) /\ cursor.at = LastAt /\ cursor.strategy = strategy
    BY <1>3, <1>4
  <2>3. step \in {"write", "boundary"}
    OBVIOUS
  <2>4. step = "write" => AllSettled(table, cursor, old)
    <3> SUFFICES ASSUME step = "write", NEW r \in Rows
                 PROVE  SettledIn(table, cursor, r.key)
      BY <1>5, <1>6 DEF AllSettled
    <3>1. r.key \in DOMAIN table
      BY DEF Rows
    <3>2. CASE strategy = "timestamp"
      <4>1. LastAt = Null
        BY <3>2
      <4>2. table[r.key] \in Nat
        BY <3>1, OnceFacts DEF TableIn
      <4> QED BY <1>1, <1>7, <3>1, <4>1, <4>2 DEF Null
    <3>3. CASE strategy = "increment"
      <4> HIDE DEF cursor, strategy
      <4> QED BY <1>7, <2>2, <3>1, <3>3 DEF SettledIn
    <3>4. strategy \in Strategies
      BY <1>1 DEF Trigger
    <3> QED BY <1>9, <3>2, <3>3, <3>4 DEF Strategies
  <2> HIDE DEF step, cursor, old, trigger
  <2> QED BY <1>6, <1>7, <2>1, <2>2, <2>3, <2>4
<1>10. CASE trigger.from = "now" /\ strategy = "snapshot"
  <2>1. PICK page \in Pages(table, trigger, empty) :
          Seeded(c, "write", [empty EXCEPT !.seen = page])
    BY <1>10 DEF SeedCursor
  <2> DEFINE cursor == [empty EXCEPT !.seen = page]
  <2>2. call' = [call EXCEPT ![c] = q("write", cursor)]
    BY <1>2, <2>1
  <2>3. NoRepeats(page) /\ DOMAIN table \subseteq Range(page)
    <3>1. ~Follows(trigger, empty) /\ TableIn(table, clock)
      BY <1>10, OnceFacts DEF Follows
    <3>2. Cardinality(DOMAIN table) <= trigger.max
      <4>1. /\ Cardinality(DOMAIN table) <= Cardinality(Keys)
            /\ Cardinality(DOMAIN table) \in Nat /\ Cardinality(Keys) \in Nat
        BY <3>1, FS_Subset, FS_CardinalityType DEF TableIn, Undisturbed
      <4>2. Cardinality(Keys) <= trigger.max /\ trigger.max \in Nat
        BY <1>1, <1>10 DEF Undisturbed, TypeInv, StoreOK, Trigger
      <4> QED BY <4>1, <4>2
    <3> HIDE DEF empty, trigger
    <3> QED BY <1>1, <2>1, <3>1, <3>2, SnapshotPage
  <2>4. cursor.strategy = strategy /\ cursor.seen = page
    BY <1>3
  <2> HIDE DEF cursor, trigger
  <2>5. Fits(cursor)
    BY <1>1, <2>3, <2>4 DEF Fits
  <2>6. AllSettled(table, cursor, old)
    <3> SUFFICES ASSUME NEW r \in Rows PROVE SettledIn(table, cursor, r.key)
      BY <1>5, <1>6 DEF AllSettled
    <3>1. r.key \in DOMAIN table
      BY DEF Rows
    <3> QED BY <1>10, <2>3, <2>4, <3>1 DEF SettledIn
  <2> HIDE DEF old
  <2> QED BY <1>6, <2>2, <2>5, <2>6
<1>11. trigger.from \in {"beginning", "now"}
  BY <1>1 DEF Trigger
<1> QED BY <1>8, <1>9, <1>10, <1>11

LEMMA SeedOnce ==
  ASSUME TypeInv, OnceInv, Undisturbed, NEW c \in Callers, SeedCursor(c)
  PROVE  OnceInv'
<1>1. UNCHANGED <<table, hook, runs, poll, sent, baseline>>
  BY DEF SeedCursor, sourceVars, storeVars, histVars
<1>2a. PICK step \in {"write", "boundary"} : \E cursor, old :
        /\ call' = [call EXCEPT ![c] =
                      [call[c] EXCEPT !.step = step, !.cursor = cursor, !.old = old]]
        /\ old \subseteq Rows
        /\ Fits(cursor)
        /\ step = "boundary" => \A k \in DOMAIN table : table[k] <= cursor.at
        /\ step = "write" => AllSettled(table, cursor, old)
  BY SeedSettles
<1>2. PICK cursor, old :
        /\ call' = [call EXCEPT ![c] =
                      [call[c] EXCEPT !.step = step, !.cursor = cursor, !.old = old]]
        /\ old \subseteq Rows
        /\ Fits(cursor)
        /\ step = "boundary" => \A k \in DOMAIN table : table[k] <= cursor.at
        /\ step = "write" => AllSettled(table, cursor, old)
  BY <1>2a
<1> DEFINE q == [call[c] EXCEPT !.step = step, !.cursor = cursor, !.old = old]
<1>3. /\ q.step = step /\ q.cursor = cursor /\ q.old = old
      /\ q.trigger = call[c].trigger /\ q.run = call[c].run
  BY CallFacts DEF CallState
<1>4. call[c].trigger = hook.trigger /\ call[c].run = 0 /\ Len(runs) = 0
  BY DEF OnceInv, CallOnce, SeedCursor
<1>5. step = "boundary" => \A r \in old : InTable(table, r) /\ r.at <= cursor.at
  BY <1>2 DEF Rows, InTable
<1> HIDE DEF q
<1>6. CallOnce(q)
  BY <1>2, <1>3, <1>4, <1>5 DEF CallOnce
<1>7. call' = [call EXCEPT ![c] = q]
  BY <1>2 DEF q
<1> QED BY <1>1, <1>6, <1>7, OnceCallStep

LEMMA BoundaryOnce ==
  ASSUME TypeInv, OnceInv, NEW c \in Callers, SeedBoundary(c)
  PROVE  OnceInv'
<1>1. UNCHANGED <<table, hook, runs, poll, sent, baseline>>
  BY DEF SeedBoundary, sourceVars, storeVars, histVars
<1> DEFINE was  == call[c].cursor
           keys == {k \in DOMAIN table : table[k] >= was.at}
           cur  == [was EXCEPT !.keys = keys]
           new  == Rows \ call[c].old
           q    == [call[c] EXCEPT !.step = "write", !.new = new, !.cursor = cur]
<1>2. call' = [call EXCEPT ![c] = q]
  BY DEF SeedBoundary
<1>3. /\ call[c].step = "boundary" /\ was.strategy = "timestamp" /\ was.at \in Nat
      /\ cur.strategy = was.strategy /\ cur.at = was.at /\ cur.seen = was.seen
      /\ cur.keys = keys
  BY CallFacts DEF SeedBoundary, CallIn, Cursor
<1>4. /\ call[c].trigger = hook.trigger /\ call[c].run = 0 /\ Len(runs) = 0 /\ Fits(was)
      /\ \A r \in call[c].old : InTable(table, r) /\ r.at <= was.at
  BY <1>3 DEF OnceInv, CallOnce
<1>5. \A k \in DOMAIN table : table[k] \in Nat
  BY OnceFacts DEF TableIn
<1> HIDE DEF cur, new
<1>6. AllSettled(table, cur, call[c].old)
  <2> SUFFICES ASSUME NEW r \in call[c].old PROVE SettledIn(table, cur, r.key)
    BY <1>4 DEF AllSettled
  <2>1. r.key \in DOMAIN table /\ table[r.key] <= was.at
    BY <1>4 DEF InTable
  <2>2. table[r.key] < was.at \/ (table[r.key] = was.at /\ r.key \in keys)
    BY <1>3, <1>5, <2>1
  <2> QED BY <1>3, <2>2 DEF SettledIn
<1>7. /\ q.step = "write" /\ q.cursor = cur /\ q.old = call[c].old
      /\ q.trigger = call[c].trigger /\ q.run = call[c].run
  BY CallFacts DEF CallState
<1>8. Fits(cur)
  BY <1>3, <1>4 DEF Fits
<1> HIDE DEF q, was
<1>9. CallOnce(q)
  BY <1>4, <1>6, <1>7, <1>8 DEF CallOnce
<1> QED BY <1>1, <1>2, <1>9, OnceCallStep

\* The first run begins after the rows its start has seen.
LEMMA WriteOnce ==
  ASSUME TypeInv, OnceInv, Undisturbed, NEW c \in Callers, WriteRun(c)
  PROVE  OnceInv'
<1>1. UNCHANGED <<table, hook, poll, sent>> /\ call[c].step = "write"
  BY DEF WriteRun, sourceVars
<1> DEFINE cur == call[c].cursor
           q   == [call[c] EXCEPT !.step = "schedule"]
           r   == [status |-> "running", cursor |-> cur, offset |-> 0]
<1>2. /\ call[c].run = 0 /\ Len(runs) = 0 /\ Fits(cur)
      /\ AllSettled(table, cur, call[c].old)
  BY <1>1 DEF OnceInv, CallOnce
<1>3. Finished = {} /\ poll.step \in {"idle", "retire"}
  BY <1>2 DEF OnceInv, RunsOnce
<1>4. runs' = Append(runs, r) /\ r.cursor = cur
  BY <1>2 DEF WriteRun
<1>5. r \in Run /\ runs \in Seq(Run)
  BY CallFacts DEF Run, TypeInv, RunsOK, RunsIn
<1> HIDE DEF r
<1>6. Len(runs') = 1 /\ runs'[1] = r
  BY <1>2, <1>4, <1>5, AppendProperties
<1>7. /\ Finished' = call[c].old /\ SentRows' = {} /\ sent' = {}
  BY <1>1, <1>3 DEF WriteRun, Finished, SentRows
<1>8. RunsOnce'
  <2>1. \A i \in 1 .. Len(runs') : runs'[i].cursor = cur
    BY <1>4, <1>6
  <2>2. cur.strategy = hook'.trigger.strategy /\ NoRepeats(cur.seen)
    BY <1>1, <1>2 DEF Fits
  <2>3. AllSettled(table', cur, Finished')
    BY <1>1, <1>2, <1>7
  <2> HIDE DEF cur
  <2>4. \A i \in 1 .. Len(runs') :
          Fits(runs[i].cursor)' /\ AllSettled(table', runs'[i].cursor, Finished')
    BY <1>1, <2>1, <2>2, <2>3 DEF Fits
  <2> QED BY <1>6, <2>4 DEF RunsOnce
<1>9. PollOnce'
  BY <1>1, <1>3 DEF PollOnce, Holding
<1>10. call'[c] = q /\ q.step = "schedule"
  BY CallFacts DEF WriteRun, Goto, CallState
<1> HIDE DEF q
<1>11. \A b \in Callers : call'[b].step = "schedule"
  BY <1>10 DEF Undisturbed
<1>12. \A b \in Callers : CallOnce(call[b])'
  BY <1>11 DEF CallOnce
<1>13. SentOnce' /\ NowIgnoresRows'
  BY <1>7 DEF SentOnce, NowIgnoresRows
<1> QED BY <1>1, <1>8, <1>9, <1>12, <1>13 DEF OnceInv

\* Nobody edits the hook, and the process does not die.
LEMMA NoEdit == TypeInv /\ Undisturbed => ~Crash /\ \A c \in Callers : ~EditHook(c)
<1> SUFFICES ASSUME TypeInv, Undisturbed, NEW c \in Callers, EditHook(c) PROVE FALSE
  BY DEF Crash, Fails, Undisturbed, PollsFinish
<1>1. call[c].op = "edit" /\ call[c].op \in Ops \union {"none"}
  BY CallFacts DEF EditHook, CallIn, CallState
<1> QED BY <1>1 DEF Undisturbed

\* A step that leaves what the invariant is about alone.
LEMMA StutterOnce ==
  ASSUME TypeInv, OnceInv, Fire \/ SkipOverlap \/ Boot \/ UNCHANGED vars
  PROVE  OnceInv'
<1>1. UNCHANGED <<table, hook, runs, poll, call, sent, baseline>>
  BY DEF Fire, SkipOverlap, Boot, sourceVars, storeVars, histVars, vars
<1>2. RunsOnce' /\ PollOnce'
  BY <1>1 DEF OnceInv, RunsOnce, PollOnce, Finished, SentRows, Fits
<1>3. \A c \in Callers : CallOnce(call[c])'
  BY <1>1 DEF OnceInv, CallOnce, Fits
<1>4. SentOnce' /\ NowIgnoresRows'
  BY <1>1 DEF OnceInv, SentOnce, NowIgnoresRows, SentRows
<1> QED BY <1>1, <1>2, <1>3, <1>4 DEF OnceInv

LEMMA StepOnce == TypeInv /\ OnceInv /\ Undisturbed /\ [Next]_vars => OnceInv'
<1> SUFFICES ASSUME TypeInv, OnceInv, Undisturbed, [Next]_vars PROVE OnceInv'
  OBVIOUS
<1>1. CASE SourceNext
  BY <1>1, SourceOnce
<1>2. CASE Fire \/ SkipOverlap \/ Boot \/ UNCHANGED vars
  BY <1>2, StutterOnce
<1>3. CASE Retire \/ Adapt \/ PollFails
  BY <1>3, EndsOnce DEF Undisturbed
<1>4. CASE PollNext
  BY <1>3, <1>4, BeginOnce, ResolveOnce, RejectOnce, QueryOnce, DeliverOnce, RecordOnce,
     CheckpointOnce, SaveOnce DEF PollNext
<1>5. ASSUME NEW c \in Callers, CallerNext(c) PROVE OnceInv'
  BY <1>5, AskOnce, LatestOnce, StatusOnce, SeedOnce, BoundaryOnce, WriteOnce, NoEdit
  DEF CallerNext, CallGoesOn
<1> QED BY <1>1, <1>2, <1>3, <1>4, <1>5, NoEdit DEF Next

LEMMA InitOnce == Init => OnceInv
<1> SUFFICES ASSUME Init PROVE OnceInv
  OBVIOUS
<1>1. DOMAIN table = {} /\ Len(runs) = 0 /\ sent = {} /\ baseline = {} /\ poll.step = "idle"
  BY DEF Init, IdlePoll
<1>2. \A c \in Callers : call[c].step = "idle"
  BY DEF Init, IdleCall
<1>3. RunsOnce /\ PollOnce
  BY <1>1 DEF RunsOnce, PollOnce, Finished, SentRows, Holding
<1>4. \A c \in Callers : CallOnce(call[c])
  BY <1>2 DEF CallOnce
<1>5. SentOnce /\ NowIgnoresRows
  BY <1>1 DEF SentOnce, NowIgnoresRows
<1> QED BY <1>1, <1>3, <1>4, <1>5 DEF OnceInv

LEMMA OnceInvariant == Undisturbed /\ Spec => []OnceInv
<1>1. ASSUME Undisturbed PROVE Spec => []OnceInv
  <2>1. TypeInv /\ OnceInv /\ [Next]_vars => OnceInv'
    BY <1>1, StepOnce
  <2> QED BY InitOnce, TypeInvariant, <2>1, PTL DEF Spec
<1> QED BY <1>1

\* Every row is sent once, through stops and restarts of the hook that overlap its polls and
\* polls that fail at the source.
THEOREM SentExactlyOnce == Undisturbed /\ Spec => []SentOnce
BY OnceInvariant, PTL DEF OnceInv

\* A start from now sends none of the rows it has found, then or later.
THEOREM NowIgnores == Undisturbed /\ Spec => []NowIgnoresRows
BY OnceInvariant, PTL DEF OnceInv
==============================================================================
