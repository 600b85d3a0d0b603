--------------------------- MODULE Payload_proofs ---------------------------
(***************************************************************************)
(* Proofs about Payload, for every hook and every source: what a run keeps *)
(* of a delivery is the body of its rows, whatever the batches and the     *)
(* outcomes, and what the target table holds are those rows.               *)
(***************************************************************************)
EXTENDS Payload, FiniteSetTheorems, SequenceTheorems, WellFoundedInduction, TLAPS

Columns == DOMAIN job.order \ {"$op"}
Size == Len(job.rows)

\* An entry is a piece of the source, its outcome and the body made of it.
Entry == {[start |-> s, count |-> n, status |-> x, captured |-> BodyOf(s, n)] :
            s \in 0 .. Size, n \in 1 .. job.batch, x \in {"success", "failed"}}

\* The entries follow each other, within the rows.
Linked ==
  \A e \in DOMAIN entries :
    entries[e].start + entries[e].count = IF e = Len(entries) THEN cursor ELSE entries[e + 1].start

\* What the table took, and what it was made from, are rows of the source, as they were
\* mapped or as they come back from the ledger.
Mapped(i) == MapRow(RowOf(i), job.mapping)
FromSource(r) == \E i \in DOMAIN job.rows : r = Mapped(i) \/ r = Parsed(Mapped(i))
KeptInv == \A r \in kept : FromSource(r)
MadeInv == made # NoTableYet => job.dest = "database" /\ \E r : FromSource(r) /\ made = TargetColumns(r)

PayloadInv ==
  /\ job \in Jobs /\ cursor \in 0 .. Size
  /\ entries \in Seq(Entry)
  /\ \A e \in DOMAIN entries : entries[e].start + entries[e].count <= cursor
  /\ Linked /\ KeptInv /\ MadeInv
------------------------------------------------------------------------------
\* What a job is.
LEMMA JobFacts ==
  ASSUME job \in Jobs
  PROVE  /\ job.rows \in Seq([Columns -> Types]) /\ job.batch \in Nat \ {0} /\ Size \in Nat
         /\ DOMAIN job.rows = 1 .. Size /\ \A i \in 1 .. Size : job.rows[i] \in [Columns -> Types]
         /\ job.op \in {"none", "insert", "update", "delete"} /\ job.dest \in {"http", "database"}
         /\ "$index" \notin DOMAIN job.order /\ "$table" \notin DOMAIN job.order /\ "$op" \in DOMAIN job.order
         /\ IsFiniteSet(DOMAIN job.order)
         /\ job.order \in [DOMAIN job.order -> 1 .. Cardinality(DOMAIN job.order)]
<1>1. JobOK(job)
  BY PayloadAssumption
<1>2. job.rows \in Seq([Columns -> Types])
  BY <1>1 DEF JobOK, Columns
<1> QED BY <1>1, <1>2 DEF JobOK, Size

\* An entry's parts.
LEMMA EntryFacts ==
  ASSUME job \in Jobs, NEW e \in Entry
  PROVE  /\ e.start \in 0 .. Size /\ e.count \in 1 .. job.batch /\ e.count \in Nat /\ e.start \in Nat
         /\ e.status \in {"success", "failed"} /\ e.captured = BodyOf(e.start, e.count)
         /\ \A x \in {"success", "failed"} : [e EXCEPT !.status = x] \in Entry
<1>1. PICK s \in 0 .. Size, n \in 1 .. job.batch, x \in {"success", "failed"} :
         e = [start |-> s, count |-> n, status |-> x, captured |-> BodyOf(s, n)]
  BY DEF Entry
<1>2. \A y \in {"success", "failed"} :
         [e EXCEPT !.status = y] = [start |-> s, count |-> n, status |-> y, captured |-> BodyOf(s, n)]
  BY <1>1
<1>3. \A y \in {"success", "failed"} :
         [start |-> s, count |-> n, status |-> y, captured |-> BodyOf(s, n)] \in Entry
  BY DEF Entry
<1> QED BY <1>1, <1>2, <1>3, JobFacts

\* A body holds as many objects as it was made of rows.
LEMMA BodyFacts ==
  ASSUME job \in Jobs, NEW s \in Nat, NEW n \in Nat \ {0}
  PROVE  /\ Len(BodyOf(s, n).items) = n /\ DOMAIN BodyOf(s, n).items = 1 .. n
         /\ job.dest = "database" => /\ BodyOf(s, n).items = MappedRows(s, n)
                                     /\ BodyOf(s, n) = Body(FALSE, n > 1, MappedRows(s, n))
         /\ job.dest = "http" =>
              /\ \A p \in 1 .. n : BodyOf(s, n).items[p] = Substitute(Scoped(s + p), s + p - 1)
              /\ n = 1 => BodyOf(s, n) = RenderRow(Scoped(s + 1), s)
<1>1. CASE job.dest = "database"
  BY <1>1 DEF BodyOf, Body, MappedRows
<1>2. CASE job.dest = "http" /\ n = 1
  <2>1. BodyOf(s, n) = RenderRow(Scoped(s + 1), s)
    BY <1>2 DEF BodyOf
  <2>2. RenderRow(Scoped(s + 1), s).items = <<Substitute(Scoped(s + 1), s)>>
    BY DEF RenderRow, Body
  <2>3. \A p \in 1 .. n : p = 1 /\ s + p = s + 1 /\ s + p - 1 = s
    BY <1>2
  <2>4. \A p \in 1 .. n : BodyOf(s, n).items[p] = Substitute(Scoped(s + p), s + p - 1)
    BY <2>1, <2>2, <2>3
  <2>5. Len(BodyOf(s, n).items) = 1 /\ DOMAIN BodyOf(s, n).items = 1 .. 1
    BY <2>1, <2>2
  <2> QED BY <1>2, <2>1, <2>4, <2>5
<1>3. CASE job.dest = "http" /\ n # 1
  <2>1. BodyOf(s, n).items = [p \in 1 .. n |-> Substitute(Scoped(s + p), s + p - 1)]
    BY <1>3 DEF BodyOf, RenderBatch, Body
  <2> QED BY <1>3, <2>1
<1> QED BY <1>1, <1>2, <1>3, JobFacts
------------------------------------------------------------------------------
(***************************************************************************)
(* Values.                                                                 *)
(***************************************************************************)

\* A value names its row and column; there is none of a column that is absent.
LEMMA RowFacts ==
  ASSUME job \in Jobs, NEW i \in 1 .. Size
  PROVE  /\ DOMAIN RowOf(i) \subseteq Columns
         /\ \A c \in DOMAIN RowOf(i) : RowOf(i)[c] = NullValue \/ RowOf(i)[c] = <<i, c, job.rows[i][c]>>
<1>1. DOMAIN job.rows[i] = Columns
  BY JobFacts
<1> QED BY <1>1 DEF RowOf, Value

\* A set of places that is not empty has a last one.
LEMMA LastOf ==
  ASSUME NEW T, NEW b \in Nat, T \subseteq 1 .. b, T # {}
  PROVE  \E m \in T : \A n \in T : n <= m
<1> DEFINE R == OpToRel(<, Nat)
           U == {n \in Nat : b - n \in T}
<1>1. IsWellFoundedOn(R, Nat)
  BY NatLessThanWellFounded
<1>2. \A m, n \in Nat : n < m => <<n, m>> \in R
  BY DEF OpToRel
<1>3. PICK x \in T : TRUE
  OBVIOUS
<1>4. x \in 1 .. b /\ b - x \in Nat /\ b - (b - x) = x
  OBVIOUS
<1>5. b - x \in U /\ U \subseteq Nat
  BY <1>3, <1>4
<1> HIDE DEF R
<1>6. PICK m \in U : \A n \in U : ~(<<n, m>> \in R)
  <2> HIDE DEF U
  <2> QED BY <1>1, <1>5, WFMin
<1>7. \A n \in U : ~(n < m)
  BY <1>2, <1>5, <1>6
<1>8. b - m \in T /\ m \in Nat
  BY <1>6
<1>9. \A n \in T : n <= b - m
  <2> SUFFICES ASSUME NEW n \in T PROVE n <= b - m
    OBVIOUS
  <2>1. n \in 1 .. b /\ b - n \in Nat /\ b - (b - n) = n
    OBVIOUS
  <2>2. b - n \in U
    BY <2>1
  <2>3. ~(b - n < m)
    BY <1>7, <2>2
  <2> QED BY <1>8, <2>1, <2>3
<1> QED BY <1>8, <1>9

\* What a row is projected to are values of the row.
LEMMA ProjectFacts ==
  ASSUME job \in Jobs, NEW row, DOMAIN row \subseteq DOMAIN job.order, NEW k \in DOMAIN ProjectRow(row)
  PROVE  \E c \in DOMAIN row : ProjectRow(row)[k] = row[c]
<1> DEFINE names == {c \in DOMAIN row : job.fields = {} \/ c \in job.fields}
           Last(z) == CHOOSE c \in names : /\ RenameOf(c) = z
                        /\ \A d \in names : RenameOf(d) = z => job.order[d] <= job.order[c]
           T == {job.order[c] : c \in {d \in names : RenameOf(d) = k}}
           b == Cardinality(DOMAIN job.order)
<1>1. ProjectRow(row) = [z \in {RenameOf(c) : c \in names} |-> row[Last(z)]]
  BY DEF ProjectRow
<1>2. k \in {RenameOf(c) : c \in names} /\ ProjectRow(row)[k] = row[Last(k)]
  BY <1>1
<1>3. b \in Nat /\ \A c \in DOMAIN job.order : job.order[c] \in 1 .. b
  BY JobFacts, FS_CardinalityType
<1>4. T \subseteq 1 .. b /\ T # {}
  BY <1>2, <1>3
<1>5. PICK m \in T : \A n \in T : n <= m
  <2> HIDE DEF T, b
  <2> QED BY <1>3, <1>4, LastOf
<1>6. PICK c \in names : RenameOf(c) = k /\ job.order[c] = m
  BY <1>5
<1>7. \A d \in names : RenameOf(d) = k => job.order[d] <= job.order[c]
  BY <1>5, <1>6
<1>8. Last(k) \in names
  BY <1>6, <1>7
<1> QED BY <1>2, <1>8

\* A row of a change stream carries the operation besides.
LEMMA ScopedFacts ==
  ASSUME job \in Jobs, NEW i \in 1 .. Size
  PROVE  /\ DOMAIN Scoped(i) \subseteq DOMAIN job.order
         /\ \A c \in DOMAIN Scoped(i) :
              Scoped(i)[c][1] \in {0, i} /\ Scoped(i)[c][2] # "$index"
<1>1. DOMAIN Scoped(i) \subseteq DOMAIN RowOf(i) \union {"$op"}
  BY DEF Scoped
<1>2. ASSUME NEW c \in DOMAIN Scoped(i)
      PROVE  Scoped(i)[c] = <<0, job.op, "string">> \/ (c \in DOMAIN RowOf(i) /\ Scoped(i)[c] = RowOf(i)[c])
  BY <1>1, <1>2 DEF Scoped
<1>3. \A c \in DOMAIN RowOf(i) : RowOf(i)[c][1] \in {0, i} /\ RowOf(i)[c][2] # "$index"
  <2> SUFFICES ASSUME NEW c \in DOMAIN RowOf(i) PROVE RowOf(i)[c][1] \in {0, i} /\ RowOf(i)[c][2] # "$index"
    OBVIOUS
  <2>1. c # "$index"
    BY RowFacts, JobFacts DEF Columns
  <2>2. RowOf(i)[c] = <<0, "null", "null">> \/ RowOf(i)[c] = <<i, c, job.rows[i][c]>>
    BY RowFacts DEF NullValue
  <2> QED BY <2>1, <2>2
<1>4. job.op # "$index"
  BY JobFacts
<1>5. DOMAIN Scoped(i) \subseteq DOMAIN job.order
  BY <1>1, RowFacts, JobFacts DEF Columns
<1> QED BY <1>2, <1>3, <1>4, <1>5

\* Each value of an object is one of its row, or of no row, or the row's place in the run.
LEMMA SubstituteFacts ==
  ASSUME job \in Jobs, NEW i \in 1 .. Size, NEW k \in DOMAIN Substitute(Scoped(i), i - 1)
  PROVE  LET v == Substitute(Scoped(i), i - 1)[k]
         IN  IF v[2] = "$index" THEN v[1] = i - 1 ELSE v[1] \in {0, i}
<1> DEFINE v == Substitute(Scoped(i), i - 1)[k]
           Own(x) == x[1] \in {0, i} /\ x[2] # "$index"
           row == Scoped(i)
<1>1. \A c \in DOMAIN row : Own(row[c])
  BY ScopedFacts
<1>2. DOMAIN row \subseteq DOMAIN job.order
  BY ScopedFacts
<1> HIDE DEF row
<1>3. CASE job.template = "$row"
  <2>1. v = ProjectRow(row)[k] /\ k \in DOMAIN ProjectRow(row)
    BY <1>3 DEF Substitute, row
  <2>2. \E c \in DOMAIN row : ProjectRow(row)[k] = row[c]
    BY <1>2, <2>1, ProjectFacts
  <2>3. Own(v)
    BY <1>1, <2>1, <2>2
  <2> QED BY <2>3
<1>4. CASE job.template # "$row"
  <2>1. k \in DOMAIN job.tokens
    BY <1>4 DEF Substitute
  <2> DEFINE token == job.tokens[k]
  <2>2. v = CASE token = "$index" -> <<i - 1, "$index", "int">>
              [] token = "$table" -> <<0, "$table", "string">>
              [] token \in DOMAIN row -> row[token]
              [] OTHER -> NullValue
    BY <1>4, <2>1 DEF Substitute, row
  <2> HIDE DEF v, token
  <2>3. token \in DOMAIN row => token \notin {"$index", "$table"}
    BY <1>2, JobFacts
  <2>4. CASE token = "$index"
    <3>1. v = <<i - 1, "$index", "int">>
      BY <2>2, <2>3, <2>4
    <3>2. v[1] = i - 1 /\ v[2] = "$index"
      BY <3>1
    <3> QED BY <3>2 DEF v
  <2>5. CASE token = "$table"
    <3>1. v = <<0, "$table", "string">>
      BY <2>2, <2>3, <2>5
    <3>2. Own(v)
      BY <3>1
    <3> QED BY <3>2 DEF v
  <2>6. CASE token \in DOMAIN row
    <3>1. v = row[token]
      BY <2>2, <2>3, <2>6
    <3>2. Own(v)
      BY <1>1, <2>6, <3>1
    <3> QED BY <3>2 DEF v
  <2>7. CASE token \notin {"$index", "$table"} /\ token \notin DOMAIN row
    <3>1. v = <<0, "null", "null">>
      BY <2>2, <2>7 DEF NullValue
    <3>2. Own(v)
      BY <3>1
    <3> QED BY <3>2 DEF v
  <2> QED BY <2>4, <2>5, <2>6, <2>7
<1> QED BY <1>3, <1>4

\* Whatever the batches, an object is made of one row.
LEMMA InvOwnValues == PayloadInv => OwnValues
<1> SUFFICES ASSUME PayloadInv, job.dest = "http", NEW e \in DOMAIN entries,
                    NEW p \in 1 .. entries[e].count,
                    NEW k \in DOMAIN entries[e].captured.items[p]
             PROVE  LET object == entries[e].captured.items[p]
                        index == entries[e].start + p - 1
                    IN  IF object[k][2] = "$index" THEN object[k][1] = index
                        ELSE object[k][1] \in {0, index + 1}
  BY DEF OwnValues
<1> DEFINE E == entries[e]
           i == E.start + p
<1>1. E \in Entry /\ E.start + E.count <= cursor /\ cursor \in 0 .. Size /\ job \in Jobs
  BY DEF PayloadInv
<1>2. /\ E.start \in Nat /\ E.count \in Nat /\ p \in 1 .. E.count
      /\ E.captured = BodyOf(E.start, E.count)
  BY <1>1, EntryFacts
<1> HIDE DEF E
<1>3. i \in 1 .. Size /\ E.count \in Nat \ {0} /\ E.start + p - 1 = i - 1 /\ i - 1 + 1 = i
  BY <1>1, <1>2, JobFacts
<1>4. E.captured.items[p] = Substitute(Scoped(i), i - 1)
  <2>1. \A q \in 1 .. E.count : BodyOf(E.start, E.count).items[q] = Substitute(Scoped(E.start + q), E.start + q - 1)
    BY <1>1, <1>2, <1>3, BodyFacts
  <2> QED BY <1>2, <2>1
<1>5. k \in DOMAIN Substitute(Scoped(i), i - 1)
  BY <1>4 DEF E
<1> HIDE DEF i
<1>6. LET v == Substitute(Scoped(i), i - 1)[k]
      IN  IF v[2] = "$index" THEN v[1] = i - 1 ELSE v[1] \in {0, i}
  BY <1>1, <1>3, <1>5, SubstituteFacts
<1> QED BY <1>3, <1>4, <1>6 DEF E

\* What the preview shows is what was sent.
LEMMA InvPreviewIsSent == PayloadInv => PreviewIsSent
<1> SUFFICES ASSUME PayloadInv, job.op = "none", NEW e \in DOMAIN entries
             PROVE  SentAsShown(e)
  BY DEF PreviewIsSent
<1> DEFINE E == entries[e]
           s == E.start
           n == E.count
<1>1. E \in Entry /\ job \in Jobs
  BY DEF PayloadInv
<1> HIDE DEF E
<1>2. /\ s \in Nat /\ n \in Nat \ {0} /\ E.captured = BodyOf(s, n)
  <2>1. /\ E.start \in Nat /\ E.count \in 1 .. job.batch /\ E.count \in Nat
        /\ E.captured = BodyOf(E.start, E.count)
    BY <1>1, EntryFacts
  <2> QED BY <1>1, <2>1, JobFacts
<1>3. \A i : Scoped(i) = RowOf(i)
  BY DEF Scoped
<1>4. \A p \in 1 .. n : s + p - 1 \in Nat
  BY <1>2
<1>5. job.dest \in {"http", "database"}
  BY <1>1, JobFacts
<1>8. ASSUME job.dest = "http" PROVE \A i \in Nat : Preview(i) = RenderRow(RowOf(i), i - 1)
  <2>1. ~(job.dest = "database")
    BY <1>8
  <2> TAKE i \in Nat
  <2>2. Preview(i) = IF job.dest = "database" THEN Body(FALSE, FALSE, <<MapRow(RowOf(i), job.mapping)>>)
                     ELSE RenderRow(RowOf(i), i - 1)
    BY Zenon DEF Preview
  <2> QED BY ONLY <2>1, <2>2, Zenon
<1> HIDE DEF E, s, n
<1>6. ASSUME n = 1 PROVE BodyOf(s, n) = Preview(s + 1)
  <2>1. s + 1 - 1 = s
    BY <1>2
  <2>2. CASE job.dest = "http"
    <3>1. BodyOf(s, n) = RenderRow(RowOf(s + 1), s)
      BY <1>1, <1>2, <1>3, <1>6, <2>2, BodyFacts
    <3>2. Preview(s + 1) = RenderRow(RowOf(s + 1), s + 1 - 1)
      BY <1>2, <1>8, <2>2
    <3> QED BY <2>1, <3>1, <3>2
  <2>3. CASE job.dest = "database"
    <3>1. BodyOf(s, n) = Body(FALSE, FALSE, MappedRows(s, 1))
      <4>1. ~(1 > 1)
        OBVIOUS
      <4>2. BodyOf(s, n) = Body(FALSE, n > 1, MappedRows(s, n))
        BY <1>1, <1>2, <2>3, BodyFacts
      <4>3. (n > 1) = FALSE
        BY <1>6, <4>1
      <4> QED BY <1>6, <4>2, <4>3
    <3>2. MappedRows(s, 1) = <<MapRow(RowOf(s + 1), job.mapping)>>
      BY <1>2 DEF MappedRows
    <3> QED BY <2>3, <3>1, <3>2 DEF Preview
  <2> QED BY <1>5, <2>2, <2>3
<1>7. ASSUME NEW p \in 1 .. n PROVE BodyOf(s, n).items[p] = Preview(s + p).items[1]
  <2>1. CASE job.dest = "http"
    <3>1. BodyOf(s, n).items[p] = Substitute(RowOf(s + p), s + p - 1)
      BY <1>1, <1>2, <1>3, <2>1, BodyFacts
    <3>2. Preview(s + p) = RenderRow(RowOf(s + p), s + p - 1)
      <4>1. s + p \in Nat
        BY <1>2
      <4> QED BY <1>2, <1>8, <2>1, <4>1
    <3>3. RenderRow(RowOf(s + p), s + p - 1).items = <<Substitute(RowOf(s + p), s + p - 1)>>
      BY DEF RenderRow, Body
    <3> QED BY <3>1, <3>2, <3>3
  <2>2. CASE job.dest = "database"
    <3>1. BodyOf(s, n).items = MappedRows(s, n)
      BY <1>1, <1>2, <2>2, BodyFacts
    <3>2. MappedRows(s, n)[p] = MapRow(RowOf(s + p), job.mapping)
      BY DEF MappedRows
    <3>3. Preview(s + p).items[1] = MapRow(RowOf(s + p), job.mapping)
      BY <2>2 DEF Preview, Body
    <3> QED BY <3>1, <3>2, <3>3
  <2> QED BY <1>5, <2>1, <2>2
<1> QED BY <1>2, <1>6, <1>7 DEF SentAsShown, E, s, n
------------------------------------------------------------------------------
(***************************************************************************)
(* The target table.                                                       *)
(***************************************************************************)

\* JSON is read back as what it says.
LEMMA ParsedFacts ==
  ASSUME NEW row, \A t \in DOMAIN row : 3 \in DOMAIN row[t]
  PROVE  /\ DOMAIN Parsed(row) = DOMAIN row /\ Parsed(Parsed(row)) = Parsed(row)
         /\ \A t \in DOMAIN row : Parsed(row)[t] = IF row[t][3] = "date" THEN [row[t] EXCEPT ![3] = "string"]
                                                   ELSE row[t]
<1>1. DOMAIN Parsed(row) = DOMAIN row
      /\ \A t \in DOMAIN row : Parsed(row)[t] = IF row[t][3] = "date" THEN [row[t] EXCEPT ![3] = "string"]
                                                ELSE row[t]
  BY DEF Parsed
<1>2. \A t \in DOMAIN row : Parsed(row)[t][3] # "date"
  <2> SUFFICES ASSUME NEW t \in DOMAIN row, row[t][3] = "date"
               PROVE  [row[t] EXCEPT ![3] = "string"][3] # "date"
    BY <1>1
  <2> QED OBVIOUS
<1>3. Parsed(Parsed(row)) = Parsed(row)
  BY <1>1, <1>2 DEF Parsed
<1> QED BY <1>1, <1>3

\* A row as it was mapped: each value is that of a column, or there is none.
Cell(i, v) == \E c \in Columns : v = <<i, c, job.rows[i][c]>> /\ job.rows[i][c] \notin {"null", "absent"}
LEMMA MappedFacts ==
  ASSUME job \in Jobs, NEW i \in 1 .. Size
  PROVE  \A t \in DOMAIN Mapped(i) :
           /\ Mapped(i)[t] = NullValue \/ Cell(i, Mapped(i)[t])
           /\ 3 \in DOMAIN Mapped(i)[t]
<1>1. \A c \in DOMAIN RowOf(i) : RowOf(i)[c] = NullValue \/ Cell(i, RowOf(i)[c])
  <2> SUFFICES ASSUME NEW c \in DOMAIN RowOf(i) PROVE RowOf(i)[c] = NullValue \/ Cell(i, RowOf(i)[c])
    OBVIOUS
  <2>1. c \in Columns
    BY RowFacts
  <2> QED BY <2>1 DEF RowOf, Value, Has, Cell
<1> SUFFICES ASSUME NEW t \in DOMAIN Mapped(i)
             PROVE  /\ Mapped(i)[t] = NullValue \/ Cell(i, Mapped(i)[t])
                    /\ 3 \in DOMAIN Mapped(i)[t]
  OBVIOUS
<1>2. Mapped(i)[t] = NullValue \/ \E c \in DOMAIN RowOf(i) : Mapped(i)[t] = RowOf(i)[c]
  BY DEF Mapped, MapRow
<1>3. Mapped(i)[t] = NullValue \/ Cell(i, Mapped(i)[t])
  BY <1>1, <1>2
<1>4. 3 \in DOMAIN NullValue /\ \A v : Cell(i, v) => 3 \in DOMAIN v
  BY DEF NullValue, Cell
<1> QED BY <1>3, <1>4

\* A resend maps nothing again.
LEMMA RetriedFacts ==
  ASSUME NEW rows
  PROVE  Retried(rows) = [p \in DOMAIN rows |-> Parsed(rows[p])]
BY DEF Retried, MapRow

\* What a hook is made of does not change.
LEMMA JobStays ==
  ASSUME UNCHANGED job
  PROVE  /\ Size' = Size /\ Entry' = Entry
         /\ \A r : FromSource(r)' <=> FromSource(r)
         /\ \A r : TargetColumns(r)' = TargetColumns(r)
<1>1. Size' = Size /\ Entry' = Entry /\ \A i : Mapped(i)' = Mapped(i)
  BY DEF Size, Entry, BodyOf, MappedRows, MapRow, RowOf, Has, Value, RenderRow, RenderBatch, Scoped,
     Substitute, ProjectRow, RenameOf, Mapped
<1>2. \A r : FromSource(r)' <=> FromSource(r)
  BY <1>1 DEF FromSource, Parsed
<1> QED BY <1>1, <1>2 DEF TargetColumns, EngineColumnType

\* What is written of an entry are rows of the source.
LEMMA WritesSource ==
  ASSUME PayloadInv, NEW rows, NEW status, Delivers(rows, status), UNCHANGED job,
         1 \in DOMAIN rows, job.dest = "database" => \A p \in DOMAIN rows : FromSource(rows[p])
  PROVE  KeptInv' /\ MadeInv'
<1>3. (\A r : FromSource(r)' <=> FromSource(r)) /\ \A r : TargetColumns(r)' = TargetColumns(r)
  BY JobStays
<1>4. (\A r \in kept : FromSource(r)) /\ MadeInv
  BY DEF PayloadInv, KeptInv
<1>1. CASE job.dest # "database"
  <2>1. UNCHANGED <<made, kept>>
    BY <1>1 DEF Delivers
  <2> QED BY <1>3, <1>4, <2>1 DEF KeptInv, MadeInv
<1>2. CASE job.dest = "database"
  <2>1. WriteRows(rows, status)
    BY <1>2 DEF Delivers
  <2>4. made' \in {made, TargetColumns(rows[1])}
    BY <2>1 DEF WriteRows
  <2>5. kept' \subseteq kept \union {rows[p] : p \in DOMAIN rows}
    BY <2>1 DEF WriteRows
  <2>6. FromSource(rows[1])
    BY <1>2
  <2>7. KeptInv'
    BY <1>2, <1>3, <1>4, <2>5 DEF KeptInv
  <2>8. MadeInv'
    BY <1>2, <1>3, <1>4, <2>4, <2>6 DEF MadeInv
  <2> QED BY <2>7, <2>8
<1> QED BY <1>1, <1>2

\* A failed delivery is sent again as the same rows.
LEMMA InvResendWritesSame == PayloadInv => ResendWritesSame
<1> SUFFICES ASSUME PayloadInv, NEW r \in kept
             PROVE  \E i \in DOMAIN job.rows : Parsed(r) = Parsed(MapRow(RowOf(i), job.mapping))
  BY DEF ResendWritesSame
<1>1. PICK i \in DOMAIN job.rows : r = Mapped(i) \/ r = Parsed(Mapped(i))
  BY DEF PayloadInv, KeptInv, FromSource
<1>2. Parsed(Parsed(Mapped(i))) = Parsed(Mapped(i))
  <2>1. i \in 1 .. Size /\ job \in Jobs
    BY JobFacts DEF PayloadInv
  <2> QED BY <2>1, MappedFacts, ParsedFacts
<1> QED BY <1>1, <1>2 DEF Mapped
------------------------------------------------------------------------------
(***************************************************************************)
(* A table takes the rows of a source whose columns keep their type.       *)
(***************************************************************************)

Kept(type) == type \in Types \ {"wide", "null", "absent"}

\* Each type has a column that takes its values, as they are and as JSON says them.
LEMMA TypesFit ==
  ASSUME NEW type, Kept(type), NEW isKey
  PROVE  /\ type \in Takes(EngineColumnType(NormalizeType(InferType(type)), isKey))
         /\ type = "date" => "date" \in Takes(EngineColumnType(NormalizeType(InferType("string")), isKey))
<1>1. \A t \in {"any", "varchar", "longtext", "text"} : Takes(t) = Types
  BY DEF Takes
<1>2. CASE type = "boolean"
  <2>1. NormalizeType(InferType(type)) = "boolean"
    BY <1>2 DEF InferType, NormalizeType
  <2>2. EngineColumnType("boolean", isKey) \in {"any", "boolean"}
    BY DEF EngineColumnType
  <2>3. type \in Takes("boolean")
    BY <1>2 DEF Takes
  <2> QED BY <1>1, <1>2, <2>1, <2>2, <2>3 DEF Kept
<1>3. CASE type = "int"
  <2>1. NormalizeType(InferType(type)) = "integer"
    BY <1>3 DEF InferType, NormalizeType
  <2>2. EngineColumnType("integer", isKey) \in {"any", "integer"}
    BY DEF EngineColumnType
  <2>3. type \in Takes("integer")
    BY <1>3 DEF Takes
  <2> QED BY <1>1, <1>3, <2>1, <2>2, <2>3 DEF Kept
<1>4. CASE type = "real"
  <2>1. NormalizeType(InferType(type)) = "number"
    BY <1>4 DEF InferType, NormalizeType
  <2>2. EngineColumnType("number", isKey) \in {"any", "number"}
    BY DEF EngineColumnType
  <2>3. type \in Takes("number")
    BY <1>4 DEF Takes
  <2> QED BY <1>1, <1>4, <2>1, <2>2, <2>3 DEF Kept
<1>5. EngineColumnType("text", isKey) \in {"any", "varchar", "longtext"}
  BY DEF EngineColumnType
<1>6. CASE type = "date"
  <2>1. NormalizeType(InferType(type)) = "timestamp" /\ NormalizeType(InferType("string")) = "text"
    BY <1>6 DEF InferType, NormalizeType
  <2>2. EngineColumnType("timestamp", isKey) \in {"any", "timestamp"}
    BY DEF EngineColumnType
  <2>3. type \in Takes("timestamp")
    BY <1>6 DEF Takes
  <2> QED BY <1>1, <1>5, <1>6, <2>1, <2>2, <2>3 DEF Kept
<1>7. CASE type = "object"
  <2>1. NormalizeType(InferType(type)) = "json"
    BY <1>7 DEF InferType, NormalizeType
  <2>2. EngineColumnType("json", isKey) \in {"any", "longtext", "json"}
    BY DEF EngineColumnType
  <2>3. type \in Takes("json")
    BY <1>7 DEF Takes
  <2> QED BY <1>1, <1>7, <2>1, <2>2, <2>3 DEF Kept
<1>8. CASE type = "string"
  <2>1. NormalizeType(InferType(type)) = "text"
    BY <1>8 DEF InferType, NormalizeType
  <2> QED BY <1>1, <1>5, <1>8, <2>1 DEF Kept
<1> QED BY <1>2, <1>3, <1>4, <1>6, <1>7, <1>8 DEF Kept, Types

\* The rows of such a source have the same columns and types.
LEMMA SameShape ==
  ASSUME job \in Jobs, Uniform, NEW i \in 1 .. Size, NEW j \in 1 .. Size
  PROVE  /\ DOMAIN Mapped(i) = DOMAIN Mapped(j)
         /\ \A t \in DOMAIN Mapped(i) :
              \/ Mapped(i)[t] = NullValue /\ Mapped(j)[t] = NullValue
              \/ \E c, type : /\ Mapped(i)[t] = <<i, c, type>> /\ Mapped(j)[t] = <<j, c, type>>
                              /\ Kept(type)
<1>1. 1 \in 1 .. Size /\ Size \in Nat
  BY JobFacts
<1>2. \A c \in Columns : /\ job.rows[i][c] = job.rows[j][c]
                         /\ job.rows[i][c] \in Types \ {"wide", "absent"}
  <2>1. DOMAIN job.rows[1] = Columns /\ DOMAIN job.rows = 1 .. Size
    BY <1>1, JobFacts
  <2>2. \A c \in Columns : \A k \in 1 .. Size :
          job.rows[k][c] = job.rows[1][c] /\ job.rows[k][c] \notin {"wide", "absent"}
    BY <2>1 DEF Uniform
  <2>3. \A c \in Columns : job.rows[i][c] \in Types
    BY JobFacts
  <2> QED BY <2>2, <2>3
<1>3. DOMAIN RowOf(i) = Columns /\ DOMAIN RowOf(j) = Columns
  BY <1>2, JobFacts DEF RowOf, Has
<1>4. \A c \in Columns : RowOf(i)[c] = Value(i, c) /\ RowOf(j)[c] = Value(j, c)
  BY <1>3 DEF RowOf
<1>5. \A c \in Columns :
        \/ RowOf(i)[c] = NullValue /\ RowOf(j)[c] = NullValue
        \/ /\ RowOf(i)[c] = <<i, c, job.rows[i][c]>> /\ RowOf(j)[c] = <<j, c, job.rows[i][c]>>
           /\ Kept(job.rows[i][c])
  BY <1>2, <1>4 DEF Value, Kept
<1> DEFINE m(t) == CHOOSE n \in job.mapping : n.target = t
<1>6. CASE job.mapping = {}
  <2>1. Mapped(i) = RowOf(i) /\ Mapped(j) = RowOf(j)
    BY <1>6 DEF Mapped, MapRow
  <2> QED BY <1>3, <1>5, <2>1
<1>7. CASE job.mapping # {}
  <2>1. /\ Mapped(i) = [t \in {n.target : n \in job.mapping} |->
                          IF m(t).source \in DOMAIN RowOf(i) THEN RowOf(i)[m(t).source] ELSE NullValue]
        /\ Mapped(j) = [t \in {n.target : n \in job.mapping} |->
                          IF m(t).source \in DOMAIN RowOf(j) THEN RowOf(j)[m(t).source] ELSE NullValue]
    BY <1>7 DEF Mapped, MapRow
  <2> HIDE DEF m
  <2>2. \A t \in DOMAIN Mapped(i) :
          \/ Mapped(i)[t] = NullValue /\ Mapped(j)[t] = NullValue
          \/ \E c \in Columns : Mapped(i)[t] = RowOf(i)[c] /\ Mapped(j)[t] = RowOf(j)[c]
    BY <1>3, <2>1
  <2>3. DOMAIN Mapped(i) = DOMAIN Mapped(j)
    BY <2>1
  <2>4. ASSUME NEW t \in DOMAIN Mapped(i)
        PROVE  \/ Mapped(i)[t] = NullValue /\ Mapped(j)[t] = NullValue
               \/ \E c, type : /\ Mapped(i)[t] = <<i, c, type>> /\ Mapped(j)[t] = <<j, c, type>>
                               /\ Kept(type)
    <3>1. CASE \E c \in Columns : Mapped(i)[t] = RowOf(i)[c] /\ Mapped(j)[t] = RowOf(j)[c]
      <4>1. PICK c \in Columns : Mapped(i)[t] = RowOf(i)[c] /\ Mapped(j)[t] = RowOf(j)[c]
        BY <3>1
      <4>2. \/ RowOf(i)[c] = NullValue /\ RowOf(j)[c] = NullValue
            \/ /\ RowOf(i)[c] = <<i, c, job.rows[i][c]>> /\ RowOf(j)[c] = <<j, c, job.rows[i][c]>>
               /\ Kept(job.rows[i][c])
        BY <1>5
      <4> QED BY <4>1, <4>2
    <3> QED BY <2>2, <3>1
  <2> QED BY <2>3, <2>4
<1> QED BY <1>6, <1>7

\* The table that was made for the hook takes every row.
LEMMA InvTableHoldsRows == PayloadInv => TableHoldsRows
<1> SUFFICES ASSUME PayloadInv, made # NoTableYet, Uniform, ~NullKey, NEW j \in DOMAIN job.rows
             PROVE  Fits(Mapped(j), made)
  BY DEF TableHoldsRows, Mapped
<1>1. job \in Jobs /\ j \in 1 .. Size /\ 1 \in 1 .. Size /\ DOMAIN job.rows = 1 .. Size
  BY JobFacts DEF PayloadInv
<1>2. PICK r : FromSource(r) /\ made = TargetColumns(r)
  BY DEF PayloadInv, MadeInv
<1>3. PICK i \in 1 .. Size : r = Mapped(i) \/ r = Parsed(Mapped(i))
  BY <1>1, <1>2 DEF FromSource
<1>4. /\ DOMAIN r = DOMAIN Mapped(i)
      /\ \A t \in DOMAIN r : r[t] = Mapped(i)[t] \/ (Mapped(i)[t][3] = "date" /\ r[t] = [Mapped(i)[t] EXCEPT ![3] = "string"])
  BY <1>1, <1>3, MappedFacts, ParsedFacts
<1>5. /\ DOMAIN made = DOMAIN r
      /\ \A t \in DOMAIN r : /\ made[t].key = (t \in job.keys)
                             /\ made[t].type = EngineColumnType(NormalizeType(InferType(r[t][3])), t \in job.keys)
  BY <1>2 DEF TargetColumns
<1>6. DOMAIN Mapped(j) = DOMAIN Mapped(i) /\ DOMAIN Mapped(j) = DOMAIN Mapped(1)
  BY <1>1, SameShape
<1>7. ASSUME NEW t \in DOMAIN made, Mapped(j)[t] = NullValue PROVE ~made[t].key
  <2>1. t \in DOMAIN Mapped(1) /\ t \in DOMAIN Mapped(j)
    BY <1>4, <1>5, <1>6
  <2>2. NullValue # <<j, Mapped(j)[t][2], Mapped(j)[t][3]>>
    <3>1. j # 0
      BY <1>1, JobFacts
    <3> QED BY <3>1 DEF NullValue
  <2>3. \A c, type : Mapped(j)[t] # <<j, c, type>>
    <3>1. j # 0
      BY <1>1, JobFacts
    <3> QED BY <1>7, <3>1 DEF NullValue
  <2>4. Mapped(1)[t] = NullValue
    BY <1>1, <2>1, <2>3, SameShape
  <2>5. t \notin job.keys
    BY <2>4 DEF NullKey, Mapped
  <2> QED BY <1>4, <1>5, <1>6, <2>5
<1>8. ASSUME NEW t \in DOMAIN made, Mapped(j)[t] # NullValue PROVE Mapped(j)[t][3] \in Takes(made[t].type)
  <2>1. t \in DOMAIN Mapped(i) /\ t \in DOMAIN Mapped(j) /\ t \in DOMAIN r
    BY <1>4, <1>5, <1>6
  <2>2. PICK c, type : /\ Mapped(j)[t] = <<j, c, type>> /\ Mapped(i)[t] = <<i, c, type>> /\ Kept(type)
    BY <1>1, <1>8, <2>1, SameShape
  <2>3. Mapped(j)[t][3] = type /\ Mapped(i)[t][3] = type
    BY <2>2
  <2>4. r[t][3] = type \/ (type = "date" /\ r[t][3] = "string")
    <3>1. [Mapped(i)[t] EXCEPT ![3] = "string"][3] = "string"
      BY <2>2
    <3> QED BY <1>4, <2>1, <2>3, <3>1
  <2>5. CASE r[t][3] = type
    BY <1>5, <2>1, <2>2, <2>3, <2>5, TypesFit
  <2>6. CASE type = "date" /\ r[t][3] = "string"
    BY <1>5, <2>1, <2>2, <2>3, <2>6, TypesFit
  <2> QED BY <2>4, <2>5, <2>6
<1> QED BY <1>4, <1>5, <1>6, <1>7, <1>8 DEF Fits
------------------------------------------------------------------------------
(***************************************************************************)
(* Steps.                                                                  *)
(***************************************************************************)

\* Nothing is sent yet.
LEMMA InitHolds == PayloadInit => PayloadInv
<1> SUFFICES ASSUME PayloadInit PROVE PayloadInv
  OBVIOUS
<1>1. job \in Jobs /\ cursor = 0 /\ entries = <<>> /\ made = NoTableYet /\ kept = {} /\ Size \in Nat
  BY JobFacts DEF PayloadInit
<1>2. entries \in Seq(Entry) /\ DOMAIN entries = {}
  BY <1>1
<1> QED BY <1>1, <1>2 DEF PayloadInv, Linked, KeptInv, MadeInv

\* A batch goes to the end of the ledger, where the run has come to.
LEMMA FlushStep ==
  ASSUME PayloadInv, Flush
  PROVE  PayloadInv'
<1> DEFINE left == Size - cursor
           n == IF left < job.batch THEN left ELSE job.batch
<1>1. job \in Jobs /\ cursor \in 0 .. Size /\ cursor < Size /\ UNCHANGED job
  BY DEF PayloadInv, Flush, Size
<1>2. PICK status \in {"success", "failed"} :
         /\ Delivers(MappedRows(cursor, n), status)
         /\ entries' = Append(entries, [start |-> cursor, count |-> n, status |-> status,
                                        captured |-> BodyOf(cursor, n)])
         /\ cursor' = cursor + n
  BY DEF Flush, CountRows, Size
<1>3. n \in 1 .. job.batch /\ n \in Nat \ {0} /\ cursor + n \in 0 .. Size
  BY <1>1, JobFacts
<1> HIDE DEF n
<1> DEFINE E == [start |-> cursor, count |-> n, status |-> status, captured |-> BodyOf(cursor, n)]
<1>4. E \in Entry /\ E.start = cursor /\ E.count = n
  BY <1>1, <1>3 DEF Entry
<1> HIDE DEF E
<1>5. entries \in Seq(Entry)
  BY DEF PayloadInv
<1>6. /\ entries' \in Seq(Entry) /\ Len(entries') = Len(entries) + 1 /\ Len(entries) \in Nat
      /\ DOMAIN entries = 1 .. Len(entries) /\ DOMAIN entries' = 1 .. Len(entries) + 1
      /\ \A e \in 1 .. Len(entries) : entries'[e] = entries[e]
      /\ entries'[Len(entries) + 1] = E
  BY <1>2, <1>4, <1>5 DEF E
<1>7. \A e \in DOMAIN entries : /\ entries[e].start + entries[e].count <= cursor
                                /\ entries[e].start \in Nat /\ entries[e].count \in Nat
  <2>1. \A e \in DOMAIN entries : entries[e] \in Entry
    BY <1>5
  <2> QED BY <1>1, <2>1, EntryFacts DEF PayloadInv
<1>8. \A e \in DOMAIN entries' : entries'[e].start + entries'[e].count <= cursor'
  BY <1>1, <1>2, <1>3, <1>4, <1>6, <1>7
<1>9. Linked'
  <2> SUFFICES ASSUME NEW e \in DOMAIN entries'
               PROVE  entries'[e].start + entries'[e].count
                        = IF e = Len(entries') THEN cursor' ELSE entries'[e + 1].start
    BY DEF Linked
  <2>1. CASE e = Len(entries) + 1
    BY <1>2, <1>4, <1>6, <2>1
  <2>2. CASE e # Len(entries) + 1
    <3>1. e \in 1 .. Len(entries) /\ entries'[e] = entries[e] /\ e # Len(entries')
      BY <1>6, <2>2
    <3>2. entries[e].start + entries[e].count = IF e = Len(entries) THEN cursor ELSE entries[e + 1].start
      BY <1>6, <3>1 DEF PayloadInv, Linked
    <3>3. CASE e = Len(entries)
      BY <1>4, <1>6, <3>1, <3>2, <3>3
    <3>4. CASE e # Len(entries)
      <4>1. e + 1 \in 1 .. Len(entries)
        BY <1>6, <3>1, <3>4
      <4> QED BY <1>6, <3>1, <3>2, <3>4, <4>1
    <3> QED BY <3>3, <3>4
  <2> QED BY <2>1, <2>2
<1>10. KeptInv' /\ MadeInv'
  <2>1. DOMAIN MappedRows(cursor, n) = 1 .. n /\ 1 \in 1 .. n
    BY <1>3 DEF MappedRows
  <2>2. ASSUME NEW p \in 1 .. n PROVE FromSource(MappedRows(cursor, n)[p])
    <3>1. cursor + p \in 1 .. Size
      BY <1>1, <1>3, JobFacts
    <3>2. MappedRows(cursor, n)[p] = Mapped(cursor + p)
      BY DEF MappedRows, Mapped
    <3> QED BY <1>1, <3>1, <3>2, JobFacts DEF FromSource
  <2> QED BY <1>1, <1>2, <2>1, <2>2, WritesSource
<1> QED BY <1>1, <1>2, <1>3, <1>6, <1>8, <1>9, <1>10, JobStays DEF PayloadInv

\* A failed entry is sent again, from what was captured.
LEMMA ResendStep ==
  ASSUME PayloadInv, NEW e \in DOMAIN entries, SendCaptured(e)
  PROVE  PayloadInv'
<1> DEFINE E == entries[e]
<1>1. job \in Jobs /\ cursor \in 0 .. Size /\ UNCHANGED <<job, cursor>> /\ entries \in Seq(Entry)
  BY DEF PayloadInv, SendCaptured
<1>2. PICK status \in {"success", "failed"} :
         /\ Delivers(Retried(E.captured.items), status)
         /\ entries' = [entries EXCEPT ![e].status = status]
  BY DEF SendCaptured
<1> DEFINE F == [E EXCEPT !.status = status]
<1>3. E \in Entry /\ DOMAIN entries = 1 .. Len(entries) /\ Len(entries) \in Nat /\ E.start + E.count <= cursor
  BY <1>1 DEF PayloadInv
<1>6. entries' = [entries EXCEPT ![e] = F]
  BY <1>2
<1>5. F.start = E.start /\ F.count = E.count
  BY <1>3 DEF Entry
<1> HIDE DEF E
<1>4. /\ E.start \in Nat /\ E.count \in Nat \ {0} /\ E.captured = BodyOf(E.start, E.count) /\ F \in Entry
  <2>1. /\ E.start \in Nat /\ E.count \in 1 .. job.batch /\ E.count \in Nat
        /\ E.captured = BodyOf(E.start, E.count)
        /\ \A x \in {"success", "failed"} : [E EXCEPT !.status = x] \in Entry
    BY <1>1, <1>3, EntryFacts
  <2>2. F \in Entry
    BY <2>1
  <2> QED BY <1>1, <2>1, <2>2, JobFacts
<1> HIDE DEF F
<1>10. /\ Len(BodyOf(E.start, E.count).items) = E.count /\ DOMAIN BodyOf(E.start, E.count).items = 1 .. E.count
       /\ job.dest = "database" => BodyOf(E.start, E.count).items = MappedRows(E.start, E.count)
  BY <1>1, <1>4, BodyFacts
<1>7. /\ entries' \in Seq(Entry) /\ Len(entries') = Len(entries) /\ DOMAIN entries' = DOMAIN entries
      /\ \A k \in DOMAIN entries : /\ entries'[k].start = entries[k].start
                                   /\ entries'[k].count = entries[k].count
  <2>1. entries' \in [1 .. Len(entries) -> Entry]
    BY <1>1, <1>3, <1>4, <1>6
  <2>2. entries' \in Seq(Entry) /\ Len(entries') = Len(entries)
    BY <1>3, <2>1
  <2>3. \A k \in DOMAIN entries : entries'[k] = IF k = e THEN F ELSE entries[k]
    BY <1>1, <1>6
  <2> QED BY <1>3, <1>5, <2>1, <2>2, <2>3 DEF E
<1>8. Linked' /\ \A k \in DOMAIN entries' : entries'[k].start + entries'[k].count <= cursor'
  <2>1. \A k \in DOMAIN entries : k # Len(entries) => k + 1 \in DOMAIN entries
    BY <1>3
  <2> QED BY <1>1, <1>7, <2>1 DEF PayloadInv, Linked
<1>9. KeptInv' /\ MadeInv'
  <2> DEFINE items == E.captured.items
  <2>1. DOMAIN items = 1 .. E.count /\ 1 \in DOMAIN items
    BY <1>4, <1>10
  <2>2. Retried(items) = [p \in DOMAIN items |-> Parsed(items[p])]
    BY RetriedFacts
  <2>3. ASSUME NEW p \in DOMAIN items, job.dest = "database" PROVE FromSource(Retried(items)[p])
    <3>1. items = MappedRows(E.start, E.count)
      BY <1>4, <1>10, <2>3
    <3>2. items[p] = Mapped(E.start + p)
      BY <2>1, <3>1 DEF MappedRows, Mapped
    <3>3. E.start + p \in 1 .. Size
      BY <1>1, <1>3, <1>4, <2>1, JobFacts
    <3>4. Retried(items)[p] = Parsed(Mapped(E.start + p))
      BY <2>2, <3>2
    <3> QED BY <1>1, <3>3, <3>4, JobFacts DEF FromSource
  <2>4. DOMAIN Retried(items) = DOMAIN items
    BY <2>2
  <2> QED BY <1>1, <1>2, <2>1, <2>3, <2>4, WritesSource DEF E
<1> QED BY <1>1, <1>7, <1>8, <1>9, JobStays DEF PayloadInv

\* Types, and the pieces the source was cut into.
LEMMA InvTypes == PayloadInv => PayloadTypeOK
<1> SUFFICES ASSUME PayloadInv PROVE PayloadTypeOK
  OBVIOUS
<1>1. cursor \in 0 .. Len(job.rows) /\ (made # NoTableYet => job.dest = "database") /\ job \in Jobs
  BY DEF PayloadInv, Size, MadeInv
<1>2. ASSUME NEW e \in DOMAIN entries
      PROVE  /\ entries[e].status \in {"success", "failed"}
             /\ Len(entries[e].captured.items) = entries[e].count /\ entries[e].count \in 1 .. job.batch
  <2> DEFINE E == entries[e]
  <2>1. E \in Entry
    BY DEF PayloadInv
  <2> HIDE DEF E
  <2>2. /\ E.status \in {"success", "failed"} /\ E.count \in 1 .. job.batch
        /\ E.start \in Nat /\ E.count \in Nat /\ E.captured = BodyOf(E.start, E.count)
    BY <1>1, <2>1, EntryFacts
  <2>3. E.count \in Nat \ {0}
    BY <1>1, <2>2, JobFacts
  <2>4. Len(BodyOf(E.start, E.count).items) = E.count
    BY <1>1, <2>2, <2>3, BodyFacts
  <2> QED BY <2>2, <2>4 DEF E
<1> QED BY <1>1, <1>2 DEF PayloadInv, Linked, PayloadTypeOK

(***************************************************************************)
(* Of every hook and every source: an object of a body is made of one row, *)
(* what the preview shows is what is sent, a failed delivery is sent again *)
(* as the same rows, and a table that was made for the hook takes them all *)
(* (transform.ts, bridge.ts, DatabaseSinkService, HookRunService).         *)
(***************************************************************************)
THEOREM PayloadKept == PayloadSpec => []PayloadSafe
<1>1. PayloadInit => PayloadInv
  BY InitHolds
<1>2. PayloadInv /\ [PayloadNext]_payloadVars => PayloadInv'
  <2> SUFFICES ASSUME PayloadInv, [PayloadNext]_payloadVars PROVE PayloadInv'
    OBVIOUS
  <2>1. CASE UNCHANGED payloadVars
    <3>1. UNCHANGED <<job, cursor, entries, made, kept>>
      BY <2>1 DEF payloadVars
    <3> QED BY <3>1, JobStays DEF PayloadInv, Linked, KeptInv, MadeInv
  <2> QED BY <2>1, FlushStep, ResendStep DEF PayloadNext
<1>3. PayloadInv => PayloadSafe
  BY InvTypes, InvOwnValues, InvPreviewIsSent, InvResendWritesSame, InvTableHoldsRows DEF PayloadSafe
<1> QED BY <1>1, <1>2, <1>3, PTL DEF PayloadSpec
==============================================================================
