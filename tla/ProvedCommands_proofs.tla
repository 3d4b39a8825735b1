------------------------ MODULE ProvedCommands_proofs ------------------------
(***************************************************************************)
(* What the proofs about the commands rest on, for every value of their    *)
(* constants.                                                              *)
(*                                                                         *)
(* 2db: two runs that may be killed at any time.  DbInv says that as long  *)
(* as no run has removed the temporary file of another,                    *)
(*   - DbOwn: what is in the file of a run and in its transaction is       *)
(*     together what Kept has of the rows read so far; behind the commit,  *)
(*     the file is complete;                                               *)
(*   - DbNames: the temporary file is that of the run that is at work, and *)
(*     the output is the old file or that of a run that is done.           *)
(*                                                                         *)
(* Overwrites: a parser with a file of overwrites.  OwInv says that what   *)
(* is left of the file is its tail (Reading), that every answer so far is  *)
(* right (OwAsListed), and, when cells are asked for in order and the file *)
(* is in order, that no line was missed and that those passed are before   *)
(* the last cell asked for (OwAllUsed).                                    *)
(*                                                                         *)
(* select, select-pull: SelInv says how many rows are still to be skipped, *)
(* that the rows written are the eligible ones of those read (SelNumbers), *)
(* and that the command is cancelled once one of them was at the limit     *)
(* (SelLast).                                                              *)
(*                                                                         *)
(* paste: PasteInv says how often each file has been asked for a row, that *)
(* the rows written are those of the files side by side, and how the rows  *)
(* of the longest file bound them (PasteStage).  Where the cells of a file *)
(* are in such a row is PiecesInPlace.                                     *)
(*                                                                         *)
(* UTF-8 repair: Utf8Inv says that what was written over the front of the  *)
(* cell is what is to be kept of the bytes read so far, that the bytes     *)
(* behind are still those of the cell, and that no character lies on both  *)
(* sides of the place that is read (Utf8Whole).                            *)
(*                                                                         *)
(* serialize: SerInv says that the tuples behind the first are exactly     *)
(* those of the cells read so far that are shown.                          *)
(***************************************************************************)
EXTENDS ProvedCommands, FiniteSetTheorems, TLAPS, WellFoundedInduction

-----------------------------------------------------------------------------
(* 2db: what is in a file, in a connection, in struct zsv_2db_data.         *)

DbText == STRING \cup {""}
DbRow == Seq(DbText)
DbIndex == [on : STRING, unique : BOOLEAN]
DbBase == [columns : Seq(STRING), rows : Seq(DbRow), indexes : Seq(DbIndex)]
DbConn == [file : {0, 1, 2}, begun : BOOLEAN, inserts : Seq(DbRow), inserted : Nat]
DbData ==
  [ tmp : {0, 1, 2}, db : [ToDb!Run -> DbBase], conn : [ToDb!Run -> DbConn],
    killed : SUBSET ToDb!Run, shared : BOOLEAN ]

(* The temporary file is that of a run from here to there. *)
Held == {"header", "rows", "indexes", "commit", "replace", "rename"}
Early == {"check", "unlink", "open"}

DbComplete(json, b) ==
  /\ b = ToDb!Expected(json) /\ ~json.torn
  /\ \A n \in DOMAIN json.indexes : ToDb!CanIndex(json.indexes[n], b.columns, b.rows)

RowsInHand(json, c, b, a, stage) ==
  LET kept == ToDb!Kept(json) IN
  /\ a <= Len(json.rows)
  /\ b.rows \o c.inserts = kept[a]
  /\ c.inserted = Len(kept[a])
  /\ b.columns = IF c.inserted = 0 THEN <<>> ELSE json.columns
  /\ ~c.begun => c.inserts = <<>>
  /\ stage \in {"rows", "indexes"} => b.indexes = <<>>
  /\ stage \in {"indexes", "commit"} => a = Len(json.rows) /\ ~json.torn
  /\ stage = "commit" =>
       /\ b.indexes = json.indexes
       /\ \A n \in DOMAIN json.indexes : ToDb!CanIndex(json.indexes[n], b.columns, kept[a])

FreshFile(c, b, a) ==
  /\ b = ToDb!Empty /\ c.inserts = <<>> /\ c.inserted = 0 /\ ~c.begun /\ a = 0

(* A run on its own. *)
DbOwn(p, json, c, b, a, stage, alive) ==
  /\ stage \in Early => c.file = 0 /\ FreshFile(c, b, a)
  /\ stage \in Held \cup {"done"} => c.file = p
  /\ stage = "header" /\ alive => FreshFile(c, b, a)
  /\ stage \in {"rows", "indexes", "commit"} /\ alive => RowsInHand(json, c, b, a, stage)
  /\ stage \in {"replace", "rename", "done"} => DbComplete(json, b)

(* The two names. *)
DbNames(p) ==
  /\ pc[p] \in Held /\ p \notin data.killed => data.tmp = p
  /\ pc[p] = "rename" => data.tmp = p \/ \E q \in ToDb!Run \ {p} : pc[q] \notin {"check", "unlink"}
  /\ pc[p] = "done" => written # 0 \/ \E q \in ToDb!Run \ {p} : pc[q] = "rename"
  /\ written = p => pc[p] = "done"

DbStages == Held \cup Early \cup {"failed", "done"}

DbType ==
  /\ opts \in [ToDb!Run -> BOOLEAN] /\ input \in [ToDb!Run -> Documents] /\ at \in [ToDb!Run -> Nat]
  /\ data \in DbData /\ written \in {0, 1, 2, 3} /\ pc \in [ToDb!Run -> DbStages]

DbOwnInv(p) ==
  DbOwn(p, input[p], data.conn[p], data.db[p], at[p], pc[p], p \notin data.killed)

DbGood == DbType /\ \A p \in ToDb!Run : DbOwnInv(p) /\ DbNames(p)

(* A set of numbers that is not empty has a least one. *)
LEMMA LeastNumber ==
  ASSUME NEW S, S \subseteq Nat, S # {}
  PROVE  \E m \in S : \A k \in S : m <= k
PROOF
<1> DEFINE less == {p \in Nat \X Nat : p[1] < p[2]}
<1>1. less = OpToRel(<, Nat)
  BY Zenon DEF OpToRel
<1>2. IsWellFoundedOn(less, Nat)
  BY <1>1, NatLessThanWellFounded
<1> HIDE DEF less
<1>3. PICK m \in S : \A k \in S : ~(<<k, m>> \in less)
  BY <1>2, WFMin
<1>4. \A j, k \in Nat : j < k => <<j, k>> \in less
  BY DEF less
<1>5. ASSUME NEW k \in S  PROVE  m <= k
  <2>1. k \in Nat /\ m \in Nat
    OBVIOUS
  <2>2. ~(k < m)
    BY <1>3, <1>4, <2>1, Zenon
  <2> QED BY <2>1, <2>2
<1> QED BY <1>5


(* f holds the rows that are kept of the first n, for every n up to m. *)
Keeps(f, json, m) ==
  f = [n \in 0 .. m |->
         IF n = 0 THEN <<>>
         ELSE IF ToDb!HaveRowData(json, json.rows[n])
              THEN Append(f[n - 1], ToDb!RowValues(json, json.rows[n])) ELSE f[n - 1]]

(* There is such a function for every document. *)
LEMMA KeepsExists ==
  ASSUME NEW json, NEW m \in Nat
  PROVE  \E f : Keeps(f, json, m)
PROOF
<1> DEFINE Without == {n \in Nat : ~\E f : Keeps(f, json, n)}
<1>1. SUFFICES ASSUME Without # {} PROVE FALSE
  OBVIOUS
<1>2. PICK n \in Without : \A k \in Without : n <= k
  BY <1>1, LeastNumber
<1> DEFINE More(x, j) == IF ToDb!HaveRowData(json, json.rows[j])
                         THEN Append(x, ToDb!RowValues(json, json.rows[j])) ELSE x
<1>3. n # 0
  <2> DEFINE f == [j \in 0 .. 0 |-> <<>>]
  <2>1. f = [j \in 0 .. 0 |-> IF j = 0 THEN <<>> ELSE More(f[j - 1], j)]
    OBVIOUS
  <2>2. Keeps(f, json, 0)
    BY <2>1 DEF Keeps
  <2> QED BY <2>2
<1>4. n - 1 \in Nat /\ n - 1 \notin Without
  BY <1>2, <1>3
<1>5. PICK g : Keeps(g, json, n - 1)
  BY <1>4
<1> DEFINE f == [j \in 0 .. n |-> IF j < n THEN g[j] ELSE More(g[n - 1], n)]
<1>a. \A j \in 0 .. n - 1 : g[j] = IF j = 0 THEN <<>> ELSE More(g[j - 1], j)
  BY <1>5 DEF Keeps
<1> HIDE DEF More
<1>6. ASSUME NEW j \in 0 .. n
      PROVE  f[j] = IF j = 0 THEN <<>> ELSE More(f[j - 1], j)
  <2>1. CASE j = n
    BY <1>3, <1>4, <2>1
  <2>2. CASE j < n
    <3>1. j \in 0 .. n - 1
      BY <2>2
    <3>2. g[j] = IF j = 0 THEN <<>> ELSE More(g[j - 1], j)
      BY <1>a, <3>1
    <3>3. f[j] = g[j] /\ (j # 0 => f[j - 1] = g[j - 1])
      BY <2>2, <3>1
    <3> QED BY <3>2, <3>3
  <2> QED BY <2>1, <2>2
<1>7. f = [j \in 0 .. n |-> IF j = 0 THEN <<>> ELSE More(f[j - 1], j)]
  <2>1. f = [j \in 0 .. n |-> f[j]]
    OBVIOUS
  <2> HIDE DEF f
  <2> QED BY <1>6, <2>1
<1>8. Keeps(f, json, n)
  <2> HIDE DEF f
  <2> QED BY <1>7 DEF Keeps, More
<1> QED BY <1>2, <1>8

(* A row of the table has a value for each column. *)
LEMMA RowValuesType ==
  ASSUME NEW json \in Documents, NEW row \in DbRow
  PROVE  ToDb!RowValues(json, row) \in DbRow
PROOF
<1>1. json.columns \in Seq(STRING) /\ Len(json.columns) \in Nat
      /\ DOMAIN json.columns = 1 .. Len(json.columns)
  BY DEF Documents
<1>2. \A j \in DOMAIN row : row[j] \in DbText
  BY DEF DbRow
<1>3. \A j \in 1 .. Len(json.columns) : (IF j \in DOMAIN row THEN row[j] ELSE "") \in DbText
  BY <1>2 DEF DbText
<1>4. ToDb!RowValues(json, row) = [j \in 1 .. Len(json.columns) |-> IF j \in DOMAIN row THEN row[j] ELSE ""]
  BY <1>1 DEF ToDb!RowValues
<1>5. ToDb!RowValues(json, row) \in [1 .. Len(json.columns) -> DbText]
  BY <1>3, <1>4
<1> QED BY <1>1, <1>5 DEF DbRow

(* What is kept of the first rows. *)
LEMMA KeptRows ==
  ASSUME NEW json \in Documents
  PROVE  LET kept == ToDb!Kept(json) IN
         /\ Len(json.rows) \in Nat
         /\ kept[0] = <<>>
         /\ \A n \in 0 .. Len(json.rows) : kept[n] \in Seq(DbRow)
         /\ \A n \in 1 .. Len(json.rows) :
              /\ json.rows[n] \in DbRow
              /\ kept[n] = IF ToDb!HaveRowData(json, json.rows[n])
                           THEN Append(kept[n - 1], ToDb!RowValues(json, json.rows[n]))
                           ELSE kept[n - 1]
PROOF
<1> DEFINE m == Len(json.rows)
           kept == ToDb!Kept(json)
<1>1. m \in Nat /\ \A n \in 1 .. m : json.rows[n] \in DbRow
  <2>1. json.rows \in Seq(Seq(STRING))
    BY DEF Documents
  <2>2. \A n \in 1 .. Len(json.rows) : json.rows[n] \in Seq(STRING)
    BY <2>1
  <2>3. ASSUME NEW r \in Seq(STRING) PROVE r \in DbRow
    <3>1. Len(r) \in Nat /\ r \in [1 .. Len(r) -> STRING]
      OBVIOUS
    <3>2. r \in [1 .. Len(r) -> DbText]
      BY <3>1 DEF DbText
    <3> HIDE DEF DbText
    <3> QED BY <3>1, <3>2 DEF DbRow
  <2> QED BY <2>1, <2>2, <2>3
<1>2. Keeps(kept, json, m)
  <2> DEFINE f == CHOOSE f : Keeps(f, json, m)
  <2>1. Keeps(f, json, m)
    BY <1>1, KeepsExists
  <2>2. kept = f
    BY DEF ToDb!Kept, Keeps
  <2> QED BY <2>1, <2>2
<1> HIDE DEF kept, m
<1>3. kept[0] = <<>>
  BY <1>1, <1>2 DEF Keeps
<1>4. \A n \in 1 .. m :
        kept[n] = IF ToDb!HaveRowData(json, json.rows[n])
                  THEN Append(kept[n - 1], ToDb!RowValues(json, json.rows[n]))
                  ELSE kept[n - 1]
  <2>1. \A n \in 1 .. m : n \in 0 .. m /\ n # 0
    BY <1>1
  <2> QED BY <1>2, <2>1 DEF Keeps
<1> DEFINE Wrong == {n \in 0 .. m : kept[n] \notin Seq(DbRow)}
<1>5. Wrong = {}
  <2>1. SUFFICES ASSUME Wrong # {} PROVE FALSE
    OBVIOUS
  <2>2. Wrong \subseteq Nat
    OBVIOUS
  <2>3. PICK n \in Wrong : \A k \in Wrong : n <= k
    <3> HIDE DEF Wrong
    <3> QED BY <2>1, <2>2, LeastNumber
  <2>4. n \in 1 .. m
    <3>1. <<>> \in Seq(DbRow)
      OBVIOUS
    <3>2. n \in 0 .. m /\ kept[n] \notin Seq(DbRow)
      BY <2>3
    <3> HIDE DEF Wrong
    <3>3. n # 0
      BY <1>3, <3>1, <3>2
    <3> QED BY <1>1, <3>2, <3>3
  <2>5. kept[n - 1] \in Seq(DbRow)
    <3>1. n \in Nat /\ n - 1 \in 0 .. m /\ n - 1 < n /\ n - 1 \in Nat
      BY <1>1, <2>4
    <3> HIDE DEF Wrong
    <3>2. n - 1 \notin Wrong
      BY <2>3, <3>1
    <3> QED BY <3>1, <3>2 DEF Wrong
  <2>6. ToDb!RowValues(json, json.rows[n]) \in DbRow
    BY <1>1, <2>4, RowValuesType
  <2>7. kept[n] \in Seq(DbRow)
    <3> HIDE DEF Wrong
    <3>1. Append(kept[n - 1], ToDb!RowValues(json, json.rows[n])) \in Seq(DbRow)
      BY <2>5, <2>6
    <3> QED BY <1>4, <2>4, <2>5, <3>1
  <2> QED BY <2>3, <2>7
<1> QED BY <1>1, <1>3, <1>4, <1>5 DEF m, kept

(* From d to e only what belongs to run p has changed. *)
OnlyOf(p, d, e) ==
  /\ e \in DbData /\ e.tmp = d.tmp /\ e.killed = d.killed /\ e.shared = d.shared
  /\ \A q \in ToDb!Run \ {p} : e.conn[q] = d.conn[q] /\ e.db[q] = d.db[q]

(* d with the connection c and the file b of run p. *)
With(d, p, c, b) == [d EXCEPT !.db[p] = b, !.conn[p] = c]

(* With changes what belongs to p alone. *)
LEMMA WithDoes ==
  ASSUME NEW d \in DbData, NEW p \in ToDb!Run, NEW c \in DbConn, NEW b \in DbBase
  PROVE  /\ OnlyOf(p, d, With(d, p, c, b))
         /\ With(d, p, c, b).conn[p] = c /\ With(d, p, c, b).db[p] = b
PROOF
<1> DEFINE e == With(d, p, c, b)
<1>1. e \in DbData
  BY DEF With, DbData
<1>2. e.tmp = d.tmp /\ e.killed = d.killed /\ e.shared = d.shared
  BY DEF With, DbData
<1>3. \A q \in ToDb!Run \ {p} : e.conn[q] = d.conn[q] /\ e.db[q] = d.db[q]
  BY DEF With, DbData
<1>4. e.conn[p] = c /\ e.db[p] = b
  BY DEF With, DbData
<1> QED BY <1>1, <1>2, <1>3, <1>4 DEF OnlyOf

(* What zsv_2db_end_transaction commits. *)
LEMMA CommittedDoes ==
  ASSUME NEW d \in DbData, NEW p \in ToDb!Run, d.conn[p].file = p
  PROVE  LET e == ToDb!Committed(d, p) IN
         /\ OnlyOf(p, d, e)
         /\ e.conn[p] = [d.conn[p] EXCEPT !.inserts = <<>>, !.begun = FALSE]
         /\ e.db[p] = [d.db[p] EXCEPT !.rows = @ \o d.conn[p].inserts]
PROOF
<1> DEFINE c == d.conn[p]
           b == d.db[p]
           c2 == [c EXCEPT !.inserts = <<>>, !.begun = FALSE]
           b2 == [b EXCEPT !.rows = @ \o c.inserts]
<1>1. c \in DbConn /\ b \in DbBase
  BY DEF DbData
<1>2. ToDb!Committed(d, p) = With(d, p, c2, b2)
  BY DEF ToDb!Committed, With, DbData
<1> HIDE DEF c, b
<1>3. c2 \in DbConn
  <2>1. <<>> \in Seq(DbRow)
    OBVIOUS
  <2> QED BY <1>1, <2>1 DEF DbConn
<1>4. b2 \in DbBase
  <2>1. b.rows \in Seq(DbRow) /\ c.inserts \in Seq(DbRow)
    BY <1>1 DEF DbBase, DbConn
  <2>2. b.rows \o c.inserts \in Seq(DbRow)
    BY <2>1
  <2> QED BY <1>1, <2>2 DEF DbBase
<1> HIDE DEF c2, b2
<1> QED BY <1>2, <1>3, <1>4, WithDoes DEF c2, b2, c, b

(* A row is behind the others, in the transaction or in the file. *)
LEMMA InsertedDoes ==
  ASSUME NEW d \in DbData, NEW p \in ToDb!Run, d.conn[p].file = p, NEW values \in DbRow,
         ~d.conn[p].begun => d.conn[p].inserts = <<>>
  PROVE  LET e == ToDb!Inserted(d, p, values) IN
         /\ OnlyOf(p, d, e)
         /\ e.conn[p].file = p /\ e.conn[p].inserted = d.conn[p].inserted + 1
         /\ ~e.conn[p].begun => e.conn[p].inserts = <<>>
         /\ e.db[p].rows \o e.conn[p].inserts = Append(d.db[p].rows \o d.conn[p].inserts, values)
         /\ e.db[p].columns = d.db[p].columns /\ e.db[p].indexes = d.db[p].indexes
PROOF
<1> DEFINE c == d.conn[p]
           b == d.db[p]
           c2 == IF c.begun THEN [c EXCEPT !.inserts = Append(@, values), !.inserted = @ + 1]
                 ELSE [c EXCEPT !.inserted = @ + 1]
           b2 == IF c.begun THEN b ELSE [b EXCEPT !.rows = Append(@, values)]
           x == IF c.begun THEN [d EXCEPT !.conn[p].inserts = Append(@, values)]
                ELSE [d EXCEPT !.db[p].rows = Append(@, values)]
           y == [x EXCEPT !.conn[p].inserted = @ + 1]
           z == ToDb!Committed(y, p)
<1>1. c \in DbConn /\ b \in DbBase
  BY DEF DbData
<1>2. ToDb!Inserted(d, p, values) =
        IF y.conn[p].inserted % BatchSize = 0 THEN [z EXCEPT !.conn[p].begun = TRUE] ELSE y
  BY DEF ToDb!Inserted
<1>3. y = With(d, p, c2, b2)
  <2>1. CASE c.begun
    <3> DEFINE c3 == [c EXCEPT !.inserts = Append(@, values)]
    <3>1. x = [d EXCEPT !.conn[p] = c3]
      BY <2>1 DEF DbData
    <3>2. y = [d EXCEPT !.conn[p] = [c3 EXCEPT !.inserted = @ + 1]]
      <4> HIDE DEF c3, x
      <4>1. y = [x EXCEPT !.conn[p] = [x.conn[p] EXCEPT !.inserted = @ + 1]]
        BY DEF y
      <4>2. x.conn[p] = c3
        BY <3>1 DEF DbData
      <4>3. y = [x EXCEPT !.conn[p] = [c3 EXCEPT !.inserted = @ + 1]]
        BY <4>1, <4>2
      <4> HIDE DEF y
      <4> QED BY <3>1, <4>3 DEF DbData
    <3>3. [c3 EXCEPT !.inserted = @ + 1] = c2
      BY <1>1, <2>1 DEF DbConn
    <3>4. b2 = b
      BY <2>1
    <3> HIDE DEF c2, c3, y, b2
    <3>5. y = [d EXCEPT !.conn[p] = c2]
      BY <3>2, <3>3
    <3> QED BY <3>4, <3>5 DEF With, DbData
  <2>2. CASE ~c.begun
    BY <2>2 DEF With, DbData
  <2> QED BY <2>1, <2>2
<1> HIDE DEF c, b, x, y, z
<1>4. b.rows \in Seq(DbRow) /\ c.inserts \in Seq(DbRow) /\ c.inserted \in Nat /\ c.file = p
  BY <1>1 DEF DbBase, DbConn, c
<1>5. c2 \in DbConn /\ b2 \in DbBase
  <2>1. Append(b.rows, values) \in Seq(DbRow) /\ Append(c.inserts, values) \in Seq(DbRow)
    BY <1>4
  <2>2. c2 \in DbConn
    <3>1. c.inserted + 1 \in Nat
      BY <1>4
    <3> QED BY <1>1, <2>1, <3>1 DEF DbConn
  <2>3. b2 \in DbBase
    BY <1>1, <2>1 DEF DbBase
  <2> QED BY <2>2, <2>3
<1>6. /\ c2.file = p /\ c2.inserted = c.inserted + 1
      /\ ~c2.begun => c2.inserts = <<>>
      /\ b2.rows \o c2.inserts = Append(b.rows \o c.inserts, values)
      /\ b2.columns = b.columns /\ b2.indexes = b.indexes
  <2>1. ~c.begun => c.inserts = <<>>
    BY DEF c
  <2>2. /\ b.rows \o Append(c.inserts, values) = Append(b.rows \o c.inserts, values)
        /\ Append(b.rows, values) \o <<>> = Append(b.rows \o <<>>, values)
    <3> DEFINE u == b.rows
               v == c.inserts
    <3>1. u \in Seq(DbRow) /\ v \in Seq(DbRow)
      BY <1>4
    <3> HIDE DEF u, v
    <3>2. u \o Append(v, values) = Append(u \o v, values)
      BY <3>1
    <3>3. Append(u, values) \in Seq(DbRow)
      BY <3>1
    <3>4. \A w \in Seq(DbRow) : w \o <<>> = w
      OBVIOUS
    <3>5. Append(u, values) \o <<>> = Append(u \o <<>>, values)
      BY <3>1, <3>3, <3>4
    <3> QED BY <3>2, <3>5 DEF u, v
  <2>3. CASE c.begun
    BY <1>1, <1>4, <2>2, <2>3 DEF DbConn
  <2>4. CASE ~c.begun
    BY <1>1, <1>4, <2>1, <2>2, <2>4 DEF DbConn, DbBase
  <2> QED BY <2>3, <2>4
<1> HIDE DEF c2, b2
<1>7. OnlyOf(p, d, y) /\ y.conn[p] = c2 /\ y.db[p] = b2
  BY <1>3, <1>5, WithDoes
<1>8. CASE ToDb!Inserted(d, p, values) = y
  BY <1>6, <1>7, <1>8 DEF c, b
<1>9. CASE ToDb!Inserted(d, p, values) = [z EXCEPT !.conn[p].begun = TRUE]
  <2> DEFINE e == [z EXCEPT !.conn[p].begun = TRUE]
  <2>1. y \in DbData /\ y.conn[p].file = p
    BY <1>6, <1>7 DEF OnlyOf
  <2>2. /\ OnlyOf(p, y, z)
        /\ z.conn[p] = [c2 EXCEPT !.inserts = <<>>, !.begun = FALSE]
        /\ z.db[p] = [b2 EXCEPT !.rows = @ \o c2.inserts]
    BY <1>7, <2>1, CommittedDoes DEF z
  <2>3. z \in DbData
    BY <2>2 DEF OnlyOf
  <2>4. /\ OnlyOf(p, z, e) /\ e.conn[p] = [z.conn[p] EXCEPT !.begun = TRUE] /\ e.db[p] = z.db[p]
    <3>1. z.conn[p] \in DbConn /\ z.db[p] \in DbBase
      BY <2>3 DEF DbData
    <3>2. [z.conn[p] EXCEPT !.begun = TRUE] \in DbConn
      BY <3>1 DEF DbConn
    <3>3. e = With(z, p, [z.conn[p] EXCEPT !.begun = TRUE], z.db[p])
      BY <2>3 DEF With, DbData
    <3> HIDE DEF e
    <3> QED BY <2>3, <3>1, <3>2, <3>3, WithDoes
  <2> HIDE DEF e
  <2>5. OnlyOf(p, d, e)
    BY <1>7, <2>2, <2>4 DEF OnlyOf
  <2>6. /\ e.conn[p].file = c2.file /\ e.conn[p].inserted = c2.inserted
        /\ e.conn[p].begun /\ e.conn[p].inserts = <<>>
        /\ e.db[p].rows = b2.rows \o c2.inserts
        /\ e.db[p].columns = b2.columns /\ e.db[p].indexes = b2.indexes
    <3>1. e.conn[p] = [c2 EXCEPT !.inserts = <<>>, !.begun = TRUE]
      BY <1>5, <2>2, <2>4 DEF DbConn
    <3>2. e.db[p] = [b2 EXCEPT !.rows = @ \o c2.inserts]
      BY <2>2, <2>4
    <3> QED BY <1>5, <3>1, <3>2 DEF DbConn, DbBase
  <2>7. (b2.rows \o c2.inserts) \o <<>> = b2.rows \o c2.inserts
    <3>1. b2.rows \in Seq(DbRow) /\ c2.inserts \in Seq(DbRow)
      BY <1>5 DEF DbBase, DbConn
    <3> QED BY <3>1
  <2>8. /\ OnlyOf(p, d, e)
        /\ e.conn[p].file = p /\ e.conn[p].inserted = c.inserted + 1
        /\ ~e.conn[p].begun => e.conn[p].inserts = <<>>
        /\ e.db[p].rows \o e.conn[p].inserts = Append(b.rows \o c.inserts, values)
        /\ e.db[p].columns = b.columns /\ e.db[p].indexes = b.indexes
    <3>1. e.db[p].rows \o e.conn[p].inserts = b2.rows \o c2.inserts
      BY <2>6, <2>7
    <3> QED BY <1>6, <2>5, <2>6, <3>1
  <2>9. ToDb!Inserted(d, p, values) = e
    BY <1>9 DEF e
  <2> QED BY <2>8, <2>9 DEF c, b
<1> QED BY <1>2, <1>8, <1>9

(* A step of run p, which leaves what is the other's alone. *)
LEMMA StepIsGood ==
  ASSUME DbGood, NEW p \in ToDb!Run, NEW to \in DbStages, NEW a \in Nat,
         UNCHANGED <<opts, input>>, pc' = [pc EXCEPT ![p] = to], at' = [at EXCEPT ![p] = a],
         data' \in DbData, written' \in {0, 1, 2, 3},
         \A q \in ToDb!Run \ {p} :
                  /\ data'.conn[q] = data.conn[q] /\ data'.db[q] = data.db[q]
                  /\ q \in data'.killed <=> q \in data.killed,
         DbOwn(p, input[p], data'.conn[p], data'.db[p], a, to, p \notin data'.killed),
         \A q \in ToDb!Run : DbNames(q)'
  PROVE  DbGood'
PROOF
<1>1. DbType /\ \A q \in ToDb!Run : DbOwnInv(q)
  BY DEF DbGood
<1>2. DbType'
  BY <1>1 DEF DbType
<1>3. pc'[p] = to /\ at'[p] = a /\ input' = input
  BY <1>1 DEF DbType
<1>4. DbOwnInv(p)'
  BY <1>3 DEF DbOwnInv
<1>5. ASSUME NEW q \in ToDb!Run \ {p} PROVE DbOwnInv(q)'
  <2>1. pc'[q] = pc[q] /\ at'[q] = at[q]
    BY <1>1 DEF DbType
  <2>2. DbOwn(q, input[q], data.conn[q], data.db[q], at[q], pc[q], q \notin data.killed)
    BY <1>1 DEF DbOwnInv
  <2>3. (q \notin data'.killed) = (q \notin data.killed)
    OBVIOUS
  <2>4. data'.conn[q] = data.conn[q] /\ data'.db[q] = data.db[q]
    OBVIOUS
  <2>5. DbOwn(q, input'[q], data'.conn[q], data'.db[q], at'[q], pc'[q], q \notin data'.killed)
    BY <1>3, <2>1, <2>2, <2>3, <2>4
  <2> QED BY <2>5 DEF DbOwnInv
<1> QED BY <1>2, <1>4, <1>5 DEF DbGood

(* Nobody else is disturbed by a step that leaves both names alone. *)
LEMMA NamesStay ==
  ASSUME DbGood, NEW p \in ToDb!Run, NEW to \in DbStages, pc' = [pc EXCEPT ![p] = to],
         data'.tmp = data.tmp, data'.killed = data.killed, written' = written,
         pc[p] \notin {"rename", "done"}, to # "done", p \notin data.killed,
         to \in Held => pc[p] \in Held,
         to \in {"check", "unlink"} => pc[p] \in {"check", "unlink"}
  PROVE  \A q \in ToDb!Run : DbNames(q)'
PROOF
<1>1. pc \in [ToDb!Run -> DbStages] /\ \A q \in ToDb!Run : DbNames(q)
  BY DEF DbGood, DbType
<1>2. pc'[p] = to /\ \A q \in ToDb!Run \ {p} : pc'[q] = pc[q]
  BY <1>1
<1>3. DbNames(p)'
  <2>1. written # p
    BY <1>1 DEF DbNames
  <2>2. to \in Held => data.tmp = p
    BY <1>1 DEF DbNames
  <2>3. to = "rename" => data.tmp = p
    BY <2>2 DEF Held
  <2> QED BY <1>2, <2>1, <2>2, <2>3 DEF DbNames
<1>4. ASSUME NEW q \in ToDb!Run \ {p} PROVE DbNames(q)'
  <2>1. DbNames(q)
    BY <1>1
  <2>2. ToDb!Run \ {q} = {p}
    BY DEF ToDb!Run
  <2> QED BY <1>2, <2>1, <2>2 DEF DbNames
<1> QED BY <1>3, <1>4

(* What Step leaves and moves. *)
LEMMA Stepped ==
  ASSUME DbGood, NEW p \in ToDb!Run, NEW from, NEW to \in DbStages, ToDb!Step(p, from, to)
  PROVE  /\ pc[p] = from /\ p \notin data.killed /\ pc' = [pc EXCEPT ![p] = to]
         /\ UNCHANGED <<opts, input>>
         /\ data \in DbData /\ written \in {0, 1, 2, 3} /\ at[p] \in Nat
         /\ at = [at EXCEPT ![p] = at[p]] /\ input[p] \in Documents
         /\ data.conn[p] \in DbConn /\ data.db[p] \in DbBase
         /\ DbOwn(p, input[p], data.conn[p], data.db[p], at[p], from, TRUE)
PROOF
<1>1. DbType /\ DbOwnInv(p)
  BY DEF DbGood
<1>2. pc[p] = from /\ p \notin data.killed /\ pc' = [pc EXCEPT ![p] = to] /\ UNCHANGED <<opts, input>>
  BY DEF ToDb!Step
<1>3. /\ data \in DbData /\ written \in {0, 1, 2, 3} /\ at[p] \in Nat
      /\ at = [at EXCEPT ![p] = at[p]] /\ input[p] \in Documents
  BY <1>1 DEF DbType
<1>4. data.conn[p] \in DbConn /\ data.db[p] \in DbBase
  BY <1>3 DEF DbData
<1>5. DbOwn(p, input[p], data.conn[p], data.db[p], at[p], from, TRUE)
  BY <1>1, <1>2 DEF DbOwnInv
<1> QED BY <1>2, <1>3, <1>4, <1>5

(* A run may end at once; no file is touched. *)
LEMMA CheckIsGood ==
  ASSUME DbGood, NEW p \in ToDb!Run, ToDb!Check(p)
  PROVE  DbGood'
PROOF
<1>1. PICK to \in {"failed", "unlink"} : ToDb!Step(p, "check", to)
  BY DEF ToDb!Check
<1>2. UNCHANGED <<at, data, written>>
  BY DEF ToDb!Check
<1>3. to \in DbStages /\ to \notin Held /\ to # "done" /\ (to \in Early => to = "unlink")
  BY <1>1 DEF DbStages, Held, Early
<1>a. /\ pc[p] = "check" /\ p \notin data.killed /\ pc' = [pc EXCEPT ![p] = to]
      /\ UNCHANGED <<opts, input>> /\ data \in DbData /\ written \in {0, 1, 2, 3} /\ at[p] \in Nat
      /\ at = [at EXCEPT ![p] = at[p]]
  BY <1>1, <1>3, Stepped
<1>4. DbOwn(p, input[p], data.conn[p], data.db[p], at[p], to, p \notin data.killed)
  BY <1>1, <1>3, Stepped DEF DbOwn, Early, Held
<1>5. \A q \in ToDb!Run : DbNames(q)'
  BY <1>2, <1>3, <1>a, NamesStay
<1> QED BY <1>2, <1>3, <1>4, <1>5, <1>a, StepIsGood

(* The header is at hand. *)
LEMMA HeaderIsGood ==
  ASSUME DbGood, NEW p \in ToDb!Run, ToDb!Header(p)
  PROVE  DbGood'
PROOF
<1>1. PICK to \in {"failed", "rows"} : ToDb!Step(p, "header", to)
  BY DEF ToDb!Header
<1>2. UNCHANGED <<at, data, written>>
  BY DEF ToDb!Header
<1>3. to \in DbStages /\ to # "done" /\ (to \in Held => to = "rows") /\ to \notin Early
  BY <1>1 DEF DbStages, Held, Early
<1>a. /\ pc[p] = "header" /\ p \notin data.killed /\ pc' = [pc EXCEPT ![p] = to]
      /\ UNCHANGED <<opts, input>> /\ data \in DbData /\ written \in {0, 1, 2, 3} /\ at[p] \in Nat
      /\ at = [at EXCEPT ![p] = at[p]]
  BY <1>1, <1>3, Stepped
<1>4. DbOwn(p, input[p], data.conn[p], data.db[p], at[p], to, p \notin data.killed)
  <2>1. DbOwn(p, input[p], data.conn[p], data.db[p], at[p], "header", TRUE)
    BY <1>1, <1>3, Stepped
  <2>2. data.conn[p].file = p /\ FreshFile(data.conn[p], data.db[p], at[p])
    BY <2>1 DEF DbOwn, Held
  <2>3. input[p] \in Documents
    BY <1>1, <1>3, Stepped
  <2>4. RowsInHand(input[p], data.conn[p], data.db[p], at[p], "rows")
    <3>1. ToDb!Kept(input[p])[0] = <<>> /\ Len(input[p].rows) \in Nat
      BY <2>3, KeptRows
    <3>2. <<>> \o <<>> = <<>> /\ Len(<<>>) = 0
      OBVIOUS
    <3> QED BY <2>2, <3>1, <3>2 DEF RowsInHand, FreshFile, ToDb!Empty
  <2> QED BY <1>1, <1>3, <2>2, <2>4 DEF DbOwn
<1>5. \A q \in ToDb!Run : DbNames(q)'
  BY <1>2, <1>3, <1>a, NamesStay DEF Held
<1> QED BY <1>2, <1>3, <1>4, <1>5, <1>a, StepIsGood

(* A run removes a temporary file only of a run that was killed: while another one
   holds it, the two are said to share it. *)
LEMMA UnlinkTmpIsGood ==
  ASSUME DbGood, NEW p \in ToDb!Run, ToDb!UnlinkTmp(p), ~data'.shared
  PROVE  DbGood'
PROOF
<1>1. ToDb!Step(p, "unlink", "open") /\ "open" \in DbStages
  BY DEF ToDb!UnlinkTmp, DbStages, Early
<1>2. UNCHANGED <<at, written>>
  BY DEF ToDb!UnlinkTmp
<1>3. /\ pc[p] = "unlink" /\ p \notin data.killed /\ pc' = [pc EXCEPT ![p] = "open"]
      /\ UNCHANGED <<opts, input>> /\ data \in DbData /\ written \in {0, 1, 2, 3} /\ at[p] \in Nat
      /\ at = [at EXCEPT ![p] = at[p]]
      /\ DbOwn(p, input[p], data.conn[p], data.db[p], at[p], "unlink", TRUE)
  BY <1>1, Stepped
<1>4. /\ data' \in DbData /\ data'.tmp = 0 /\ data'.conn = data.conn /\ data'.db = data.db
      /\ data'.killed = data.killed
      /\ data'.shared = (data.shared \/ \E q \in ToDb!Run \ {p} : ToDb!HasTmp(q))
  <2>1. data' = [data EXCEPT !.tmp = 0, !.shared = data.shared \/ \E q \in ToDb!Run \ {p} : ToDb!HasTmp(q)]
    BY DEF ToDb!UnlinkTmp, ToDb!NoFile
  <2> DEFINE t == data.shared \/ \E q \in ToDb!Run \ {p} : ToDb!HasTmp(q)
  <2>2. t \in BOOLEAN
    OBVIOUS
  <2> HIDE DEF t
  <2>3. data' = [data EXCEPT !.tmp = 0, !.shared = t]
    BY <2>1 DEF t
  <2>4. /\ data' \in DbData /\ data'.tmp = 0 /\ data'.conn = data.conn /\ data'.db = data.db
        /\ data'.killed = data.killed /\ data'.shared = t
    BY <1>3, <2>2, <2>3 DEF DbData
  <2> QED BY <2>4 DEF t
<1>5. DbOwn(p, input[p], data'.conn[p], data'.db[p], at[p], "open", p \notin data'.killed)
  BY <1>3, <1>4 DEF DbOwn, Early, Held
<1>6. ASSUME NEW q \in ToDb!Run \ {p} PROVE ~(pc[q] \in Held /\ q \notin data.killed)
  <2>1. ~ToDb!HasTmp(q)
    BY <1>4
  <2>2. pc[q] \in Held => data.conn[q].file = q
    BY DEF DbGood, DbOwnInv, DbOwn
  <2> QED BY <2>1, <2>2 DEF ToDb!HasTmp, ToDb!NoFile, Held, ToDb!Run
<1>7. \A q \in ToDb!Run : DbNames(q)'
  <2>1. pc \in [ToDb!Run -> DbStages] /\ \A q \in ToDb!Run : DbNames(q)
    BY DEF DbGood, DbType
  <2>2. pc'[p] = "open" /\ \A q \in ToDb!Run \ {p} : pc'[q] = pc[q]
    BY <1>3, <2>1
  <2>3. DbNames(p)'
    BY <1>2, <1>3, <2>1, <2>2 DEF DbNames, Held
  <2>4. ASSUME NEW q \in ToDb!Run \ {p} PROVE DbNames(q)'
    <3>1. DbNames(q) /\ ToDb!Run \ {q} = {p}
      BY <2>1 DEF ToDb!Run
    <3> QED BY <1>2, <1>3, <1>4, <1>6, <2>2, <3>1 DEF DbNames
  <2> QED BY <2>3, <2>4
<1> QED BY <1>1, <1>2, <1>3, <1>4, <1>5, <1>7, StepIsGood

(* The temporary file is new, and the run has it for itself. *)
LEMMA OpenIsGood ==
  ASSUME DbGood, NEW p \in ToDb!Run, ToDb!Open(p), ~data'.shared
  PROVE  DbGood'
PROOF
<1>1. ToDb!Step(p, "open", "header") /\ "header" \in DbStages
  BY DEF ToDb!Open, DbStages, Held
<1>2. UNCHANGED <<at, written>>
  BY DEF ToDb!Open
<1>3. /\ pc[p] = "open" /\ p \notin data.killed /\ pc' = [pc EXCEPT ![p] = "header"]
      /\ UNCHANGED <<opts, input>> /\ data \in DbData /\ written \in {0, 1, 2, 3} /\ at[p] \in Nat
      /\ at = [at EXCEPT ![p] = at[p]] /\ data.conn[p] \in DbConn /\ data.db[p] \in DbBase
      /\ DbOwn(p, input[p], data.conn[p], data.db[p], at[p], "open", TRUE)
  BY <1>1, Stepped
<1> DEFINE c == [data.conn[p] EXCEPT !.file = p]
<1>4. data.tmp = 0 /\ data' = [data EXCEPT !.tmp = p, !.conn[p] = c]
  <2>1. CASE data.tmp = 0
    BY <2>1 DEF ToDb!Open, ToDb!NoFile
  <2>2. CASE data.tmp # 0
    <3>1. data' = [data EXCEPT !.conn[p].file = data.tmp, !.shared = TRUE]
      BY <2>2 DEF ToDb!Open, ToDb!NoFile
    <3>2. data'.shared
      BY <1>3, <3>1 DEF DbData
    <3> QED BY <3>2
  <2> QED BY <2>1, <2>2
<1>5. /\ c \in DbConn /\ c.file = p /\ c.begun = data.conn[p].begun
      /\ c.inserts = data.conn[p].inserts /\ c.inserted = data.conn[p].inserted
  BY <1>3 DEF DbConn, ToDb!Run
<1> HIDE DEF c
<1>6. /\ data' \in DbData /\ data'.tmp = p /\ data'.db = data.db /\ data'.killed = data.killed
      /\ data'.conn[p] = c /\ \A q \in ToDb!Run \ {p} : data'.conn[q] = data.conn[q]
  BY <1>3, <1>4, <1>5 DEF DbData, ToDb!Run
<1>7. DbOwn(p, input[p], data'.conn[p], data'.db[p], at[p], "header", p \notin data'.killed)
  <2>1. FreshFile(data.conn[p], data.db[p], at[p])
    BY <1>3 DEF DbOwn, Early
  <2>2. FreshFile(c, data.db[p], at[p])
    BY <1>5, <2>1 DEF FreshFile
  <2> QED BY <1>5, <1>6, <2>2 DEF DbOwn, Early
<1>8. \A q \in ToDb!Run : DbNames(q)'
  <2>1. pc \in [ToDb!Run -> DbStages] /\ \A q \in ToDb!Run : DbNames(q)
    BY DEF DbGood, DbType
  <2>2. pc'[p] = "header" /\ \A q \in ToDb!Run \ {p} : pc'[q] = pc[q]
    BY <1>3, <2>1
  <2>3. DbNames(p)'
    BY <1>2, <1>3, <1>6, <2>1, <2>2 DEF DbNames, Held
  <2>4. ASSUME NEW q \in ToDb!Run \ {p} PROVE DbNames(q)'
    <3>1. DbNames(q) /\ ToDb!Run \ {q} = {p} /\ q # 0
      BY <2>1 DEF ToDb!Run
    <3> QED BY <1>2, <1>3, <1>4, <1>6, <2>2, <3>1 DEF DbNames
  <2> QED BY <2>3, <2>4
<1>9. \A q \in ToDb!Run \ {p} :
         /\ data'.conn[q] = data.conn[q] /\ data'.db[q] = data.db[q]
         /\ q \in data'.killed <=> q \in data.killed
  BY <1>6
<1>10. at' = [at EXCEPT ![p] = at[p]] /\ written' \in {0, 1, 2, 3} /\ data' \in DbData
  BY <1>2, <1>3, <1>6
<1>11. "header" \in DbStages /\ at[p] \in Nat /\ pc' = [pc EXCEPT ![p] = "header"] /\ UNCHANGED <<opts, input>>
  BY <1>1, <1>3
<1> QED BY <1>7, <1>8, <1>9, <1>10, <1>11, StepIsGood

(* A step of a run that has its file, or has given up, and leaves both names alone. *)
LEMMA RunStepIsGood ==
  ASSUME DbGood, NEW p \in ToDb!Run, NEW from \in Held \ {"rename"},
         NEW to \in (Held \ {"header"}) \cup {"failed"},
         NEW a \in Nat, ToDb!Step(p, from, to), OnlyOf(p, data, data'), written' = written,
         at' = [at EXCEPT ![p] = a],
         DbOwn(p, input[p], data'.conn[p], data'.db[p], a, to, TRUE)
  PROVE  DbGood'
PROOF
<1>1. to \in DbStages /\ to # "done" /\ to \notin {"check", "unlink"}
  BY DEF DbStages, Held
<1>2. /\ pc[p] = from /\ p \notin data.killed /\ pc' = [pc EXCEPT ![p] = to]
      /\ UNCHANGED <<opts, input>> /\ written \in {0, 1, 2, 3}
  BY <1>1, Stepped
<1>3. data'.tmp = data.tmp /\ data'.killed = data.killed /\ data' \in DbData
      /\ \A q \in ToDb!Run \ {p} : data'.conn[q] = data.conn[q] /\ data'.db[q] = data.db[q]
  BY DEF OnlyOf
<1>4. from \in Held /\ from \notin {"rename", "done"}
  BY DEF Held
<1>5. \A q \in ToDb!Run : DbNames(q)'
  <2>1. pc[p] \notin {"rename", "done"} /\ (to \in Held => pc[p] \in Held)
        /\ (to \in {"check", "unlink"} => pc[p] \in {"check", "unlink"})
    BY <1>1, <1>2, <1>4
  <2> QED BY <1>1, <1>2, <1>3, <2>1, NamesStay
<1>6. (p \notin data'.killed) = TRUE
  BY <1>2, <1>3
<1>7. DbOwn(p, input[p], data'.conn[p], data'.db[p], a, to, p \notin data'.killed)
  BY <1>6
<1>8. written' \in {0, 1, 2, 3}
  BY <1>2
<1>9. \A q \in ToDb!Run \ {p} :
         /\ data'.conn[q] = data.conn[q] /\ data'.db[q] = data.db[q]
         /\ q \in data'.killed <=> q \in data.killed
  BY <1>3
<1> QED BY <1>1, <1>2, <1>3, <1>5, <1>7, <1>8, <1>9, StepIsGood

(* Nothing is said of a run that has failed. *)
LEMMA FailedOwns ==
  ASSUME NEW p, NEW json, NEW c, NEW b, NEW a, NEW alive
  PROVE  DbOwn(p, json, c, b, a, "failed", alive)
BY DEF DbOwn, Held, Early

(* The process ends with a transaction open: it is rolled back. *)
LEMMA RolledBackDoes ==
  ASSUME NEW d \in DbData, NEW p \in ToDb!Run
  PROVE  LET e == ToDb!RolledBack(d, p) IN
         /\ OnlyOf(p, d, e) /\ e.db[p] = d.db[p]
         /\ e.conn[p] = [d.conn[p] EXCEPT !.inserts = <<>>]
PROOF
<1> DEFINE c == [d.conn[p] EXCEPT !.inserts = <<>>]
<1>1. d.conn[p] \in DbConn /\ d.db[p] \in DbBase /\ <<>> \in Seq(DbRow)
  BY DEF DbData
<1>2. c \in DbConn
  BY <1>1 DEF DbConn
<1>3. ToDb!RolledBack(d, p) = With(d, p, c, d.db[p])
  BY DEF ToDb!RolledBack, With, DbData
<1> HIDE DEF c
<1> QED BY <1>1, <1>2, <1>3, WithDoes DEF c

(* A row that is not blank is inserted. *)
LEMMA RowInHand ==
  ASSUME NEW json \in Documents, NEW c, NEW b, NEW c2, NEW b2, NEW a \in Nat,
         RowsInHand(json, c, b, a, "rows"), a < Len(json.rows), ToDb!HaveRowData(json, json.rows[a + 1]),
         c2.inserted = c.inserted + 1, ~c2.begun => c2.inserts = <<>>,
         b2.rows \o c2.inserts = Append(b.rows \o c.inserts, ToDb!RowValues(json, json.rows[a + 1])),
         b2.columns = json.columns, b2.indexes = b.indexes
  PROVE  RowsInHand(json, c2, b2, a + 1, "rows")
PROOF
<1> DEFINE kept == ToDb!Kept(json)
           values == ToDb!RowValues(json, json.rows[a + 1])
<1>a. Len(json.rows) \in Nat
  BY KeptRows
<1>1. a + 1 \in 1 .. Len(json.rows) /\ a \in 0 .. Len(json.rows) /\ Len(json.rows) \in Nat
      /\ a + 1 - 1 = a
  BY <1>a
<1>b. \A n \in 1 .. Len(json.rows) :
        kept[n] = IF ToDb!HaveRowData(json, json.rows[n])
                  THEN Append(kept[n - 1], ToDb!RowValues(json, json.rows[n]))
                  ELSE kept[n - 1]
  BY KeptRows
<1>c. kept[a] \in Seq(DbRow)
  BY <1>1, KeptRows
<1> HIDE DEF kept
<1>d. PICK n \in 1 .. Len(json.rows) : n = a + 1
  BY <1>1
<1>e. n - 1 = a /\ ToDb!HaveRowData(json, json.rows[n])
  BY <1>1, <1>d
<1>f. kept[n] = Append(kept[n - 1], ToDb!RowValues(json, json.rows[n]))
  BY <1>b, <1>e
<1>2. kept[a + 1] = Append(kept[a], values) /\ kept[a] \in Seq(DbRow)
  BY <1>c, <1>d, <1>e, <1>f
<1> HIDE DEF kept, values
<1>3. Len(kept[a + 1]) = Len(kept[a]) + 1 /\ Len(kept[a]) \in Nat
  BY <1>2
<1>4. b.rows \o c.inserts = kept[a] /\ c.inserted = Len(kept[a]) /\ b.indexes = <<>>
  BY DEF RowsInHand, kept
<1>5. b2.rows \o c2.inserts = kept[a + 1]
  BY <1>2, <1>4 DEF values
<1>6. c2.inserted = Len(kept[a + 1]) /\ c2.inserted # 0
  BY <1>3, <1>4
<1> QED BY <1>1, <1>4, <1>5, <1>6 DEF RowsInHand, kept

(* The table has the columns of the document, and its first row. *)
LEMMA CreateTableIsGood ==
  ASSUME DbGood, NEW p \in ToDb!Run, ToDb!CreateTable(p)
  PROVE  DbGood'
PROOF
<1> DEFINE json == input[p]
           row == json.rows[at[p] + 1]
           values == ToDb!RowValues(json, row)
           c == data.conn[p]
           b == data.db[p]
           b1 == [b EXCEPT !.columns = json.columns]
           d == [data EXCEPT !.db[data.conn[p].file].columns = json.columns]
           e == ToDb!Inserted(d, p, values)
<1>1. /\ at[p] < Len(json.rows) /\ ToDb!HaveRowData(json, row) /\ c.inserted = 0
      /\ \/ ToDb!Step(p, "rows", "failed") /\ UNCHANGED <<at, data, written>>
         \/ /\ ToDb!Step(p, "rows", "rows") /\ UNCHANGED written
            /\ data' = e /\ at' = [at EXCEPT ![p] = @ + 1]
  BY DEF ToDb!CreateTable
<1> HIDE DEF e
<1>2. "rows" \in Held \ {"rename"} /\ "rows" \in (Held \ {"header"}) \cup {"failed"} /\ "rows" \in DbStages
      /\ "failed" \in (Held \ {"header"}) \cup {"failed"} /\ "failed" \in DbStages
  BY DEF DbStages, Held
<1>3. \E to \in DbStages : ToDb!Step(p, "rows", to)
  BY <1>1, <1>2
<1>4. /\ data \in DbData /\ at[p] \in Nat /\ at = [at EXCEPT ![p] = at[p]]
      /\ json \in Documents /\ c \in DbConn /\ b \in DbBase
      /\ DbOwn(p, json, c, b, at[p], "rows", TRUE)
  BY <1>3, Stepped
<1>5. CASE ToDb!Step(p, "rows", "failed") /\ UNCHANGED <<at, data, written>>
  <2>1. OnlyOf(p, data, data')
    BY <1>4, <1>5 DEF OnlyOf
  <2>2. at' = [at EXCEPT ![p] = at[p]] /\ written' = written
    BY <1>4, <1>5
  <2> HIDE DEF json
  <2>3. DbOwn(p, input[p], data'.conn[p], data'.db[p], at[p], "failed", TRUE)
    BY FailedOwns
  <2> QED BY <1>2, <1>4, <1>5, <2>1, <2>2, <2>3, RunStepIsGood
<1>6. CASE /\ ToDb!Step(p, "rows", "rows") /\ UNCHANGED written
           /\ data' = e /\ at' = [at EXCEPT ![p] = @ + 1]
  <2>2. c.file = p /\ RowsInHand(json, c, b, at[p], "rows")
    BY <1>4 DEF DbOwn, Held
  <2>3. d = With(data, p, c, b1)
    BY <1>4, <2>2 DEF With, DbData
  <2>4. b1 \in DbBase /\ b1.rows = b.rows /\ b1.indexes = b.indexes /\ b1.columns = json.columns
    BY <1>4 DEF DbBase, Documents
  <2>a. Len(json.rows) \in Nat
    BY <1>4, KeptRows
  <2>b. at[p] + 1 \in 1 .. Len(json.rows)
    BY <1>1, <1>4, <2>a
  <2>7. row \in DbRow
    BY <1>4, <2>b, KeptRows
  <2>8. values \in DbRow
    BY <1>4, <2>7, RowValuesType
  <2>c. e = ToDb!Inserted(d, p, values)
    BY DEF e
  <2> HIDE DEF c, b, b1, d, values
  <2>5. OnlyOf(p, data, d) /\ d.conn[p] = c /\ d.db[p] = b1
    BY <1>4, <2>3, <2>4, WithDoes DEF c
  <2>6. d \in DbData /\ (~c.begun => c.inserts = <<>>)
    BY <2>2, <2>5 DEF OnlyOf, RowsInHand
  <2>d. d.conn[p].file = p /\ (~d.conn[p].begun => d.conn[p].inserts = <<>>)
    BY <2>2, <2>5, <2>6
  <2>e. /\ OnlyOf(p, d, e)
        /\ e.conn[p].file = p /\ e.conn[p].inserted = d.conn[p].inserted + 1
        /\ ~e.conn[p].begun => e.conn[p].inserts = <<>>
        /\ e.db[p].rows \o e.conn[p].inserts = Append(d.db[p].rows \o d.conn[p].inserts, values)
        /\ e.db[p].columns = d.db[p].columns /\ e.db[p].indexes = d.db[p].indexes
    <3>1. LET f == ToDb!Inserted(d, p, values) IN
          /\ OnlyOf(p, d, f)
          /\ f.conn[p].file = p /\ f.conn[p].inserted = d.conn[p].inserted + 1
          /\ ~f.conn[p].begun => f.conn[p].inserts = <<>>
          /\ f.db[p].rows \o f.conn[p].inserts = Append(d.db[p].rows \o d.conn[p].inserts, values)
          /\ f.db[p].columns = d.db[p].columns /\ f.db[p].indexes = d.db[p].indexes
      <4>1. d \in DbData /\ values \in DbRow
        BY <2>6, <2>8
      <4> QED BY <2>d, <4>1, InsertedDoes
    <3> HIDE DEF e
    <3> QED BY <2>c, <3>1
  <2>9. /\ e.conn[p].inserted = c.inserted + 1
        /\ e.db[p].rows \o e.conn[p].inserts = Append(b.rows \o c.inserts, values)
        /\ e.db[p].columns = json.columns /\ e.db[p].indexes = b.indexes
    BY <2>4, <2>5, <2>e
  <2>10. OnlyOf(p, data, e)
    BY <2>5, <2>e DEF OnlyOf
  <2>11. RowsInHand(json, e.conn[p], e.db[p], at[p] + 1, "rows")
    BY <1>1, <1>4, <2>2, <2>9, <2>e, RowInHand DEF values
  <2>12. DbOwn(p, json, e.conn[p], e.db[p], at[p] + 1, "rows", TRUE)
    BY <2>e, <2>11 DEF DbOwn, Early
  <2>13. OnlyOf(p, data, data') /\ DbOwn(p, input[p], data'.conn[p], data'.db[p], at[p] + 1, "rows", TRUE)
    BY <1>6, <2>10, <2>12
  <2>14. at[p] + 1 \in Nat /\ at' = [at EXCEPT ![p] = at[p] + 1] /\ written' = written
    BY <1>4, <1>6
  <2> HIDE DEF json
  <2> QED BY <1>2, <1>6, <2>13, <2>14, RunStepIsGood
<1> QED BY <1>1, <1>5, <1>6

(* A row is read; if it is not blank, it is behind the others. *)
LEMMA InsertRowIsGood ==
  ASSUME DbGood, NEW p \in ToDb!Run, ToDb!InsertRow(p)
  PROVE  DbGood'
PROOF
<1> DEFINE json == input[p]
           row == json.rows[at[p] + 1]
           c == data.conn[p]
           b == data.db[p]
           e == IF ToDb!HaveRowData(json, row) THEN ToDb!Inserted(data, p, ToDb!RowValues(json, row)) ELSE data
<1>1. /\ at[p] < Len(json.rows) /\ (ToDb!HaveRowData(json, row) => c.inserted > 0)
      /\ ToDb!Step(p, "rows", "rows") /\ UNCHANGED written
      /\ data' = e /\ at' = [at EXCEPT ![p] = @ + 1]
  BY DEF ToDb!InsertRow
<1>2. "rows" \in Held \ {"rename"} /\ "rows" \in (Held \ {"header"}) \cup {"failed"} /\ "rows" \in DbStages
  BY DEF DbStages, Held
<1>3. /\ pc[p] = "rows" /\ p \notin data.killed /\ pc' = [pc EXCEPT ![p] = "rows"]
      /\ UNCHANGED <<opts, input>> /\ data \in DbData /\ written \in {0, 1, 2, 3} /\ at[p] \in Nat
      /\ json \in Documents /\ c \in DbConn /\ b \in DbBase
      /\ DbOwn(p, json, c, b, at[p], "rows", TRUE)
  BY <1>1, <1>2, Stepped
<1>4. c.file = p /\ RowsInHand(json, c, b, at[p], "rows")
  BY <1>3 DEF DbOwn, Held
<1>5. at[p] + 1 \in 1 .. Len(json.rows) /\ row \in DbRow
  <2>1. at[p] + 1 \in 1 .. Len(json.rows)
    BY <1>1, <1>3, KeptRows
  <2> QED BY <1>3, <2>1, KeptRows
<1> HIDE DEF e
<1>6. /\ OnlyOf(p, data, e) /\ e.conn[p].file = p
      /\ RowsInHand(json, e.conn[p], e.db[p], at[p] + 1, "rows")
  <2>1. CASE ToDb!HaveRowData(json, row)
    <3>1. e = ToDb!Inserted(data, p, ToDb!RowValues(json, row))
      BY <2>1 DEF e
    <3>2. ToDb!RowValues(json, row) \in DbRow
      BY <1>3, <1>5, RowValuesType
    <3>3. ~c.begun => c.inserts = <<>>
      BY <1>4 DEF RowsInHand
    <3> HIDE DEF json, row
    <3>4. /\ OnlyOf(p, data, e)
          /\ e.conn[p].file = p /\ e.conn[p].inserted = c.inserted + 1
          /\ ~e.conn[p].begun => e.conn[p].inserts = <<>>
          /\ e.db[p].rows \o e.conn[p].inserts = Append(b.rows \o c.inserts, ToDb!RowValues(json, row))
          /\ e.db[p].columns = b.columns /\ e.db[p].indexes = b.indexes
      <4> DEFINE v == ToDb!RowValues(json, row)
      <4>1. /\ data \in DbData /\ v \in DbRow /\ data.conn[p].file = p
            /\ ~data.conn[p].begun => data.conn[p].inserts = <<>>
        BY <1>3, <1>4, <3>2, <3>3
      <4> HIDE DEF v
      <4>2. LET d == ToDb!Inserted(data, p, v) IN
            /\ OnlyOf(p, data, d)
            /\ d.conn[p].file = p /\ d.conn[p].inserted = data.conn[p].inserted + 1
            /\ ~d.conn[p].begun => d.conn[p].inserts = <<>>
            /\ d.db[p].rows \o d.conn[p].inserts = Append(data.db[p].rows \o data.conn[p].inserts, v)
            /\ d.db[p].columns = data.db[p].columns /\ d.db[p].indexes = data.db[p].indexes
        BY <4>1, InsertedDoes
      <4>3. e = ToDb!Inserted(data, p, v)
        BY <3>1 DEF v
      <4> QED BY <4>2, <4>3 DEF v
    <3>5. b.columns = json.columns
      BY <1>1, <1>4, <2>1 DEF RowsInHand
    <3> QED BY <1>1, <1>3, <1>4, <2>1, <3>4, <3>5, RowInHand DEF row
  <2>2. CASE ~ToDb!HaveRowData(json, row)
    <3>1. e = data
      BY <2>2 DEF e
    <3>2. ToDb!Kept(json)[at[p] + 1] = ToDb!Kept(json)[at[p]]
      <4>1. at[p] + 1 - 1 = at[p]
        BY <1>3
      <4> QED BY <1>3, <1>5, <2>2, <4>1, KeptRows
    <3>3. RowsInHand(json, c, b, at[p] + 1, "rows")
      BY <1>3, <1>4, <1>5, <3>2 DEF RowsInHand
    <3> QED BY <1>3, <1>4, <3>1, <3>3 DEF OnlyOf
  <2> QED BY <2>1, <2>2
<1>7. DbOwn(p, json, e.conn[p], e.db[p], at[p] + 1, "rows", TRUE)
  BY <1>6 DEF DbOwn, Early
<1>8. OnlyOf(p, data, data') /\ DbOwn(p, input[p], data'.conn[p], data'.db[p], at[p] + 1, "rows", TRUE)
  BY <1>1, <1>6, <1>7
<1>9. at[p] + 1 \in Nat /\ at' = [at EXCEPT ![p] = at[p] + 1] /\ written' = written
  BY <1>1, <1>3
<1>10. ToDb!Step(p, "rows", "rows")
  BY <1>1
<1> HIDE DEF json
<1> QED BY <1>2, <1>8, <1>9, <1>10, RunStepIsGood

(* Behind the last row; a document that is torn ends the run here. *)
LEMMA EndOfInputIsGood ==
  ASSUME DbGood, NEW p \in ToDb!Run, ToDb!EndOfInput(p)
  PROVE  DbGood'
PROOF
<1> DEFINE json == input[p]
           c == data.conn[p]
           b == data.db[p]
<1>1. at[p] = Len(json.rows) /\ UNCHANGED <<at, written>>
  BY DEF ToDb!EndOfInput
<1>2. /\ "rows" \in Held \ {"rename"} /\ "failed" \in DbStages /\ "indexes" \in DbStages
      /\ "failed" \in (Held \ {"header"}) \cup {"failed"} /\ "indexes" \in (Held \ {"header"}) \cup {"failed"}
  BY DEF DbStages, Held
<1>3. \E to \in DbStages : ToDb!Step(p, "rows", to)
  BY <1>2 DEF ToDb!EndOfInput
<1>4. /\ data \in DbData /\ at[p] \in Nat /\ at = [at EXCEPT ![p] = at[p]]
      /\ json \in Documents /\ c \in DbConn /\ b \in DbBase
      /\ DbOwn(p, json, c, b, at[p], "rows", TRUE)
  BY <1>3, Stepped
<1>a. at' = [at EXCEPT ![p] = at[p]] /\ written' = written
  BY <1>1, <1>4
<1>5. CASE json.torn
  <2>1. ToDb!Step(p, "rows", "failed") /\ data' = ToDb!RolledBack(data, p)
    BY <1>5 DEF ToDb!EndOfInput
  <2>2. OnlyOf(p, data, data')
    BY <1>4, <2>1, RolledBackDoes
  <2> HIDE DEF json
  <2>3. DbOwn(p, input[p], data'.conn[p], data'.db[p], at[p], "failed", TRUE)
    BY FailedOwns
  <2> QED BY <1>2, <1>4, <1>a, <2>1, <2>2, <2>3, RunStepIsGood
<1>6. CASE ~json.torn
  <2>1. ToDb!Step(p, "rows", "indexes") /\ data' = data
    BY <1>6 DEF ToDb!EndOfInput
  <2>2. OnlyOf(p, data, data')
    BY <1>4, <2>1 DEF OnlyOf
  <2>3. c.file = p /\ RowsInHand(json, c, b, at[p], "rows")
    BY <1>4 DEF DbOwn, Held
  <2>4. RowsInHand(json, c, b, at[p], "indexes")
    BY <1>1, <1>6, <2>3 DEF RowsInHand
  <2>5. DbOwn(p, json, c, b, at[p], "indexes", TRUE)
    BY <2>3, <2>4 DEF DbOwn, Early
  <2>6. DbOwn(p, input[p], data'.conn[p], data'.db[p], at[p], "indexes", TRUE)
    BY <2>1, <2>5
  <2> HIDE DEF json
  <2> QED BY <1>2, <1>4, <1>a, <2>1, <2>2, <2>6, RunStepIsGood
<1> QED BY <1>5, <1>6

(* All the indexes of the document, or the run fails. *)
LEMMA AddIndexesIsGood ==
  ASSUME DbGood, NEW p \in ToDb!Run, ToDb!AddIndexes(p)
  PROVE  DbGood'
PROOF
<1> DEFINE json == input[p]
           ixs == json.indexes
           c == data.conn[p]
           b == data.db[p]
           rows == ToDb!Database(p).rows \o data.conn[p].inserts
           able == \A n \in DOMAIN ixs : ToDb!CanIndex(ixs[n], ToDb!Database(p).columns, rows)
<1>1. /\ UNCHANGED <<at, written>>
      /\ \/ /\ able /\ ToDb!Step(p, "indexes", "commit")
            /\ data' = [data EXCEPT !.db[data.conn[p].file].indexes = @ \o ixs]
         \/ ToDb!Step(p, "indexes", "failed") /\ data' = ToDb!RolledBack(data, p)
  BY DEF ToDb!AddIndexes
<1> HIDE DEF able, rows
<1>2. /\ "indexes" \in Held \ {"rename"} /\ "failed" \in DbStages /\ "commit" \in DbStages
      /\ "failed" \in (Held \ {"header"}) \cup {"failed"} /\ "commit" \in (Held \ {"header"}) \cup {"failed"}
  BY DEF DbStages, Held
<1>3. \E to \in DbStages : ToDb!Step(p, "indexes", to)
  BY <1>1, <1>2
<1>4. /\ data \in DbData /\ at[p] \in Nat /\ at = [at EXCEPT ![p] = at[p]]
      /\ json \in Documents /\ c \in DbConn /\ b \in DbBase
      /\ DbOwn(p, json, c, b, at[p], "indexes", TRUE)
  BY <1>3, Stepped
<1>a. at' = [at EXCEPT ![p] = at[p]] /\ written' = written
  BY <1>1, <1>4
<1>5. CASE ToDb!Step(p, "indexes", "failed") /\ data' = ToDb!RolledBack(data, p)
  <2>2. OnlyOf(p, data, data')
    BY <1>4, <1>5, RolledBackDoes
  <2> HIDE DEF json
  <2>3. DbOwn(p, input[p], data'.conn[p], data'.db[p], at[p], "failed", TRUE)
    BY FailedOwns
  <2> QED BY <1>2, <1>4, <1>a, <1>5, <2>2, <2>3, RunStepIsGood
<1>6. CASE /\ able /\ ToDb!Step(p, "indexes", "commit")
           /\ data' = [data EXCEPT !.db[data.conn[p].file].indexes = @ \o ixs]
  <2> DEFINE b1 == [b EXCEPT !.indexes = ixs]
  <2>1. c.file = p /\ RowsInHand(json, c, b, at[p], "indexes")
    BY <1>4 DEF DbOwn, Held
  <2>2. b.indexes = <<>> /\ ixs \in Seq(DbIndex)
    BY <1>4, <2>1 DEF RowsInHand, Documents, DbIndex
  <2>3. b.indexes \o ixs = ixs
    BY <2>2
  <2>4. b1 \in DbBase /\ b1.rows = b.rows /\ b1.columns = b.columns /\ b1.indexes = ixs
    BY <1>4, <2>2 DEF DbBase
  <2>5. data' = With(data, p, c, b1)
    <3>1. data' = [data EXCEPT !.db[p].indexes = ixs]
      BY <1>4, <1>6, <2>1, <2>3
    <3> QED BY <1>4, <3>1 DEF With, DbData
  <2>6. rows = b.rows \o c.inserts /\ ToDb!Database(p).columns = b.columns
    BY <2>1 DEF rows, ToDb!Database
  <2> HIDE DEF b1, c, b
  <2>7. OnlyOf(p, data, data') /\ data'.conn[p] = c /\ data'.db[p] = b1
    BY <1>4, <2>4, <2>5, WithDoes
  <2>8. RowsInHand(json, c, b1, at[p], "commit")
    <3>1. rows = ToDb!Kept(json)[at[p]]
      BY <2>1, <2>6 DEF RowsInHand
    <3>2. \A n \in DOMAIN ixs : ToDb!CanIndex(ixs[n], b1.columns, ToDb!Kept(json)[at[p]])
      BY <1>6, <2>4, <2>6, <3>1 DEF able
    <3> HIDE DEF json
    <3> QED BY <2>1, <2>4, <3>2 DEF RowsInHand
  <2>9. DbOwn(p, json, c, b1, at[p], "commit", TRUE)
    BY <2>1, <2>8 DEF DbOwn, Early
  <2>10. DbOwn(p, input[p], data'.conn[p], data'.db[p], at[p], "commit", TRUE)
    BY <2>7, <2>9
  <2> HIDE DEF json
  <2> QED BY <1>2, <1>4, <1>6, <1>a, <2>7, <2>10, RunStepIsGood
<1> QED BY <1>1, <1>5, <1>6

(* What is committed is the database of the whole input. *)
LEMMA CommittedIsComplete ==
  ASSUME NEW json \in Documents, NEW c, NEW b, NEW b2 \in DbBase, NEW a, RowsInHand(json, c, b, a, "commit"),
         b2.rows = b.rows \o c.inserts, b2.columns = b.columns, b2.indexes = b.indexes
  PROVE  DbComplete(json, b2)
PROOF
<1> DEFINE rows == ToDb!Kept(json)[Len(json.rows)]
<1>1. /\ a = Len(json.rows) /\ ~json.torn /\ b.rows \o c.inserts = rows /\ c.inserted = Len(rows)
      /\ b.columns = IF c.inserted = 0 THEN <<>> ELSE json.columns
      /\ b.indexes = json.indexes
      /\ \A n \in DOMAIN json.indexes : ToDb!CanIndex(json.indexes[n], b.columns, rows)
  BY DEF RowsInHand
<1>2. Len(json.rows) \in 0 .. Len(json.rows)
  <2>1. Len(json.rows) \in Nat
    BY KeptRows
  <2> QED BY <2>1
<1>3. rows \in Seq(DbRow)
  BY <1>2, KeptRows
<1> HIDE DEF rows
<1>4. Len(rows) = 0 <=> rows = <<>>
  BY <1>3
<1>5. b2 = [columns |-> IF rows = <<>> THEN <<>> ELSE json.columns, rows |-> rows, indexes |-> json.indexes]
  <2>1. b2 = [columns |-> b2.columns, rows |-> b2.rows, indexes |-> b2.indexes]
    BY DEF DbBase
  <2>2. b2.columns = (IF rows = <<>> THEN <<>> ELSE json.columns) /\ b2.rows = rows /\ b2.indexes = json.indexes
    BY <1>1, <1>4
  <2> QED BY <2>1, <2>2
<1>6. b2 = ToDb!Expected(json)
  BY <1>5 DEF ToDb!Expected, rows
<1>7. b2.columns = b.columns /\ b2.rows = rows
  BY <1>1
<1> QED BY <1>1, <1>6, <1>7 DEF DbComplete

(* What was in hand is in the file, and nothing is missing. *)
LEMMA CommitAndCloseIsGood ==
  ASSUME DbGood, NEW p \in ToDb!Run, ToDb!CommitAndClose(p)
  PROVE  DbGood'
PROOF
<1> DEFINE json == input[p]
           c == data.conn[p]
           b == data.db[p]
<1>1. ToDb!Step(p, "commit", "replace") /\ data' = ToDb!Committed(data, p) /\ UNCHANGED <<at, written>>
  BY DEF ToDb!CommitAndClose, ToDb!Close
<1>2. /\ "commit" \in Held \ {"rename"} /\ "replace" \in DbStages
      /\ "replace" \in (Held \ {"header"}) \cup {"failed"}
  BY DEF DbStages, Held
<1>4. /\ data \in DbData /\ at[p] \in Nat /\ at = [at EXCEPT ![p] = at[p]]
      /\ json \in Documents /\ c \in DbConn /\ b \in DbBase
      /\ DbOwn(p, json, c, b, at[p], "commit", TRUE)
  BY <1>1, <1>2, Stepped
<1>a. at' = [at EXCEPT ![p] = at[p]] /\ written' = written
  BY <1>1, <1>4
<1>5. c.file = p /\ RowsInHand(json, c, b, at[p], "commit")
  BY <1>4 DEF DbOwn, Held
<1>6. /\ OnlyOf(p, data, data')
      /\ data'.conn[p] = [c EXCEPT !.inserts = <<>>, !.begun = FALSE]
      /\ data'.db[p] = [b EXCEPT !.rows = @ \o c.inserts]
  BY <1>1, <1>4, <1>5, CommittedDoes
<1>7. data' \in DbData
  BY <1>6 DEF OnlyOf
<1>8. data'.db[p] \in DbBase
  BY <1>7 DEF DbData
<1> HIDE DEF c, b
<1>9. /\ data'.db[p].rows = b.rows \o c.inserts /\ data'.db[p].columns = b.columns
      /\ data'.db[p].indexes = b.indexes /\ data'.conn[p].file = p
  BY <1>4, <1>5, <1>6 DEF DbBase, DbConn
<1>10. DbComplete(json, data'.db[p])
  BY <1>4, <1>5, <1>8, <1>9, CommittedIsComplete
<1>11. DbOwn(p, json, data'.conn[p], data'.db[p], at[p], "replace", TRUE)
  BY <1>9, <1>10 DEF DbOwn, Early
<1>12. DbOwn(p, input[p], data'.conn[p], data'.db[p], at[p], "replace", TRUE)
  BY <1>11
<1> HIDE DEF json
<1> QED BY <1>1, <1>2, <1>4, <1>6, <1>a, <1>12, RunStepIsGood

(* The old output is gone, and the temporary file is still there to take its place. *)
LEMMA UnlinkOutputIsGood ==
  ASSUME DbGood, NEW p \in ToDb!Run, ToDb!UnlinkOutput(p)
  PROVE  DbGood'
PROOF
<1>1. ToDb!Step(p, "replace", "rename") /\ "rename" \in DbStages
  BY DEF ToDb!UnlinkOutput, DbStages, Held
<1>2. UNCHANGED <<at, data>> /\ written' = 0
  BY DEF ToDb!UnlinkOutput, ToDb!NoFile
<1>3. /\ pc[p] = "replace" /\ p \notin data.killed /\ pc' = [pc EXCEPT ![p] = "rename"]
      /\ UNCHANGED <<opts, input>> /\ data \in DbData /\ at[p] \in Nat
      /\ at = [at EXCEPT ![p] = at[p]]
      /\ DbOwn(p, input[p], data.conn[p], data.db[p], at[p], "replace", TRUE)
  BY <1>1, Stepped
<1>4. DbOwn(p, input[p], data'.conn[p], data'.db[p], at[p], "rename", p \notin data'.killed)
  BY <1>2, <1>3 DEF DbOwn, Early, Held
<1>5. \A q \in ToDb!Run : DbNames(q)'
  <2>1. pc \in [ToDb!Run -> DbStages] /\ \A q \in ToDb!Run : DbNames(q)
    BY DEF DbGood, DbType
  <2>2. pc'[p] = "rename" /\ \A q \in ToDb!Run \ {p} : pc'[q] = pc[q]
    BY <1>3, <2>1
  <2>3. 0 \notin ToDb!Run
    BY DEF ToDb!Run
  <2>4. DbNames(p)'
    BY <1>2, <1>3, <2>1, <2>2, <2>3 DEF DbNames, Held
  <2>5. ASSUME NEW q \in ToDb!Run \ {p} PROVE DbNames(q)'
    <3>1. DbNames(q) /\ ToDb!Run \ {q} = {p}
      BY <2>1 DEF ToDb!Run
    <3> QED BY <1>2, <1>3, <2>2, <2>3, <3>1 DEF DbNames
  <2> QED BY <2>4, <2>5
<1>6. \A q \in ToDb!Run \ {p} :
         /\ data'.conn[q] = data.conn[q] /\ data'.db[q] = data.db[q]
         /\ q \in data'.killed <=> q \in data.killed
  BY <1>2
<1>7. at' = [at EXCEPT ![p] = at[p]] /\ written' \in {0, 1, 2, 3} /\ data' \in DbData
  BY <1>2, <1>3
<1>8. "rename" \in DbStages /\ at[p] \in Nat /\ pc' = [pc EXCEPT ![p] = "rename"] /\ UNCHANGED <<opts, input>>
  BY <1>1, <1>3
<1> QED BY <1>4, <1>5, <1>6, <1>7, <1>8, StepIsGood

(* The temporary file becomes the output. *)
LEMMA RenameIsGood ==
  ASSUME DbGood, NEW p \in ToDb!Run, ToDb!Rename(p)
  PROVE  DbGood'
PROOF
<1>a. \E to \in DbStages : ToDb!Step(p, "rename", to)
  BY DEF ToDb!Rename, DbStages
<1>b. /\ pc[p] = "rename" /\ p \notin data.killed
      /\ UNCHANGED <<opts, input>> /\ data \in DbData /\ at[p] \in Nat
      /\ at = [at EXCEPT ![p] = at[p]]
      /\ DbOwn(p, input[p], data.conn[p], data.db[p], at[p], "rename", TRUE)
  BY <1>a, Stepped
<1>c. pc \in [ToDb!Run -> DbStages] /\ \A q \in ToDb!Run : DbNames(q)
  BY DEF DbGood, DbType
<1>1. data.tmp = p /\ p # 0
  BY <1>b, <1>c DEF DbNames, Held, ToDb!Run
<1>2. /\ ToDb!Step(p, "rename", "done") /\ "done" \in DbStages
      /\ written' = p /\ data' = [data EXCEPT !.tmp = 0] /\ UNCHANGED at
  BY <1>1 DEF ToDb!Rename, ToDb!NoFile, DbStages
<1>3. /\ data'.tmp = 0 /\ data'.db = data.db /\ data'.conn = data.conn
      /\ data'.killed = data.killed /\ data' \in DbData
  BY <1>2, <1>b DEF DbData
<1>4. DbOwn(p, input[p], data'.conn[p], data'.db[p], at[p], "done", p \notin data'.killed)
  BY <1>3, <1>b DEF DbOwn, Early, Held
<1>5. pc' = [pc EXCEPT ![p] = "done"]
  BY <1>2 DEF ToDb!Step
<1>6. \A q \in ToDb!Run : DbNames(q)'
  <2>2. pc'[p] = "done" /\ \A q \in ToDb!Run \ {p} : pc'[q] = pc[q]
    BY <1>5, <1>c
  <2>3. "done" \notin Held
    BY DEF Held
  <2>4. DbNames(p)'
    BY <1>1, <1>2, <2>2, <2>3 DEF DbNames
  <2>5. ASSUME NEW q \in ToDb!Run \ {p} PROVE DbNames(q)'
    <3>1. DbNames(q) /\ ToDb!Run \ {q} = {p} /\ q # p
      BY <1>c DEF ToDb!Run
    <3> QED BY <1>1, <1>2, <1>3, <2>2, <3>1 DEF DbNames
  <2> QED BY <2>4, <2>5
<1>7. \A q \in ToDb!Run \ {p} :
         /\ data'.conn[q] = data.conn[q] /\ data'.db[q] = data.db[q]
         /\ q \in data'.killed <=> q \in data.killed
  BY <1>3
<1>8. at' = [at EXCEPT ![p] = at[p]] /\ written' \in {0, 1, 2, 3} /\ data' \in DbData
  BY <1>2, <1>3, <1>b DEF ToDb!Run
<1>9. "done" \in DbStages /\ at[p] \in Nat /\ UNCHANGED <<opts, input>>
  BY <1>2, <1>b
<1> QED BY <1>4, <1>5, <1>6, <1>7, <1>8, <1>9, StepIsGood

(* What was not committed is lost; the file of a run that is past its commit is whole. *)
LEMMA KillIsGood ==
  ASSUME DbGood, NEW p \in ToDb!Run, ToDb!Kill(p)
  PROVE  DbGood'
PROOF
<1> DEFINE c == data.conn[p]
           e == ToDb!RolledBack(data, p)
<1>1. /\ pc[p] \notin {"failed", "done"} /\ p \notin data.killed
      /\ data' = [e EXCEPT !.killed = @ \cup {p}]
      /\ UNCHANGED <<opts, input, at, written, pc>>
  BY DEF ToDb!Kill
<1>2. /\ data \in DbData /\ at[p] \in Nat /\ at = [at EXCEPT ![p] = at[p]] /\ pc = [pc EXCEPT ![p] = pc[p]]
      /\ pc[p] \in DbStages /\ pc \in [ToDb!Run -> DbStages] /\ written \in {0, 1, 2, 3}
      /\ DbOwnInv(p) /\ \A q \in ToDb!Run : DbNames(q)
  BY DEF DbGood, DbType
<1>3. OnlyOf(p, data, e) /\ e.db[p] = data.db[p] /\ e.conn[p] = [c EXCEPT !.inserts = <<>>]
  BY <1>2, RolledBackDoes
<1>4. c \in DbConn
  BY <1>2 DEF DbData
<1> HIDE DEF c, e
<1>5. /\ e.conn[p].file = c.file /\ e.conn[p].inserts = <<>>
      /\ e.conn[p].inserted = c.inserted /\ e.conn[p].begun = c.begun
  BY <1>3, <1>4 DEF DbConn
<1>6. e \in DbData /\ e.tmp = data.tmp /\ e.killed = data.killed
      /\ \A q \in ToDb!Run \ {p} : e.conn[q] = data.conn[q] /\ e.db[q] = data.db[q]
  BY <1>3 DEF OnlyOf
<1>7. data' \in DbData /\ data'.tmp = e.tmp /\ data'.conn = e.conn /\ data'.db = e.db
      /\ data'.killed = data.killed \cup {p}
  BY <1>1, <1>6 DEF DbData
<1>8. DbOwn(p, input[p], c, data.db[p], at[p], pc[p], TRUE)
  BY <1>1, <1>2 DEF DbOwnInv, c
<1>9. DbOwn(p, input[p], data'.conn[p], data'.db[p], at[p], pc[p], FALSE)
  <2>1. /\ data'.db[p] = data.db[p] /\ data'.conn[p].file = c.file
        /\ FreshFile(c, data.db[p], at[p]) => FreshFile(data'.conn[p], data'.db[p], at[p])
    BY <1>3, <1>5, <1>7 DEF FreshFile
  <2> QED BY <1>8, <2>1 DEF DbOwn
<1>10. \A q \in ToDb!Run : DbNames(q)'
  BY <1>1, <1>2, <1>6, <1>7 DEF DbNames
<1>11. \A q \in ToDb!Run \ {p} :
         /\ data'.conn[q] = data.conn[q] /\ data'.db[q] = data.db[q]
         /\ q \in data'.killed <=> q \in data.killed
  BY <1>6, <1>7
<1>12. (p \notin data'.killed) = FALSE
  BY <1>7
<1>13. DbOwn(p, input[p], data'.conn[p], data'.db[p], at[p], pc[p], p \notin data'.killed)
  BY <1>9, <1>12
<1>14. at' = [at EXCEPT ![p] = at[p]] /\ written' \in {0, 1, 2, 3} /\ data' \in DbData
       /\ pc' = [pc EXCEPT ![p] = pc[p]] /\ UNCHANGED <<opts, input>>
  BY <1>1, <1>2, <1>7
<1>15. pc[p] \in DbStages /\ at[p] \in Nat
  BY <1>2
<1> QED BY <1>10, <1>11, <1>13, <1>14, <1>15, StepIsGood

(* The fields stay what they are. *)
DbShape(d) ==
  d = [tmp |-> d.tmp, db |-> d.db, conn |-> d.conn, killed |-> d.killed, shared |-> d.shared]
Kin(d, e) == DbShape(d) => DbShape(e) /\ e.shared = d.shared

(* A step that changes one field. *)
LEMMA KinFields ==
  ASSUME NEW d, NEW e, NEW x,
         \/ e = d
         \/ e = [d EXCEPT !.tmp = x]
         \/ e = [d EXCEPT !.db = x]
         \/ e = [d EXCEPT !.conn = x]
         \/ e = [d EXCEPT !.killed = x]
  PROVE  Kin(d, e)
BY DEF Kin, DbShape

(* One step behind the other. *)
LEMMA KinSteps ==
  ASSUME NEW d, NEW e, NEW f, Kin(d, e), Kin(e, f)
  PROVE  Kin(d, f)
BY DEF Kin

(* What RolledBack does. *)
LEMMA RolledBackKin ==
  ASSUME NEW d, NEW p
  PROVE  Kin(d, ToDb!RolledBack(d, p))
PROOF
<1>1. ToDb!RolledBack(d, p) = [d EXCEPT !.conn = [d.conn EXCEPT ![p] = [d.conn[p] EXCEPT !.inserts = <<>>]]]
  BY DEF ToDb!RolledBack
<1>2. \E x : ToDb!RolledBack(d, p) = [d EXCEPT !.conn = x]
  BY <1>1
<1> QED BY <1>2, KinFields

(* What Committed does. *)
LEMMA CommittedKin ==
  ASSUME NEW d, NEW p
  PROVE  Kin(d, ToDb!Committed(d, p))
PROOF
<1> DEFINE r == d.db[d.conn[p].file].rows \o d.conn[p].inserts
           m == [d EXCEPT !.db[d.conn[p].file].rows = r]
           n == [m EXCEPT !.conn[p].inserts = <<>>]
           o == [n EXCEPT !.conn[p].begun = FALSE]
<1>1. ToDb!Committed(d, p) = o
  BY Zenon DEF ToDb!Committed
<1>2. Kin(d, m)
  <2>1. \E x : m = [d EXCEPT !.db = x]
    OBVIOUS
  <2> HIDE DEF m
  <2> QED BY <2>1, KinFields
<1> HIDE DEF m
<1>3. Kin(m, n)
  <2>1. \E x : n = [m EXCEPT !.conn = x]
    OBVIOUS
  <2> HIDE DEF n
  <2> QED BY <2>1, KinFields
<1> HIDE DEF n
<1>4. Kin(n, o)
  <2>1. \E x : o = [n EXCEPT !.conn = x]
    OBVIOUS
  <2> HIDE DEF o
  <2> QED BY <2>1, KinFields
<1> HIDE DEF o
<1> QED BY <1>1, <1>2, <1>3, <1>4, KinSteps

(* What Inserted does. *)
LEMMA InsertedKin ==
  ASSUME NEW d, NEW p, NEW values
  PROVE  Kin(d, ToDb!Inserted(d, p, values))
PROOF
<1> DEFINE x == IF d.conn[p].begun THEN [d EXCEPT !.conn[p].inserts = Append(@, values)]
                ELSE [d EXCEPT !.db[d.conn[p].file].rows = Append(@, values)]
           y == [x EXCEPT !.conn[p].inserted = @ + 1]
           z == ToDb!Committed(y, p)
           b == [z EXCEPT !.conn[p].begun = TRUE]
<1>1. ToDb!Inserted(d, p, values) = IF y.conn[p].inserted % BatchSize = 0 THEN b ELSE y
  BY DEF ToDb!Inserted
<1>2. Kin(d, x)
  <2>1. \E v : x = [d EXCEPT !.conn = v] \/ x = [d EXCEPT !.db = v]
    OBVIOUS
  <2> HIDE DEF x
  <2> QED BY <2>1, KinFields
<1> HIDE DEF x
<1>3. Kin(x, y)
  <2>1. \E v : y = [x EXCEPT !.conn = v]
    OBVIOUS
  <2> HIDE DEF y
  <2> QED BY <2>1, KinFields
<1> HIDE DEF y
<1>4. Kin(y, z)
  BY CommittedKin
<1> HIDE DEF z
<1>5. Kin(z, b)
  <2>1. \E v : b = [z EXCEPT !.conn = v]
    OBVIOUS
  <2> HIDE DEF b
  <2> QED BY <2>1, KinFields
<1> HIDE DEF b
<1>6. Kin(d, y)
  BY <1>2, <1>3, KinSteps
<1>7. Kin(d, b)
  BY <1>4, <1>5, <1>6, KinSteps
<1> QED BY <1>1, <1>6, <1>7

(* Runs that have shared a temporary file are not parted again. *)
LEMMA SharedStays ==
  ASSUME DbShape(data), ToDb!Next
  PROVE  DbShape(data') /\ (data.shared => data'.shared)
PROOF
<1>1. PICK p \in ToDb!Run :
         \/ ToDb!Check(p) \/ ToDb!UnlinkTmp(p) \/ ToDb!Open(p) \/ ToDb!Header(p)
         \/ ToDb!CreateTable(p) \/ ToDb!InsertRow(p) \/ ToDb!EndOfInput(p)
         \/ ToDb!AddIndexes(p) \/ ToDb!CommitAndClose(p) \/ ToDb!UnlinkOutput(p)
         \/ ToDb!Rename(p) \/ ToDb!Kill(p)
  BY DEF ToDb!Next
<1>2. SUFFICES ToDb!UnlinkTmp(p) \/ ToDb!Open(p) \/ Kin(data, data')
  <2>1. CASE ToDb!UnlinkTmp(p)
    <3> DEFINE t == data.shared \/ \E q \in ToDb!Run \ {p} : ToDb!HasTmp(q)
    <3>1. data' = [data EXCEPT !.tmp = ToDb!NoFile, !.shared = t]
      BY <2>1 DEF ToDb!UnlinkTmp
    <3>2. data.shared => t
      OBVIOUS
    <3> HIDE DEF t
    <3> QED BY <3>1, <3>2 DEF DbShape
  <2>2. CASE ToDb!Open(p)
    BY <2>2 DEF ToDb!Open, DbShape
  <2>3. CASE Kin(data, data')
    BY <2>3 DEF Kin
  <2> QED BY <2>1, <2>2, <2>3
<1>3. CASE ToDb!Check(p) \/ ToDb!Header(p) \/ ToDb!UnlinkOutput(p)
  BY <1>3, KinFields DEF ToDb!Check, ToDb!Header, ToDb!UnlinkOutput
<1>4. CASE ToDb!CreateTable(p)
  <2> DEFINE d == [data EXCEPT !.db[data.conn[p].file].columns = input[p].columns]
             values == ToDb!RowValues(input[p], input[p].rows[at[p] + 1])
  <2>1. \E x : d = [data EXCEPT !.db = x]
    OBVIOUS
  <2>2. data' = data \/ data' = ToDb!Inserted(d, p, values)
    BY <1>4 DEF ToDb!CreateTable
  <2> HIDE DEF d, values
  <2>3. Kin(data, d) /\ Kin(d, ToDb!Inserted(d, p, values))
    <3>1. Kin(data, d)
      BY <2>1, KinFields
    <3> QED BY <3>1, InsertedKin
  <2>4. Kin(data, ToDb!Inserted(d, p, values))
    BY <2>3, KinSteps
  <2> QED BY <2>2, <2>4, KinFields
<1>5. CASE ToDb!InsertRow(p)
  <2> DEFINE values == ToDb!RowValues(input[p], input[p].rows[at[p] + 1])
  <2>1. data' = data \/ data' = ToDb!Inserted(data, p, values)
    BY <1>5 DEF ToDb!InsertRow
  <2> HIDE DEF values
  <2> QED BY <2>1, InsertedKin, KinFields
<1>6. CASE ToDb!EndOfInput(p)
  <2>1. data' = data \/ data' = ToDb!RolledBack(data, p)
    BY <1>6 DEF ToDb!EndOfInput
  <2> QED BY <2>1, RolledBackKin, KinFields
<1>7. CASE ToDb!AddIndexes(p)
  <2>1. CASE data' = ToDb!RolledBack(data, p)
    BY <2>1, RolledBackKin
  <2>2. CASE \E x : data' = [data EXCEPT !.db = x]
    BY <2>2, KinFields
  <2> QED BY <1>7, <2>1, <2>2 DEF ToDb!AddIndexes
<1>8. CASE ToDb!CommitAndClose(p)
  <2>1. data' = ToDb!Committed(data, p)
    BY <1>8 DEF ToDb!CommitAndClose, ToDb!Close
  <2> QED BY <2>1, CommittedKin
<1>9. CASE ToDb!Rename(p)
  <2>1. \E x : data' = data \/ data' = [data EXCEPT !.tmp = x]
    BY <1>9 DEF ToDb!Rename
  <2> QED BY <2>1, KinFields
<1>10. CASE ToDb!Kill(p)
  <2> DEFINE e == ToDb!RolledBack(data, p)
  <2>1. \E x : data' = [e EXCEPT !.killed = x]
    BY <1>10 DEF ToDb!Kill
  <2> HIDE DEF e
  <2>2. Kin(e, data')
    BY <2>1, KinFields
  <2>3. Kin(data, e)
    BY RolledBackKin DEF e
  <2> QED BY <2>2, <2>3, KinSteps
<1> QED BY <1>1, <1>3, <1>4, <1>5, <1>6, <1>7, <1>8, <1>9, <1>10

(* The invariant of 2db. *)
DbInv == DbShape(data) /\ (~data.shared => DbGood)

(* No run has started. *)
LEMMA DbInitIsGood ==
  ASSUME ToDb!Init
  PROVE  DbInv
PROOF
<1> USE DEF ToDb!NoFile, ToDb!Old
<1>1. /\ opts \in [ToDb!Run -> BOOLEAN] /\ input \in [ToDb!Run -> Documents]
      /\ at = [p \in ToDb!Run |-> 0] /\ pc = [p \in ToDb!Run |-> "check"] /\ written \in {0, 3}
  BY ToDbAssumption DEF ToDb!Init
<1>2. data = [ tmp |-> 0, db |-> [f \in ToDb!Run |-> ToDb!Empty],
               conn |-> [p \in ToDb!Run |-> [file |-> 0, begun |-> FALSE, inserts |-> <<>>, inserted |-> 0]],
               killed |-> {}, shared |-> FALSE ]
  BY DEF ToDb!Init
<1>3. <<>> \in Seq(STRING) /\ <<>> \in Seq(DbRow) /\ <<>> \in Seq(DbIndex)
  OBVIOUS
<1>4. ToDb!Empty \in DbBase /\ [file |-> 0, begun |-> FALSE, inserts |-> <<>>, inserted |-> 0] \in DbConn
  BY <1>3 DEF ToDb!Empty, DbBase, DbConn
<1>5. data \in DbData
  BY <1>2, <1>4 DEF DbData
<1>6. "check" \in DbStages /\ "check" \in Early /\ "check" \notin Held \cup {"done"}
  BY DEF DbStages, Early, Held
<1>7. DbType
  BY <1>1, <1>5, <1>6 DEF DbType
<1>8. ASSUME NEW p \in ToDb!Run PROVE DbOwnInv(p) /\ DbNames(p)
  <2>1. /\ at[p] = 0 /\ pc[p] = "check" /\ data.db[p] = ToDb!Empty
        /\ data.conn[p] = [file |-> 0, begun |-> FALSE, inserts |-> <<>>, inserted |-> 0]
    BY <1>1, <1>2
  <2>2. data.conn[p].file = 0 /\ FreshFile(data.conn[p], data.db[p], at[p])
    BY <2>1 DEF FreshFile
  <2>3. DbOwnInv(p)
    BY <1>6, <2>1, <2>2 DEF DbOwnInv, DbOwn
  <2>4. DbNames(p)
    BY <1>1, <1>6, <2>1 DEF DbNames, ToDb!Run
  <2> QED BY <2>3, <2>4
<1> QED BY <1>2, <1>7, <1>8 DEF DbInv, DbShape, DbGood

(* Every step of either run keeps the invariant. *)
LEMMA DbNextIsGood ==
  ASSUME DbInv, ToDb!Next \/ UNCHANGED <<opts, input, at, data, written, pc>>
  PROVE  DbInv'
PROOF
<1>1. CASE UNCHANGED <<opts, input, at, data, written, pc>>
  BY <1>1 DEF DbInv, DbShape, DbGood, DbType, DbOwnInv, DbNames
<1>2. CASE ToDb!Next
  <2>1. DbShape(data') /\ (data.shared => data'.shared)
    BY <1>2, SharedStays DEF DbInv
  <2>2. ASSUME ~data'.shared PROVE DbGood'
    <3>1. DbGood
      BY <2>1, <2>2 DEF DbInv
    <3>2. PICK p \in ToDb!Run :
         \/ ToDb!Check(p) \/ ToDb!UnlinkTmp(p) \/ ToDb!Open(p) \/ ToDb!Header(p)
         \/ ToDb!CreateTable(p) \/ ToDb!InsertRow(p) \/ ToDb!EndOfInput(p)
         \/ ToDb!AddIndexes(p) \/ ToDb!CommitAndClose(p) \/ ToDb!UnlinkOutput(p)
         \/ ToDb!Rename(p) \/ ToDb!Kill(p)
      BY <1>2 DEF ToDb!Next
    <3>3. CASE ToDb!Check(p)
      BY <3>1, <3>3, CheckIsGood
    <3>4. CASE ToDb!UnlinkTmp(p)
      BY <2>2, <3>1, <3>4, UnlinkTmpIsGood
    <3>5. CASE ToDb!Open(p)
      BY <2>2, <3>1, <3>5, OpenIsGood
    <3>6. CASE ToDb!Header(p)
      BY <3>1, <3>6, HeaderIsGood
    <3>7. CASE ToDb!CreateTable(p)
      BY <3>1, <3>7, CreateTableIsGood
    <3>8. CASE ToDb!InsertRow(p)
      BY <3>1, <3>8, InsertRowIsGood
    <3>9. CASE ToDb!EndOfInput(p)
      BY <3>1, <3>9, EndOfInputIsGood
    <3>10. CASE ToDb!AddIndexes(p)
      BY <3>1, <3>10, AddIndexesIsGood
    <3>11. CASE ToDb!CommitAndClose(p)
      BY <3>1, <3>11, CommitAndCloseIsGood
    <3>12. CASE ToDb!UnlinkOutput(p)
      BY <3>1, <3>12, UnlinkOutputIsGood
    <3>13. CASE ToDb!Rename(p)
      BY <3>1, <3>13, RenameIsGood
    <3>14. CASE ToDb!Kill(p)
      BY <3>1, <3>14, KillIsGood
    <3> QED BY <3>2, <3>3, <3>4, <3>5, <3>6, <3>7, <3>8, <3>9, <3>10, <3>11, <3>12, <3>13, <3>14
  <2>3. DbShape(data)' /\ (~data'.shared => DbGood')
    BY <2>1, <2>2 DEF DbShape
  <2> QED BY <2>3 DEF DbInv
<1> QED BY <1>1, <1>2

(* What the invariant is for. *)
LEMMA DbGoodIsWhole ==
  ASSUME DbInv
  PROVE  ToDb!OldOrWhole
PROOF
<1>1. SUFFICES ASSUME ~data.shared
               PROVE  /\ written \in ToDb!Run => ToDb!Whole(written)
                      /\ \A p \in ToDb!Run : pc[p] = "rename" =>
                           \/ ToDb!Whole(p) /\ data.tmp = p
                           \/ \E q \in ToDb!Run \ {p} : pc[q] \notin {"check", "unlink"}
                      /\ \A p \in ToDb!Run : pc[p] = "done" =>
                           written # ToDb!NoFile \/ \E q \in ToDb!Run \ {p} : pc[q] = "rename"
  BY DEF ToDb!OldOrWhole
<1>2. \A p \in ToDb!Run : DbOwnInv(p) /\ DbNames(p)
  BY <1>1 DEF DbInv, DbGood
<1>3. ASSUME NEW p \in ToDb!Run, pc[p] \in {"rename", "done"} PROVE ToDb!Whole(p)
  <2>1. DbComplete(input[p], data.db[p])
    BY <1>2, <1>3 DEF DbOwnInv, DbOwn
  <2> QED BY <2>1 DEF DbComplete, ToDb!Whole
<1>4. written \in ToDb!Run => ToDb!Whole(written)
  BY <1>2, <1>3 DEF DbNames
<1>5. ASSUME NEW p \in ToDb!Run, pc[p] = "rename"
      PROVE  \/ ToDb!Whole(p) /\ data.tmp = p
             \/ \E q \in ToDb!Run \ {p} : pc[q] \notin {"check", "unlink"}
  BY <1>2, <1>3, <1>5 DEF DbNames
<1>6. ASSUME NEW p \in ToDb!Run, pc[p] = "done"
      PROVE  written # ToDb!NoFile \/ \E q \in ToDb!Run \ {p} : pc[q] = "rename"
  BY <1>2, <1>6 DEF DbNames, ToDb!NoFile
<1> QED BY <1>4, <1>5, <1>6

-----------------------------------------------------------------------------
(* Overwrites: struct zsv_overwrite, the cells that were asked for.         *)

OwText == STRING \cup {"none", "empty"}
(* A line of the file, or a cell that was asked for and its value. *)
OwLine == [row : Nat, col : Nat, val : OwText]
OwData == [have : BOOLEAN, rest : Seq(OwLine), over : OwLine, get_cell : {"overwrite", "plain"}]

(* d has read the file up to the line at hand, or to its end. *)
Reading(file, d) ==
  /\ d \in OwData
  /\ Len(d.rest) <= Len(file)
  /\ \A j \in 1 .. Len(d.rest) : d.rest[j] = file[Len(file) - Len(d.rest) + j]
  /\ d.have => Len(d.rest) < Len(file) /\ d.over = file[Len(file) - Len(d.rest)]
  /\ ~d.have => d.rest = <<>>

(* So many lines were passed. *)
Gone(file, d) == IF d.have THEN Len(file) - Len(d.rest) - 1 ELSE Len(file)

(* From d to e the file was read further, past some of these lines. *)
Passed(file, d, e, lines) ==
  /\ Reading(file, e) /\ e.get_cell = d.get_cell
  /\ Gone(file, d) <= Gone(file, e)
  /\ \A j \in Gone(file, d) + 1 .. Gone(file, e) : file[j] \in lines
  /\ e.have => d.have

(* The line at hand is the one behind those that were passed. *)
LEMMA GoneType ==
  ASSUME NEW file \in Seq(OwLine), NEW z, Reading(file, z)
  PROVE  /\ Gone(file, z) \in 0 .. Len(file)
         /\ ~z.have => Gone(file, z) = Len(file)
         /\ z.have => Gone(file, z) + 1 \in 1 .. Len(file) /\ z.over = file[Gone(file, z) + 1]
PROOF
<1>1. Len(z.rest) \in Nat /\ Len(file) \in Nat
  BY DEF Reading, OwData
<1>2. CASE z.have
  <2>1. Len(z.rest) < Len(file) /\ z.over = file[Len(file) - Len(z.rest)]
        /\ Gone(file, z) = Len(file) - Len(z.rest) - 1
    BY <1>2 DEF Reading, Gone
  <2>2. \A m, n, k \in Int : m \in Nat /\ n \in Nat /\ n < m /\ k = m - n - 1 =>
          k + 1 = m - n /\ k + 1 \in 1 .. m /\ k \in 0 .. m
    OBVIOUS
  <2>3. Len(file) \in Int /\ Len(z.rest) \in Int /\ Gone(file, z) \in Int
    BY <1>1, <2>1
  <2>4. Gone(file, z) + 1 = Len(file) - Len(z.rest) /\ Gone(file, z) + 1 \in 1 .. Len(file)
        /\ Gone(file, z) \in 0 .. Len(file)
    BY <1>1, <2>1, <2>2, <2>3
  <2> QED BY <1>2, <2>1, <2>4
<1>3. CASE ~z.have
  BY <1>1, <1>3 DEF Gone
<1> QED BY <1>2, <1>3

(* One line is passed. *)
LEMMA NextPasses ==
  ASSUME NEW file \in Seq(OwLine), NEW d, Reading(file, d), d.have, NEW lines, d.over \in lines
  PROVE  LET e == Overwrite!NextOverwrite(d) IN
         /\ Passed(file, d, e, lines)
         /\ e.have => Len(e.rest) = Len(d.rest) - 1
PROOF
<1> DEFINE e == Overwrite!NextOverwrite(d)
           m == Len(file)
           n == Len(d.rest)
<1>1. /\ d \in OwData /\ m \in Nat /\ n \in Nat /\ n < m /\ d.over = file[m - n]
      /\ d.rest \in Seq(OwLine)
      /\ \A j \in 1 .. n : d.rest[j] = file[m - n + j]
  BY DEF Reading, OwData
<1>2. Gone(file, d) = m - n - 1
  BY DEF Gone
<1>3. CASE d.rest = <<>>
  <2>1. e = [d EXCEPT !.have = FALSE]
    BY <1>3 DEF Overwrite!NextOverwrite
  <2>2. e \in OwData /\ ~e.have /\ e.rest = <<>> /\ e.get_cell = d.get_cell
    BY <1>1, <1>3, <2>1 DEF OwData
  <2>3. n = 0 /\ Gone(file, e) = m
    BY <1>3, <2>2 DEF Gone
  <2>4. Reading(file, e)
    BY <1>1, <2>2 DEF Reading
  <2>5. \A j \in Gone(file, d) + 1 .. Gone(file, e) : file[j] \in lines
    <3>1. Gone(file, d) + 1 = m /\ file[m] \in lines
      BY <1>1, <1>2, <2>3
    <3>2. \A j \in m .. m : j = m
      BY <1>1
    <3> QED BY <2>3, <3>1, <3>2
  <2>6. Gone(file, d) <= Gone(file, e)
    BY <1>1, <1>2, <2>3
  <2> QED BY <2>2, <2>4, <2>5, <2>6 DEF Passed
<1>4. CASE d.rest # <<>>
  <2>1. /\ n > 0 /\ Head(d.rest) = d.rest[1] /\ Head(d.rest) \in OwLine
        /\ Tail(d.rest) \in Seq(OwLine) /\ Len(Tail(d.rest)) = n - 1
        /\ \A j \in 1 .. n - 1 : Tail(d.rest)[j] = d.rest[j + 1]
    BY <1>1, <1>4
  <2>2. Overwrite!None \notin {Head(d.rest).row, Head(d.rest).col}
    BY <2>1 DEF OwLine, Overwrite!None
  <2>3. e = [d EXCEPT !.rest = Tail(d.rest), !.over = Head(d.rest)]
    BY <1>4, <2>2 DEF Overwrite!NextOverwrite
  <2>4. e \in OwData /\ e.have /\ e.rest = Tail(d.rest) /\ e.over = Head(d.rest) /\ e.get_cell = d.get_cell
    BY <1>1, <2>1, <2>3 DEF OwData
  <2>5. Gone(file, e) = m - n
    BY <1>1, <2>1, <2>4 DEF Gone
  <2>6. Reading(file, e)
    <3>1. \A j \in 1 .. n - 1 : Tail(d.rest)[j] = file[m - (n - 1) + j]
      <4> TAKE j \in 1 .. n - 1
      <4>1. j + 1 \in 1 .. n /\ m - n + (j + 1) = m - (n - 1) + j
        BY <1>1
      <4> QED BY <1>1, <2>1, <4>1
    <3>2. e.over = file[m - (n - 1)]
      <4>1. 1 \in 1 .. n /\ m - n + 1 = m - (n - 1)
        BY <1>1, <2>1
      <4> QED BY <1>1, <2>1, <2>4, <4>1
    <3>3. Len(e.rest) = n - 1 /\ n - 1 < m /\ n - 1 <= m
      BY <1>1, <2>1, <2>4
    <3> QED BY <2>4, <3>1, <3>2, <3>3 DEF Reading
  <2>7. \A j \in Gone(file, d) + 1 .. Gone(file, e) : file[j] \in lines
    <3>1. Gone(file, d) + 1 = m - n /\ file[m - n] \in lines
      BY <1>1, <1>2
    <3>2. \A j \in m - n .. m - n : j = m - n
      BY <1>1
    <3> QED BY <2>5, <3>1, <3>2
  <2>8. Gone(file, d) <= Gone(file, e)
    BY <1>1, <1>2, <2>5
  <2> QED BY <2>1, <2>4, <2>6, <2>7, <2>8 DEF Passed
<1> QED BY <1>3, <1>4

(* f holds what is left of d after every number of steps up to m. *)
Skips(f, d, lines, m) ==
  f = [n \in 0 .. m |->
         IF n = 0 THEN d
         ELSE IF f[n - 1].have /\ f[n - 1].over \in lines
              THEN Overwrite!NextOverwrite(f[n - 1]) ELSE f[n - 1]]

(* There is such a function, whatever is to be skipped. *)
LEMMA SkipsExists ==
  ASSUME NEW d, NEW lines, NEW m \in Nat
  PROVE  \E f : Skips(f, d, lines, m)
PROOF
<1> DEFINE Without == {n \in Nat : ~\E f : Skips(f, d, lines, n)}
<1>1. SUFFICES ASSUME Without # {} PROVE FALSE
  OBVIOUS
<1>2. PICK n \in Without : \A k \in Without : n <= k
  BY <1>1, LeastNumber
<1> DEFINE More(x) == IF x.have /\ x.over \in lines THEN Overwrite!NextOverwrite(x) ELSE x
<1>3. n # 0
  <2> DEFINE f == [j \in 0 .. 0 |-> d]
  <2>1. f = [j \in 0 .. 0 |-> IF j = 0 THEN d ELSE More(f[j - 1])]
    OBVIOUS
  <2>2. Skips(f, d, lines, 0)
    BY <2>1 DEF Skips
  <2> QED BY <2>2
<1>4. n - 1 \in Nat /\ n - 1 \notin Without
  BY <1>2, <1>3
<1>5. PICK g : Skips(g, d, lines, n - 1)
  BY <1>4
<1> DEFINE f == [j \in 0 .. n |-> IF j < n THEN g[j] ELSE More(g[n - 1])]
<1>6. \A j \in 0 .. n - 1 : g[j] = IF j = 0 THEN d ELSE More(g[j - 1])
  BY <1>5 DEF Skips
<1> HIDE DEF More
<1>7. ASSUME NEW j \in 0 .. n
      PROVE  f[j] = IF j = 0 THEN d ELSE More(f[j - 1])
  <2>1. CASE j = n
    BY <1>3, <1>4, <2>1
  <2>2. CASE j < n
    <3>1. j \in 0 .. n - 1
      BY <2>2
    <3>2. g[j] = IF j = 0 THEN d ELSE More(g[j - 1])
      BY <1>6, <3>1
    <3>3. f[j] = g[j] /\ (j # 0 => f[j - 1] = g[j - 1])
      BY <2>2, <3>1
    <3> QED BY <3>2, <3>3
  <2> QED BY <2>1, <2>2
<1>8. f = [j \in 0 .. n |-> IF j = 0 THEN d ELSE More(f[j - 1])]
  <2>1. f = [j \in 0 .. n |-> f[j]]
    OBVIOUS
  <2> HIDE DEF f
  <2> QED BY <1>7, <2>1
<1>9. Skips(f, d, lines, n)
  <2> HIDE DEF f
  <2> QED BY <1>8 DEF Skips, More
<1> QED BY <1>2, <1>9

(* Lines are passed as long as they are to be skipped, and no longer. *)
LEMMA SkipPasses ==
  ASSUME NEW file \in Seq(OwLine), NEW d, Reading(file, d), NEW lines
  PROVE  LET e == Overwrite!Skip(d, lines) IN
         /\ Passed(file, d, e, lines)
         /\ e.have => e.over \notin lines
PROOF
<1> DEFINE m == Len(d.rest) + 1
           f == CHOOSE f : Skips(f, d, lines, m)
<1>1. Len(d.rest) \in Nat /\ m \in Nat
  BY DEF Reading, OwData
<1>2. Skips(f, d, lines, m)
  BY <1>1, SkipsExists
<1>3. Overwrite!Skip(d, lines) = f[m]
  BY DEF Overwrite!Skip, Skips
<1> HIDE DEF f
<1>4. f[0] = d
  BY <1>1, <1>2 DEF Skips
<1>5. \A n \in 1 .. m : f[n] = IF f[n - 1].have /\ f[n - 1].over \in lines
                               THEN Overwrite!NextOverwrite(f[n - 1]) ELSE f[n - 1]
  <2>1. \A n \in 1 .. m : n \in 0 .. m /\ n # 0
    BY <1>1
  <2> QED BY <1>2, <2>1 DEF Skips
<1> DEFINE Right(n) == /\ Passed(file, d, f[n], lines)
                       /\ f[n].have /\ f[n].over \in lines => Len(f[n].rest) = Len(d.rest) - n
<1>6. Right(0)
  <2>1. Gone(file, d) \in Int
    BY <1>1 DEF Gone
  <2>2. Passed(file, d, d, lines)
    BY <2>1 DEF Passed
  <2> QED BY <1>1, <1>4, <2>2
<1>7. ASSUME NEW n \in 1 .. m, Right(n - 1)
      PROVE  Right(n)
  <2> DEFINE x == f[n - 1]
  <2>1. CASE ~(x.have /\ x.over \in lines)
    BY <1>5, <1>7, <2>1
  <2>2. CASE x.have /\ x.over \in lines
    <3>1. Reading(file, x) /\ Passed(file, d, x, lines) /\ Len(x.rest) = Len(d.rest) - (n - 1)
      BY <1>7, <2>2 DEF Passed
    <3>2. f[n] = Overwrite!NextOverwrite(x)
      BY <1>5, <2>2
    <3> HIDE DEF x
    <3>3. Passed(file, x, f[n], lines) /\ (f[n].have => Len(f[n].rest) = Len(x.rest) - 1)
      BY <2>2, <3>1, <3>2, NextPasses
    <3>4. Gone(file, d) \in Int /\ Gone(file, x) \in Int /\ Gone(file, f[n]) \in Int
      BY <3>1, <3>3 DEF Gone, Passed, Reading, OwData
    <3>5. Passed(file, d, f[n], lines)
      BY <3>1, <3>3, <3>4 DEF Passed
    <3>6. f[n].have => Len(f[n].rest) = Len(d.rest) - n
      <4>1. n \in Nat /\ Len(x.rest) = Len(d.rest) - (n - 1)
        BY <1>1, <3>1
      <4>2. Len(x.rest) - 1 = Len(d.rest) - n
        BY <1>1, <4>1
      <4> QED BY <3>3, <4>2
    <3> QED BY <3>5, <3>6
  <2> QED BY <2>1, <2>2
<1> HIDE DEF Right
<1> DEFINE Wrong == {n \in 0 .. m : ~Right(n)}
<1>8. Wrong = {}
  <2>1. SUFFICES ASSUME Wrong # {} PROVE FALSE
    OBVIOUS
  <2>2. Wrong \subseteq Nat
    OBVIOUS
  <2>3. PICK n \in Wrong : \A k \in Wrong : n <= k
    <3> HIDE DEF Wrong
    <3> QED BY <2>1, <2>2, LeastNumber
  <2>4. n \in 1 .. m /\ n - 1 \in 0 .. m
    BY <1>1, <1>6, <2>3
  <2>5. n - 1 \notin Wrong
    BY <2>3, <2>4
  <2>6. Right(n - 1)
    BY <2>4, <2>5
  <2> QED BY <1>7, <2>3, <2>4, <2>6
<1>9. Right(m)
  BY <1>1, <1>8
<1>10. Len(f[m].rest) \in Nat
  BY <1>9 DEF Right, Passed, Reading, OwData
<1> QED BY <1>1, <1>3, <1>9, <1>10 DEF Right

(* What zsv_have_overwrite leaves behind is before the cell, and what it leaves at hand
   is not. *)
LEMMA HaveOverwritePasses ==
  ASSUME NEW d, Reading(input.file, d), input.file \in Seq(OwLine), NEW r \in Nat, NEW c \in Nat
  PROVE  LET e == Overwrite!HaveOverwrite(d, r, c)
             file == input.file
         IN  /\ Reading(file, e) /\ e.get_cell = d.get_cell /\ (e.have => d.have)
             /\ Gone(file, d) <= Gone(file, e)
             /\ \A j \in Gone(file, d) + 1 .. Gone(file, e) :
                  file[j].row < r \/ (file[j].row = r /\ file[j].col < c)
             /\ e.have => ~(e.over.row = r /\ e.over.col < c)
             /\ e.have /\ Overwrite!Ascending(file) => e.over.row >= r
PROOF
<1> DEFINE file == input.file
           first == {o \in Overwrite!Lines : o.row < r}
           second == {o \in Overwrite!Lines : o.row = r /\ o.col < c}
           x == Overwrite!Skip(d, first)
           e == Overwrite!Skip(x, second)
<1>1. Overwrite!HaveOverwrite(d, r, c) = e
  BY DEF Overwrite!HaveOverwrite
<1>2. Passed(file, d, x, first) /\ (x.have => x.over \notin first)
  BY SkipPasses
<1> HIDE DEF x
<1>3. Passed(file, x, e, second) /\ (e.have => e.over \notin second)
  BY <1>2, SkipPasses DEF Passed
<1> HIDE DEF e
<1>4. Len(file) \in Nat /\ \A j \in 1 .. Len(file) : file[j] \in Overwrite!Lines /\ file[j] \in OwLine
  BY DEF Overwrite!Lines, Overwrite!Range
<1>5. ASSUME NEW z, Reading(file, z)
      PROVE  /\ Gone(file, z) \in 0 .. Len(file)
             /\ z.have => /\ Gone(file, z) + 1 \in 1 .. Len(file) /\ z.over = file[Gone(file, z) + 1]
                          /\ z.over \in OwLine /\ z.over \in Overwrite!Lines
  BY <1>4, <1>5, GoneType
<1>6. Reading(file, x) /\ Reading(file, e)
  BY <1>2, <1>3 DEF Passed
<1>7. Gone(file, d) \in Int /\ Gone(file, x) \in Int /\ Gone(file, e) \in Int
  BY <1>5, <1>6
<1>8. Gone(file, d) <= Gone(file, x) /\ Gone(file, x) <= Gone(file, e)
  BY <1>2, <1>3 DEF Passed
<1>9. ASSUME NEW j \in Gone(file, d) + 1 .. Gone(file, e)
      PROVE  file[j].row < r \/ (file[j].row = r /\ file[j].col < c)
  <2>1. CASE j \in Gone(file, d) + 1 .. Gone(file, x)
    <3>1. file[j] \in first
      BY <1>2, <2>1 DEF Passed
    <3> QED BY <3>1
  <2>2. CASE j \in Gone(file, x) + 1 .. Gone(file, e)
    <3>1. file[j] \in second
      BY <1>3, <2>2 DEF Passed
    <3> QED BY <3>1
  <2> QED BY <1>7, <2>1, <2>2
<1>10. e.have => ~(e.over.row = r /\ e.over.col < c)
  BY <1>3, <1>5, <1>6
<1>11. ASSUME e.have, Overwrite!Ascending(file)
       PROVE  e.over.row >= r
  <2>1. x.have
    BY <1>3, <1>11 DEF Passed
  <2>2. x.over \in OwLine /\ x.over.row \in Nat /\ x.over.row >= r
    <3>1. x.over \in Overwrite!Lines /\ x.over \in OwLine
      BY <1>5, <1>6, <2>1
    <3>2. ~(x.over.row < r)
      BY <1>2, <2>1, <3>1
    <3> QED BY <3>1, <3>2 DEF OwLine
  <2>3. e.over \in OwLine /\ e.over.row \in Nat
    BY <1>5, <1>6, <1>11 DEF OwLine
  <2>4. CASE Gone(file, x) = Gone(file, e)
    BY <1>5, <1>6, <1>11, <2>1, <2>2, <2>4
  <2>5. CASE Gone(file, x) < Gone(file, e)
    <3>1. Overwrite!Before(file[Gone(file, x) + 1], file[Gone(file, e) + 1])
      <4>1. /\ Gone(file, x) + 1 \in DOMAIN file /\ Gone(file, e) + 1 \in DOMAIN file
            /\ Gone(file, x) + 1 < Gone(file, e) + 1
        BY <1>5, <1>6, <1>7, <1>11, <2>1, <2>5
      <4> QED BY <1>11, <4>1 DEF Overwrite!Ascending
    <3>2. Overwrite!Before(x.over, e.over)
      BY <1>5, <1>6, <1>11, <2>1, <3>1
    <3>3. x.over.row <= e.over.row
      BY <2>2, <2>3, <3>2 DEF Overwrite!Before
    <3> QED BY <2>2, <2>3, <3>3
  <2> QED BY <1>7, <1>8, <2>4, <2>5
<1>12. e.get_cell = d.get_cell /\ (e.have => d.have) /\ Gone(file, d) <= Gone(file, e)
  <2>1. e.get_cell = x.get_cell /\ x.get_cell = d.get_cell /\ (e.have => x.have) /\ (x.have => d.have)
    BY <1>2, <1>3 DEF Passed
  <2>2. Gone(file, d) <= Gone(file, e)
    BY <1>7, <1>8
  <2> QED BY <2>1, <2>2
<1> QED BY <1>1, <1>6, <1>9, <1>10, <1>11, <1>12

(* What a caller has been told is right, and what he may still be told: the lines that
   were passed are before the last cell he asked for. *)
OwAsListed ==
  \A n \in DOMAIN written : written[n].val = Overwrite!Own(written[n]) \/ written[n] \in Overwrite!Listed(written[n])

OwAllUsed ==
  Overwrite!Ascending(input.file) /\ Overwrite!Ascending(written) =>
    /\ \A n \in DOMAIN written :
         written[n].val = Overwrite!Own(written[n]) => Overwrite!Listed(written[n]) \subseteq {written[n]}
    /\ \A j \in 1 .. Gone(input.file, data) :
         written # <<>> /\ Overwrite!Before(input.file[j], written[Len(written)])

(* The invariant of Overwrites. *)
OwInv ==
  Overwrite!WellFormed =>
    /\ input \in OverwritesInputs /\ at \in 0 .. Len(input.table) /\ written \in Seq(OwLine)
    /\ Reading(input.file, data)
    /\ data.get_cell = "plain" => ~data.have
    /\ OwAsListed /\ OwAllUsed

(* The types of the input. *)
LEMMA OwInputType ==
  ASSUME input \in OverwritesInputs, Overwrite!WellFormed
  PROVE  input.file \in Seq(OwLine) /\ input.table \in Seq(Seq(STRING))
PROOF
<1>1. input.file \in Seq(OverwriteLines) /\ input.table \in Seq(Seq(STRING))
  BY OverwritesAssumption
<1>2. \A n \in 1 .. Len(input.file) : input.file[n] \in OverwriteLines
  BY <1>1
<1>3. \A n \in 1 .. Len(input.file) : Overwrite!None \notin {input.file[n].row, input.file[n].col}
  BY <1>1 DEF Overwrite!WellFormed
<1>4. ASSUME NEW o \in OverwriteLines, Overwrite!None \notin {o.row, o.col}
      PROVE  o \in OwLine
  BY <1>4 DEF OverwriteLines, OwLine, OwText
<1>5. \A n \in 1 .. Len(input.file) : input.file[n] \in OwLine
  BY <1>2, <1>3, <1>4
<1>6. Len(input.file) \in Nat /\ input.file \in [1 .. Len(input.file) -> OverwriteLines]
  BY <1>1
<1>7. input.file \in [1 .. Len(input.file) -> OwLine]
  BY <1>5, <1>6
<1>8. \A n \in Nat : \A f : f \in [1 .. n -> OwLine] => f \in Seq(OwLine)
  OBVIOUS
<1> QED BY <1>1, <1>6, <1>7, <1>8

(* Nothing was asked for. *)
LEMMA OwInitIsRight ==
  ASSUME Overwrite!Init
  PROVE  OwInv
PROOF
<1>1. SUFFICES ASSUME Overwrite!WellFormed PROVE OwInv
  BY DEF OwInv
<1> DEFINE file == input.file
           o == [have |-> TRUE, rest |-> file, over |-> Overwrite!NoOverwrite, get_cell |-> "overwrite"]
<1>2. /\ input \in OverwritesInputs /\ at = 0 /\ written = <<>>
      /\ data = Overwrite!NextOverwrite(o)
  BY DEF Overwrite!Init
<1>3. file \in Seq(OwLine)
  BY <1>1, <1>2, OwInputType
<1>4. Overwrite!NoOverwrite \in OwLine
  BY DEF Overwrite!NoOverwrite, OwLine, OwText
<1>5. o \in OwData
  BY <1>3, <1>4 DEF OwData
<1>6. Reading(file, data) /\ data.get_cell = "overwrite" /\ Gone(file, data) = 0
  <2>1. CASE file = <<>>
    <3>1. data = [o EXCEPT !.have = FALSE]
      BY <1>2, <2>1 DEF Overwrite!NextOverwrite
    <3>2. data \in OwData /\ ~data.have /\ data.rest = <<>> /\ data.get_cell = "overwrite"
      BY <1>5, <2>1, <3>1 DEF OwData
    <3>3. Len(file) = 0
      BY <2>1
    <3> QED BY <2>1, <3>2, <3>3 DEF Reading, Gone
  <2>2. CASE file # <<>>
    <3>1. /\ Len(file) \in Nat /\ Len(file) > 0 /\ Head(file) = file[1] /\ Head(file) \in OwLine
          /\ Tail(file) \in Seq(OwLine) /\ Len(Tail(file)) = Len(file) - 1
          /\ \A j \in 1 .. Len(file) - 1 : Tail(file)[j] = file[j + 1]
      BY <1>3, <2>2
    <3>2. Overwrite!None \notin {Head(file).row, Head(file).col}
      BY <3>1 DEF OwLine, Overwrite!None
    <3>3. data = [o EXCEPT !.rest = Tail(file), !.over = Head(file)]
      BY <1>2, <2>2, <3>2 DEF Overwrite!NextOverwrite
    <3>4. data \in OwData /\ data.have /\ data.rest = Tail(file) /\ data.over = Head(file)
          /\ data.get_cell = "overwrite"
      BY <1>5, <3>1, <3>3 DEF OwData
    <3>5. /\ Len(data.rest) = Len(file) - 1 /\ Len(file) - Len(data.rest) = 1
          /\ Len(data.rest) < Len(file)
      BY <3>1, <3>4
    <3>6. \A j \in 1 .. Len(data.rest) : data.rest[j] = file[Len(file) - Len(data.rest) + j]
      <4> TAKE j \in 1 .. Len(data.rest)
      <4>1. j \in 1 .. Len(file) - 1 /\ Len(file) - Len(data.rest) + j = j + 1
        BY <3>1, <3>5
      <4> QED BY <3>1, <3>4, <4>1
    <3> HIDE DEF file
    <3>7. Reading(file, data)
      BY <3>1, <3>4, <3>5, <3>6 DEF Reading
    <3>8. Gone(file, data) = 0
      BY <3>4, <3>5 DEF Gone
    <3> QED BY <3>4, <3>7, <3>8
  <2> QED BY <2>1, <2>2
<1>7. written \in Seq(OwLine) /\ at \in 0 .. Len(input.table) /\ OwAsListed
  BY <1>1, <1>2, OwInputType DEF OwAsListed
<1>8. OwAllUsed
  BY <1>2, <1>6 DEF OwAllUsed
<1> QED BY <1>2, <1>6, <1>7, <1>8 DEF OwInv

(* The answer w is the value of the cell or that of the line which is now at hand, and
   in e nothing was passed that is not before the cell. *)
OwAnswer(w, e) ==
  LET file == input.file
      columns == Len(input.table[w.row + 1])
  IN  /\ Reading(file, e)
      /\ e.get_cell = "plain" => ~e.have
      /\ Gone(file, data) <= Gone(file, e)
      /\ \A j \in Gone(file, data) + 1 .. Gone(file, e) : Overwrite!Before(file[j], w)
      /\ w.val = Overwrite!Own(w) \/ (e.have /\ w = e.over /\ w.col < columns)
      /\ Overwrite!Ascending(file) /\ w.col < columns /\ e.have =>
           w = e.over \/ Overwrite!Before(w, e.over)

(* Every call of zsv_get_cell is answered so. *)
LEMMA GetCellAnswers ==
  ASSUME OwInv, Overwrite!WellFormed, NEW c \in Nat, Overwrite!GetCell(c)
  PROVE  \E w \in OwLine : written' = Append(written, w) /\ OwAnswer(w, data')
PROOF
<1>1. /\ input \in OverwritesInputs /\ at \in 0 .. Len(input.table)
      /\ Reading(input.file, data)
      /\ data.get_cell = "plain" => ~data.have
  BY DEF OwInv
<1>2. input.file \in Seq(OwLine) /\ input.table \in Seq(Seq(STRING))
  BY <1>1, OwInputType
<1> DEFINE r == at - 1
           file == input.file
           row == input.table[at]
           e == Overwrite!HaveOverwrite(data, r, c)
           plain == data.get_cell = "plain" \/ c >= Len(row)
           own == IF c < Len(row) THEN row[c + 1] ELSE "none"
           hit == e.have /\ e.over.row = r /\ e.over.col = c
           v == IF plain THEN own ELSE IF hit THEN e.over.val ELSE row[c + 1]
           w == [row |-> r, col |-> c, val |-> v]
<1>3. /\ at > 0 /\ at \in Nat /\ r \in Nat /\ r + 1 = at /\ row \in Seq(STRING)
  <2>1. at > 0
    BY DEF Overwrite!GetCell
  <2>2. \A s \in Seq(Seq(STRING)) : \A k \in 0 .. Len(s) :
          k > 0 => k \in Nat /\ k - 1 \in Nat /\ (k - 1) + 1 = k /\ s[k] \in Seq(STRING)
    OBVIOUS
  <2> QED BY <1>1, <1>2, <2>1, <2>2
<1>4. Len(row) \in Nat /\ (c < Len(row) => row[c + 1] \in STRING) /\ own \in OwText
  <2>1. Len(row) \in Nat /\ (c < Len(row) => c + 1 \in 1 .. Len(row))
    BY <1>3
  <2>2. c < Len(row) => row[c + 1] \in STRING
    BY <1>3, <2>1
  <2> QED BY <2>1, <2>2 DEF OwText
<1>5. CASE plain
  <2>1. written' = Append(written, w) /\ data' = data
    BY <1>5 DEF Overwrite!GetCell
  <2> HIDE DEF row, e
  <2>2. w.row = r /\ w.col = c /\ w.val = own /\ w \in OwLine
    BY <1>3, <1>4, <1>5 DEF OwLine
  <2>3. Overwrite!Own(w) = own /\ Len(input.table[w.row + 1]) = Len(row)
    BY <1>3, <2>2 DEF Overwrite!Own, row
  <2>4. Gone(file, data) \in Int
    BY <1>1, <1>2 DEF Gone, Reading, OwData
  <2>5. Reading(file, data') /\ Gone(file, data') = Gone(file, data)
        /\ \A j \in Gone(file, data) + 1 .. Gone(file, data') : FALSE
    BY <1>1, <2>1, <2>4
  <2>6. w.col < Len(row) => ~data'.have
    BY <1>1, <1>3, <1>4, <1>5, <2>1, <2>2
  <2> HIDE DEF w
  <2>7. OwAnswer(w, data')
    BY <1>1, <2>1, <2>2, <2>3, <2>4, <2>5, <2>6 DEF OwAnswer
  <2> QED BY <2>1, <2>2, <2>7
<1>6. CASE ~plain
  <2>1. /\ written' = Append(written, w)
        /\ data' = [e EXCEPT !.get_cell = IF e.have THEN @ ELSE "plain"]
    BY <1>6 DEF Overwrite!GetCell
  <2>2. /\ Reading(file, e) /\ e.get_cell = data.get_cell /\ (e.have => data.have)
        /\ Gone(file, data) <= Gone(file, e)
        /\ \A j \in Gone(file, data) + 1 .. Gone(file, e) :
             file[j].row < r \/ (file[j].row = r /\ file[j].col < c)
        /\ e.have => ~(e.over.row = r /\ e.over.col < c)
        /\ e.have /\ Overwrite!Ascending(file) => e.over.row >= r
    BY <1>1, <1>2, <1>3, HaveOverwritePasses
  <2>3. c < Len(row) /\ data.get_cell # "plain"
    BY <1>4, <1>6
  <2> HIDE DEF row, e
  <2>4. e.over \in OwLine /\ e.get_cell # "plain" /\ e \in OwData
    BY <2>2, <2>3 DEF Reading, OwData
  <2>5. /\ data' \in OwData /\ data'.have = e.have /\ data'.rest = e.rest /\ data'.over = e.over
        /\ data'.get_cell = "plain" => ~data'.have
    BY <2>1, <2>4 DEF OwData
  <2>6. Reading(file, data') /\ Gone(file, data') = Gone(file, e)
    BY <2>2, <2>5 DEF Reading, Gone
  <2>7. v = IF hit THEN e.over.val ELSE own
    BY <1>6, <2>3
  <2>8. w.row = r /\ w.col = c /\ w.val = v /\ w \in OwLine
    <3>1. e.over.val \in OwText
      BY <2>4 DEF OwLine
    <3>2. v \in OwText
      BY <1>4, <2>7, <3>1
    <3> QED BY <1>3, <3>2 DEF OwLine
  <2>9. Overwrite!Own(w) = own /\ Len(input.table[w.row + 1]) = Len(row)
    BY <1>3, <2>8 DEF Overwrite!Own, row
  <2>10. hit => w = e.over
    <3>1. e.over = [row |-> e.over.row, col |-> e.over.col, val |-> e.over.val]
      BY <2>4 DEF OwLine
    <3>2. hit => v = e.over.val
      BY <2>7
    <3> HIDE DEF v
    <3> QED BY <3>1, <3>2
  <2>11. Overwrite!Ascending(file) /\ e.have /\ ~hit => Overwrite!Before(w, e.over)
    <3>1. e.over.row \in Nat /\ e.over.col \in Nat
      BY <2>4 DEF OwLine
    <3> HIDE DEF w
    <3> QED BY <1>3, <2>2, <2>8, <3>1 DEF Overwrite!Before
  <2>12. \A j \in Gone(file, data) + 1 .. Gone(file, data') : Overwrite!Before(file[j], w)
    <3> HIDE DEF w
    <3> QED BY <2>2, <2>6, <2>8 DEF Overwrite!Before
  <2>13. w.val = own \/ (data'.have /\ w = data'.over)
    <3>1. hit => e.have
      OBVIOUS
    <3> HIDE DEF w, hit
    <3> QED BY <2>5, <2>7, <2>8, <2>10, <3>1
  <2>14. Overwrite!Ascending(file) /\ data'.have => w = data'.over \/ Overwrite!Before(w, data'.over)
    <3> HIDE DEF w, hit
    <3> QED BY <2>5, <2>10, <2>11
  <2>15. w.col < Len(row) /\ Gone(file, data) <= Gone(file, data')
    <3> HIDE DEF w
    <3> QED BY <2>2, <2>3, <2>6, <2>8
  <2> HIDE DEF w, own
  <2>16. OwAnswer(w, data')
    BY <2>5, <2>6, <2>9, <2>12, <2>13, <2>14, <2>15 DEF OwAnswer
  <2> QED BY <2>1, <2>8, <2>16
<1> QED BY <1>5, <1>6

(* One answer more, and what the caller was told is still right. *)
LEMMA AnswerIsRight ==
  ASSUME OwInv, Overwrite!WellFormed, UNCHANGED <<input, at>>,
         NEW w \in OwLine, written' = Append(written, w), OwAnswer(w, data')
  PROVE  OwInv'
PROOF
<1> DEFINE file == input.file
           g == Gone(file, data)
           g2 == Gone(file, data')
<1>1. /\ input \in OverwritesInputs /\ at \in 0 .. Len(input.table) /\ written \in Seq(OwLine)
      /\ Reading(file, data) /\ OwAsListed /\ OwAllUsed
  BY DEF OwInv
<1>2. file \in Seq(OwLine) /\ Len(file) \in Nat
  BY <1>1, OwInputType
<1>3. /\ Len(written) \in Nat /\ Len(written') = Len(written) + 1 /\ written' \in Seq(OwLine)
      /\ DOMAIN written = 1 .. Len(written) /\ DOMAIN written' = 1 .. Len(written) + 1
      /\ \A n \in 1 .. Len(written) : written'[n] = written[n]
      /\ written'[Len(written) + 1] = w
  BY <1>1
<1>4. \A x : Overwrite!Own(x)' = Overwrite!Own(x) /\ Overwrite!Listed(x)' = Overwrite!Listed(x)
  BY DEF Overwrite!Own, Overwrite!Listed
<1>5. ASSUME NEW z, Reading(file, z)
      PROVE  /\ Gone(file, z) \in 0 .. Len(file)
             /\ ~z.have => Gone(file, z) = Len(file)
             /\ z.have => Gone(file, z) + 1 \in 1 .. Len(file) /\ z.over = file[Gone(file, z) + 1]
  BY <1>2, <1>5, GoneType
<1>6. /\ Reading(file, data') /\ (data'.get_cell = "plain" => ~data'.have)
      /\ g <= g2
      /\ \A j \in g + 1 .. g2 : Overwrite!Before(file[j], w)
      /\ w.val = Overwrite!Own(w) \/ (data'.have /\ w = data'.over /\ w.col < Len(input.table[w.row + 1]))
      /\ Overwrite!Ascending(file) /\ w.col < Len(input.table[w.row + 1]) /\ data'.have =>
           w = data'.over \/ Overwrite!Before(w, data'.over)
  BY DEF OwAnswer
<1>7. g \in 0 .. Len(file) /\ g2 \in 0 .. Len(file)
  BY <1>1, <1>5, <1>6
<1>8. w.val = Overwrite!Own(w) \/ w \in Overwrite!Listed(w)
  <2>1. ASSUME data'.have, w = data'.over, w.col < Len(input.table[w.row + 1])
        PROVE  w \in Overwrite!Listed(w)
    <3>1. w \in Overwrite!Range(file)
      BY <1>2, <1>5, <1>6, <2>1 DEF Overwrite!Range
    <3> QED BY <2>1, <3>1 DEF Overwrite!Listed
  <2> QED BY <1>6, <2>1
<1>9. OwAsListed'
  <2>1. ASSUME NEW n \in 1 .. Len(written) + 1
        PROVE  written'[n].val = Overwrite!Own(written'[n]) \/ written'[n] \in Overwrite!Listed(written'[n])
    <3>1. CASE n = Len(written) + 1
      BY <1>3, <1>8, <3>1
    <3>2. CASE n \in 1 .. Len(written)
      BY <1>1, <1>3, <3>2 DEF OwAsListed
    <3> QED BY <1>3, <2>1, <3>1, <3>2
  <2> QED BY <1>3, <1>4, <2>1 DEF OwAsListed
<1>10. \A x, y, z \in OwLine : Overwrite!Before(x, y) /\ Overwrite!Before(y, z) => Overwrite!Before(x, z)
  BY DEF Overwrite!Before, OwLine
<1>11. \A j \in 1 .. Len(file) : file[j] \in OwLine
  BY <1>2
<1>12. ASSUME Overwrite!Ascending(file), Overwrite!Ascending(written')
       PROVE  /\ \A n \in 1 .. Len(written) + 1 :
                   written'[n].val = Overwrite!Own(written'[n]) => Overwrite!Listed(written'[n]) \subseteq {written'[n]}
              /\ \A j \in 1 .. g2 : Overwrite!Before(file[j], w)
  <2>1. Overwrite!Ascending(written)
    BY <1>3, <1>12 DEF Overwrite!Ascending
  <2>2. /\ \A n \in 1 .. Len(written) :
             written[n].val = Overwrite!Own(written[n]) => Overwrite!Listed(written[n]) \subseteq {written[n]}
        /\ \A j \in 1 .. g : written # <<>> /\ Overwrite!Before(file[j], written[Len(written)])
    BY <1>1, <1>3, <1>12, <2>1 DEF OwAllUsed
  <2>3. ASSUME NEW j \in 1 .. g2
        PROVE  Overwrite!Before(file[j], w)
    <3>1. CASE j \in 1 .. g
      <4>1. written # <<>> /\ Overwrite!Before(file[j], written[Len(written)])
        BY <2>2, <3>1
      <4>2. Len(written) \in 1 .. Len(written) /\ written[Len(written)] \in OwLine
        BY <1>1, <4>1
      <4>3. Overwrite!Before(written'[Len(written)], written'[Len(written) + 1])
        <5>1. /\ Len(written) \in DOMAIN written' /\ Len(written) + 1 \in DOMAIN written'
              /\ Len(written) < Len(written) + 1
          BY <1>3, <4>2
        <5> QED BY <1>12, <5>1 DEF Overwrite!Ascending
      <4>4. Overwrite!Before(written[Len(written)], w)
        BY <1>3, <4>2, <4>3
      <4>5. file[j] \in OwLine
        BY <1>7, <1>11, <3>1
      <4> QED BY <1>10, <4>1, <4>2, <4>4, <4>5
    <3>2. CASE j \in g + 1 .. g2
      BY <1>6, <3>2
    <3> QED BY <1>7, <3>1, <3>2
  <2>4. ASSUME NEW o \in Overwrite!Listed(w)
        PROVE  o = w
    <3>1. PICK j \in 1 .. Len(file) : o = file[j]
      BY <1>2, <2>4 DEF Overwrite!Listed, Overwrite!Range
    <3>2. o.row = w.row /\ o.col = w.col /\ w.col < Len(input.table[w.row + 1])
      BY <2>4 DEF Overwrite!Listed
    <3>3. ~Overwrite!Before(o, w) /\ ~Overwrite!Before(w, o)
      BY <3>2 DEF Overwrite!Before, OwLine
    <3>4. j > g2
      BY <1>7, <2>3, <3>1, <3>3
    <3>5. data'.have /\ g2 + 1 \in 1 .. Len(file) /\ data'.over = file[g2 + 1]
      BY <1>5, <1>6, <1>7, <3>4
    <3>6. w = data'.over \/ Overwrite!Before(w, data'.over)
      BY <1>6, <1>12, <3>2, <3>5
    <3>7. CASE j = g2 + 1
      BY <3>1, <3>3, <3>5, <3>6, <3>7
    <3>8. CASE j > g2 + 1
      <4>1. Overwrite!Before(data'.over, o)
        <5>1. j \in DOMAIN file /\ g2 + 1 \in DOMAIN file
          BY <1>2, <3>5
        <5> QED BY <1>12, <3>1, <3>5, <3>8, <5>1 DEF Overwrite!Ascending
      <4>2. o \in OwLine /\ data'.over \in OwLine
        BY <1>11, <3>1, <3>5
      <4>3. Overwrite!Before(w, o)
        BY <1>10, <3>6, <4>1, <4>2
      <4> QED BY <3>3, <4>3
    <3> QED BY <1>7, <3>4, <3>7, <3>8
  <2>5. ASSUME NEW n \in 1 .. Len(written) + 1, written'[n].val = Overwrite!Own(written'[n])
        PROVE  Overwrite!Listed(written'[n]) \subseteq {written'[n]}
    <3>1. CASE n = Len(written) + 1
      BY <1>3, <2>4, <3>1
    <3>2. CASE n \in 1 .. Len(written)
      <4>1. written'[n] = written[n]
        BY <1>3, <3>2
      <4>2. written[n].val = Overwrite!Own(written[n])
        BY <2>5, <4>1
      <4>3. Overwrite!Listed(written[n]) \subseteq {written[n]}
        BY <2>2, <3>2, <4>2
      <4> QED BY <4>1, <4>3
    <3>3. Len(written) \in Nat /\ n \in 1 .. Len(written) + 1
      BY <1>3, <2>5
    <3>4. n = Len(written) + 1 \/ n \in 1 .. Len(written)
      BY <3>3
    <3> QED BY <3>1, <3>2, <3>4
  <2> QED BY <2>3, <2>5
<1>13. OwAllUsed'
  <2>1. written' # <<>> /\ written'[Len(written')] = w /\ input' = input
    BY <1>3
  <2>2. Overwrite!Ascending(input.file)' = Overwrite!Ascending(file)
    BY DEF Overwrite!Ascending
  <2> QED BY <1>3, <1>4, <1>12, <2>1, <2>2 DEF OwAllUsed
<1> QED BY <1>1, <1>3, <1>6, <1>9, <1>13 DEF OwInv

(* Every step of a parser with overwrites keeps the invariant. *)
LEMMA OwNextIsRight ==
  ASSUME OwInv, Overwrite!Next \/ UNCHANGED <<opts, input, at, data, written, pc>>
  PROVE  OwInv'
PROOF
<1>1. CASE UNCHANGED <<input, data, written>> /\ at' \in {at, at + 1} /\ at' <= Len(input.table)
  <2>1. Overwrite!WellFormed' = Overwrite!WellFormed
    BY <1>1 DEF Overwrite!WellFormed
  <2>2. SUFFICES ASSUME Overwrite!WellFormed PROVE OwInv'
    BY <2>1 DEF OwInv
  <2>3. OwAsListed' /\ OwAllUsed'
    BY <1>1, <2>2 DEF OwInv, OwAsListed, OwAllUsed, Overwrite!Own, Overwrite!Listed, Overwrite!Ascending
  <2>4. at' \in 0 .. Len(input'.table)
    <3>1. input.table \in Seq(Seq(STRING)) /\ at \in 0 .. Len(input.table)
      BY <2>2, OwInputType DEF OwInv
    <3> QED BY <1>1, <3>1
  <2> QED BY <1>1, <2>2, <2>3, <2>4 DEF OwInv
<1>2. CASE Overwrite!GetAnyCell
  <2>1. PICK c \in 0 .. 2 : Overwrite!GetCell(c)
    BY <1>2 DEF Overwrite!GetAnyCell
  <2>2. UNCHANGED <<input, at>>
    BY <2>1 DEF Overwrite!GetCell
  <2>3. SUFFICES ASSUME Overwrite!WellFormed PROVE OwInv'
    BY <2>2 DEF OwInv, Overwrite!WellFormed
  <2>4. PICK w \in OwLine : written' = Append(written, w) /\ OwAnswer(w, data')
    BY <2>1, <2>3, GetCellAnswers
  <2> QED BY <2>2, <2>3, <2>4, AnswerIsRight
<1>3. CASE Overwrite!DeliverRow
  <2>1. SUFFICES ASSUME Overwrite!WellFormed PROVE OwInv'
    BY <1>3 DEF OwInv, Overwrite!WellFormed, Overwrite!DeliverRow
  <2>2. input.table \in Seq(Seq(STRING)) /\ at \in 0 .. Len(input.table)
    BY <2>1, OwInputType DEF OwInv
  <2>3. Len(input.table) \in Nat /\ at < Len(input.table) /\ at' = at + 1
        /\ UNCHANGED <<input, data, written>>
    BY <1>3, <2>2 DEF Overwrite!DeliverRow
  <2> QED BY <1>1, <2>2, <2>3
<1>4. CASE Overwrite!Finish \/ UNCHANGED <<opts, input, at, data, written, pc>>
  <2>1. UNCHANGED <<input, at, data, written>>
    BY <1>4 DEF Overwrite!Finish
  <2>2. SUFFICES ASSUME Overwrite!WellFormed PROVE OwInv'
    BY <2>1 DEF OwInv, Overwrite!WellFormed
  <2>3. input.table \in Seq(Seq(STRING)) /\ at \in 0 .. Len(input.table)
    BY <2>2, OwInputType DEF OwInv
  <2> QED BY <1>1, <2>1, <2>3
<1> QED BY <1>2, <1>3, <1>4 DEF Overwrite!Next

(* What the invariant is for. *)
LEMMA OwInvIsPromise ==
  ASSUME OwInv
  PROVE  Overwrite!OverwrittenWhereListed
BY DEF OwInv, OwAsListed, OwAllUsed, Overwrite!OverwrittenWhereListed

-----------------------------------------------------------------------------
(* select.                                                                  *)

(* The cell has a text that is looked for. *)
Hits(cell) == \E t \in opts.search : Select!HasText(Select!CellClean(opts, cell).text, t)

(* f holds the row and the outcome after each of the first m cells. *)
Searches(f, row, m) ==
  f = [ix \in 0 .. m |->
         IF ix = 0 THEN [row |-> row, hit |-> FALSE]
         ELSE LET x == f[ix - 1]
                  r == Select!Read(x.row, ix)
              IN  IF x.hit THEN x
                  ELSE [row |-> r.row, hit |-> \E t \in opts.search : Select!HasText(r.text, t)]]

(* There is such a function, for as many cells as there are. *)
LEMMA SearchesExists ==
  ASSUME NEW row, NEW m \in Nat
  PROVE  \E f : Searches(f, row, m)
PROOF
<1> DEFINE Without == {n \in Nat : ~\E f : Searches(f, row, n)}
<1>1. SUFFICES ASSUME Without # {} PROVE FALSE
  OBVIOUS
<1>2. PICK n \in Without : \A k \in Without : n <= k
  BY <1>1, LeastNumber
<1> DEFINE d == [row |-> row, hit |-> FALSE]
           More(x, ix) == LET r == Select!Read(x.row, ix)
                          IN  IF x.hit THEN x
                              ELSE [row |-> r.row, hit |-> \E t \in opts.search : Select!HasText(r.text, t)]
<1>3. n # 0
  <2> DEFINE f == [j \in 0 .. 0 |-> d]
  <2>1. f = [j \in 0 .. 0 |-> IF j = 0 THEN d ELSE More(f[j - 1], j)]
    <3> HIDE DEF d, More
    <3> QED OBVIOUS
  <2>2. Searches(f, row, 0)
    BY <2>1 DEF Searches
  <2> QED BY <2>2
<1>4. n - 1 \in Nat /\ n - 1 \notin Without
  BY <1>2, <1>3
<1>5. PICK g : Searches(g, row, n - 1)
  BY <1>4
<1> DEFINE f == [j \in 0 .. n |-> IF j < n THEN g[j] ELSE More(g[n - 1], n)]
<1>6. \A j \in 0 .. n - 1 : g[j] = IF j = 0 THEN d ELSE More(g[j - 1], j)
  <2>1. g = [j \in 0 .. n - 1 |-> IF j = 0 THEN d ELSE More(g[j - 1], j)]
    BY <1>5 DEF Searches
  <2> HIDE DEF d, More
  <2> QED BY <2>1
<1> HIDE DEF More, d
<1>7. ASSUME NEW j \in 0 .. n
      PROVE  f[j] = IF j = 0 THEN d ELSE More(f[j - 1], j)
  <2>1. CASE j = n
    BY <1>3, <1>4, <2>1
  <2>2. CASE j < n
    <3>1. j \in 0 .. n - 1
      BY <2>2
    <3>2. g[j] = IF j = 0 THEN d ELSE More(g[j - 1], j)
      BY <1>6, <3>1
    <3>3. f[j] = g[j] /\ (j # 0 => f[j - 1] = g[j - 1])
      BY <2>2, <3>1
    <3> QED BY <3>2, <3>3
  <2> QED BY <2>1, <2>2
<1>8. f = [j \in 0 .. n |-> IF j = 0 THEN d ELSE More(f[j - 1], j)]
  <2>1. f = [j \in 0 .. n |-> f[j]]
    OBVIOUS
  <2> HIDE DEF f
  <2> QED BY <1>7, <2>1
<1>9. Searches(f, row, n)
  <2> HIDE DEF f
  <2> QED BY <1>8 DEF Searches, d, More
<1> QED BY <1>2, <1>9

(* Cells are cleaned one after the other, so that those still to be looked at are as the
   parser gave them: the search finds a row that has a cell with a text. *)
LEMMA SearchFinds ==
  ASSUME NEW row \in Seq(Seq(STRING))
  PROVE  Select!RowSearch(row).hit <=> (opts.search = {} \/ \E ix \in DOMAIN row : Hits(row[ix]))
PROOF
<1> DEFINE len == Len(row)
<1>1. len \in Nat /\ DOMAIN row = 1 .. len
  OBVIOUS
<1>2. CASE opts.search = {}
  BY <1>2 DEF Select!RowSearch
<1>3. CASE opts.search # {}
  <2> DEFINE s == CHOOSE f : Searches(f, row, len)
  <2>1. Searches(s, row, len)
    <3> HIDE DEF len
    <3> QED BY <1>1, SearchesExists
  <2>2. Select!RowSearch(row) = s[len]
    BY <1>3 DEF Select!RowSearch, Searches
  <2> HIDE DEF s
  <2> DEFINE Right(n) ==
        /\ s[n].hit <=> \E ix \in 1 .. n : Hits(row[ix])
        /\ ~s[n].hit => /\ DOMAIN s[n].row = 1 .. len
                        /\ \A ix \in n + 1 .. len : s[n].row[ix] = row[ix]
  <2>3. /\ s[0] = [row |-> row, hit |-> FALSE]
        /\ \A n \in 1 .. len :
             LET r == Select!Read(s[n - 1].row, n)
             IN  s[n] = IF s[n - 1].hit THEN s[n - 1]
                        ELSE [row |-> r.row, hit |-> \E t \in opts.search : Select!HasText(r.text, t)]
    <3> DEFINE More(x, ix) == LET r == Select!Read(x.row, ix)
                              IN  IF x.hit THEN x
                                  ELSE [row |-> r.row, hit |-> \E t \in opts.search : Select!HasText(r.text, t)]
    <3>1. s = [j \in 0 .. len |-> IF j = 0 THEN [row |-> row, hit |-> FALSE] ELSE More(s[j - 1], j)]
      BY <2>1 DEF Searches
    <3> DEFINE d == [row |-> row, hit |-> FALSE]
    <3> HIDE DEF More, len, d
    <3>2. \A j \in 0 .. len : s[j] = IF j = 0 THEN d ELSE More(s[j - 1], j)
      <4>1. s = [j \in 0 .. len |-> IF j = 0 THEN d ELSE More(s[j - 1], j)]
        BY <3>1 DEF d
      <4> HIDE DEF Right
      <4> QED BY <4>1
    <3>3. s[0] = d
      BY <1>1, <3>2
    <3>4. ASSUME NEW n \in 1 .. len  PROVE  s[n] = More(s[n - 1], n)
      <4>1. n \in 0 .. len /\ n # 0
        BY <1>1
      <4> QED BY <3>2, <4>1
    <3> QED BY <3>3, <3>4 DEF More, d
  <2>4. Right(0)
    BY <1>1, <2>3
  <2>5. ASSUME NEW n \in 1 .. len, Right(n - 1)
        PROVE  Right(n)
    <3> DEFINE x == s[n - 1].row
               r == Select!Read(x, n)
    <3> HIDE DEF len
    <3>0. n \in Nat /\ n - 1 \in Nat /\ 1 .. n = (1 .. n - 1) \cup {n} /\ n \in (n - 1) + 1 .. len
          /\ \A ix \in n + 1 .. len : ix \in (n - 1) + 1 .. len /\ ix \in 1 .. len /\ ix # n
      BY <1>1
    <3>1. CASE s[n - 1].hit
      <4>1. s[n] = s[n - 1]
        BY <2>3, <3>1
      <4>2. \E ix \in 1 .. n : Hits(row[ix])
        BY <2>5, <3>0, <3>1
      <4> QED BY <3>1, <4>1, <4>2
    <3>2. CASE ~s[n - 1].hit
      <4>1. /\ DOMAIN x = 1 .. len /\ x[n] = row[n]
            /\ ~\E ix \in 1 .. n - 1 : Hits(row[ix])
            /\ \A ix \in n + 1 .. len : x[ix] = row[ix]
        BY <2>5, <3>0, <3>2
      <4> HIDE DEF x
      <4>2. r = [row |-> [x EXCEPT ![n] = Select!CellClean(opts, row[n]).mem],
                 text |-> Select!CellClean(opts, row[n]).text]
        BY <4>1 DEF Select!Read
      <4>3. s[n] = [row |-> r.row, hit |-> \E t \in opts.search : Select!HasText(r.text, t)]
        BY <2>3, <3>2 DEF x
      <4> HIDE DEF r
      <4>4. s[n].hit <=> Hits(row[n])
        BY <4>2, <4>3 DEF Hits
      <4>5. s[n].row = [x EXCEPT ![n] = Select!CellClean(opts, row[n]).mem]
        BY <4>2, <4>3
      <4>6. DOMAIN s[n].row = 1 .. len /\ \A ix \in n + 1 .. len : s[n].row[ix] = row[ix]
        <5> DEFINE y == [x EXCEPT ![n] = Select!CellClean(opts, row[n]).mem]
        <5>1. DOMAIN y = DOMAIN x /\ \A ix \in DOMAIN x \ {n} : y[ix] = x[ix]
          OBVIOUS
        <5>2. s[n].row = y
          BY <4>5
        <5> HIDE DEF y
        <5>3. DOMAIN s[n].row = 1 .. len
          BY <4>1, <5>1, <5>2
        <5>4. ASSUME NEW ix \in n + 1 .. len  PROVE  s[n].row[ix] = row[ix]
          <6>0. ix \in 1 .. len /\ ix # n
            BY <3>0
          <6>1. ix \in DOMAIN x \ {n}
            BY <4>1, <6>0
          <6>2. s[n].row[ix] = x[ix]
            BY <5>1, <5>2, <6>1
          <6>3. x[ix] = row[ix]
            BY <4>1
          <6> QED BY <6>2, <6>3
        <5> QED BY <5>3, <5>4
      <4>7. s[n].hit <=> \E ix \in 1 .. n : Hits(row[ix])
        <5> DEFINE H(ix) == Hits(row[ix])
        <5>1. ~\E ix \in 1 .. n - 1 : H(ix)
          BY <4>1
        <5> HIDE DEF H
        <5>2. \A ix \in 1 .. n : ix \in 1 .. n - 1 \/ ix = n
          BY <3>0
        <5>3. n \in 1 .. n
          BY <3>0
        <5>4. (\E ix \in 1 .. n : H(ix)) <=> H(n)
          BY <5>1, <5>2, <5>3
        <5> USE DEF H
        <5> QED BY <4>4, <5>4
      <4> QED BY <4>6, <4>7
    <3> QED BY <3>1, <3>2
  <2>6. Right(len)
    <3> DEFINE Wrong == {n \in Nat : n <= len /\ ~Right(n)}
    <3> HIDE DEF Right, len
    <3>1. SUFFICES ASSUME Wrong # {} PROVE FALSE
      BY <1>1
    <3>2. PICK n \in Wrong : \A k \in Wrong : n <= k
      BY <3>1, LeastNumber
    <3>3. n # 0
      BY <2>4, <3>2
    <3>4. n \in 1 .. len /\ n - 1 \in Nat /\ n - 1 <= len /\ n - 1 \notin Wrong
      BY <1>1, <3>2, <3>3
    <3> QED BY <2>5, <3>2, <3>4
  <2> QED BY <1>1, <1>3, <2>2, <2>6
<1> QED BY <1>2, <1>3
(* A sequence, of whatever. *)
IsList(s) == \E T : s \in Seq(T)

LEMMA ListAppended ==
  ASSUME NEW s, IsList(s), NEW v
  PROVE  /\ IsList(Append(s, v)) /\ Len(s) \in Nat /\ Len(Append(s, v)) = Len(s) + 1
         /\ DOMAIN s = 1 .. Len(s) /\ DOMAIN Append(s, v) = 1 .. Len(s) + 1
         /\ \A k \in 1 .. Len(s) : Append(s, v)[k] = s[k]
         /\ Append(s, v)[Len(s) + 1] = v
PROOF
<1>1. PICK T : s \in Seq(T)
  BY DEF IsList
<1> DEFINE U == T \cup {v}
<1>2. s \in Seq(U) /\ v \in U
  BY <1>1
<1> HIDE DEF U
<1>3. Append(s, v) \in Seq(U)
  BY <1>2
<1> QED BY <1>2, <1>3 DEF IsList

(* The numbers of the rows written, and the rows behind which nothing is written. *)
SelNumbers == {written[k].row : k \in DOMAIN written} \ {0}
SelLast == {n \in 1 .. at - 1 : Select!Eligible(n) /\ opts.head > 0 /\ n + 1 >= opts.head}

SelWritten ==
  /\ at > 0 /\ data.data_row_count = at - 1 /\ IsList(written)
  /\ ~data.cancelled => data.skip_data_rows = IF opts.skip > at - 1 THEN opts.skip - (at - 1) ELSE 0
  /\ \A k \in DOMAIN written : written[k].row \in 0 .. at - 1
  /\ \A m, n \in DOMAIN written : m < n => written[m].row < written[n].row
  /\ \A n \in SelNumbers : Select!Eligible(n)
  /\ ~opts.pct => /\ data.cancelled <=> SelLast # {}
                  /\ SelNumbers = {n \in 1 .. at - 1 : Select!Eligible(n) /\ \A m \in SelLast : n <= m}

SelInv ==
  /\ opts \in SelectOptions /\ input \in SelectInputs /\ at \in 0 .. Len(input)
  /\ DOMAIN data = {"header_names", "out2in", "data_row_count", "skip_data_rows", "cancelled", "handler"}
  /\ data.cancelled \in BOOLEAN
  /\ data.handler = "header" =>
       /\ written = <<>> /\ data.data_row_count = 0 /\ data.skip_data_rows = opts.skip
       /\ at = 0 \/ data.cancelled
       /\ at = 0 => ~data.cancelled
  /\ data.handler = "data" => SelWritten

(* The input has a length. *)
LEMMA SelLength == ASSUME input \in SelectInputs PROVE Len(input) \in Nat
PROOF
<1> DEFINE T == Seq(Seq(STRING)) \ {<<>>}
<1>1. input \in Seq(T)
  BY SelectAssumption
<1> HIDE DEF T
<1> QED BY <1>1

(* What a row of the input is. *)
LEMMA SelRow ==
  ASSUME NEW n \in Nat, input \in SelectInputs, n + 1 <= Len(input)
  PROVE  input[n + 1] \in Seq(Seq(STRING)) /\ input[n + 1] # <<>>
PROOF
<1> DEFINE T == Seq(Seq(STRING)) \ {<<>>}
<1>1. input \in Seq(T)
  BY SelectAssumption
<1> HIDE DEF T
<1>2. n + 1 \in 1 .. Len(input)
  OBVIOUS
<1>3. input[n + 1] \in T
  BY <1>1, <1>2
<1> QED BY <1>3 DEF T

(* A row is eligible when as many rows are skipped before it as are asked for, it is in
   the sample, and it has a text that is looked for. *)
LEMMA EligibleWhen ==
  ASSUME opts \in SelectOptions, input \in SelectInputs, NEW n \in Nat, n > 0, n + 1 <= Len(input)
  PROVE  Select!Eligible(n) <=> /\ n > opts.skip
                                /\ opts.every > 0 => opts.pct \/ Select!InSample(opts.every, n)
                                /\ Select!RowSearch(input[n + 1]).hit
PROOF
<1> DEFINE row == input[n + 1]
           filled == {m \in 1 .. n : input[m + 1] # <<>>}
<1>1. row \in Seq(Seq(STRING)) /\ row # <<>>
  BY SelRow
<1>2. filled = 1 .. n
  <2>1. ASSUME NEW m \in 1 .. n  PROVE  input[m + 1] # <<>>
    <3>1. m \in Nat /\ m + 1 <= Len(input)
      BY SelLength
    <3> QED BY <3>1, SelRow
  <2> QED BY <2>1
<1> HIDE DEF filled
<1>3. Select!Cardinality(filled) = n
  <2>1. \A s : Select!Cardinality(s) = Cardinality(s)
    BY DEF Cardinality, Select!Cardinality
  <2>2. Cardinality(1 .. n) = n
    BY FS_Interval
  <2> QED BY <1>2, <2>1, <2>2
<1>4. Select!RowSearch(row).hit <=> (opts.search = {} \/ \E ix \in DOMAIN row : Hits(row[ix]))
  BY <1>1, SearchFinds
<1>5. (\E ix \in DOMAIN row : Hits(row[ix]))
        <=> \E ix \in DOMAIN row, t \in opts.search : Select!HasText(Select!CellClean(opts, row[ix]).text, t)
  BY DEF Hits
<1> DEFINE sample == opts.every > 0 => opts.pct \/ Select!InSample(opts.every, n)
<1>6. Select!Eligible(n) <=> /\ row # <<>> /\ Select!Cardinality(filled) > opts.skip
                             /\ sample
                             /\ opts.search # {} =>
                                  \E ix \in DOMAIN row, t \in opts.search :
                                    Select!HasText(Select!CellClean(opts, row[ix]).text, t)
  BY DEF Select!Eligible, filled
<1> DEFINE found == \E ix \in DOMAIN row, t \in opts.search : Select!HasText(Select!CellClean(opts, row[ix]).text, t)
           hit == \E ix \in DOMAIN row : Hits(row[ix])
           e == Select!Eligible(n)
           s == Select!RowSearch(row).hit
<1>7. /\ e <=> row # <<>> /\ Select!Cardinality(filled) > opts.skip /\ sample /\ (opts.search # {} => found)
      /\ hit <=> found
      /\ s <=> (opts.search = {} \/ hit)
  BY <1>4, <1>5, <1>6
<1> HIDE DEF row, sample, found, hit, e, s
<1>8. e <=> n > opts.skip /\ sample /\ s
  BY <1>1, <1>3, <1>7
<1> QED BY <1>8 DEF e, s, sample, row

(* The one step that counts: the row behind those read so far is counted, and written
   if that is due. *)
LEMMA SelRowStep ==
  ASSUME SelInv, data.handler = "data", at < Len(input), at' = at + 1, UNCHANGED <<opts, input>>,
         NEW print \in BOOLEAN, NEW cells, NEW count, count = data.data_row_count + 1,
         data' = [ data EXCEPT !.data_row_count = count,
                     !.skip_data_rows = IF ~data.cancelled /\ @ > 0 THEN @ - 1 ELSE @,
                     !.cancelled = @ \/ (print /\ Select!AtLimit(count)) ],
         written' = IF print THEN Append(written, [row |-> count, cells |-> cells]) ELSE written,
         print => ~data.cancelled /\ Select!Eligible(count),
         ~opts.pct /\ ~data.cancelled /\ Select!Eligible(count) => print
  PROVE  SelInv'
PROOF
<1>1. /\ SelWritten /\ opts \in SelectOptions /\ input \in SelectInputs /\ at \in Nat /\ at > 0 /\ count = at
      /\ data.cancelled \in BOOLEAN /\ Len(input) \in Nat
      /\ DOMAIN data = {"header_names", "out2in", "data_row_count", "skip_data_rows", "cancelled", "handler"}
  <2>1. SelWritten /\ opts \in SelectOptions /\ input \in SelectInputs /\ at \in 0 .. Len(input)
        /\ data.cancelled \in BOOLEAN
        /\ DOMAIN data = {"header_names", "out2in", "data_row_count", "skip_data_rows", "cancelled", "handler"}
    BY DEF SelInv
  <2>2. Len(input) \in Nat
    BY <2>1, SelLength
  <2>3. at > 0 /\ data.data_row_count = at - 1
    BY <2>1 DEF SelWritten
  <2> QED BY <2>1, <2>2, <2>3
<1>2. /\ opts.skip \in Nat /\ opts.head \in Nat /\ opts' = opts /\ input' = input /\ at' = at + 1
  BY <1>1, SelectAssumption
<1>3. /\ DOMAIN data' = DOMAIN data /\ data'.handler = "data" /\ data'.data_row_count = count
      /\ data'.skip_data_rows = (IF ~data.cancelled /\ data.skip_data_rows > 0
                                 THEN data.skip_data_rows - 1 ELSE data.skip_data_rows)
      /\ data'.cancelled = (data.cancelled \/ (print /\ Select!AtLimit(count)))
  BY <1>1
<1>4. \A n : Select!Eligible(n)' <=> Select!Eligible(n)
  BY <1>2 DEF Select!Eligible
<1> DEFINE E(n) == Select!Eligible(n)
           limit(n) == opts.head > 0 /\ n + 1 >= opts.head
           nums == SelNumbers
           nums2 == SelNumbers'
           last == {n \in 1 .. at - 1 : E(n) /\ limit(n)}
           last2 == {n \in 1 .. at : E(n) /\ limit(n)}
<1>5. /\ Select!AtLimit(count) <=> limit(at)
      /\ SelLast = last
      /\ SelLast' = last2
  <2>1. Select!AtLimit(count) <=> limit(at)
    BY <1>1 DEF Select!AtLimit
  <2>2. SelLast = last
    BY DEF SelLast
  <2>3. at' - 1 = at
    BY <1>1, <1>2
  <2>4. SelLast' = last2
    BY <1>2, <1>4, <2>3 DEF SelLast
  <2> QED BY <2>1, <2>2, <2>4
<1>6. IsList(written) /\ IsList(written') /\ Len(written) \in Nat /\ DOMAIN written = 1 .. Len(written)
      /\ (~print => written' = written)
      /\ (print => /\ DOMAIN written' = 1 .. Len(written) + 1
                   /\ \A k \in 1 .. Len(written) : written'[k] = written[k]
                   /\ written'[Len(written) + 1].row = at)
  <2>1. IsList(written)
    BY <1>1 DEF SelWritten
  <2>2. CASE print
    <3> DEFINE w == [row |-> count, cells |-> cells]
    <3>1. w.row = at
      BY <1>1
    <3> HIDE DEF w
    <3>2. written' = Append(written, w)
      BY <2>2 DEF w
    <3> QED BY <2>1, <2>2, <3>1, <3>2, ListAppended
  <2>3. CASE ~print
    <3>1. Len(written) \in Nat /\ DOMAIN written = 1 .. Len(written)
      BY <2>1, ListAppended
    <3> QED BY <2>1, <2>3, <3>1
  <2> QED BY <2>2, <2>3
<1>7. /\ \A k \in DOMAIN written : written[k].row \in 0 .. at - 1
      /\ \A m, n \in DOMAIN written : m < n => written[m].row < written[n].row
      /\ \A n \in nums : E(n)
      /\ nums \subseteq 1 .. at - 1
  <2>1. \A k \in DOMAIN written : written[k].row \in 0 .. at - 1
    BY <1>1 DEF SelWritten
  <2>2. nums \subseteq 1 .. at - 1
    BY <1>1, <2>1 DEF SelNumbers
  <2> QED BY <1>1, <2>1, <2>2 DEF SelWritten
<1>8. nums2 = IF print THEN nums \cup {at} ELSE nums
  <2>1. CASE print
    BY <1>1, <1>6, <2>1 DEF SelNumbers
  <2>2. CASE ~print
    BY <1>6, <2>2 DEF SelNumbers
  <2> QED BY <2>1, <2>2
<1>9. /\ \A k \in DOMAIN written' : written'[k].row \in 0 .. at
      /\ \A m, n \in DOMAIN written' : m < n => written'[m].row < written'[n].row
  <2>1. CASE print
    <3>1. \A k \in 1 .. Len(written) + 1 :
            written'[k].row = IF k = Len(written) + 1 THEN at ELSE written[k].row
      BY <1>6, <2>1
    <3>2. \A k \in 1 .. Len(written) : written[k].row \in Int /\ 0 <= written[k].row /\ written[k].row < at
      <4>1. \A i \in 0 .. at - 1 : i \in Int /\ 0 <= i /\ i < at
        BY <1>1
      <4>2. \A k \in 1 .. Len(written) : written[k].row \in 0 .. at - 1
        BY <1>6, <1>7
      <4> QED BY <4>1, <4>2
    <3>3. \A m, n \in 1 .. Len(written) : m < n => written[m].row < written[n].row
      BY <1>6, <1>7
    <3> QED BY <1>1, <1>6, <2>1, <3>1, <3>2, <3>3
  <2>2. CASE ~print
    <3>1. \A i \in 0 .. at - 1 : i \in 0 .. at
      BY <1>1
    <3> QED BY <1>6, <1>7, <2>2, <3>1
  <2> QED BY <2>1, <2>2
<1>10. \A n \in nums2 : E(n)
  BY <1>1, <1>7, <1>8
<1>11. ASSUME ~opts.pct
       PROVE  /\ data'.cancelled <=> last2 # {}
              /\ nums2 = {n \in 1 .. at : E(n) /\ \A m \in last2 : n <= m}
  <2>1. /\ data.cancelled <=> last # {}
        /\ nums = {n \in 1 .. at - 1 : E(n) /\ \A m \in last : n <= m}
    BY <1>1, <1>5, <1>11 DEF SelWritten
  <2>2. print <=> ~data.cancelled /\ E(at)
    BY <1>1, <1>11
  <2>3. data'.cancelled <=> data.cancelled \/ (print /\ limit(at))
    BY <1>3, <1>5
  <2> HIDE DEF E, limit, nums, nums2
  <2>4. last2 = last \cup {n \in {at} : E(n) /\ limit(n)}
    BY <1>1
  <2>5. \A n \in 1 .. at : n \in 1 .. at - 1 \/ n = at
    BY <1>1
  <2>6. 1 .. at - 1 \subseteq 1 .. at /\ at \in 1 .. at /\ \A n \in 1 .. at - 1 : n <= at /\ ~(at <= n)
    BY <1>1
  <2> HIDE DEF last, last2
  <2>7. last \subseteq 1 .. at - 1
    BY DEF last
  <2>8. data'.cancelled <=> last2 # {}
    BY <2>1, <2>2, <2>3, <2>4
  <2>9. CASE data.cancelled
    <3>1. PICK m \in last : TRUE
      BY <2>1, <2>9
    <3>2. nums2 = nums
      BY <1>8, <2>2, <2>9
    <3>3. \A n \in 1 .. at : (\A k \in last2 : n <= k) <=> n # at /\ \A k \in last : n <= k
      BY <2>4, <2>5, <2>6, <2>7, <3>1
    <3>4. nums2 = {n \in 1 .. at : E(n) /\ \A k \in last2 : n <= k}
      BY <2>1, <2>5, <2>6, <3>2, <3>3
    <3> QED BY <2>8, <3>4
  <2>10. CASE ~data.cancelled
    <3>1. last = {}
      BY <2>1, <2>10
    <3>2. nums = {n \in 1 .. at - 1 : E(n)}
      BY <2>1, <3>1
    <3>3. nums2 = {n \in 1 .. at : E(n)}
      BY <1>8, <2>2, <2>5, <2>6, <2>10, <3>2
    <3>4. \A n \in 1 .. at, k \in last2 : n <= k
      BY <1>1, <2>4, <3>1
    <3> QED BY <2>8, <3>3, <3>4
  <2> QED BY <2>9, <2>10
<1>12. ~data'.cancelled => data'.skip_data_rows = IF opts.skip > at THEN opts.skip - at ELSE 0
  <2>1. ~data.cancelled => data.skip_data_rows = IF opts.skip > at - 1 THEN opts.skip - (at - 1) ELSE 0
    BY <1>1 DEF SelWritten
  <2> QED BY <1>1, <1>2, <1>3, <2>1
<1>13. SelWritten'
  <2>1. at' - 1 = at /\ at' > 0
    BY <1>1, <1>2
  <2>2. data'.data_row_count = at' - 1 /\ IsList(written')
    BY <1>1, <1>3, <1>6, <2>1
  <2>3. ~data'.cancelled => data'.skip_data_rows = IF opts'.skip > at' - 1 THEN opts'.skip - (at' - 1) ELSE 0
    BY <1>2, <1>12, <2>1
  <2>4. \A n \in SelNumbers' : Select!Eligible(n)'
    BY <1>4, <1>10
  <2>5. ~opts'.pct => /\ data'.cancelled <=> SelLast' # {}
                      /\ SelNumbers' = {n \in 1 .. at' - 1 : Select!Eligible(n)' /\ \A m \in SelLast' : n <= m}
    BY <1>2, <1>4, <1>5, <1>11, <2>1
  <2>6. \A k \in DOMAIN written' : written'[k].row \in 0 .. at' - 1
    BY <1>9, <2>1
  <2> QED BY <1>9, <2>1, <2>2, <2>3, <2>4, <2>5, <2>6 DEF SelWritten
<1>14. at' \in 0 .. Len(input')
  BY <1>1, <1>2
<1>15. data'.cancelled \in BOOLEAN
  BY <1>1, <1>3
<1>16. data'.handler = "data"
  BY <1>3
<1> QED BY <1>1, <1>2, <1>3, <1>13, <1>14, <1>15, <1>16 DEF SelInv

(* A row is printed if it is eligible, unless the sample is taken by chance: then some of
   those that are eligible are. *)
LEMMA PrintIsEligible ==
  ASSUME SelInv, data.handler = "data", at < Len(input), NEW chance \in BOOLEAN, chance => opts.pct,
         NEW search \in {Select!RowSearch(input[at + 1])}
  PROVE  LET print == /\ ~data.cancelled
                      /\ ~( \/ data.skip_data_rows > 0
                            \/ /\ opts.every > 0 \/ opts.pct
                               /\ ~Select!InSample(opts.every, data.data_row_count + 1)
                               /\ ~(opts.pct /\ chance) )
                      /\ search.hit
         IN  /\ print => ~data.cancelled /\ Select!Eligible(data.data_row_count + 1)
             /\ ~opts.pct /\ ~data.cancelled /\ Select!Eligible(data.data_row_count + 1) => print
PROOF
<1>1. /\ opts \in SelectOptions /\ input \in SelectInputs /\ at \in Nat /\ Len(input) \in Nat
      /\ at > 0 /\ data.data_row_count + 1 = at
      /\ ~data.cancelled => data.skip_data_rows = IF opts.skip > at - 1 THEN opts.skip - (at - 1) ELSE 0
  BY SelLength DEF SelInv, SelWritten
<1>2. opts.skip \in Nat /\ opts.every \in Nat
  BY <1>1, SelectAssumption
<1>3. Select!Eligible(at) <=> /\ at > opts.skip
                              /\ opts.every > 0 => opts.pct \/ Select!InSample(opts.every, at)
                              /\ search.hit
  BY <1>1, EligibleWhen
<1>4. ~data.cancelled => (data.skip_data_rows > 0 <=> ~(at > opts.skip))
  BY <1>1, <1>2
<1>5. Select!InSample(opts.every, at) => opts.every > 0
  BY DEF Select!InSample
<1> QED BY <1>1, <1>3, <1>4, <1>5

LEMMA SelStutters ==
  ASSUME SelInv, UNCHANGED <<opts, input, at, data, written>>
  PROVE  SelInv'
PROOF
<1>1. \A n : Select!Eligible(n)' <=> Select!Eligible(n)
  BY DEF Select!Eligible
<1>2. SelNumbers' = SelNumbers /\ SelLast' = SelLast
  BY <1>1 DEF SelNumbers, SelLast
<1>3. SelWritten' <=> SelWritten
  BY <1>1, <1>2 DEF SelWritten
<1> QED BY <1>3 DEF SelInv

(* A header sets the columns, or it does not, and nothing is counted yet. *)
LEMMA SelHeaderStep ==
  ASSUME SelInv, at = 0, at < Len(input), at' = at + 1, UNCHANGED <<opts, input>>,
         data.handler = "header", NEW names, NEW columns, NEW handler, handler \in {"header", "none"},
         Select!SetHeader(names, columns, handler)
  PROVE  SelInv'
PROOF
<1>1. /\ opts \in SelectOptions /\ input \in SelectInputs /\ opts' = opts /\ input' = input /\ at' = 1
      /\ Len(input) \in Nat /\ at' \in 0 .. Len(input')
      /\ DOMAIN data = {"header_names", "out2in", "data_row_count", "skip_data_rows", "cancelled", "handler"}
      /\ data.data_row_count = 0 /\ data.skip_data_rows = opts.skip /\ ~data.cancelled /\ written = <<>>
  BY SelLength DEF SelInv
<1>2. CASE Select!Failed(names)
  <2>1. /\ data' = [data EXCEPT !.header_names = names, !.cancelled = TRUE, !.handler = handler]
        /\ written' = written
    BY <1>2 DEF Select!SetHeader
  <2>2. /\ DOMAIN data' = DOMAIN data /\ data'.cancelled = TRUE /\ data'.handler = handler
        /\ data'.data_row_count = 0 /\ data'.skip_data_rows = opts.skip
    BY <1>1, <2>1
  <2>3. data'.handler # "data"
    BY <2>2
  <2> QED BY <1>1, <2>1, <2>2, <2>3 DEF SelInv
<1>3. CASE ~Select!Failed(names)
  <2>1. PICK w :
          /\ data' = [data EXCEPT !.header_names = names, !.out2in = columns, !.handler = "data"]
          /\ w.row = 0
          /\ written' = IF opts.no_header THEN written ELSE <<w>>
    BY <1>3 DEF Select!SetHeader
  <2>2. /\ DOMAIN data' = DOMAIN data /\ ~data'.cancelled /\ data'.cancelled \in BOOLEAN /\ data'.handler = "data"
        /\ data'.data_row_count = 0 /\ data'.skip_data_rows = opts.skip
    <3>1. data.cancelled = FALSE
      BY <1>1 DEF SelInv
    <3> QED BY <1>1, <2>1, <3>1
  <2>3. /\ IsList(written')
        /\ \A k \in DOMAIN written' : k = 1 /\ written'[k].row = 0
    <3>1. <<>> \in Seq({w}) /\ <<w>> \in Seq({w}) /\ DOMAIN <<>> = {} /\ DOMAIN <<w>> = {1} /\ <<w>>[1] = w
      OBVIOUS
    <3> QED BY <1>1, <2>1, <3>1 DEF IsList
  <2>4. SelNumbers' = {} /\ SelLast' = {} /\ 1 .. at' - 1 = {} /\ opts.skip \in Nat
    BY <1>1, <2>3, SelectAssumption DEF SelNumbers, SelLast
  <2>5. SelWritten'
    <3>1. at' > 0 /\ at' - 1 = 0
      BY <1>1
    <3>2. data'.skip_data_rows = IF opts'.skip > at' - 1 THEN opts'.skip - (at' - 1) ELSE 0
      BY <1>1, <2>2, <2>4, <3>1
    <3>3. \A m, n \in DOMAIN written' : m < n => written'[m].row < written'[n].row
      BY <2>3
    <3>4. \A k \in DOMAIN written' : written'[k].row \in 0 .. at' - 1
      BY <2>3, <3>1
    <3> QED BY <2>2, <2>3, <2>4, <3>1, <3>2, <3>3, <3>4 DEF SelWritten
  <2> QED BY <1>1, <2>2, <2>5 DEF SelInv
<1> QED BY <1>2, <1>3

LEMMA SelInitIsRight ==
  ASSUME Select!Init
  PROVE  SelInv
PROOF
<1>1. /\ opts \in SelectOptions /\ input \in SelectInputs /\ at = 0 /\ written = <<>>
      /\ data = [ header_names |-> <<>>, out2in |-> <<>>, data_row_count |-> 0,
                  skip_data_rows |-> opts.skip, cancelled |-> FALSE, handler |-> "header" ]
  BY DEF Select!Init
<1>2. Len(input) \in Nat
  BY <1>1, SelLength
<1> QED BY <1>1, <1>2 DEF SelInv

(* select *)
LEMMA SelNextIsRight ==
  ASSUME SelInv, Select!Next \/ UNCHANGED <<opts, input, at, data, written, pc>>
  PROVE  SelInv'
PROOF
<1>0. /\ opts \in SelectOptions /\ input \in SelectInputs /\ at \in 0 .. Len(input) /\ Len(input) \in Nat
      /\ data.cancelled \in BOOLEAN
  BY SelLength DEF SelInv
<1>1. CASE Select!HeaderRow
  <2>1. /\ data.handler = "header" /\ at < Len(input) /\ at' = at + 1 /\ UNCHANGED <<opts, input>>
    BY <1>1 DEF Select!HeaderRow, Select!Deliver
  <2>2. CASE data.cancelled
    <3>1. data' = data /\ written' = written
      BY <1>1, <2>2 DEF Select!HeaderRow
    <3>2. at' \in 0 .. Len(input') /\ at' # 0
      BY <1>0, <2>1
    <3> QED BY <2>1, <2>2, <3>1, <3>2 DEF SelInv
  <2>3. CASE ~data.cancelled
    <3>1. PICK names : Select!SetHeader(names, Select!SetOutputColumns(names), "header")
      BY <1>1, <2>3 DEF Select!HeaderRow
    <3>2. at = 0
      BY <2>1, <2>3 DEF SelInv
    <3> QED BY <2>1, <3>1, <3>2, SelHeaderStep
  <2> QED BY <2>2, <2>3
<1>2. CASE Select!DataRow
  <2>1. PICK chance \in BOOLEAN, search \in {Select!RowSearch(input[at + 1])} :
          LET count  == data.data_row_count + 1
              passed == input[at + 1] = <<>> \/ data.cancelled
              print  == ~passed /\ ~Select!SkipThisRow(count, chance) /\ search.hit
          IN  /\ chance => opts.pct
              /\ data' = [ data EXCEPT !.data_row_count = count,
                             !.skip_data_rows = IF ~passed /\ @ > 0 THEN @ - 1 ELSE @,
                             !.cancelled = @ \/ (print /\ Select!AtLimit(count)) ]
              /\ written' = IF print
                            THEN Append(written, [row |-> count,
                                                  cells |-> Select!OutputDataRow(search.row, data.out2in)])
                            ELSE written
    BY <1>2 DEF Select!DataRow
  <2>2. /\ data.handler = "data" /\ at < Len(input) /\ at' = at + 1 /\ UNCHANGED <<opts, input>>
    BY <1>2 DEF Select!DataRow, Select!Deliver
  <2>3. at > 0 /\ data.data_row_count + 1 = at /\ at \in Nat
    BY <1>0, <2>2 DEF SelInv, SelWritten
  <2>4. input[at + 1] # <<>>
    <3>1. at + 1 <= Len(input)
      BY <1>0, <2>2, <2>3
    <3> QED BY <1>0, <2>3, <3>1, SelRow
  <2> DEFINE count == data.data_row_count + 1
             print == ~data.cancelled /\ ~Select!SkipThisRow(count, chance) /\ search.hit
             cells == Select!OutputDataRow(search.row, data.out2in)
  <2>5. /\ data' = [ data EXCEPT !.data_row_count = count,
                       !.skip_data_rows = IF ~data.cancelled /\ @ > 0 THEN @ - 1 ELSE @,
                       !.cancelled = @ \/ (print /\ Select!AtLimit(count)) ]
        /\ written' = IF print THEN Append(written, [row |-> count, cells |-> cells]) ELSE written
        /\ chance => opts.pct
    BY <2>1, <2>4
  <2>6. /\ print => ~data.cancelled /\ Select!Eligible(count)
        /\ ~opts.pct /\ ~data.cancelled /\ Select!Eligible(count) => print
    BY <2>2, <2>3, <2>5, PrintIsEligible DEF Select!SkipThisRow
  <2>7. print \in BOOLEAN
    OBVIOUS
  <2> HIDE DEF count, print, cells
  <2>8. count = data.data_row_count + 1
    BY DEF count
  <2> QED BY <2>2, <2>5, <2>6, <2>7, <2>8, SelRowStep
<1>3. CASE Select!StopReading \/ UNCHANGED <<opts, input, at, data, written, pc>>
  <2>1. UNCHANGED <<opts, input, at, data, written>>
    BY <1>3 DEF Select!StopReading
  <2> QED BY <2>1, SelStutters
<1> QED BY <1>1, <1>2, <1>3 DEF Select!Next

(* select-pull.  Only a number of --sample-every that fits its type is as it was given. *)
LEMMA PullNextIsRight ==
  ASSUME SelInv, at = 0 <=> data.handler = "header", opts.every < 256,
         Select!PullNext \/ UNCHANGED <<opts, input, at, data, written, pc>>
  PROVE  SelInv' /\ (at' = 0 <=> data'.handler = "header")
PROOF
<1>0. /\ opts \in SelectOptions /\ input \in SelectInputs /\ at \in 0 .. Len(input) /\ Len(input) \in Nat
      /\ data.cancelled \in BOOLEAN
      /\ DOMAIN data = {"header_names", "out2in", "data_row_count", "skip_data_rows", "cancelled", "handler"}
  BY SelLength DEF SelInv
<1>1. CASE Select!PullHeader
  <2>1. /\ at = 0 /\ data.handler = "header" /\ at < Len(input) /\ at' = at + 1 /\ UNCHANGED <<opts, input>>
    BY <1>1 DEF Select!PullHeader, Select!Deliver
  <2>2. PICK names : Select!SetHeader(names, Select!PullColumns(names), "none")
    BY <1>1 DEF Select!PullHeader
  <2>3. data'.handler # "header"
    BY <1>0, <2>2 DEF Select!SetHeader
  <2> QED BY <2>1, <2>2, <2>3, SelHeaderStep
<1>2. CASE Select!PullRow
  <2>1. PICK chance \in BOOLEAN, search \in {Select!PullSearch(input[at + 1])} :
          LET count == data.data_row_count + 1
              print == ~data.cancelled /\ ~Select!PullSkipRow(count, chance) /\ search.hit
          IN  /\ chance => opts.pct
              /\ data' = [ data EXCEPT !.data_row_count = count,
                             !.skip_data_rows = IF ~data.cancelled /\ @ > 0 THEN @ - 1 ELSE @,
                             !.cancelled = @ \/ (print /\ Select!AtLimit(count)) ]
              /\ written' = IF print THEN Append(written, [row |-> count, cells |-> Select!PullCells(search.row)])
                            ELSE written
    BY <1>2 DEF Select!PullRow
  <2>2. at > 0 /\ at \in Nat /\ at < Len(input) /\ at' = at + 1 /\ UNCHANGED <<opts, input>>
    BY <1>0, <1>2 DEF Select!PullRow, Select!Deliver
  <2> DEFINE count == data.data_row_count + 1
             print == ~data.cancelled /\ ~Select!PullSkipRow(count, chance) /\ search.hit
             cells == Select!PullCells(search.row)
  <2>3. /\ data' = [ data EXCEPT !.data_row_count = count,
                       !.skip_data_rows = IF ~data.cancelled /\ @ > 0 THEN @ - 1 ELSE @,
                       !.cancelled = @ \/ (print /\ Select!AtLimit(count)) ]
        /\ written' = IF print THEN Append(written, [row |-> count, cells |-> cells]) ELSE written
        /\ chance => opts.pct
    BY <2>1
  <2>4. CASE data.handler = "data"
    <3>1. Select!PullSampleEvery = opts.every
      <4>1. opts.every \in Nat
        BY <1>0, SelectAssumption
      <4> QED BY <4>1 DEF Select!PullSampleEvery
    <3>2. search \in {Select!RowSearch(input[at + 1])}
      BY <2>1 DEF Select!PullSearch
    <3>3. /\ print => ~data.cancelled /\ Select!Eligible(count)
          /\ ~opts.pct /\ ~data.cancelled /\ Select!Eligible(count) => print
      BY <2>2, <2>3, <2>4, <3>1, <3>2, PrintIsEligible DEF Select!PullSkipRow
    <3>4. print \in BOOLEAN
      OBVIOUS
    <3> HIDE DEF count, print, cells
    <3>5. count = data.data_row_count + 1
      BY DEF count
    <3>6. SelInv'
      BY <2>2, <2>3, <2>4, <3>3, <3>4, <3>5, SelRowStep
    <3>7. data'.handler = "data" /\ at' # 0
      BY <1>0, <2>2, <2>3, <2>4
    <3> QED BY <3>6, <3>7
  <2>5. CASE data.handler # "data"
    <3> HIDE DEF count, print, cells
    <3>1. /\ DOMAIN data' = DOMAIN data /\ data'.handler = data.handler
          /\ data'.cancelled = (data.cancelled \/ (print /\ Select!AtLimit(count)))
      BY <1>0, <2>3
    <3>2. data.handler # "header" /\ data'.cancelled \in BOOLEAN /\ at' \in 0 .. Len(input') /\ at' # 0
      BY <1>0, <2>2, <3>1
    <3>3. SelInv'
      BY <1>0, <2>2, <2>5, <3>1, <3>2 DEF SelInv
    <3> QED BY <3>1, <3>2, <3>3
  <2> QED BY <2>4, <2>5
<1>3. CASE Select!PullEnds \/ UNCHANGED <<opts, input, at, data, written, pc>>
  <2>1. UNCHANGED <<opts, input, at, data, written>>
    BY <1>3 DEF Select!PullEnds
  <2> QED BY <2>1, SelStutters
<1> QED BY <1>1, <1>2, <1>3 DEF Select!PullNext

(* The invariant gives the promise. *)
LEMMA SelInvIsPromise ==
  ASSUME SelInv
  PROVE  Select!WritesRows
BY DEF SelInv, SelWritten, SelNumbers, SelLast, Select!WritesRows

-----------------------------------------------------------------------------
(* paste.                                                                   *)

(* f holds what becomes of a when m steps are taken one after the other. *)
Steps(S, m) == [1 .. m -> [S -> S]]
Iterates(f, S, a, m, g) ==
  f \in [0 .. m -> S] /\ f[0] = a /\ \A n \in 1 .. m : f[n] = g[n][f[n - 1]]

LEMMA Iterated ==
  ASSUME NEW S, NEW a \in S, NEW m \in Nat, NEW g \in Steps(S, m)
  PROVE  \E f : Iterates(f, S, a, m, g)
PROOF
<1> USE DEF Iterates, Steps
<1> DEFINE Good(f, k) == f \in [0 .. k -> S] /\ f[0] = a /\ \A n \in 1 .. k : f[n] = g[n][f[n - 1]]
           Without == {k \in Nat : k <= m /\ ~\E f : Good(f, k)}
<1>1. SUFFICES ASSUME Without # {} PROVE FALSE
  <2> HIDE DEF Good
  <2>1. m <= m
    OBVIOUS
  <2>2. Without = {} => \E f : Good(f, m)
    BY <2>1, Zenon
  <2> QED BY <2>2 DEF Good
<1>2. PICK k \in Without : \A j \in Without : k <= j
  BY <1>1, LeastNumber
<1>3. k # 0
  <2> DEFINE f == [j \in 0 .. 0 |-> a]
  <2>1. f \in [0 .. 0 -> S] /\ f[0] = a /\ \A n \in 1 .. 0 : FALSE
    OBVIOUS
  <2> HIDE DEF f
  <2>2. Good(f, 0)
    BY <2>1
  <2> HIDE DEF Good
  <2> QED BY <1>2, <2>2
<1>4. k \in Nat /\ k <= m /\ k - 1 \in Nat /\ k - 1 <= m /\ \E f : Good(f, k - 1)
  <2> HIDE DEF Good
  <2>1. k \in Nat /\ k <= m /\ k - 1 \in Nat /\ k - 1 <= m /\ ~(k <= k - 1)
    BY <1>2, <1>3
  <2>2. k - 1 \notin Without
    BY <1>2, <2>1
  <2> QED BY <2>1, <2>2
<1>5. PICK h : Good(h, k - 1)
  BY <1>4
<1> DEFINE f == [j \in 0 .. k |-> IF j < k THEN h[j] ELSE g[k][h[k - 1]]]
<1>6. h[k - 1] \in S /\ g[k] \in [S -> S]
  BY <1>3, <1>4, <1>5
<1>7. g[k][h[k - 1]] \in S
  BY <1>6
<1>8. f \in [0 .. k -> S]
  BY <1>4, <1>5, <1>7
<1>9. f[0] = a
  BY <1>3, <1>4, <1>5
<1>10. ASSUME NEW n \in 1 .. k  PROVE  f[n] = g[n][f[n - 1]]
  <2>1. n \in 0 .. k /\ n - 1 \in 0 .. k /\ n - 1 < k
    BY <1>4
  <2>2. CASE n < k
    <3>1. n \in 1 .. k - 1
      BY <1>4, <2>2
    <3> QED BY <1>5, <2>1, <2>2, <3>1
  <2>3. CASE n = k
    <3>1. f[k] = g[k][h[k - 1]] /\ f[k - 1] = h[k - 1]
      BY <1>4, <2>1, <2>3
    <3> HIDE DEF f
    <3> QED BY <2>3, <3>1
  <2> QED BY <1>4, <2>2, <2>3
<1>11. Good(f, k)
  <2> HIDE DEF f
  <2> QED BY <1>8, <1>9, <1>10
<1> QED BY <1>2, <1>11

(* The row of a file that is written as row n, or what stands for it. *)
PasteCells(f, n) ==
  [k \in 1 .. Paste!Width(f) |->
     IF n \in DOMAIN input[f] /\ k \in DOMAIN input[f][n] THEN input[f][n][k] ELSE "empty"]

PasteRow(n) == Paste!FlattenSeq([f \in DOMAIN input |-> PasteCells(f, n)])

PasteTexts == STRING \cup {"empty"}

(* Where each piece begins when they are put one behind the other. *)
Flattens(f, seqs) == f = [i \in 1 .. Len(seqs) |-> IF i = 1 THEN seqs[i] ELSE f[i - 1] \o seqs[i]]
Begins(o, seqs) == o = [i \in 1 .. Len(seqs) |-> IF i = 1 THEN 0 ELSE o[i - 1] + Len(seqs[i - 1])]

LEMMA FlattensExists ==
  ASSUME NEW T, NEW seqs \in Seq(Seq(T)), Len(seqs) > 0
  PROVE  \E f : Flattens(f, seqs)
PROOF
<1> DEFINE m == Len(seqs)
           S == Seq(T)
           g == [i \in 1 .. m - 1 |-> [s \in S |-> s \o seqs[i + 1]]]
<1>1. m \in Nat /\ m - 1 \in Nat /\ 1 \in 1 .. m /\ \A i \in 1 .. m : seqs[i] \in S
  OBVIOUS
<1>2. \A i \in 1 .. m - 1, s \in S : i + 1 \in 1 .. m /\ s \o seqs[i + 1] \in S
  BY <1>1
<1> HIDE DEF S, m
<1>3. g \in Steps(S, m - 1)
  BY <1>2 DEF Steps
<1> HIDE DEF g
<1>4. PICK h : Iterates(h, S, seqs[1], m - 1, g)
  <2>1. seqs[1] \in S /\ m - 1 \in Nat
    BY <1>1
  <2> QED BY <1>3, <2>1, Iterated
<1>5. \A n \in 1 .. m - 1 : h[n] = h[n - 1] \o seqs[n + 1]
  <2>1. \A n \in 1 .. m - 1 : n - 1 \in 0 .. m - 1
    BY <1>1
  <2> QED BY <1>4, <2>1 DEF g, Iterates
<1> DEFINE f == [i \in 1 .. m |-> h[i - 1]]
<1>6. ASSUME NEW i \in 1 .. m  PROVE  f[i] = IF i = 1 THEN seqs[i] ELSE f[i - 1] \o seqs[i]
  <2>1. CASE i = 1
    BY <1>4, <2>1 DEF Iterates
  <2>2. CASE i # 1
    <3>1. i - 1 \in 1 .. m - 1 /\ i - 1 \in 1 .. m /\ (i - 1) + 1 = i
      BY <1>1, <2>2
    <3>2. f[i] = h[i - 1] /\ f[i - 1] = h[(i - 1) - 1]
      BY <3>1
    <3>3. h[i - 1] = h[(i - 1) - 1] \o seqs[(i - 1) + 1]
      BY <1>5, <3>1
    <3> QED BY <2>2, <3>1, <3>2, <3>3
  <2> QED BY <2>1, <2>2
<1>7. f = [i \in 1 .. m |-> IF i = 1 THEN seqs[i] ELSE f[i - 1] \o seqs[i]]
  <2>1. f = [i \in 1 .. m |-> f[i]]
    OBVIOUS
  <2> HIDE DEF f
  <2> QED BY <1>6, <2>1
<1> HIDE DEF f
<1> QED BY <1>7 DEF Flattens, m

LEMMA BeginsExists ==
  ASSUME NEW T, NEW seqs \in Seq(Seq(T)), Len(seqs) > 0
  PROVE  \E o : Begins(o, seqs)
PROOF
<1> DEFINE m == Len(seqs)
           g == [i \in 1 .. m - 1 |-> [s \in Nat |-> s + Len(seqs[i])]]
<1>1. m \in Nat /\ m - 1 \in Nat /\ 1 \in 1 .. m /\ \A i \in 1 .. m : Len(seqs[i]) \in Nat
  OBVIOUS
<1>2. \A i \in 1 .. m - 1, s \in Nat : i \in 1 .. m /\ s + Len(seqs[i]) \in Nat
  BY <1>1
<1> HIDE DEF m
<1>3. g \in Steps(Nat, m - 1)
  BY <1>2 DEF Steps
<1> HIDE DEF g
<1>4. PICK h : Iterates(h, Nat, 0, m - 1, g)
  <2>1. 0 \in Nat /\ m - 1 \in Nat
    BY <1>1
  <2> QED BY <1>3, <2>1, Iterated
<1>5. \A n \in 1 .. m - 1 : h[n] = h[n - 1] + Len(seqs[n])
  <2>1. \A n \in 1 .. m - 1 : n - 1 \in 0 .. m - 1
    BY <1>1
  <2> QED BY <1>4, <2>1 DEF g, Iterates
<1> DEFINE f == [i \in 1 .. m |-> h[i - 1]]
<1>6. ASSUME NEW i \in 1 .. m  PROVE  f[i] = IF i = 1 THEN 0 ELSE f[i - 1] + Len(seqs[i - 1])
  <2>1. CASE i = 1
    BY <1>4, <2>1 DEF Iterates
  <2>2. CASE i # 1
    <3>1. i - 1 \in 1 .. m - 1 /\ i - 1 \in 1 .. m
      BY <1>1, <2>2
    <3>2. f[i] = h[i - 1] /\ f[i - 1] = h[(i - 1) - 1]
      BY <3>1
    <3>3. h[i - 1] = h[(i - 1) - 1] + Len(seqs[i - 1])
      BY <1>5, <3>1
    <3> QED BY <2>2, <3>2, <3>3
  <2> QED BY <2>1, <2>2
<1>7. f = [i \in 1 .. m |-> IF i = 1 THEN 0 ELSE f[i - 1] + Len(seqs[i - 1])]
  <2>1. f = [i \in 1 .. m |-> f[i]]
    OBVIOUS
  <2> HIDE DEF f
  <2> QED BY <1>6, <2>1
<1> HIDE DEF f
<1> QED BY <1>7 DEF Begins, m

(* A piece is where the others before it end. *)
LEMMA PiecesInPlace ==
  ASSUME NEW T, NEW seqs \in Seq(Seq(T)), Len(seqs) > 0, NEW o, Begins(o, seqs)
  PROVE  \A j \in 1 .. Len(seqs) : \A k \in 1 .. Len(seqs[j]) : Paste!FlattenSeq(seqs)[o[j] + k] = seqs[j][k]
PROOF
<1> DEFINE m == Len(seqs)
           flat == CHOOSE f : Flattens(f, seqs)
<1>1. m \in Nat /\ m > 0 /\ \A i \in 1 .. m : seqs[i] \in Seq(T) /\ Len(seqs[i]) \in Nat
  OBVIOUS
<1>2. Flattens(flat, seqs)
  BY FlattensExists
<1>3. Paste!FlattenSeq(seqs) = flat[m]
  BY <1>1 DEF Paste!FlattenSeq, Flattens
<1> HIDE DEF flat, m
<1>4. \A i \in 1 .. m : flat[i] = IF i = 1 THEN seqs[i] ELSE flat[i - 1] \o seqs[i]
  <2>1. flat = [i \in 1 .. m |-> IF i = 1 THEN seqs[i] ELSE flat[i - 1] \o seqs[i]]
    BY <1>2 DEF Flattens, m
  <2> QED BY <2>1
<1>5. \A i \in 1 .. m : o[i] = IF i = 1 THEN 0 ELSE o[i - 1] + Len(seqs[i - 1])
  <2>1. o = [i \in 1 .. m |-> IF i = 1 THEN 0 ELSE o[i - 1] + Len(seqs[i - 1])]
    BY DEF Begins, m
  <2> QED BY <2>1
<1> DEFINE Right(i) == /\ flat[i] \in Seq(T) /\ o[i] \in Nat /\ Len(flat[i]) = o[i] + Len(seqs[i])
                       /\ \A j \in 1 .. i : \A k \in 1 .. Len(seqs[j]) :
                            /\ o[j] \in Nat /\ o[j] + k \in 1 .. Len(flat[i])
                            /\ flat[i][o[j] + k] = seqs[j][k]
<1>6. Right(1)
  <2>1. 1 \in 1 .. m /\ flat[1] = seqs[1] /\ o[1] = 0 /\ seqs[1] \in Seq(T) /\ Len(seqs[1]) \in Nat
    BY <1>1, <1>4, <1>5
  <2>2. \A j \in 1 .. 1 : j = 1
    OBVIOUS
  <2>3. \A k \in 1 .. Len(seqs[1]) : 0 + k = k
    BY <2>1
  <2> QED BY <2>1, <2>2, <2>3
<1>7. ASSUME NEW i \in 2 .. m, Right(i - 1)  PROVE  Right(i)
  <2>1. i \in 1 .. m /\ i - 1 \in 1 .. m /\ i # 1 /\ \A j \in 1 .. i : j \in 1 .. i - 1 \/ j = i
    BY <1>1
  <2> DEFINE a == flat[i - 1]
             b == seqs[i]
  <2>2. /\ a \in Seq(T) /\ b \in Seq(T) /\ flat[i] = a \o b /\ o[i] = o[i - 1] + Len(seqs[i - 1])
        /\ Len(a) = o[i] /\ o[i] \in Nat /\ Len(b) \in Nat
    <3>1. a \in Seq(T) /\ o[i - 1] \in Nat /\ Len(a) = o[i - 1] + Len(seqs[i - 1])
      BY <1>7
    <3>2. b \in Seq(T) /\ Len(b) \in Nat /\ Len(seqs[i - 1]) \in Nat
      BY <1>1, <2>1
    <3>3. flat[i] = a \o b /\ o[i] = o[i - 1] + Len(seqs[i - 1])
      BY <1>4, <1>5, <2>1
    <3> QED BY <3>1, <3>2, <3>3
  <2>3. \A j \in 1 .. i - 1 : \A k \in 1 .. Len(seqs[j]) :
          o[j] \in Nat /\ o[j] + k \in 1 .. Len(a) /\ a[o[j] + k] = seqs[j][k]
    BY <1>7
  <2> HIDE DEF a, b, Right
  <2>4. /\ flat[i] \in Seq(T) /\ Len(flat[i]) = Len(a) + Len(b)
        /\ \A x \in 1 .. Len(a) : flat[i][x] = a[x] /\ x \in 1 .. Len(flat[i])
        /\ \A x \in 1 .. Len(b) : flat[i][Len(a) + x] = b[x] /\ Len(a) + x \in 1 .. Len(flat[i])
    <3> DEFINE c == a \o b
    <3>1. c \in Seq(T) /\ Len(c) = Len(a) + Len(b) /\ Len(a) \in Nat
      BY <2>2
    <3>2. \A x \in 1 .. Len(a) : c[x] = a[x]
      BY <2>2
    <3>3. \A x \in 1 .. Len(b) : c[Len(a) + x] = b[x]
      <4>1. SUFFICES ASSUME NEW x \in 1 .. Len(b)  PROVE  (a \o b)[Len(a) + x] = b[x]
        BY DEF c
      <4>2. a \in Seq(T) /\ b \in Seq(T) /\ Len(a) \in Nat /\ Len(b) \in Nat
        BY <2>2
      <4>3. Len(a) + x \in Len(a) + 1 .. Len(a) + Len(b) /\ (Len(a) + x) - Len(a) = x
        BY <4>2
      <4> HIDE DEF c
      <4> QED BY <4>2, <4>3
    <3> HIDE DEF c
    <3>4. flat[i] = c
      BY <2>2 DEF c
    <3>5. /\ \A x \in 1 .. Len(a) : x \in 1 .. Len(c)
          /\ \A x \in 1 .. Len(b) : Len(a) + x \in 1 .. Len(c)
      <4> DEFINE p == Len(a)
                 q == Len(b)
      <4>1. p \in Nat /\ q \in Nat /\ Len(c) = p + q
        BY <2>2, <3>1
      <4> HIDE DEF p, q
      <4>2. (\A x \in 1 .. p : x \in 1 .. p + q) /\ \A x \in 1 .. q : p + x \in 1 .. p + q
        BY <4>1
      <4> QED BY <4>1, <4>2 DEF p, q
    <3> QED BY <3>1, <3>2, <3>3, <3>4, <3>5
  <2>5. ASSUME NEW j \in 1 .. i, NEW k \in 1 .. Len(seqs[j])
        PROVE  o[j] \in Nat /\ o[j] + k \in 1 .. Len(flat[i]) /\ flat[i][o[j] + k] = seqs[j][k]
    <3>1. CASE j \in 1 .. i - 1
      BY <2>3, <2>4, <3>1
    <3>2. CASE j = i
      <4>1. k \in 1 .. Len(b) /\ seqs[j][k] = b[k] /\ o[j] = Len(a)
        BY <2>2, <3>2 DEF b
      <4> QED BY <2>2, <2>4, <3>2, <4>1
    <3> QED BY <2>1, <3>1, <3>2
  <2>6. Len(flat[i]) = o[i] + Len(seqs[i])
    BY <2>2, <2>4 DEF b
  <2> QED BY <2>2, <2>4, <2>5, <2>6 DEF Right
<1>8. Right(m)
  <2> HIDE DEF Right
  <2> DEFINE Wrong == {i \in Nat : i \in 1 .. m /\ ~Right(i)}
  <2>1. SUFFICES ASSUME Wrong # {} PROVE FALSE
    BY <1>1
  <2>2. PICK i \in Wrong : \A j \in Wrong : i <= j
    BY <2>1, LeastNumber
  <2>3. i # 1
    BY <1>6, <2>2
  <2>4. i \in 2 .. m /\ i - 1 \in Nat /\ i - 1 \in 1 .. m /\ ~(i <= i - 1)
    BY <1>1, <2>2, <2>3
  <2>5. Right(i - 1)
    BY <2>2, <2>4
  <2> QED BY <1>7, <2>2, <2>4, <2>5
<1> QED BY <1>1, <1>3, <1>8 DEF m

PasteData(n) ==
  [ status : [1 .. n -> {"row", "no more input"}], row : [1 .. n -> Nat], col_count : [1 .. n -> Nat],
    have_row : BOOLEAN ]

(* File f has been asked for a row k times. *)
AskedTimes(d, f, k) ==
  IF k <= Len(input[f]) THEN d.status[f] = "row" /\ d.row[f] = k ELSE d.status[f] = "no more input"

FileNumbers == 1 .. Len(input)

(* Files before file a have been asked once more than those after it, r times. *)
PasteAsked(a, d, r) == \A f \in FileNumbers : AskedTimes(d, f, IF f < a THEN r + 1 ELSE r)

PasteWidths(a, d, p) == \A f \in FileNumbers : p # "add" \/ f < a => d.col_count[f] = Paste!Width(f)

PasteLoaded(a, d, r, p) ==
  p \in {"add", "load"} => (d.have_row <=> \E f \in FileNumbers : f < a /\ r + 1 <= Len(input[f]))

PasteStage(a, r, p) ==
  /\ p = "add" => r = 0 /\ a <= Len(input)
  /\ p \in {"print", "done"} => a = Len(input) + 1
  /\ p = "print" => r = 0 \/ \E f \in FileNumbers : r + 1 <= Len(input[f])
  /\ p \in {"load", "done"} => r = 1 \/ \E f \in FileNumbers : r > 1 /\ r <= Len(input[f])
  /\ p = "done" => \A f \in FileNumbers : Len(input[f]) <= r

PasteIs(a, d, w, p) ==
  /\ a \in 1 .. Len(input) + 1 /\ IsList(w) /\ d \in PasteData(Len(input))
  /\ \A n \in 1 .. Len(w) : w[n] = PasteRow(n)
  /\ PasteAsked(a, d, Len(w)) /\ PasteWidths(a, d, p) /\ PasteLoaded(a, d, Len(w), p)
  /\ PasteStage(a, Len(w), p)

PasteInv == input \in PasteInputs /\ PasteIs(at, data, written, pc)

LEMMA PasteFile ==
  ASSUME input \in PasteInputs
  PROVE  /\ Len(input) \in Nat /\ Len(input) > 0 /\ DOMAIN input = 1 .. Len(input)
         /\ \A f \in 1 .. Len(input) :
              /\ input[f] \in Seq(Seq(STRING)) /\ Len(input[f]) \in Nat /\ DOMAIN input[f] = 1 .. Len(input[f])
              /\ Paste!Width(f) \in Nat
PROOF
<1> DEFINE T == Seq(STRING)
           U == Seq(T)
<1>1. input \in Seq(U) /\ input # <<>>
  BY PasteAssumption
<1> HIDE DEF U
<1>2. Len(input) \in Nat /\ Len(input) > 0 /\ DOMAIN input = 1 .. Len(input)
  BY <1>1
<1>3. ASSUME NEW f \in 1 .. Len(input)
      PROVE  input[f] \in U /\ Len(input[f]) \in Nat /\ DOMAIN input[f] = 1 .. Len(input[f]) /\ Paste!Width(f) \in Nat
  <2>1. input[f] \in U
    BY <1>1, <1>2
  <2> HIDE DEF T
  <2>2. Len(input[f]) \in Nat /\ DOMAIN input[f] = 1 .. Len(input[f])
    BY <2>1 DEF U
  <2>3. input[f] # <<>> => input[f][1] \in T
    BY <2>1 DEF U
  <2> USE DEF T
  <2>4. input[f] # <<>> => Len(input[f][1]) \in Nat
    BY <2>3
  <2> QED BY <2>1, <2>2, <2>4 DEF Paste!Width
<1> QED BY <1>2, <1>3 DEF U

(* A file that is asked once more. *)
LEMMA AskedOnce ==
  ASSUME NEW m \in Nat, NEW d \in PasteData(m), NEW f \in 1 .. m, NEW k \in Nat,
         Len(input[f]) \in Nat, AskedTimes(d, f, k)
  PROVE  LET e == IF d.status[f] = "row" THEN Paste!NextRow(d, f) ELSE d
         IN  /\ e \in PasteData(m) /\ AskedTimes(e, f, k + 1)
             /\ \A g \in 1 .. m \ {f} : e.status[g] = d.status[g] /\ e.row[g] = d.row[g]
             /\ e.col_count = d.col_count
             /\ e.have_row <=> d.have_row \/ k + 1 <= Len(input[f])
PROOF
<1> DEFINE up == [d EXCEPT !.row[f] = @ + 1, !.have_row = TRUE]
           end == [d EXCEPT !.status[f] = "no more input"]
<1>1. /\ d.status \in [1 .. m -> {"row", "no more input"}] /\ d.row \in [1 .. m -> Nat]
      /\ d.col_count \in [1 .. m -> Nat] /\ d.have_row \in BOOLEAN
  BY DEF PasteData
<1>2. up \in PasteData(m) /\ end \in PasteData(m)
  <2>1. up \in PasteData(m)
    <3> HIDE DEF up, end
    <3>1. d.row[f] + 1 \in Nat
      <4>1. d.row \in [1 .. m -> Nat]
        BY <1>1
      <4>2. d.row[f] \in Nat
        BY <4>1, Zenon
      <4> QED BY <4>2
    <3> USE DEF up
    <3> DEFINE rows == [d.row EXCEPT ![f] = d.row[f] + 1]
    <3>2. rows \in [1 .. m -> Nat]
      BY <1>1, <3>1
    <3>3. up = [d EXCEPT !.row = rows, !.have_row = TRUE]
      BY DEF PasteData
    <3> HIDE DEF rows, up
    <3> QED BY <1>1, <3>2, <3>3 DEF PasteData
  <2>2. end \in PasteData(m)
    BY DEF PasteData
  <2> QED BY <2>1, <2>2
<1>3. /\ up.status = d.status /\ up.row = [d.row EXCEPT ![f] = @ + 1] /\ up.col_count = d.col_count /\ up.have_row = TRUE
      /\ end.row = d.row /\ end.status = [d.status EXCEPT ![f] = "no more input"] /\ end.col_count = d.col_count
      /\ end.have_row = d.have_row
  BY DEF PasteData
<1> HIDE DEF up, end
<1>4. CASE d.status[f] # "row"
  <2>1. ~(k <= Len(input[f])) /\ d.status[f] = "no more input"
    BY <1>4 DEF AskedTimes
  <2>2. ~(k + 1 <= Len(input[f]))
    <3> DEFINE l == Len(input[f])
    <3>1. l \in Nat /\ ~(k <= l)
      BY <2>1
    <3> HIDE DEF l, up, end
    <3>2. ~(k + 1 <= l)
      BY <3>1
    <3> QED BY <3>2 DEF l
  <2>3. AskedTimes(d, f, k + 1)
    BY <2>1, <2>2 DEF AskedTimes
  <2>4. d.have_row <=> d.have_row \/ k + 1 <= Len(input[f])
    BY <2>2, Zenon
  <2> QED BY <1>4, <2>3, <2>4
<1>5. CASE d.status[f] = "row" /\ d.row[f] < Len(input[f])
  <2>1. Paste!NextRow(d, f) = up
    BY <1>5 DEF Paste!NextRow, up
  <2>2. d.row[f] = k /\ k + 1 <= Len(input[f])
    BY <1>5 DEF AskedTimes
  <2>3. (\A g \in 1 .. m \ {f} : up.row[g] = d.row[g]) /\ up.row[f] = k + 1
    <3>1. up.row = [d.row EXCEPT ![f] = d.row[f] + 1] /\ d.row \in [1 .. m -> Nat] /\ f \in 1 .. m
      BY <1>1, <1>3
    <3>2. (\A g \in 1 .. m \ {f} : up.row[g] = d.row[g]) /\ up.row[f] = d.row[f] + 1
      BY <3>1, Zenon
    <3> QED BY <2>2, <3>2
  <2>4. AskedTimes(up, f, k + 1)
    BY <1>3, <1>5, <2>2, <2>3 DEF AskedTimes
  <2> QED BY <1>2, <1>3, <1>5, <2>1, <2>2, <2>3, <2>4
<1>6. CASE d.status[f] = "row" /\ ~(d.row[f] < Len(input[f]))
  <2>1. Paste!NextRow(d, f) = end
    BY <1>6 DEF Paste!NextRow, end
  <2>2. ~(k + 1 <= Len(input[f]))
    BY <1>6 DEF AskedTimes
  <2>3. /\ \A g \in 1 .. m \ {f} : end.status[g] = d.status[g]
        /\ end.status[f] = "no more input"
    BY <1>1, <1>3
  <2>4. AskedTimes(end, f, k + 1)
    BY <2>2, <2>3 DEF AskedTimes
  <2> QED BY <1>2, <1>3, <1>6, <2>1, <2>2, <2>3, <2>4
<1> QED BY <1>4, <1>5, <1>6

(* The row written has the cells of row n of each file, when each was asked n times. *)
LEMMA RowPrinted ==
  ASSUME input \in PasteInputs, NEW n \in Nat, n > 0,
         \A f \in 1 .. Len(input) : AskedTimes(data, f, n) /\ data.col_count[f] = Paste!Width(f)
  PROVE  Paste!FlattenSeq([f \in DOMAIN input |-> Paste!CellsOf(f)]) = PasteRow(n)
PROOF
<1>1. ASSUME NEW f \in DOMAIN input  PROVE  Paste!CellsOf(f) = PasteCells(f, n)
  <2>1. f \in 1 .. Len(input) /\ DOMAIN input[f] = 1 .. Len(input[f]) /\ Len(input[f]) \in Nat
    BY PasteFile
  <2>2. AskedTimes(data, f, n) /\ data.col_count[f] = Paste!Width(f)
    BY <2>1
  <2>3. CASE n <= Len(input[f])
    <3>1. data.status[f] = "row" /\ data.row[f] = n
      BY <2>2, <2>3, Zenon DEF AskedTimes
    <3>2. n \in DOMAIN input[f]
      BY <2>1, <2>3
    <3> QED BY <2>2, <3>1, <3>2 DEF Paste!CellsOf, PasteCells
  <2>4. CASE ~(n <= Len(input[f]))
    <3>1. data.status[f] = "no more input"
      BY <2>2, <2>4, Zenon DEF AskedTimes
    <3>2. n \notin DOMAIN input[f]
      BY <2>1, <2>4
    <3>3. \A k : k \notin DOMAIN <<>>
      OBVIOUS
    <3> QED BY <2>2, <3>1, <3>2, <3>3 DEF Paste!CellsOf, PasteCells
  <2> QED BY <2>3, <2>4
<1> QED BY <1>1 DEF PasteRow

LEMMA PasteInitIsRight == Paste!Init => PasteInv
PROOF
<1> SUFFICES ASSUME Paste!Init PROVE PasteInv
  OBVIOUS
<1>1. /\ input \in PasteInputs /\ at = 1 /\ written = <<>> /\ pc = "add"
      /\ data = [ status |-> [f \in DOMAIN input |-> "row"], row |-> [f \in DOMAIN input |-> 0],
                  col_count |-> [f \in DOMAIN input |-> 0], have_row |-> FALSE ]
  BY DEF Paste!Init
<1>2. Len(input) \in Nat /\ Len(input) > 0 /\ DOMAIN input = 1 .. Len(input)
  BY <1>1, PasteFile
<1>3. IsList(written) /\ Len(written) = 0
  <2>1. written \in Seq({})
    BY <1>1
  <2> QED BY <1>1, <2>1 DEF IsList
<1>4. /\ data.status = [f \in 1 .. Len(input) |-> "row"] /\ data.row = [f \in 1 .. Len(input) |-> 0]
      /\ data.have_row = FALSE
  BY <1>1, <1>2
<1>5. data \in PasteData(Len(input))
  BY <1>1, <1>2 DEF PasteData
<1>6. \A f \in FileNumbers : ~(f < at)
  BY <1>1, <1>2 DEF FileNumbers
<1>7. PasteAsked(at, data, 0)
  <2>1. SUFFICES ASSUME NEW f \in FileNumbers  PROVE  AskedTimes(data, f, 0)
    BY <1>6, Zenon DEF PasteAsked
  <2>2. Len(input[f]) \in Nat
    BY <1>1, PasteFile DEF FileNumbers
  <2>3. 0 <= Len(input[f]) /\ data.status[f] = "row" /\ data.row[f] = 0
    BY <1>4, <2>2 DEF FileNumbers
  <2> QED BY <2>3 DEF AskedTimes
<1>8. PasteWidths(at, data, pc) /\ PasteLoaded(at, data, 0, pc)
  BY <1>1, <1>4, <1>6 DEF PasteWidths, PasteLoaded
<1>9. PasteStage(at, 0, pc)
  BY <1>1, <1>2 DEF PasteStage
<1>10. at \in 1 .. Len(input) + 1 /\ \A n \in 1 .. Len(written) : written[n] = PasteRow(n)
  BY <1>1, <1>2, <1>3
<1> QED BY <1>1, <1>3, <1>5, <1>7, <1>8, <1>9, <1>10 DEF PasteInv, PasteIs

LEMMA PasteFacts ==
  ASSUME PasteInv
  PROVE  /\ Len(input) \in Nat /\ Len(input) > 0 /\ DOMAIN input = 1 .. Len(input)
         /\ \A f \in FileNumbers : Len(input[f]) \in Nat /\ f \in Int
         /\ at \in Nat /\ at > 0 /\ Len(written) \in Nat
         /\ data \in PasteData(Len(input)) /\ data.have_row \in BOOLEAN
PROOF
<1>1. input \in PasteInputs /\ PasteIs(at, data, written, pc)
  BY DEF PasteInv
<1>2. /\ Len(input) \in Nat /\ Len(input) > 0 /\ DOMAIN input = 1 .. Len(input)
      /\ \A f \in FileNumbers : Len(input[f]) \in Nat
  BY <1>1, PasteFile DEF FileNumbers
<1>3. at \in 1 .. Len(input) + 1 /\ IsList(written) /\ data \in PasteData(Len(input))
  BY <1>1 DEF PasteIs
<1>4. Len(written) \in Nat
  BY <1>3, ListAppended
<1>5. data.have_row \in BOOLEAN
  BY <1>3 DEF PasteData
<1>6. \A f \in FileNumbers : f \in Int
  BY <1>2 DEF FileNumbers
<1> QED BY <1>2, <1>3, <1>4, <1>5, <1>6

(* The file asked next is asked: what AskedOnce says of all files. *)
LEMMA AskedNext ==
  ASSUME PasteInv, at <= Len(input), NEW e,
         e = IF data.status[at] = "row" THEN Paste!NextRow(data, at) ELSE data
  PROVE  /\ at \in FileNumbers /\ e \in PasteData(Len(input)) /\ e.col_count = data.col_count
         /\ PasteAsked(at + 1, e, Len(written))
         /\ e.have_row \in BOOLEAN /\ (e.have_row <=> data.have_row \/ Len(written) + 1 <= Len(input[at]))
PROOF
<1> DEFINE r == Len(written)
<1>1. /\ Len(input) \in Nat /\ at \in Nat /\ at > 0 /\ r \in Nat /\ data \in PasteData(Len(input))
      /\ \A f \in FileNumbers : Len(input[f]) \in Nat /\ f \in Int
  BY PasteFacts
<1>2. at \in 1 .. Len(input) /\ at \in FileNumbers
  BY <1>1 DEF FileNumbers
<1>3. PasteAsked(at, data, r)
  BY DEF PasteInv, PasteIs
<1> HIDE DEF r
<1>4. AskedTimes(data, at, r)
  <2>1. ~(at < at)
    BY <1>1
  <2> QED BY <1>2, <1>3, <2>1, Zenon DEF PasteAsked
<1>5. /\ e \in PasteData(Len(input)) /\ AskedTimes(e, at, r + 1)
      /\ \A g \in 1 .. Len(input) \ {at} : e.status[g] = data.status[g] /\ e.row[g] = data.row[g]
      /\ e.col_count = data.col_count
      /\ e.have_row <=> data.have_row \/ r + 1 <= Len(input[at])
  BY <1>1, <1>2, <1>4, AskedOnce
<1>6. PasteAsked(at + 1, e, r)
  <2>1. SUFFICES ASSUME NEW f \in FileNumbers  PROVE  AskedTimes(e, f, IF f < at + 1 THEN r + 1 ELSE r)
    BY DEF PasteAsked
  <2>2. f \in Int /\ at \in Nat
    BY <1>1
  <2>3. CASE f = at
    <3>1. f < at + 1
      BY <2>2, <2>3
    <3> QED BY <1>5, <2>3, <3>1, Zenon
  <2>4. CASE f # at
    <3>1. f < at <=> f < at + 1
      BY <2>2, <2>4
    <3>2. AskedTimes(data, f, IF f < at THEN r + 1 ELSE r)
      BY <1>3 DEF PasteAsked
    <3>3. AskedTimes(data, f, IF f < at + 1 THEN r + 1 ELSE r)
      BY <3>1, <3>2, Zenon
    <3>4. e.status[f] = data.status[f] /\ e.row[f] = data.row[f]
      BY <1>5, <2>4 DEF FileNumbers
    <3> QED BY <3>3, <3>4, Zenon DEF AskedTimes
  <2> QED BY <2>3, <2>4
<1>7. e.have_row \in BOOLEAN
  BY <1>5 DEF PasteData
<1> QED BY <1>2, <1>5, <1>6, <1>7, Zenon DEF r

(* Whether a file before the next has a row, when one more was asked. *)
LEMMA LoadedOneMore ==
  ASSUME PasteInv, at \in FileNumbers, NEW e, NEW r \in Nat,
         data.have_row <=> \E f \in FileNumbers : f < at /\ r + 1 <= Len(input[f]),
         e.have_row <=> data.have_row \/ r + 1 <= Len(input[at])
  PROVE  e.have_row <=> \E f \in FileNumbers : f < at + 1 /\ r + 1 <= Len(input[f])
PROOF
<1>1. at \in Nat /\ \A f \in FileNumbers : f \in Int
  BY PasteFacts
<1>2. \A f \in FileNumbers : f < at + 1 <=> f < at \/ f = at
  BY <1>1
<1> QED BY <1>2, Zenon

LEMMA LoadRowIsRight ==
  ASSUME PasteInv, Paste!LoadRow
  PROVE  PasteIs(at', data', written', pc')
PROOF
<1> DEFINE r == Len(written)
<1>1. /\ pc = "load" /\ at <= Len(input) /\ at' = at + 1 /\ written' = written /\ pc' = pc
      /\ data' = IF data.status[at] = "row" THEN Paste!NextRow(data, at) ELSE data
  BY DEF Paste!LoadRow
<1>2. /\ at \in FileNumbers /\ data' \in PasteData(Len(input)) /\ data'.col_count = data.col_count
      /\ PasteAsked(at + 1, data', r)
      /\ data'.have_row \in BOOLEAN /\ (data'.have_row <=> data.have_row \/ r + 1 <= Len(input[at]))
  BY <1>1, AskedNext
<1>3. /\ IsList(written) /\ (\A n \in 1 .. r : written[n] = PasteRow(n))
      /\ PasteWidths(at, data, pc) /\ PasteLoaded(at, data, r, pc) /\ PasteStage(at, r, pc)
  BY DEF PasteInv, PasteIs
<1>4. Len(input) \in Nat /\ at \in Nat /\ at > 0 /\ r \in Nat
  BY PasteFacts
<1> HIDE DEF r
<1>5. PasteWidths(at', data', pc')
  BY <1>1, <1>2, <1>3 DEF PasteWidths
<1>6. PasteLoaded(at', data', r, pc')
  <2>1. data.have_row <=> \E f \in FileNumbers : f < at /\ r + 1 <= Len(input[f])
    BY <1>1, <1>3 DEF PasteLoaded
  <2>2. data'.have_row <=> data.have_row \/ r + 1 <= Len(input[at])
    BY <1>2
  <2>3. data'.have_row <=> \E f \in FileNumbers : f < at + 1 /\ r + 1 <= Len(input[f])
    BY <1>2, <1>4, <2>1, <2>2, LoadedOneMore
  <2> QED BY <1>1, <2>3, Zenon DEF PasteLoaded
<1>7. PasteStage(at', r, pc')
  BY <1>1, <1>3 DEF PasteStage
<1>8. at' \in 1 .. Len(input) + 1
  BY <1>1, <1>4
<1> QED BY <1>1, <1>2, <1>3, <1>5, <1>6, <1>7, <1>8 DEF PasteIs, r

LEMMA AddInputIsRight ==
  ASSUME PasteInv, Paste!AddInput
  PROVE  PasteIs(at', data', written', pc')
PROOF
<1> DEFINE e == Paste!NextRow(data, at)
<1>1. /\ pc = "add" /\ at' = at + 1 /\ written' = written
      /\ pc' = (IF at = Len(input) THEN "print" ELSE "add")
      /\ data' = [e EXCEPT !.col_count[at] = IF e.status[at] = "row" THEN Len(input[at][1]) ELSE 0]
  BY DEF Paste!AddInput
<1>2. /\ IsList(written) /\ PasteAsked(at, data, Len(written))
      /\ (\A n \in 1 .. Len(written) : written[n] = PasteRow(n))
      /\ PasteWidths(at, data, pc) /\ PasteLoaded(at, data, Len(written), pc)
      /\ PasteStage(at, Len(written), pc)
  BY DEF PasteInv, PasteIs
<1>3. Len(written) = 0 /\ at <= Len(input)
  BY <1>1, <1>2 DEF PasteStage
<1>4. /\ Len(input) \in Nat /\ at \in Nat /\ at > 0
      /\ \A f \in FileNumbers : Len(input[f]) \in Nat /\ f \in Int
  BY PasteFacts
<1>5. at \in FileNumbers
  BY <1>3, <1>4 DEF FileNumbers
<1>6. data.status[at] = "row"
  <2>1. AskedTimes(data, at, 0)
    <3>1. ~(at < at)
      BY <1>4
    <3> QED BY <1>2, <1>3, <1>5, <3>1, Zenon DEF PasteAsked
  <2>2. 0 <= Len(input[at])
    BY <1>4, <1>5
  <2> QED BY <2>1, <2>2 DEF AskedTimes
<1>7. /\ e \in PasteData(Len(input)) /\ e.col_count = data.col_count
      /\ PasteAsked(at + 1, e, 0)
      /\ e.have_row \in BOOLEAN /\ (e.have_row <=> data.have_row \/ 0 + 1 <= Len(input[at]))
  BY <1>3, <1>6, AskedNext
<1> HIDE DEF e
<1>8. AskedTimes(e, at, 1)
  <2>1. at < at + 1 /\ 0 + 1 = 1
    BY <1>4
  <2> QED BY <1>5, <1>7, <2>1 DEF PasteAsked
<1> DEFINE c == IF e.status[at] = "row" THEN Len(input[at][1]) ELSE 0
<1>9. c = Paste!Width(at) /\ c \in Nat
  <2>1. input[at] \in Seq(Seq(STRING)) /\ Paste!Width(at) \in Nat /\ Len(input[at]) \in Nat
    BY <1>5, PasteFile DEF FileNumbers, PasteInv
  <2>2. CASE 1 <= Len(input[at])
    <3>1. e.status[at] = "row"
      BY <1>8, <2>2 DEF AskedTimes
    <3>2. input[at] # <<>>
      BY <2>2
    <3> QED BY <2>1, <3>1, <3>2 DEF Paste!Width
  <2>3. CASE ~(1 <= Len(input[at]))
    <3>1. e.status[at] # "row"
      BY <1>8, <2>3 DEF AskedTimes
    <3>2. Len(input[at]) = 0
      BY <2>1, <2>3
    <3>3. input[at] = <<>>
      <4> DEFINE T == Seq(STRING)
      <4>1. input[at] \in Seq(T)
        BY <2>1
      <4> HIDE DEF T
      <4> QED BY <3>2, <4>1
    <3> QED BY <2>1, <3>1, <3>3 DEF Paste!Width
  <2> QED BY <2>2, <2>3
<1> HIDE DEF c
<1>10. /\ e.status \in [FileNumbers -> {"row", "no more input"}] /\ e.row \in [FileNumbers -> Nat]
       /\ e.col_count \in [FileNumbers -> Nat] /\ e.have_row \in BOOLEAN
  BY <1>7 DEF PasteData, FileNumbers
<1> DEFINE cols == [e.col_count EXCEPT ![at] = c]
<1>11. cols \in [FileNumbers -> Nat] /\ cols[at] = c /\ \A f \in FileNumbers \ {at} : cols[f] = e.col_count[f]
  BY <1>5, <1>9, <1>10
<1>12. data' = [e EXCEPT !.col_count = cols]
  <2>1. data' = [e EXCEPT !.col_count[at] = c]
    BY <1>1 DEF c
  <2> QED BY <1>7, <2>1 DEF PasteData
<1> HIDE DEF cols
<1>13. /\ data'.status = e.status /\ data'.row = e.row /\ data'.col_count = cols /\ data'.have_row = e.have_row
       /\ data' \in PasteData(Len(input))
  BY <1>7, <1>10, <1>11, <1>12 DEF PasteData, FileNumbers
<1>14. PasteAsked(at', data', 0)
  BY <1>1, <1>7, <1>13 DEF PasteAsked, AskedTimes
<1>15. PasteWidths(at', data', pc')
  <2>1. SUFFICES ASSUME NEW f \in FileNumbers, pc' # "add" \/ f < at'  PROVE  data'.col_count[f] = Paste!Width(f)
    BY DEF PasteWidths
  <2>2. f \in Int /\ f <= Len(input)
    BY <1>4 DEF FileNumbers
  <2>3. f < at \/ f = at
    <3>1. f < at + 1
      BY <1>1, <1>4, <2>1, <2>2
    <3> QED BY <1>4, <2>2, <3>1
  <2>4. CASE f = at
    BY <1>9, <1>11, <1>13, <2>4
  <2>5. CASE f # at
    <3>1. data.col_count[f] = Paste!Width(f)
      BY <1>2, <2>3, <2>5 DEF PasteWidths
    <3> QED BY <1>7, <1>11, <1>13, <2>5, <3>1
  <2> QED BY <2>4, <2>5
<1>16. PasteLoaded(at', data', 0, pc')
  <2>1. data.have_row <=> \E f \in FileNumbers : f < at /\ 0 + 1 <= Len(input[f])
    BY <1>1, <1>2, <1>3 DEF PasteLoaded
  <2>2. e.have_row <=> data.have_row \/ 0 + 1 <= Len(input[at])
    BY <1>7
  <2>3. e.have_row <=> \E f \in FileNumbers : f < at + 1 /\ 0 + 1 <= Len(input[f])
    BY <1>5, <2>1, <2>2, LoadedOneMore
  <2> QED BY <1>1, <1>13, <2>3, Zenon DEF PasteLoaded
<1>17. PasteStage(at', 0, pc')
  <2>1. at # Len(input) => at + 1 <= Len(input)
    BY <1>3, <1>4
  <2> QED BY <1>1, <2>1 DEF PasteStage
<1>18. at' \in 1 .. Len(input) + 1
  BY <1>1, <1>3, <1>4
<1> QED BY <1>1, <1>2, <1>3, <1>13, <1>14, <1>15, <1>16, <1>17, <1>18 DEF PasteIs

LEMMA PrintRowIsRight ==
  ASSUME PasteInv, Paste!PrintRow
  PROVE  PasteIs(at', data', written', pc')
PROOF
<1> DEFINE r == Len(written)
<1>1. /\ pc = "print" /\ at' = 1 /\ pc' = "load" /\ data' = [data EXCEPT !.have_row = FALSE]
      /\ written' = Append(written, Paste!FlattenSeq([f \in DOMAIN input |-> Paste!CellsOf(f)]))
  BY DEF Paste!PrintRow
<1>2. /\ input \in PasteInputs /\ IsList(written) /\ (\A n \in 1 .. r : written[n] = PasteRow(n))
      /\ PasteAsked(at, data, r) /\ PasteWidths(at, data, pc) /\ PasteStage(at, r, pc)
  BY DEF PasteInv, PasteIs
<1>3. /\ Len(input) \in Nat /\ Len(input) > 0 /\ r \in Nat /\ data \in PasteData(Len(input))
      /\ \A f \in FileNumbers : Len(input[f]) \in Nat /\ f \in Int
  BY PasteFacts
<1>4. at = Len(input) + 1 /\ (r = 0 \/ \E f \in FileNumbers : r + 1 <= Len(input[f]))
  BY <1>1, <1>2 DEF PasteStage
<1> HIDE DEF r
<1>5. \A f \in FileNumbers : AskedTimes(data, f, r + 1) /\ data.col_count[f] = Paste!Width(f)
  <2>1. \A f \in FileNumbers : f < at
    BY <1>3, <1>4 DEF FileNumbers
  <2> QED BY <1>1, <1>2, <2>1 DEF PasteAsked, PasteWidths
<1>6. Paste!FlattenSeq([f \in DOMAIN input |-> Paste!CellsOf(f)]) = PasteRow(r + 1)
  <2>1. r + 1 \in Nat /\ r + 1 > 0
    BY <1>3
  <2>2. \A f \in 1 .. Len(input) : AskedTimes(data, f, r + 1) /\ data.col_count[f] = Paste!Width(f)
    BY <1>5 DEF FileNumbers
  <2> QED BY <1>2, <2>1, <2>2, RowPrinted
<1>7. written' = Append(written, PasteRow(r + 1))
  BY <1>1, <1>6
<1>8. /\ IsList(written') /\ Len(written') = r + 1
      /\ \A k \in 1 .. r : written'[k] = written[k]
      /\ written'[r + 1] = PasteRow(r + 1)
  BY <1>2, <1>7, ListAppended DEF r
<1>9. \A n \in 1 .. Len(written') : written'[n] = PasteRow(n)
  <2>1. \A n \in 1 .. r + 1 : n \in 1 .. r \/ n = r + 1
    BY <1>3
  <2> QED BY <1>2, <1>8, <2>1
<1>10. /\ data' \in PasteData(Len(input)) /\ data'.status = data.status /\ data'.row = data.row
       /\ data'.col_count = data.col_count /\ data'.have_row = FALSE
  BY <1>1, <1>3 DEF PasteData
<1>11. \A f \in FileNumbers : ~(f < at')
  BY <1>1, <1>3 DEF FileNumbers
<1>12. PasteAsked(at', data', r + 1)
  BY <1>5, <1>10, <1>11, Zenon DEF PasteAsked, AskedTimes
<1>13. PasteWidths(at', data', pc')
  BY <1>5, <1>10 DEF PasteWidths
<1>14. PasteLoaded(at', data', r + 1, pc')
  BY <1>10, <1>11, Zenon DEF PasteLoaded
<1>15. PasteStage(at', r + 1, pc')
  <2>1. r + 1 = 1 \/ \E f \in FileNumbers : r + 1 > 1 /\ r + 1 <= Len(input[f])
    BY <1>3, <1>4
  <2> QED BY <1>1, <2>1 DEF PasteStage
<1>16. at' \in 1 .. Len(input) + 1
  BY <1>1, <1>3
<1> QED BY <1>8, <1>9, <1>10, <1>12, <1>13, <1>14, <1>15, <1>16 DEF PasteIs

LEMMA LoadedIsRight ==
  ASSUME PasteInv, Paste!Loaded
  PROVE  PasteIs(at', data', written', pc')
PROOF
<1> DEFINE r == Len(written)
<1>1. /\ pc = "load" /\ at > Len(input) /\ at' = at /\ data' = data /\ written' = written
      /\ pc' = IF data.have_row THEN "print" ELSE "done"
  BY DEF Paste!Loaded
<1>2. /\ PasteIs(at, data, written, pc) /\ PasteWidths(at, data, pc)
      /\ PasteLoaded(at, data, r, pc) /\ PasteStage(at, r, pc) /\ at \in 1 .. Len(input) + 1
  BY DEF PasteInv, PasteIs
<1>3. /\ Len(input) \in Nat /\ r \in Nat /\ data.have_row \in BOOLEAN
      /\ \A f \in FileNumbers : Len(input[f]) \in Nat /\ f \in Int
  BY PasteFacts
<1> HIDE DEF r
<1>4. at = Len(input) + 1
  BY <1>1, <1>2, <1>3
<1>5. \A f \in FileNumbers : f < at
  BY <1>3, <1>4 DEF FileNumbers
<1>6. data.have_row <=> \E f \in FileNumbers : r + 1 <= Len(input[f])
  BY <1>1, <1>2, <1>5, Zenon DEF PasteLoaded
<1>7. r = 1 \/ \E f \in FileNumbers : r > 1 /\ r <= Len(input[f])
  BY <1>1, <1>2 DEF PasteStage
<1>8. PasteStage(at', r, pc')
  <2>1. CASE data.have_row
    BY <1>1, <1>4, <1>6, <2>1 DEF PasteStage
  <2>2. CASE ~data.have_row
    <3>1. \A f \in FileNumbers : Len(input[f]) <= r
      BY <1>3, <1>6, <2>2
    <3> QED BY <1>1, <1>4, <1>7, <2>2, <3>1 DEF PasteStage
  <2> QED BY <2>1, <2>2
<1>9. PasteWidths(at', data', pc') /\ PasteLoaded(at', data', r, pc')
  BY <1>1, <1>2 DEF PasteWidths, PasteLoaded
<1> QED BY <1>1, <1>2, <1>8, <1>9 DEF PasteIs, r

LEMMA PasteNextIsRight ==
  ASSUME PasteInv, Paste!Next \/ UNCHANGED <<opts, input, at, data, written, pc>>
  PROVE  PasteInv'
PROOF
<1>1. input' = input
  BY DEF Paste!Next, Paste!AddInput, Paste!PrintRow, Paste!LoadRow, Paste!Loaded
<1>2. PasteIs(at', data', written', pc')
  <2>1. CASE Paste!Next
    BY <2>1, AddInputIsRight, PrintRowIsRight, LoadRowIsRight, LoadedIsRight DEF Paste!Next
  <2>2. CASE UNCHANGED <<opts, input, at, data, written, pc>>
    <3>1. PasteIs(at, data, written, pc)
      BY DEF PasteInv
    <3> QED BY <2>2, <3>1
  <2> QED BY <2>1, <2>2
<1>3. input \in PasteInputs
  BY DEF PasteInv
<1>4. \A n : PasteRow(n)' = PasteRow(n)
  BY <1>1 DEF PasteRow, PasteCells, Paste!Width
<1>5. \A f : Paste!Width(f)' = Paste!Width(f)
  BY <1>1 DEF Paste!Width
<1>6. PasteAsked(at, data, Len(written))' <=> PasteAsked(at', data', Len(written'))
  BY <1>1 DEF PasteAsked, FileNumbers, AskedTimes
<1>7. PasteWidths(at, data, pc)' <=> PasteWidths(at', data', pc')
  BY <1>1, <1>5 DEF PasteWidths, FileNumbers
<1>8. PasteLoaded(at, data, Len(written), pc)' <=> PasteLoaded(at', data', Len(written'), pc')
  BY <1>1 DEF PasteLoaded, FileNumbers
<1>9. PasteStage(at, Len(written), pc)' <=> PasteStage(at', Len(written'), pc')
  BY <1>1 DEF PasteStage, FileNumbers
<1> QED BY <1>1, <1>2, <1>3, <1>4, <1>6, <1>7, <1>8, <1>9 DEF PasteInv, PasteIs

LEMMA PasteInvIsPromise ==
  ASSUME PasteInv
  PROVE  Paste!SideBySide
PROOF
<1>1. /\ input \in PasteInputs /\ IsList(written) /\ (\A n \in 1 .. Len(written) : written[n] = PasteRow(n))
      /\ PasteStage(at, Len(written), pc)
  BY DEF PasteInv, PasteIs
<1>2. /\ Len(input) \in Nat /\ Len(input) > 0 /\ DOMAIN input = 1 .. Len(input)
      /\ Len(written) \in Nat /\ DOMAIN written = 1 .. Len(written)
  BY <1>1, PasteFacts, ListAppended
<1>3. ASSUME NEW n \in DOMAIN written, NEW f \in DOMAIN input, NEW k \in 1 .. Paste!Width(f)
      PROVE  written[n][Paste!Offset[f] + k] =
               IF n \in DOMAIN input[f] /\ k \in DOMAIN input[f][n] THEN input[f][n][k] ELSE "empty"
  <2> DEFINE seqs == [g \in DOMAIN input |-> PasteCells(g, n)]
             o == Paste!Offset
  <2>1. ASSUME NEW g \in 1 .. Len(input)
        PROVE  PasteCells(g, n) \in Seq(PasteTexts) /\ Len(PasteCells(g, n)) = Paste!Width(g)
    <3> DEFINE w == Paste!Width(g)
               cells(x) == IF n \in DOMAIN input[g] /\ x \in DOMAIN input[g][n] THEN input[g][n][x] ELSE "empty"
               T == Seq(STRING)
    <3>1. w \in Nat /\ input[g] \in Seq(T)
      BY <1>1, PasteFile
    <3>2. ASSUME NEW x \in 1 .. w PROVE cells(x) \in PasteTexts
      <4>1. CASE n \in DOMAIN input[g] /\ x \in DOMAIN input[g][n]
        <5> HIDE DEF T
        <5>1. input[g][n] \in T
          BY <3>1, <4>1
        <5>2. input[g][n][x] \in STRING
          BY <4>1, <5>1 DEF T
        <5> QED BY <4>1, <5>2 DEF PasteTexts
      <4>2. CASE ~(n \in DOMAIN input[g] /\ x \in DOMAIN input[g][n])
        BY <4>2 DEF PasteTexts
      <4> QED BY <4>1, <4>2
    <3> HIDE DEF cells
    <3>3. PasteCells(g, n) = [x \in 1 .. w |-> cells(x)]
      BY DEF PasteCells, cells
    <3> HIDE DEF w
    <3>4. [x \in 1 .. w |-> cells(x)] \in Seq(PasteTexts) /\ Len([x \in 1 .. w |-> cells(x)]) = w
      BY <3>1, <3>2
    <3> QED BY <3>3, <3>4 DEF w
  <2>2. /\ seqs \in Seq(Seq(PasteTexts)) /\ Len(seqs) = Len(input)
        /\ \A g \in 1 .. Len(input) : Len(seqs[g]) = Paste!Width(g) /\ seqs[g] = PasteCells(g, n)
    <3> DEFINE T == Seq(PasteTexts)
    <3>1. \A g \in 1 .. Len(input) : PasteCells(g, n) \in T
      BY <2>1
    <3>2. seqs = [g \in 1 .. Len(input) |-> PasteCells(g, n)]
      BY <1>2
    <3> HIDE DEF T, seqs
    <3>3. seqs \in Seq(T) /\ Len(seqs) = Len(input)
      BY <1>2, <3>1, <3>2
    <3>4. \A g \in 1 .. Len(input) : seqs[g] = PasteCells(g, n)
      BY <3>2
    <3> QED BY <2>1, <3>3, <3>4 DEF T
  <2> HIDE DEF seqs, o
  <2>3. Begins(o, seqs)
    <3> DEFINE Made(v) == v = [g \in 1 .. Len(input) |-> IF g = 1 THEN 0 ELSE v[g - 1] + Paste!Width(g - 1)]
    <3>1. ASSUME NEW v PROVE Begins(v, seqs) <=> Made(v)
      <4>1. \A g \in 1 .. Len(input) : g # 1 => g - 1 \in 1 .. Len(input)
        BY <1>2
      <4>2. \A g \in 1 .. Len(input) : g # 1 => Len(seqs[g - 1]) = Paste!Width(g - 1)
        BY <2>2, <4>1
      <4>3. [g \in 1 .. Len(input) |-> IF g = 1 THEN 0 ELSE v[g - 1] + Len(seqs[g - 1])]
              = [g \in 1 .. Len(input) |-> IF g = 1 THEN 0 ELSE v[g - 1] + Paste!Width(g - 1)]
        BY <4>2
      <4>4. Len(seqs) = Len(input)
        BY <2>2
      <4> QED BY <4>3, <4>4 DEF Begins
    <3>2. PICK v : Begins(v, seqs)
      BY <1>2, <2>2, BeginsExists
    <3>3. Made(v)
      BY <3>1, <3>2
    <3>4. o = CHOOSE u : Made(u)
      BY DEF o, Paste!Offset
    <3> HIDE DEF Made
    <3>5. Made(o)
      BY <3>3, <3>4
    <3> QED BY <3>1, <3>5
  <2>4. Paste!FlattenSeq(seqs)[o[f] + k] = seqs[f][k]
    <3>1. f \in 1 .. Len(seqs) /\ k \in 1 .. Len(seqs[f]) /\ Len(seqs) > 0
      BY <1>2, <2>2
    <3> QED BY <2>2, <2>3, <3>1, PiecesInPlace
  <2>5. written[n] = Paste!FlattenSeq(seqs)
    BY <1>1, <1>2 DEF PasteRow, seqs
  <2>6. seqs[f][k] = PasteCells(f, n)[k]
    BY <1>2, <2>2
  <2> QED BY <2>4, <2>5, <2>6 DEF PasteCells, o
<1>4. ASSUME pc = "done"  PROVE  Len(written) = Paste!Max({1} \cup {Len(input[f]) : f \in DOMAIN input})
  <2> DEFINE S == {1} \cup {Len(input[f]) : f \in DOMAIN input}
             r == Len(written)
  <2>1. \A f \in FileNumbers : Len(input[f]) \in Nat /\ Len(input[f]) <= r
    BY <1>1, <1>4, PasteFacts DEF PasteStage
  <2>2. r = 1 \/ \E f \in FileNumbers : r > 1 /\ r <= Len(input[f])
    BY <1>1, <1>4 DEF PasteStage
  <2>3. r \in Nat /\ r >= 1
    BY <1>2, <2>2
  <2>4. r \in S
    <3>1. CASE r = 1
      BY <3>1
    <3>2. CASE r # 1
      <4>1. PICK f \in FileNumbers : r <= Len(input[f])
        BY <2>2, <3>2
      <4>2. r = Len(input[f])
        BY <2>1, <2>3, <4>1
      <4> QED BY <1>2, <4>2 DEF FileNumbers
    <3> QED BY <3>1, <3>2
  <2>5. \A x \in S : x \in Nat /\ x <= r
    <3>1. \A f \in DOMAIN input : Len(input[f]) \in Nat /\ Len(input[f]) <= r
      BY <1>2, <2>1 DEF FileNumbers
    <3> HIDE DEF r
    <3> QED BY <2>3, <3>1
  <2> HIDE DEF S, r
  <2>6. Paste!Max(S) = CHOOSE x \in S : \A y \in S : y <= x
    BY DEF Paste!Max
  <2>7. \A x \in S : (\A y \in S : y <= x) => x = r
    BY <2>3, <2>4, <2>5
  <2>8. \A y \in S : y <= r
    BY <2>5
  <2> QED BY <2>4, <2>6, <2>7, <2>8 DEF S, r
<1> QED BY <1>3, <1>4 DEF Paste!SideBySide

-----------------------------------------------------------------------------
(* UTF-8 repair.                                                            *)

Utf8Bytes == STRING \cup {"a"}

(* What becomes of byte k, and what is left of the first i bytes. *)
Utf8Piece(k) == IF Utf8!InChar(k) THEN <<input[k]>> ELSE opts
Utf8Pieces == [k \in DOMAIN input |-> Utf8Piece(k)]
Utf8Flat == CHOOSE f : Flattens(f, Utf8Pieces)
KeptTo(i) == IF i = 0 THEN <<>> ELSE Utf8Flat[i]

Utf8Given == input \in Utf8Inputs /\ opts \in {<<>>, <<"a">>}

LEMMA Utf8Cell ==
  ASSUME Utf8Given
  PROVE  /\ input \in Seq(Utf8Bytes) /\ Len(input) \in Nat /\ DOMAIN input = 1 .. Len(input)
         /\ \A k \in 1 .. Len(input) : input[k] \in Utf8Bytes
         /\ \A k \in 1 .. Len(input) : Utf8Piece(k) \in Seq(Utf8Bytes)
PROOF
<1>1. input \in Seq(STRING)
  BY Utf8Assumption DEF Utf8Given
<1>2. Len(input) \in Nat /\ DOMAIN input = 1 .. Len(input) /\ \A k \in 1 .. Len(input) : input[k] \in Utf8Bytes
  BY <1>1 DEF Utf8Bytes
<1>3. "a" \in Utf8Bytes
  BY DEF Utf8Bytes
<1> HIDE DEF Utf8Bytes
<1>4. input \in Seq(Utf8Bytes)
  BY <1>1, <1>2
<1>5. opts \in Seq(Utf8Bytes)
  <2>1. <<"a">> \in Seq(Utf8Bytes) /\ <<>> \in Seq(Utf8Bytes)
    BY <1>3
  <2> QED BY <2>1 DEF Utf8Given
<1>6. \A k \in 1 .. Len(input) : <<input[k]>> \in Seq(Utf8Bytes)
  BY <1>2
<1>7. \A k \in 1 .. Len(input) : Utf8Piece(k) \in Seq(Utf8Bytes)
  BY <1>5, <1>6, Zenon DEF Utf8Piece
<1> QED BY <1>2, <1>4, <1>7

(* What is left of the whole cell is what is promised. *)
LEMMA KeptPieces ==
  ASSUME Utf8Given
  PROVE  /\ \A i \in 0 .. Len(input) : KeptTo(i) \in Seq(Utf8Bytes)
         /\ \A i \in 0 .. Len(input) : i < Len(input) => KeptTo(i + 1) = KeptTo(i) \o Utf8Piece(i + 1)
         /\ Utf8!FlattenSeq(Utf8Pieces) = KeptTo(Len(input))
PROOF
<1> DEFINE m == Len(input)
           T == Seq(Utf8Bytes)
<1>1. m \in Nat /\ DOMAIN input = 1 .. m /\ \A k \in 1 .. m : Utf8Piece(k) \in T
  BY Utf8Cell
<1> HIDE DEF T, m
<1>2. Utf8Pieces = [k \in 1 .. m |-> Utf8Piece(k)]
  BY <1>1 DEF Utf8Pieces
<1>3. Utf8Pieces \in Seq(T) /\ Len(Utf8Pieces) = m /\ \A k \in 1 .. m : Utf8Pieces[k] = Utf8Piece(k)
  BY <1>1, <1>2
<1>4. KeptTo(0) = <<>> /\ <<>> \in T
  BY DEF KeptTo, T
<1>5. CASE m = 0
  <2>1. Utf8Pieces = <<>>
    BY <1>3, <1>5
  <2>2. Utf8!FlattenSeq(Utf8Pieces) = <<>>
    BY <1>3, <1>5, <2>1 DEF Utf8!FlattenSeq
  <2>3. \A i \in 0 .. m : i = 0
    BY <1>5
  <2>4. \A i \in 0 .. m : KeptTo(i) \in T /\ ~(i < m)
    <3>1. ~(0 < m)
      BY <1>5
    <3> QED BY <1>4, <2>3, <3>1
  <2>5. Utf8!FlattenSeq(Utf8Pieces) = KeptTo(m)
    BY <1>4, <1>5, <2>2
  <2> QED BY <2>4, <2>5 DEF m, T
<1>6. CASE m # 0
  <2>1. m > 0
    BY <1>1, <1>6
  <2>2. Flattens(Utf8Flat, Utf8Pieces)
    <3>1. \E f : Flattens(f, Utf8Pieces)
      BY <1>3, <2>1, FlattensExists DEF T
    <3> QED BY <3>1 DEF Utf8Flat
  <2>3. \A i \in 1 .. m : Utf8Flat[i] = IF i = 1 THEN Utf8Pieces[i] ELSE Utf8Flat[i - 1] \o Utf8Pieces[i]
    <3>1. Utf8Flat = [i \in 1 .. m |-> IF i = 1 THEN Utf8Pieces[i] ELSE Utf8Flat[i - 1] \o Utf8Pieces[i]]
      BY <1>3, <2>2 DEF Flattens
    <3> QED BY <3>1
  <2>4. \A i \in 0 .. m : i < m => KeptTo(i + 1) = KeptTo(i) \o Utf8Piece(i + 1)
    <3>1. SUFFICES ASSUME NEW i \in 0 .. m, i < m  PROVE  KeptTo(i + 1) = KeptTo(i) \o Utf8Piece(i + 1)
      OBVIOUS
    <3>2. i + 1 \in 1 .. m /\ i + 1 # 0 /\ (i + 1) - 1 = i /\ (i + 1 = 1 <=> i = 0)
      BY <1>1, <3>1
    <3>3. KeptTo(i + 1) = IF i = 0 THEN Utf8Piece(i + 1) ELSE Utf8Flat[i] \o Utf8Piece(i + 1)
      BY <1>3, <2>3, <3>2 DEF KeptTo
    <3>4. Utf8Piece(i + 1) \in Seq(Utf8Bytes)
      BY <1>1, <3>2 DEF T
    <3>5. <<>> \o Utf8Piece(i + 1) = Utf8Piece(i + 1)
      BY <3>4
    <3> QED BY <1>4, <3>3, <3>5 DEF KeptTo
  <2>5. \A i \in 0 .. m : KeptTo(i) \in T
    <3> DEFINE Wrong == {i \in Nat : i \in 0 .. m /\ KeptTo(i) \notin T}
    <3>1. SUFFICES ASSUME Wrong # {} PROVE FALSE
      BY <1>1
    <3>2. PICK i \in Wrong : \A j \in Wrong : i <= j
      BY <3>1, LeastNumber
    <3>3. i # 0
      BY <1>4, <3>2
    <3>4. i \in Nat /\ i <= m /\ i - 1 \in 0 .. m /\ i - 1 < m /\ i - 1 \in Nat /\ ~(i <= i - 1) /\ (i - 1) + 1 = i
      BY <1>1, <3>2, <3>3
    <3>5. i \in 1 .. m
      BY <1>1, <3>3, <3>4
    <3>6. KeptTo(i - 1) \in T
      BY <3>2, <3>4
    <3>7. KeptTo((i - 1) + 1) = KeptTo(i - 1) \o Utf8Piece((i - 1) + 1)
      BY <2>4, <3>4
    <3>8. KeptTo(i) = KeptTo(i - 1) \o Utf8Piece(i)
      BY <3>4, <3>7
    <3>9. Utf8Piece(i) \in T
      BY <1>1, <3>5
    <3>10. KeptTo(i) \in T
      BY <3>6, <3>8, <3>9 DEF T
    <3> QED BY <3>2, <3>10
  <2>6. Utf8!FlattenSeq(Utf8Pieces) = KeptTo(m)
    BY <1>3, <1>6, <2>1 DEF Utf8!FlattenSeq, Flattens, Utf8Flat, KeptTo
  <2> QED BY <2>4, <2>5, <2>6 DEF m, T
<1> QED BY <1>5, <1>6

(* The bytes in b are what becomes of the m bytes behind the first i. *)
Become(i, m, b) == \A k \in 1 .. m : Utf8Piece(i + k) = <<b[k]>>

(* m bytes that stay, or are replaced one by one, are the next m of those that are left. *)
LEMMA BytesKept ==
  ASSUME Utf8Given, NEW i \in Nat, NEW m \in Nat, i + m <= Len(input),
         NEW b, Become(i, m, b)
  PROVE  /\ Len(KeptTo(i + m)) = Len(KeptTo(i)) + m
         /\ \A n \in 1 .. Len(KeptTo(i)) : KeptTo(i + m)[n] = KeptTo(i)[n]
         /\ \A k \in 1 .. m : KeptTo(i + m)[Len(KeptTo(i)) + k] = b[k]
PROOF
<1> DEFINE a == KeptTo(i)
           p == Len(a)
           Good(j) == /\ Len(KeptTo(i + j)) = p + j
                      /\ \A n \in 1 .. p : KeptTo(i + j)[n] = a[n]
                      /\ \A k \in 1 .. j : KeptTo(i + j)[p + k] = b[k]
<1>1. Len(input) \in Nat /\ i \in 0 .. Len(input)
  BY Utf8Cell
<1>2. a \in Seq(Utf8Bytes) /\ p \in Nat
  BY <1>1, KeptPieces
<1>3. Good(0)
  <2>1. i + 0 = i /\ p + 0 = p /\ \A k \in 1 .. 0 : FALSE
    BY <1>2
  <2> QED BY <2>1
<1> HIDE DEF a, p
<1>4. ASSUME NEW j \in Nat, j < m, Good(j)  PROVE  Good(j + 1)
  <2> DEFINE c == KeptTo(i + j)
  <2>1. i + j \in 0 .. Len(input) /\ i + j < Len(input) /\ (i + j) + 1 = i + (j + 1) /\ j + 1 \in 1 .. m
    BY <1>1, <1>4
  <2>2. c \in Seq(Utf8Bytes)
    BY <2>1, KeptPieces
  <2>3. KeptTo(i + (j + 1)) = c \o <<b[j + 1]>>
    <3>1. KeptTo((i + j) + 1) = c \o Utf8Piece((i + j) + 1)
      BY <2>1, KeptPieces
    <3>2. Utf8Piece(i + (j + 1)) = <<b[j + 1]>>
      BY <2>1 DEF Become
    <3> QED BY <2>1, <3>1, <3>2
  <2>4. Len(c) = p + j /\ (\A n \in 1 .. p : c[n] = a[n]) /\ \A k \in 1 .. j : c[p + k] = b[k]
    BY <1>4
  <2>5. (i + j) + 1 \in 1 .. Len(input) /\ <<b[j + 1]>> = Utf8Piece((i + j) + 1)
    BY <1>1, <2>1 DEF Become
  <2>6. <<b[j + 1]>> \in Seq(Utf8Bytes)
    BY <2>5, Utf8Cell
  <2> DEFINE e == <<b[j + 1]>>
             f == c \o e
  <2>7. Len(e) = 1 /\ e[1] = b[j + 1]
    OBVIOUS
  <2> HIDE DEF c, e
  <2>8. e \in Seq(Utf8Bytes)
    BY <2>6 DEF e
  <2>9. Len(f) = Len(c) + 1 /\ (\A n \in 1 .. Len(c) : f[n] = c[n]) /\ f[Len(c) + 1] = e[1]
    <3>1. Len(f) = Len(c) + Len(e) /\ Len(c) \in Nat
      BY <2>2, <2>8
    <3>2. \A n \in 1 .. Len(c) : f[n] = c[n]
      BY <2>2, <2>8
    <3>3. f[Len(c) + 1] = e[1]
      <4>1. Len(c) + 1 \in Len(c) + 1 .. Len(c) + Len(e) /\ (Len(c) + 1) - Len(c) = 1
        BY <2>7, <3>1
      <4> QED BY <2>2, <2>8, <4>1
    <3> HIDE DEF f
    <3> QED BY <2>7, <3>1, <3>2, <3>3
  <2> HIDE DEF f
  <2>10. Len(f) = p + (j + 1)
    BY <1>2, <2>4, <2>9
  <2>11. \A n \in 1 .. p : f[n] = a[n]
    <3>1. \A n \in 1 .. p : n \in 1 .. Len(c)
      BY <1>2, <2>4
    <3> QED BY <2>4, <2>9, <3>1
  <2>12. \A k \in 1 .. j + 1 : f[p + k] = b[k]
    <3>1. SUFFICES ASSUME NEW k \in 1 .. j + 1 PROVE f[p + k] = b[k]
      OBVIOUS
    <3>2. CASE k = j + 1
      <4>1. p + k = Len(c) + 1
        BY <1>2, <2>4, <3>2
      <4> QED BY <2>7, <2>9, <3>2, <4>1
    <3>3. CASE k # j + 1
      <4>1. k \in 1 .. j /\ p + k \in 1 .. Len(c)
        BY <1>2, <2>4, <3>3
      <4> QED BY <2>4, <2>9, <4>1
    <3> QED BY <3>2, <3>3
  <2>13. KeptTo(i + (j + 1)) = f
    BY <2>3 DEF f, e
  <2> QED BY <2>10, <2>11, <2>12, <2>13
<1>5. Good(m)
  <2> HIDE DEF Good
  <2> DEFINE Wrong == {j \in Nat : j <= m /\ ~Good(j)}
  <2>1. SUFFICES ASSUME Wrong # {} PROVE FALSE
    OBVIOUS
  <2>2. PICK j \in Wrong : \A k \in Wrong : j <= k
    BY <2>1, LeastNumber
  <2>3. j # 0
    BY <1>3, <2>2
  <2>4. j - 1 \in Nat /\ j - 1 < m /\ j - 1 <= m /\ ~(j <= j - 1) /\ (j - 1) + 1 = j
    BY <2>2, <2>3
  <2>5. Good(j - 1)
    BY <2>2, <2>4
  <2>6. Good((j - 1) + 1)
    BY <1>4, <2>4, <2>5
  <2> QED BY <2>2, <2>4, <2>6
<1> QED BY <1>5 DEF a, p

(* Of m bytes that are removed nothing is left. *)
LEMMA BytesRemoved ==
  ASSUME Utf8Given, NEW i \in Nat, NEW m \in Nat, i + m <= Len(input),
         \A k \in 1 .. m : Utf8Piece(i + k) = <<>>
  PROVE  KeptTo(i + m) = KeptTo(i)
PROOF
<1> DEFINE Wrong == {j \in Nat : j <= m /\ KeptTo(i + j) # KeptTo(i)}
<1>1. SUFFICES ASSUME Wrong # {} PROVE FALSE
  <2>1. m <= m
    OBVIOUS
  <2> QED BY <2>1, Zenon
<1>2. PICK j \in Wrong : \A k \in Wrong : j <= k
  BY <1>1, LeastNumber
<1>3. j # 0
  <2>1. i + 0 = i
    OBVIOUS
  <2> QED BY <1>2, <2>1
<1>4. j - 1 \in Nat /\ j - 1 <= m /\ ~(j <= j - 1) /\ (i + (j - 1)) + 1 = i + j /\ j \in 1 .. m
  BY <1>2, <1>3
<1>5. Len(input) \in Nat /\ i + (j - 1) \in 0 .. Len(input) /\ i + (j - 1) < Len(input)
  BY <1>4, Utf8Cell
<1>6. KeptTo(i + (j - 1)) = KeptTo(i)
  BY <1>2, <1>4
<1>7. KeptTo(i + j) = KeptTo(i + (j - 1)) \o Utf8Piece(i + j)
  <2>1. KeptTo((i + (j - 1)) + 1) = KeptTo(i + (j - 1)) \o Utf8Piece((i + (j - 1)) + 1)
    BY <1>5, KeptPieces
  <2> QED BY <1>4, <2>1
<1>8. Utf8Piece(i + j) = <<>> /\ KeptTo(i + (j - 1)) \in Seq(Utf8Bytes)
  BY <1>4, <1>5, KeptPieces
<1>9. KeptTo(i + j) = KeptTo(i + (j - 1))
  BY <1>7, <1>8
<1> QED BY <1>2, <1>6, <1>9

(* Of a character that begins in the first a bytes all bytes are among these. *)
Utf8Whole(a) ==
  \A l \in 1 .. a :
    LET end == l + Utf8!CharLen(input[l]) - 1
    IN  end <= Len(input) /\ (\A j \in l + 1 .. end : input[j] = "c") => end <= a

(* The bytes before new_len are those left of the first a bytes; those behind are as they were. *)
Utf8Is(a, d, w, p) ==
  /\ a \in 0 .. Len(input) /\ w \in 0 .. a
  /\ d \in Seq(Utf8Bytes) /\ Len(d) = Len(input)
  /\ \A n \in a + 1 .. Len(input) : d[n] = input[n]
  /\ Utf8Whole(a)
  /\ Len(KeptTo(a)) = w /\ \A n \in 1 .. w : d[n] = KeptTo(a)[n]
  /\ p = "done" => a = Len(input)

Utf8Inv == Utf8Given /\ Utf8Is(at, data, written, pc)

LEMMA CharLength ==
  ASSUME NEW c
  PROVE  Utf8!CharLen(c) \in 0 .. 3 /\ Utf8!CharLen("c") = 0
BY DEF Utf8!CharLen

(* What the code says of the bytes of the character at hand. *)
LEMMA Utf8AtHand ==
  ASSUME Utf8Inv, at < Len(data)
  PROVE  LET len == Utf8!CharLen(input[at + 1])
             whole == len > 0 /\ at + len <= Len(input) /\ \A j \in at + 2 .. at + len : input[j] = "c"
             n == Utf8!Malformed(data, at)
         IN  /\ Utf8!CharLen(data[at + 1]) = len
             /\ Utf8!Complete(data, at) <=> whole
             /\ ~whole => /\ n \in Nat \ {0} /\ at + n <= Len(input)
                          /\ \A j \in at + 2 .. at + n : input[j] = "c"
PROOF
<1> DEFINE len == Utf8!CharLen(input[at + 1])
           L == Len(input)
           char == SubSeq(data, at + 1, at + len)
           bad == {n \in 2 .. Len(char) : char[n] # "c"}
<1>1. /\ L \in Nat /\ at \in Nat /\ at < L /\ data \in Seq(Utf8Bytes) /\ Len(data) = L
      /\ \A n \in at + 1 .. L : data[n] = input[n]
  BY Utf8Cell DEF Utf8Inv, Utf8Is
<1>2. data[at + 1] = input[at + 1]
  BY <1>1
<1>3. len \in 0 .. 3
  BY CharLength
<1> HIDE DEF len, L
<1>4. Utf8!CharLen(data[at + 1]) = len
  BY <1>2 DEF len
<1>5. ASSUME len > 0, at + len <= L
      PROVE  /\ Len(char) = len /\ \A j \in 1 .. len : char[j] = input[at + j]
             /\ bad = {n \in 2 .. len : input[at + n] # "c"}
  <2>1. at + 1 \in 1 .. Len(data) /\ at + len \in 1 .. Len(data) /\ at + 1 <= at + len /\ len \in Nat
    BY <1>1, <1>3, <1>5
  <2>2. Len(char) = (at + len) - (at + 1) + 1
    BY <1>1, <2>1
  <2>3. Len(char) = len
    BY <1>1, <2>1, <2>2
  <2>4. \A j \in 1 .. len : char[j] = data[at + j]
    <3>1. SUFFICES ASSUME NEW j \in 1 .. len PROVE SubSeq(data, at + 1, at + len)[j] = data[at + j]
      BY DEF char
    <3>2. (at + 1) + j - 1 = at + j /\ j \in 1 .. (at + len) - (at + 1) + 1
      BY <1>1, <2>1
    <3> HIDE DEF char
    <3>3. SubSeq(data, at + 1, at + len)[j] = data[(at + 1) + j - 1]
      BY <1>1, <2>1, <3>2
    <3> QED BY <3>2, <3>3
  <2>5. \A j \in 1 .. len : data[at + j] = input[at + j]
    <3>1. \A j \in 1 .. len : at + j \in at + 1 .. L
      BY <1>1, <1>5, <2>1
    <3> QED BY <1>1, <3>1
  <2>6. \A j \in 2 .. len : j \in 1 .. len
    BY <2>1
  <2> HIDE DEF char
  <2> QED BY <2>3, <2>4, <2>5, <2>6
<1>6. (\A j \in at + 2 .. at + len : input[j] = "c") <=> \A n \in 2 .. len : input[at + n] = "c"
  <2>1. ASSUME \A j \in at + 2 .. at + len : input[j] = "c", NEW n \in 2 .. len  PROVE input[at + n] = "c"
    <3>1. at + n \in at + 2 .. at + len
      BY <1>1, <1>3
    <3> QED BY <2>1, <3>1
  <2>2. ASSUME \A n \in 2 .. len : input[at + n] = "c", NEW j \in at + 2 .. at + len  PROVE input[j] = "c"
    <3>1. j - at \in 2 .. len /\ at + (j - at) = j
      BY <1>1, <1>3
    <3> QED BY <2>2, <3>1
  <2> QED BY <2>1, <2>2
<1> DEFINE v == Utf8!ValidBytes(data, at)
           B == {n \in 2 .. len : input[at + n] # "c"}
<1>7. ASSUME len > 0, at + len <= L
      PROVE  /\ B = {} => v = len
             /\ B # {} => v \in 1 .. len - 1 /\ \A n \in 2 .. v : input[at + n] = "c"
  <2>1. v = IF B = {} THEN len ELSE Utf8!Min(B) - 1
    <3>1. v = IF bad = {} THEN Len(char) ELSE Utf8!Min(bad) - 1
      BY <1>4 DEF Utf8!ValidBytes
    <3> HIDE DEF char, bad, B, v
    <3>2. bad = B /\ Len(char) = len
      BY <1>5, <1>7 DEF B
    <3> QED BY <3>1, <3>2
  <2> HIDE DEF v
  <2>2. CASE B # {}
    <3>1. B \subseteq Nat
      BY <1>3
    <3>2. PICK m \in B : \A k \in B : m <= k
      BY <2>2, <3>1, LeastNumber
    <3>3. Utf8!Min(B) \in B /\ \A k \in B : Utf8!Min(B) <= k
      <4> HIDE DEF B
      <4> QED BY <3>2 DEF Utf8!Min
    <3> DEFINE b == Utf8!Min(B)
    <3>4. b \in B /\ (\A k \in B : b <= k) /\ v = b - 1
      BY <2>1, <2>2, <3>3
    <3> HIDE DEF b
    <3>5. b \in 2 .. len
      BY <3>4
    <3>6. v \in 1 .. len - 1 /\ \A n \in 2 .. v : n \in 2 .. len /\ ~(b <= n)
      BY <1>3, <3>4, <3>5
    <3>7. \A n \in 2 .. v : n \notin B
      BY <3>4, <3>6
    <3> QED BY <3>6, <3>7
  <2> HIDE DEF B
  <2> QED BY <2>1, <2>2
<1>8. Utf8!Complete(data, at) <=> len > 0 /\ at + len <= L /\ B = {}
  <2>1. Utf8!Complete(data, at) <=> len > 0 /\ at + len <= L /\ v = len
    BY <1>1, <1>4 DEF Utf8!Complete
  <2> HIDE DEF v, B
  <2>2. ASSUME len > 0, at + len <= L, B # {}  PROVE v # len
    <3>1. v \in 1 .. len - 1
      BY <1>7, <2>2
    <3> QED BY <1>3, <3>1
  <2> QED BY <1>7, <2>1, <2>2
<1>9. B = {} <=> \A j \in at + 2 .. at + len : input[j] = "c"
  BY <1>6
<1> HIDE DEF B
<1> DEFINE n == Utf8!Malformed(data, at)
<1>10. ASSUME ~(len > 0 /\ at + len <= L /\ B = {})
       PROVE  n \in Nat \ {0} /\ at + n <= L /\ \A j \in at + 2 .. at + n : input[j] = "c"
  <2>1. n = IF len = 0 \/ at + len > L THEN 1 ELSE v
    BY <1>1, <1>4 DEF Utf8!Malformed
  <2> HIDE DEF n, v
  <2>2. CASE len = 0 \/ at + len > L
    <3>1. n = 1
      BY <2>1, <2>2
    <3> QED BY <1>1, <3>1
  <2>3. CASE ~(len = 0 \/ at + len > L)
    <3>1. len > 0 /\ at + len <= L
      BY <1>1, <1>3, <2>3
    <3>2. n = v /\ v \in 1 .. len - 1 /\ \A k \in 2 .. v : input[at + k] = "c"
      BY <1>7, <1>10, <2>1, <2>3, <3>1
    <3>3. n \in Nat \ {0} /\ at + n <= L
      BY <1>1, <1>3, <3>1, <3>2
    <3>4. ASSUME NEW j \in at + 2 .. at + n  PROVE input[j] = "c"
      <4>1. j - at \in 2 .. v /\ at + (j - at) = j
        BY <1>1, <1>3, <3>2
      <4> QED BY <3>2, <4>1
    <3> QED BY <3>3, <3>4
  <2> QED BY <2>2, <2>3
<1> QED BY <1>4, <1>8, <1>9, <1>10 DEF len, L, n

(* Behind the character at hand, or behind what is no character, all are whole again. *)
LEMMA Utf8Forward ==
  ASSUME Utf8Inv, NEW n \in Nat \ {0}, at + n <= Len(input),
         \A j \in at + 2 .. at + n : input[j] = "c",
         LET end == at + Utf8!CharLen(input[at + 1])
         IN  end <= Len(input) /\ (\A j \in at + 2 .. end : input[j] = "c") => end <= at + n
  PROVE  Utf8Whole(at + n)
PROOF
<1>1. Len(input) \in Nat /\ at \in Nat /\ Utf8Whole(at)
  BY Utf8Cell DEF Utf8Inv, Utf8Is
<1>2. SUFFICES ASSUME NEW l \in 1 .. at + n,
                      l + Utf8!CharLen(input[l]) - 1 <= Len(input),
                      \A j \in l + 1 .. l + Utf8!CharLen(input[l]) - 1 : input[j] = "c"
               PROVE  l + Utf8!CharLen(input[l]) - 1 <= at + n
  BY DEF Utf8Whole
<1> DEFINE e == l + Utf8!CharLen(input[l]) - 1
<1>3. l \in Nat /\ Utf8!CharLen(input[l]) \in 0 .. 3
  BY <1>1, CharLength
<1>4. CASE l <= at
  <2>1. l \in 1 .. at
    BY <1>1, <1>3, <1>4
  <2>2. e <= at
    BY <1>1, <1>2, <2>1 DEF Utf8Whole
  <2> QED BY <1>1, <1>3, <2>2
<1>5. CASE l = at + 1
  <2>1. e = at + Utf8!CharLen(input[at + 1]) /\ l + 1 = at + 2
    BY <1>1, <1>3, <1>5
  <2>2. e <= Len(input) /\ \A j \in at + 2 .. at + Utf8!CharLen(input[at + 1]) : input[j] = "c"
    BY <1>2, <2>1
  <2> QED BY <2>1, <2>2
<1>6. CASE l > at + 1
  <2>1. l \in at + 2 .. at + n
    BY <1>1, <1>3, <1>6
  <2>2. Utf8!CharLen(input[l]) = 0
    BY <2>1, CharLength
  <2> QED BY <1>1, <1>3, <2>2
<1> QED BY <1>1, <1>3, <1>4, <1>5, <1>6

(* Of the bytes looked at now those are in a character that are part of the one at hand. *)
LEMMA InCharAtHand ==
  ASSUME Utf8Inv, NEW n \in Nat \ {0}, at + n <= Len(input),
         \A j \in at + 2 .. at + n : input[j] = "c", NEW k \in at + 1 .. at + n
  PROVE  LET end == at + Utf8!CharLen(input[at + 1])
         IN  Utf8!InChar(k) <=> /\ k <= end /\ end <= Len(input)
                                /\ \A j \in at + 2 .. end : input[j] = "c"
PROOF
<1> DEFINE end == at + Utf8!CharLen(input[at + 1])
           Whole == k <= end /\ end <= Len(input) /\ \A j \in at + 2 .. end : input[j] = "c"
<1>1. Len(input) \in Nat /\ at \in Nat /\ Utf8Whole(at)
  BY Utf8Cell DEF Utf8Inv, Utf8Is
<1>2. k \in Nat /\ at + 1 <= k /\ k <= at + n
  BY <1>1
<1>3. ASSUME Utf8!InChar(k)  PROVE Whole
  <2>1. PICK l \in 1 .. k : /\ k <= l + Utf8!CharLen(input[l]) - 1
                            /\ l + Utf8!CharLen(input[l]) - 1 <= Len(input)
                            /\ \A j \in l + 1 .. l + Utf8!CharLen(input[l]) - 1 : input[j] = "c"
    BY <1>3 DEF Utf8!InChar
  <2>2. l \in Nat /\ l <= k /\ l >= 1 /\ Utf8!CharLen(input[l]) \in 0 .. 3
    BY <1>2, CharLength
  <2>3. ~(l <= at)
    <3>1. SUFFICES ASSUME l \in 1 .. at PROVE FALSE
      BY <1>1, <2>2
    <3>2. l + Utf8!CharLen(input[l]) - 1 <= at
      BY <2>1, <3>1, <1>1 DEF Utf8Whole
    <3> QED BY <1>1, <1>2, <2>1, <2>2, <3>2
  <2>4. ~(l > at + 1)
    <3>1. SUFFICES ASSUME l \in at + 2 .. at + n PROVE FALSE
      BY <1>1, <1>2, <2>2
    <3>2. Utf8!CharLen(input[l]) = 0
      BY <3>1, CharLength
    <3> QED BY <2>1, <2>2, <1>2, <3>2
  <2>5. l = at + 1
    BY <1>1, <2>2, <2>3, <2>4
  <2>6. l + Utf8!CharLen(input[l]) - 1 = end /\ l + 1 = at + 2
    BY <1>1, <2>2, <2>5
  <2> HIDE DEF end
  <2> QED BY <2>1, <2>6
<1>4. ASSUME Whole  PROVE Utf8!InChar(k)
  <2>1. at + 1 \in 1 .. k
    BY <1>1, <1>2
  <2>2. Utf8!CharLen(input[at + 1]) \in 0 .. 3
    BY CharLength
  <2>3. (at + 1) + Utf8!CharLen(input[at + 1]) - 1 = end /\ (at + 1) + 1 = at + 2
    BY <1>1, <2>2
  <2> HIDE DEF end
  <2> QED BY <1>4, <2>1, <2>3 DEF Utf8!InChar
<1> QED BY <1>3, <1>4

(* As many bytes are put as were looked at, each for one of these. *)
LEMMA PutKept ==
  ASSUME Utf8Inv, NEW n \in Nat \ {0}, at + n <= Len(input),
         NEW bytes \in Seq(Utf8Bytes), Len(bytes) = n,
         Become(at, n, bytes)
  PROVE  LET d == Utf8!Put(data, bytes)
         IN  /\ d \in Seq(Utf8Bytes) /\ Len(d) = Len(input)
             /\ \A m \in at + n + 1 .. Len(input) : d[m] = input[m]
             /\ Len(KeptTo(at + n)) = written + n
             /\ \A m \in 1 .. written + n : d[m] = KeptTo(at + n)[m]
PROOF
<1> DEFINE d == Utf8!Put(data, bytes)
           L == Len(input)
           w == written
<1>1. /\ Utf8Given /\ L \in Nat /\ at \in Nat /\ w \in Nat /\ w <= at /\ at + n <= L
      /\ data \in Seq(Utf8Bytes) /\ Len(data) = L /\ \A m \in at + 1 .. L : data[m] = input[m]
  BY Utf8Cell DEF Utf8Inv, Utf8Is
<1>2. Len(KeptTo(at)) = w /\ \A m \in 1 .. w : data[m] = KeptTo(at)[m]
  BY DEF Utf8Inv, Utf8Is
<1>3. /\ Len(KeptTo(at + n)) = Len(KeptTo(at)) + n
      /\ \A m \in 1 .. Len(KeptTo(at)) : KeptTo(at + n)[m] = KeptTo(at)[m]
      /\ \A k \in 1 .. n : KeptTo(at + n)[Len(KeptTo(at)) + k] = bytes[k]
  <2>1. Utf8Given /\ at \in Nat /\ n \in Nat /\ at + n <= Len(input)
    BY <1>1
  <2> HIDE DEF d, L, w
  <2> QED BY <2>1, BytesKept
<1> HIDE DEF L
<1>4. d = [m \in 1 .. L |-> IF m \in w + 1 .. w + n THEN bytes[m - w] ELSE data[m]]
  <2>1. DOMAIN data = 1 .. L
    BY <1>1
  <2> QED BY <2>1 DEF Utf8!Put
<1> HIDE DEF d, w
<1>5. ASSUME NEW m \in 1 .. L
      PROVE  /\ m \in w + 1 .. w + n => d[m] = bytes[m - w] /\ m - w \in 1 .. n
             /\ m \notin w + 1 .. w + n => d[m] = data[m]
             /\ d[m] \in Utf8Bytes
  <2>1. d[m] = IF m \in w + 1 .. w + n THEN bytes[m - w] ELSE data[m]
    BY <1>4
  <2>2. m \in w + 1 .. w + n => m - w \in 1 .. n
    BY <1>1
  <2>3. \A k \in 1 .. n : bytes[k] \in Utf8Bytes
    OBVIOUS
  <2>4. data[m] \in Utf8Bytes
    BY <1>1
  <2> QED BY <2>1, <2>2, <2>3, <2>4
<1>6. d \in Seq(Utf8Bytes) /\ Len(d) = L
  <2>1. \A m \in 1 .. L : d[m] \in Utf8Bytes
    BY <1>5
  <2> HIDE DEF Utf8Bytes
  <2>2. d = [m \in 1 .. L |-> d[m]]
    BY <1>4
  <2>3. [m \in 1 .. L |-> d[m]] \in Seq(Utf8Bytes) /\ Len([m \in 1 .. L |-> d[m]]) = L
    BY <1>1, <2>1
  <2> QED BY <2>2, <2>3
<1>7. ASSUME NEW m \in at + n + 1 .. L  PROVE d[m] = input[m]
  <2>1. m \in 1 .. L /\ m \notin w + 1 .. w + n /\ m \in at + 1 .. L
    BY <1>1
  <2> QED BY <1>1, <1>5, <2>1
<1>8. ASSUME NEW m \in 1 .. w + n  PROVE d[m] = KeptTo(at + n)[m]
  <2>1. m \in 1 .. L
    BY <1>1
  <2>2. CASE m \in 1 .. w
    <3>1. m \notin w + 1 .. w + n
      BY <1>1, <2>2
    <3>2. data[m] = KeptTo(at)[m] /\ KeptTo(at + n)[m] = KeptTo(at)[m]
      BY <1>2, <1>3, <2>2 DEF w
    <3> QED BY <1>5, <2>1, <3>1, <3>2
  <2>3. CASE m \notin 1 .. w
    <3>1. m \in w + 1 .. w + n /\ w + (m - w) = m
      BY <1>1, <2>3
    <3>2. d[m] = bytes[m - w] /\ m - w \in 1 .. n
      BY <1>5, <2>1, <3>1
    <3>3. KeptTo(at + n)[w + (m - w)] = bytes[m - w]
      BY <1>2, <1>3, <3>2 DEF w
    <3> QED BY <3>1, <3>2, <3>3
  <2> QED BY <2>2, <2>3
<1>9. Len(KeptTo(at + n)) = w + n
  BY <1>2, <1>3 DEF w
<1> QED BY <1>6, <1>7, <1>8, <1>9 DEF d, w, L

LEMMA CopyCharIsRight ==
  ASSUME Utf8Inv, Utf8!CopyChar
  PROVE  Utf8Is(at', data', written', pc')
PROOF
<1> DEFINE n == Utf8!CharLen(input[at + 1])
           bytes == SubSeq(data, at + 1, at + n)
<1>1. /\ pc = "scan" /\ pc' = pc /\ at < Len(data) /\ Utf8!Complete(data, at)
      /\ LET clen == Utf8!CharLen(data[at + 1])
         IN  /\ data' = Utf8!Put(data, SubSeq(data, at + 1, at + clen))
             /\ written' = written + clen /\ at' = at + clen
  BY DEF Utf8!CopyChar
<1>2. /\ Utf8!CharLen(data[at + 1]) = n
      /\ n > 0 /\ at + n <= Len(input) /\ \A j \in at + 2 .. at + n : input[j] = "c"
  BY <1>1, Utf8AtHand
<1>3. n \in 0 .. 3
  BY CharLength
<1>4. data' = Utf8!Put(data, bytes) /\ written' = written + n /\ at' = at + n
  BY <1>1, <1>2
<1>5. /\ Utf8Given /\ Len(input) \in Nat /\ at \in Nat /\ written \in Nat /\ written <= at
      /\ data \in Seq(Utf8Bytes) /\ Len(data) = Len(input)
      /\ \A m \in at + 1 .. Len(input) : data[m] = input[m]
  BY Utf8Cell DEF Utf8Inv, Utf8Is
<1> HIDE DEF n
<1>6. n \in Nat \ {0}
  BY <1>2, <1>3
<1>7. bytes \in Seq(Utf8Bytes) /\ Len(bytes) = n /\ \A k \in 1 .. n : bytes[k] = input[at + k]
  <2>1. at + 1 \in 1 .. Len(data) /\ at + n \in 1 .. Len(data) /\ (at + n) - (at + 1) + 1 = n /\ at + 1 <= at + n
    BY <1>2, <1>5, <1>6
  <2>2. bytes \in Seq(Utf8Bytes)
    <3>1. \A k \in at + 1 .. at + n : data[k] \in Utf8Bytes
      <4>1. \A k \in at + 1 .. at + n : k \in 1 .. Len(data)
        BY <1>2, <1>5, <1>6
      <4> QED BY <1>5, <4>1
    <3> HIDE DEF Utf8Bytes
    <3> QED BY <1>5, <2>1, <3>1
  <2>3. Len(bytes) = n
    BY <1>5, <2>1
  <2>4. ASSUME NEW k \in 1 .. n  PROVE bytes[k] = input[at + k]
    <3>1. (at + 1) + k - 1 = at + k /\ k \in 1 .. (at + n) - (at + 1) + 1 /\ at + k \in at + 1 .. Len(input)
      BY <1>2, <1>5, <1>6
    <3>2. SubSeq(data, at + 1, at + n)[k] = data[(at + 1) + k - 1]
      BY <1>5, <2>1, <3>1
    <3> QED BY <1>5, <3>1, <3>2
  <2> HIDE DEF bytes
  <2> QED BY <2>2, <2>3, <2>4
<1> HIDE DEF bytes
<1>8. Become(at, n, bytes)
  <2>1. SUFFICES ASSUME NEW k \in 1 .. n  PROVE Utf8Piece(at + k) = <<input[at + k]>>
    BY <1>7 DEF Become
  <2>2. at + k \in at + 1 .. at + n /\ at + k <= at + n
    BY <1>5, <1>6
  <2>3. Utf8!InChar(at + k)
    BY <1>2, <1>6, <2>2, InCharAtHand DEF n
  <2> QED BY <2>3 DEF Utf8Piece
<1>9. /\ data' \in Seq(Utf8Bytes) /\ Len(data') = Len(input)
      /\ \A m \in at + n + 1 .. Len(input) : data'[m] = input[m]
      /\ Len(KeptTo(at + n)) = written + n
      /\ \A m \in 1 .. written + n : data'[m] = KeptTo(at + n)[m]
  BY <1>2, <1>4, <1>6, <1>7, <1>8, PutKept
<1>10. Utf8Whole(at + n)
  <2>1. at + n <= at + n
    BY <1>5, <1>6
  <2> QED BY <1>2, <1>6, <2>1, Utf8Forward DEF n
<1>11. at + n \in 0 .. Len(input) /\ written + n \in 0 .. at + n
  BY <1>2, <1>5, <1>6
<1> QED BY <1>1, <1>4, <1>9, <1>10, <1>11 DEF Utf8Is

LEMMA ReplaceBytesIsRight ==
  ASSUME Utf8Inv, Utf8!ReplaceBytes
  PROVE  Utf8Is(at', data', written', pc')
PROOF
<1> DEFINE n == Utf8!Malformed(data, at)
           end == at + Utf8!CharLen(input[at + 1])
<1>1. /\ pc = "scan" /\ pc' = pc /\ at < Len(data) /\ ~Utf8!Complete(data, at)
      /\ data' = (IF opts = <<>> THEN data ELSE Utf8!Put(data, [k \in 1 .. n |-> opts[1]]))
      /\ written' = written + n * Len(opts) /\ at' = at + n
  BY DEF Utf8!ReplaceBytes
<1>2. /\ n \in Nat \ {0} /\ at + n <= Len(input) /\ \A j \in at + 2 .. at + n : input[j] = "c"
      /\ ~(end > at /\ end <= Len(input) /\ \A j \in at + 2 .. end : input[j] = "c")
  <2>1. Utf8!CharLen(input[at + 1]) \in 0 .. 3 /\ at \in Nat
    BY CharLength, Utf8Cell DEF Utf8Inv, Utf8Is
  <2>2. end > at <=> Utf8!CharLen(input[at + 1]) > 0
    BY <2>1
  <2> HIDE DEF n
  <2> QED BY <1>1, <2>2, Utf8AtHand DEF n
<1> HIDE DEF n
<1>3. /\ Utf8Given /\ Len(input) \in Nat /\ at \in Nat /\ written \in Nat /\ written <= at
      /\ data \in Seq(Utf8Bytes) /\ Len(data) = Len(input)
      /\ \A m \in at + 1 .. Len(input) : data[m] = input[m]
      /\ Len(KeptTo(at)) = written /\ \A m \in 1 .. written : data[m] = KeptTo(at)[m]
  BY Utf8Cell DEF Utf8Inv, Utf8Is
<1>4. end \in Nat
  BY <1>3, CharLength
<1>5. \A k \in 1 .. n : Utf8Piece(at + k) = opts
  <2>1. SUFFICES ASSUME NEW k \in 1 .. n  PROVE ~Utf8!InChar(at + k)
    BY DEF Utf8Piece
  <2>2. at + k \in at + 1 .. at + n /\ at + k \in Nat /\ at + k > at
    BY <1>2, <1>3
  <2>3. Utf8!InChar(at + k) <=> at + k <= end /\ end <= Len(input) /\ \A j \in at + 2 .. end : input[j] = "c"
    BY <1>2, <2>2, InCharAtHand
  <2> HIDE DEF end
  <2>4. at + k <= end => end > at
    BY <1>3, <1>4, <2>2
  <2> QED BY <1>2, <2>3, <2>4
<1>6. Utf8Whole(at + n)
  <2>1. end <= Len(input) /\ (\A j \in at + 2 .. end : input[j] = "c") => end <= at + n
    <3> HIDE DEF end
    <3>1. end <= at => end <= at + n
      BY <1>2, <1>3, <1>4
    <3> QED BY <1>2, <1>3, <1>4, <3>1
  <2> QED BY <1>2, <2>1, Utf8Forward
<1> HIDE DEF end
<1>7. CASE opts = <<>>
  <2>1. data' = data /\ written' = written
    <3>1. n * Len(opts) = 0
      BY <1>2, <1>7
    <3> QED BY <1>1, <1>3, <1>7, <3>1
  <2>2. KeptTo(at + n) = KeptTo(at)
    <3>1. n \in Nat /\ \A k \in 1 .. n : Utf8Piece(at + k) = <<>>
      BY <1>2, <1>5, <1>7
    <3> QED BY <1>2, <1>3, <3>1, BytesRemoved
  <2>3. at + n \in 0 .. Len(input) /\ written \in 0 .. at + n
    BY <1>2, <1>3
  <2>4. \A m \in at + n + 1 .. Len(input) : data[m] = input[m]
    <3>1. \A m \in at + n + 1 .. Len(input) : m \in at + 1 .. Len(input)
      BY <1>2, <1>3
    <3> QED BY <1>3, <3>1
  <2> QED BY <1>1, <1>3, <1>6, <2>1, <2>2, <2>3, <2>4 DEF Utf8Is
<1>8. CASE opts = <<"a">>
  <2> DEFINE bytes == [k \in 1 .. n |-> "a"]
  <2>1. "a" \in Utf8Bytes
    BY DEF Utf8Bytes
  <2>2. bytes \in Seq(Utf8Bytes) /\ Len(bytes) = n /\ \A k \in 1 .. n : bytes[k] = "a"
    <3> HIDE DEF Utf8Bytes
    <3> QED BY <1>2, <2>1
  <2>3. data' = Utf8!Put(data, bytes) /\ written' = written + n
    <3>1. opts # <<>> /\ opts[1] = "a" /\ Len(opts) = 1
      BY <1>8
    <3>2. n * Len(opts) = n
      BY <1>2, <3>1
    <3> QED BY <1>1, <3>1, <3>2
  <2> HIDE DEF bytes
  <2>4. Become(at, n, bytes)
    BY <1>5, <1>8, <2>2 DEF Become
  <2>5. /\ data' \in Seq(Utf8Bytes) /\ Len(data') = Len(input)
        /\ \A m \in at + n + 1 .. Len(input) : data'[m] = input[m]
        /\ Len(KeptTo(at + n)) = written + n
        /\ \A m \in 1 .. written + n : data'[m] = KeptTo(at + n)[m]
    BY <1>2, <2>2, <2>3, <2>4, PutKept
  <2>6. at + n \in 0 .. Len(input) /\ written + n \in 0 .. at + n
    BY <1>2, <1>3
  <2> QED BY <1>1, <1>6, <2>3, <2>5, <2>6 DEF Utf8Is
<1> QED BY <1>3, <1>7, <1>8 DEF Utf8Given

LEMMA Utf8InitIsRight == Utf8!Init => Utf8Inv
PROOF
<1> SUFFICES ASSUME Utf8!Init PROVE Utf8Inv
  OBVIOUS
<1>1. Utf8Given /\ at = 0 /\ data = input /\ written = 0 /\ pc = "scan"
  BY DEF Utf8!Init, Utf8Given
<1>2. input \in Seq(Utf8Bytes) /\ Len(input) \in Nat
  BY <1>1, Utf8Cell
<1>3. Utf8Whole(0)
  BY DEF Utf8Whole
<1>4. KeptTo(0) = <<>> /\ Len(<<>>) = 0
  BY DEF KeptTo
<1>5. 0 \in 0 .. Len(input) /\ 0 \in 0 .. 0 /\ \A m \in 1 .. 0 : FALSE
  BY <1>2
<1> QED BY <1>1, <1>2, <1>3, <1>4, <1>5 DEF Utf8Inv, Utf8Is

LEMMA Utf8NextIsRight ==
  ASSUME Utf8Inv, Utf8!Next \/ UNCHANGED <<opts, input, at, data, written, pc>>
  PROVE  Utf8Inv'
PROOF
<1>1. input' = input /\ opts' = opts
  BY DEF Utf8!Next, Utf8!CopyChar, Utf8!ReplaceBytes, Utf8!Finish
<1>2. Utf8Is(at', data', written', pc')
  <2>1. ASSUME Utf8!Finish  PROVE Utf8Is(at', data', written', pc')
    <3>1. at = Len(data) /\ UNCHANGED <<at, data, written>> /\ Utf8Is(at, data, written, pc)
      BY <2>1 DEF Utf8!Finish, Utf8Inv
    <3>2. Len(data) = Len(input)
      BY <3>1 DEF Utf8Is
    <3> QED BY <3>1, <3>2 DEF Utf8Is
  <2>2. ASSUME UNCHANGED <<opts, input, at, data, written, pc>>  PROVE Utf8Is(at', data', written', pc')
    BY <2>2 DEF Utf8Inv
  <2> QED BY <2>1, <2>2, CopyCharIsRight, ReplaceBytesIsRight DEF Utf8!Next
<1>3. Utf8Given' /\ Utf8Given
  BY <1>1 DEF Utf8Given, Utf8Inv
<1>4. \A i : KeptTo(i)' = KeptTo(i)
  BY <1>1 DEF KeptTo, Utf8Flat, Utf8Pieces, Utf8Piece, Utf8!InChar, Flattens
<1>5. Utf8Whole(at)' <=> Utf8Whole(at')
  BY <1>1 DEF Utf8Whole
<1> QED BY <1>1, <1>2, <1>3, <1>4, <1>5 DEF Utf8Inv, Utf8Is

LEMMA Utf8InvIsPromise ==
  ASSUME Utf8Inv
  PROVE  Utf8!KeepsCharacters
PROOF
<1> SUFFICES ASSUME pc = "done" PROVE SubSeq(data, 1, written) = Utf8!FlattenSeq(Utf8Pieces)
  BY DEF Utf8!KeepsCharacters, Utf8Pieces, Utf8Piece
<1> DEFINE k == KeptTo(at)
<1>1. /\ Utf8Given /\ Len(input) \in Nat /\ at = Len(input) /\ written \in 0 .. at
      /\ data \in Seq(Utf8Bytes) /\ Len(data) = Len(input)
      /\ Len(k) = written /\ \A m \in 1 .. written : data[m] = k[m]
  BY Utf8Cell DEF Utf8Inv, Utf8Is
<1>2. k \in Seq(Utf8Bytes) /\ Utf8!FlattenSeq(Utf8Pieces) = k
  <2>1. at \in 0 .. Len(input)
    BY <1>1
  <2> QED BY <1>1, <2>1, KeptPieces
<1> HIDE DEF k
<1>3. written \in Nat /\ written <= Len(data) /\ 1 .. written \subseteq 1 .. Len(data)
  BY <1>1
<1>4. SubSeq(data, 1, written) = [m \in 1 .. written |-> data[m]]
  <2>1. Len(SubSeq(data, 1, written)) = written /\ \A m \in 1 .. written : SubSeq(data, 1, written)[m] = data[m]
    BY <1>1, <1>3
  <2>2. SubSeq(data, 1, written) \in Seq(Utf8Bytes)
    <3>1. \A m \in 1 .. written : data[m] \in Utf8Bytes
      BY <1>1, <1>3
    <3> HIDE DEF Utf8Bytes
    <3> QED BY <1>1, <1>3, <3>1
  <2> QED BY <1>3, <2>1, <2>2
<1>5. k = [m \in 1 .. written |-> k[m]]
  BY <1>1, <1>2
<1> QED BY <1>1, <1>2, <1>4, <1>5

-----------------------------------------------------------------------------
(* serialize.                                                               *)

Has(s, t) == \E n \in DOMAIN s : s[n] = t

(* What is in any piece, is in all of them together. *)
LEMMA PiecesHave ==
  ASSUME NEW T, NEW seqs \in Seq(Seq(T))
  PROVE  /\ Serialize!FlattenSeq(seqs) \in Seq(T)
         /\ \A t : Has(Serialize!FlattenSeq(seqs), t) <=> \E j \in 1 .. Len(seqs) : Has(seqs[j], t)
PROOF
<1> DEFINE m == Len(seqs)
           flat == CHOOSE f : Flattens(f, seqs)
           S == Seq(T)
<1>1. m \in Nat /\ seqs \in Seq(S) /\ \A i \in 1 .. m : seqs[i] \in S
  OBVIOUS
<1>2. CASE m = 0
  <2>1. seqs = <<>>
    BY <1>2
  <2>2. Serialize!FlattenSeq(seqs) = <<>>
    BY <1>2, <2>1 DEF Serialize!FlattenSeq
  <2>3. <<>> \in Seq(T) /\ \A t : ~Has(<<>>, t)
    BY DEF Has
  <2>4. ~\E j \in 1 .. m : TRUE
    BY <1>2
  <2> QED BY <2>2, <2>3, <2>4
<1>3. CASE m # 0
  <2>1. m > 0
    BY <1>1, <1>3
  <2>2. Flattens(flat, seqs)
    BY <2>1, FlattensExists
  <2>3. Serialize!FlattenSeq(seqs) = flat[m]
    BY <2>1, <1>3 DEF Serialize!FlattenSeq, Flattens
  <2> HIDE DEF flat, m, S
  <2>4. \A i \in 1 .. m : flat[i] = IF i = 1 THEN seqs[i] ELSE flat[i - 1] \o seqs[i]
    <3>1. flat = [i \in 1 .. m |-> IF i = 1 THEN seqs[i] ELSE flat[i - 1] \o seqs[i]]
      BY <2>2 DEF Flattens, m
    <3> QED BY <3>1
  <2> DEFINE Right(i) == flat[i] \in S /\ \A t : Has(flat[i], t) <=> \E j \in 1 .. i : Has(seqs[j], t)
  <2>5. Right(1)
    <3>1. 1 \in 1 .. m /\ \A j \in 1 .. 1 : j = 1
      BY <1>1, <2>1
    <3>2. flat[1] = seqs[1] /\ seqs[1] \in S
      BY <1>1, <2>4, <3>1
    <3> QED BY <3>1, <3>2
  <2>6. ASSUME NEW i \in 2 .. m, Right(i - 1)  PROVE Right(i)
    <3>1. i \in 1 .. m /\ i - 1 \in 1 .. m /\ i # 1 /\ \A j : j \in 1 .. i <=> j \in 1 .. i - 1 \/ j = i
      BY <1>1
    <3> DEFINE a == flat[i - 1]
               b == seqs[i]
    <3>2. a \in S /\ b \in S /\ flat[i] = a \o b
      BY <1>1, <2>4, <2>6, <3>1
    <3>3. \A t : Has(a, t) <=> \E j \in 1 .. i - 1 : Has(seqs[j], t)
      BY <2>6
    <3> HIDE DEF a, b, Right
    <3>4. a \o b \in S /\ \A t : Has(a \o b, t) <=> Has(a, t) \/ Has(b, t)
      <4>1. /\ a \o b \in S /\ Len(a) \in Nat /\ Len(b) \in Nat /\ DOMAIN (a \o b) = 1 .. Len(a) + Len(b)
            /\ DOMAIN a = 1 .. Len(a) /\ DOMAIN b = 1 .. Len(b)
        BY <3>2 DEF S
      <4>2. \A x \in 1 .. Len(a) : (a \o b)[x] = a[x] /\ x \in 1 .. Len(a) + Len(b)
        BY <3>2, <4>1 DEF S
      <4>3. \A x \in 1 .. Len(b) : (a \o b)[Len(a) + x] = b[x] /\ Len(a) + x \in 1 .. Len(a) + Len(b)
        <5>1. SUFFICES ASSUME NEW x \in 1 .. Len(b)
                       PROVE  (a \o b)[Len(a) + x] = b[x] /\ Len(a) + x \in 1 .. Len(a) + Len(b)
          OBVIOUS
        <5>2. Len(a) + x \in 1 .. Len(a) + Len(b) /\ ~(Len(a) + x <= Len(a)) /\ (Len(a) + x) - Len(a) = x
          BY <4>1
        <5> QED BY <3>2, <5>2 DEF S
      <4>4. ASSUME NEW t, Has(a \o b, t)  PROVE Has(a, t) \/ Has(b, t)
        <5>1. PICK x \in 1 .. Len(a) + Len(b) : (a \o b)[x] = t
          BY <4>1, <4>4 DEF Has
        <5>2. CASE x \in 1 .. Len(a)
          BY <4>1, <4>2, <5>1, <5>2 DEF Has
        <5>3. CASE x \notin 1 .. Len(a)
          <6>1. x - Len(a) \in 1 .. Len(b) /\ Len(a) + (x - Len(a)) = x
            BY <4>1, <5>3
          <6>2. b[x - Len(a)] = t
            BY <4>3, <5>1, <6>1
          <6> QED BY <4>1, <6>1, <6>2 DEF Has
        <5> QED BY <5>2, <5>3
      <4>5. ASSUME NEW t, Has(a, t) \/ Has(b, t)  PROVE Has(a \o b, t)
        <5>1. CASE Has(a, t)
          BY <4>1, <4>2, <5>1 DEF Has
        <5>2. CASE Has(b, t)
          BY <4>1, <4>3, <5>2 DEF Has
        <5> QED BY <4>5, <5>1, <5>2
      <4> QED BY <4>1, <4>4, <4>5
    <3>5. \A t : Has(flat[i], t) <=> \E j \in 1 .. i : Has(seqs[j], t)
      <4>1. \A t : Has(flat[i], t) <=> Has(a, t) \/ Has(seqs[i], t)
        BY <3>2, <3>4 DEF b
      <4> QED BY <3>1, <3>3, <4>1
    <3> QED BY <3>2, <3>4, <3>5 DEF Right
  <2>7. Right(m)
    <3> HIDE DEF Right
    <3> DEFINE Wrong == {i \in Nat : i \in 1 .. m /\ ~Right(i)}
    <3>1. SUFFICES ASSUME Wrong # {} PROVE FALSE
      BY <1>1, <2>1
    <3>2. PICK i \in Wrong : \A j \in Wrong : i <= j
      BY <3>1, LeastNumber
    <3>3. i # 1
      BY <2>5, <3>2
    <3>4. i \in 2 .. m /\ i - 1 \in Nat /\ i - 1 \in 1 .. m /\ ~(i <= i - 1)
      BY <1>1, <3>2, <3>3
    <3>5. Right(i - 1)
      BY <3>2, <3>4
    <3> QED BY <2>6, <3>2, <3>4, <3>5
  <2> QED BY <2>3, <2>7 DEF S, m
<1> QED BY <1>2, <1>3

SerChars == STRING \cup {"(Blank)", "Column", "Value"}
SerText == Seq(SerChars)
SerTuple == Seq(SerText)

(* The tuple of a cell of the input. *)
SerCell(t, a) ==
  \E n \in 2 .. a : \E ix \in DOMAIN input[n] : Serialize!Shown(input[n], ix) /\ t = Serialize!CellTuple(input[n], ix)

(* The tuples behind the first are those of the cells of the rows so far. *)
SerTuples(w, a) ==
  /\ w \in Seq(SerTuple) /\ Len(w) > 0
  /\ \A t : (\E k \in 2 .. Len(w) : w[k] = t) <=> SerCell(t, a)

SerIs(a, d) ==
  /\ d.handler = "header" <=> a = 0
  /\ a > 0 /\ ~d.err =>
       /\ DOMAIN d.positions = DOMAIN opts.add /\ Len(input) > 0
       /\ d.header_names = Serialize!HeaderNames(input[1])

SerInv ==
  /\ input \in SerializeInputs /\ opts \in SerializeOptions /\ at \in 0 .. Len(input)
  /\ pc = "done" => at = Len(input)
  /\ SerIs(at, data)
  /\ at > 0 /\ ~data.err /\ ~opts.position => SerTuples(written, at)

LEMMA SerInput ==
  ASSUME input \in SerializeInputs
  PROVE  /\ Len(input) \in Nat /\ DOMAIN input = 1 .. Len(input)
         /\ \A n \in 1 .. Len(input) :
              /\ input[n] \in Seq(SerText) /\ Len(input[n]) \in Nat /\ DOMAIN input[n] = 1 .. Len(input[n])
              /\ \A ix : Serialize!Cell(input[n], ix) \in SerText
PROOF
<1> DEFINE X == Seq(STRING)
           Y == Seq(X)
<1>1. input \in Seq(Y)
  BY SerializeAssumption
<1> HIDE DEF Y
<1>2. Len(input) \in Nat /\ DOMAIN input = 1 .. Len(input) /\ \A n \in 1 .. Len(input) : input[n] \in Y
  BY <1>1
<1>3. ASSUME NEW n \in 1 .. Len(input)
      PROVE  /\ input[n] \in Seq(SerText) /\ Len(input[n]) \in Nat /\ DOMAIN input[n] = 1 .. Len(input[n])
             /\ \A ix : Serialize!Cell(input[n], ix) \in SerText
  <2> DEFINE r == input[n]
  <2>1. r \in Seq(X)
    BY <1>2 DEF Y
  <2> HIDE DEF X, r
  <2>2. Len(r) \in Nat /\ DOMAIN r = 1 .. Len(r) /\ \A ix \in 1 .. Len(r) : r[ix] \in X
    BY <2>1
  <2>3. ASSUME NEW x \in X  PROVE x \in SerText
    <3>1. Len(x) \in Nat /\ x \in [1 .. Len(x) -> STRING]
      BY DEF X
    <3>2. x \in [1 .. Len(x) -> SerChars]
      BY <3>1 DEF SerChars
    <3> HIDE DEF SerChars
    <3> QED BY <3>1, <3>2 DEF SerText
  <2>4. \A ix \in 1 .. Len(r) : r[ix] \in SerText
    BY <2>2, <2>3
  <2>5. r \in Seq(SerText)
    <3> HIDE DEF SerText
    <3> QED BY <2>1, <2>2, <2>4
  <2>6. <<>> \in SerText
    BY DEF SerText
  <2>7. \A ix : Serialize!Cell(r, ix) \in SerText
    BY <2>2, <2>4, <2>6 DEF Serialize!Cell
  <2> QED BY <2>2, <2>5, <2>7 DEF r
<1> QED BY <1>2, <1>3

LEMMA SerTupleOf ==
  ASSUME input \in SerializeInputs, opts \in SerializeOptions, NEW n \in 1 .. Len(input),
         NEW positions, DOMAIN positions = DOMAIN opts.add,
         NEW id \in SerText, NEW name \in SerText, NEW value \in SerText
  PROVE  LET t == Serialize!Tuple(input[n], positions, id, name, value)
         IN  t \in SerTuple /\ t[1] = id /\ t[2] = name /\ t[3] = value
PROOF
<1> DEFINE a == <<id, name, value>>
           b == [k \in DOMAIN positions |-> Serialize!Cell(input[n], positions[k])]
<1>1. DOMAIN positions = 1 .. Len(opts.add) /\ Len(opts.add) \in Nat
  <2> DEFINE X == Seq(STRING)
  <2>1. opts.add \in Seq(X)
    BY SerializeAssumption
  <2> HIDE DEF X
  <2> QED BY <2>1
<1>2. \A ix : Serialize!Cell(input[n], ix) \in SerText
  BY SerInput
<1> HIDE DEF SerText
<1>3. b \in Seq(SerText)
  BY <1>1, <1>2
<1>4. a \in Seq(SerText) /\ Len(a) = 3 /\ a[1] = id /\ a[2] = name /\ a[3] = value
  OBVIOUS
<1> HIDE DEF a, b
<1>5. a \o b \in Seq(SerText) /\ \A k \in 1 .. 3 : (a \o b)[k] = a[k]
  <2>1. a \in Seq(SerText) /\ b \in Seq(SerText)
    BY <1>3, <1>4
  <2>2. \A k \in 1 .. Len(a) : (a \o b)[k] = a[k]
    BY <2>1
  <2>3. a \o b \in Seq(SerText)
    BY <2>1
  <2> QED BY <1>4, <2>2, <2>3
<1>6. Serialize!Tuple(input[n], positions, id, name, value) = a \o b
  BY DEF Serialize!Tuple, a, b
<1>7. 1 \in 1 .. 3 /\ 2 \in 1 .. 3 /\ 3 \in 1 .. 3
  OBVIOUS
<1>8. (a \o b)[1] = id /\ (a \o b)[2] = name /\ (a \o b)[3] = value
  BY <1>4, <1>5, <1>7
<1> QED BY <1>5, <1>6, <1>8 DEF SerTuple

LEMMA SerNames ==
  ASSUME SerInv, at > 0, ~data.err, ~opts.position
  PROVE  /\ Len(input) > 0 /\ Len(data.header_names) = Len(input[1])
         /\ \A ix \in 1 .. Len(input[1]) :
              /\ data.header_names[ix] = IF ix = 1 THEN <<>> ELSE input[1][ix]
              /\ data.header_names[ix] \in SerText
PROOF
<1> DEFINE h == input[1]
<1>1. /\ input \in SerializeInputs /\ Len(input) > 0 /\ data.header_names = Serialize!HeaderNames(h)
  BY DEF SerInv, SerIs
<1>2. h \in Seq(SerText) /\ Len(h) \in Nat /\ DOMAIN h = 1 .. Len(h)
  <2>1. 1 \in 1 .. Len(input)
    BY <1>1, SerInput
  <2> QED BY <1>1, <2>1, SerInput
<1> HIDE DEF h
<1>3. data.header_names = [ix \in 1 .. Len(h) |-> IF ix = 1 THEN <<>> ELSE h[ix]]
  BY <1>1, <1>2 DEF Serialize!HeaderNames
<1>4. <<>> \in SerText /\ \A ix \in 1 .. Len(h) : h[ix] \in SerText
  <2>1. <<>> \in SerText
    BY DEF SerText
  <2> HIDE DEF SerText
  <2> QED BY <1>2, <2>1
<1> HIDE DEF SerText
<1>5. Len(data.header_names) = Len(h)
  BY <1>2, <1>3
<1> QED BY <1>1, <1>3, <1>4, <1>5 DEF h

LEMMA SerCellTuple ==
  ASSUME SerInv, at > 0, ~data.err, ~opts.position,
         NEW n \in 1 .. Len(input), NEW ix \in DOMAIN input[n], Serialize!Shown(input[n], ix)
  PROVE  LET t == Serialize!CellTuple(input[n], ix)
         IN  /\ t \in SerTuple /\ ix \in 1 .. Len(input[1])
             /\ t[1] = Serialize!Cell(input[n], opts.id) /\ t[2] = data.header_names[ix] /\ t[3] = input[n][ix]
PROOF
<1>1. input \in SerializeInputs /\ opts \in SerializeOptions /\ DOMAIN data.positions = DOMAIN opts.add
  BY DEF SerInv, SerIs
<1>2. input[n] \in Seq(SerText) /\ DOMAIN input[n] = 1 .. Len(input[n]) /\ Len(input[n]) \in Nat
  BY <1>1, SerInput
<1>3. ix \in 1 .. Len(input[1]) /\ data.header_names[ix] \in SerText
  <2>1. Len(data.header_names) = Len(input[1])
    BY SerNames
  <2>2. 1 \in 1 .. Len(input)
    BY <1>1, SerNames, SerInput
  <2>3. Len(input[1]) \in Nat /\ ix <= Len(data.header_names)
    BY <1>1, <2>2, SerInput DEF Serialize!Shown
  <2>4. ix \in 1 .. Len(input[1])
    BY <1>2, <2>1, <2>3
  <2> QED BY <2>4, SerNames
<1>4. input[n][ix] \in SerText
  <2> HIDE DEF SerText
  <2> QED BY <1>2
<1>5. Serialize!Cell(input[n], opts.id) \in SerText
  BY <1>1, SerInput
<1> QED BY <1>1, <1>3, <1>4, <1>5, SerTupleOf DEF Serialize!CellTuple

LEMMA SerRowTuples ==
  ASSUME SerInv, at > 0, ~data.err, ~opts.position, NEW n \in 1 .. Len(input)
  PROVE  /\ Serialize!RowTuples(input[n]) \in Seq(SerTuple)
         /\ \A t : Has(Serialize!RowTuples(input[n]), t) <=>
                     \E ix \in DOMAIN input[n] :
                       Serialize!Shown(input[n], ix) /\ t = Serialize!CellTuple(input[n], ix)
PROOF
<1> DEFINE r == input[n]
           Tup(ix) == Serialize!CellTuple(r, ix)
           Piece(ix) == IF Serialize!Shown(r, ix) THEN <<Tup(ix)>> ELSE <<>>
           m == Len(r)
           pieces == [ix \in 1 .. m |-> Piece(ix)]
<1>1. m \in Nat /\ DOMAIN r = 1 .. m
  BY SerInput DEF SerInv
<1>2. ASSUME NEW ix \in 1 .. m  PROVE Piece(ix) \in Seq(SerTuple) /\ \A t : Has(Piece(ix), t) <=> Serialize!Shown(r, ix) /\ t = Tup(ix)
  <2>1. CASE Serialize!Shown(r, ix)
    <3>1. Tup(ix) \in SerTuple
      BY <1>1, <2>1, SerCellTuple
    <3> HIDE DEF Tup
    <3>2. Piece(ix) = <<Tup(ix)>>
      BY <2>1
    <3> HIDE DEF Piece, SerTuple
    <3>3. <<Tup(ix)>> \in Seq(SerTuple) /\ DOMAIN <<Tup(ix)>> = 1 .. 1 /\ <<Tup(ix)>>[1] = Tup(ix)
      BY <3>1
    <3>4. \A k \in 1 .. 1 : k = 1
      OBVIOUS
    <3>5. 1 \in 1 .. 1
      OBVIOUS
    <3> QED BY <2>1, <3>2, <3>3, <3>4, <3>5 DEF Has
  <2>2. CASE ~Serialize!Shown(r, ix)
    <3>1. Piece(ix) = <<>>
      BY <2>2
    <3> HIDE DEF Piece
    <3>2. <<>> \in Seq(SerTuple) /\ \A t : ~Has(<<>>, t)
      BY DEF Has
    <3> QED BY <2>2, <3>1, <3>2
  <2> QED BY <2>1, <2>2
<1>3. Serialize!RowTuples(r) = Serialize!FlattenSeq(pieces)
  BY <1>1 DEF Serialize!RowTuples
<1> HIDE DEF m, r, Piece
<1>4. pieces \in Seq(Seq(SerTuple)) /\ Len(pieces) = m /\ \A ix \in 1 .. m : pieces[ix] = Piece(ix)
  <2> DEFINE S == Seq(SerTuple)
  <2>1. \A ix \in 1 .. m : Piece(ix) \in S
    BY <1>2
  <2> HIDE DEF S
  <2>2. pieces \in Seq(S) /\ Len(pieces) = m
    BY <1>1, <2>1
  <2> QED BY <2>2 DEF S
<1> HIDE DEF pieces, Tup
<1>5. /\ Serialize!FlattenSeq(pieces) \in Seq(SerTuple)
      /\ \A t : Has(Serialize!FlattenSeq(pieces), t) <=> \E j \in 1 .. Len(pieces) : Has(pieces[j], t)
  BY <1>4, PiecesHave
<1>6. \A t : Has(Serialize!FlattenSeq(pieces), t) <=> \E j \in 1 .. m : Serialize!Shown(r, j) /\ t = Tup(j)
  <2>1. ASSUME NEW t  PROVE (\E j \in 1 .. Len(pieces) : Has(pieces[j], t)) <=> \E j \in 1 .. m : Serialize!Shown(r, j) /\ t = Tup(j)
    <3>1. \A j \in 1 .. m : Has(pieces[j], t) <=> Serialize!Shown(r, j) /\ t = Tup(j)
      BY <1>2, <1>4
    <3> QED BY <1>4, <3>1
  <2> QED BY <1>5, <2>1
<1> QED BY <1>1, <1>3, <1>5, <1>6 DEF r, Tup

LEMMA SerInitIsRight == Serialize!Init => SerInv
PROOF
<1> SUFFICES ASSUME Serialize!Init PROVE SerInv
  OBVIOUS
<1>1. /\ opts \in SerializeOptions /\ input \in SerializeInputs /\ at = 0 /\ pc = "rows"
      /\ data.handler = "header"
  BY DEF Serialize!Init
<1>2. at \in 0 .. Len(input) /\ ~(at > 0)
  BY <1>1, SerInput
<1> QED BY <1>1, <1>2 DEF SerInv, SerIs

LEMMA SerErr ==
  ASSUME SerInv, at' # 0, data' = [data EXCEPT !.err = TRUE, !.handler = "row"]
  PROVE  SerIs(at, data)' /\ data'.err
PROOF
<1>1. data'.handler = "row" /\ data'.err = TRUE
  BY DEF SerInv, SerIs
<1> QED BY <1>1 DEF SerIs

LEMMA SerHeaderIsRight ==
  ASSUME SerInv, Serialize!Header
  PROVE  SerInv'
PROOF
<1> DEFINE header == input[at + 1]
           positions == [k \in DOMAIN opts.add |-> Serialize!FindColumn(header, opts.add[k])]
<1>1. /\ pc = "rows" /\ at < Len(input) /\ data.handler = "header"
      /\ IF \E k \in DOMAIN positions : positions[k] = 0
         THEN /\ data' = [data EXCEPT !.err = TRUE, !.handler = "row"]
              /\ UNCHANGED written
         ELSE /\ data' = [ header_names |-> Serialize!HeaderNames(header), positions |-> positions,
                           err |-> FALSE, handler |-> "row" ]
              /\ written' = Serialize!HeaderTuples(header, positions)
      /\ at' = at + 1 /\ opts' = opts /\ input' = input /\ pc' = pc
  BY DEF Serialize!Header
<1>2. /\ input \in SerializeInputs /\ opts \in SerializeOptions /\ at = 0 /\ Len(input) \in Nat
  BY <1>1, SerInput DEF SerInv, SerIs
<1>3. at' = 1 /\ at + 1 = 1 /\ 1 \in 1 .. Len(input) /\ 1 > 0 /\ Len(input) > 0 /\ at' \in 0 .. Len(input)
  BY <1>1, <1>2
<1>4. CASE \E k \in DOMAIN positions : positions[k] = 0
  <2>1. data' = [data EXCEPT !.err = TRUE, !.handler = "row"]
    BY <1>1, <1>4
  <2> HIDE DEF header, positions
  <2>2. SerIs(at, data)' /\ data'.err
    BY <1>3, <2>1, SerErr
  <2>3. pc' # "done"
    BY <1>1
  <2> QED BY <1>1, <1>2, <1>3, <2>2, <2>3 DEF SerInv
<1>5. CASE ~\E k \in DOMAIN positions : positions[k] = 0
  <2>1. /\ data'.header_names = Serialize!HeaderNames(header) /\ data'.positions = positions
        /\ data'.handler = "row" /\ data'.err = FALSE
        /\ written' = Serialize!HeaderTuples(header, positions)
    BY <1>1, <1>5
  <2>2. DOMAIN positions = DOMAIN opts.add
    OBVIOUS
  <2> DEFINE id == IF Serialize!Cell(header, opts.id) = <<>> THEN Serialize!Blank ELSE Serialize!Cell(header, opts.id)
             t == Serialize!Tuple(header, positions, id, <<"Column">>, <<"Value">>)
  <2>3. header = input[1]
    BY <1>3
  <2> HIDE DEF header, positions
  <2>4. SerIs(at, data)'
    <3>1. data'.header_names = Serialize!HeaderNames(input[1])'
      BY <1>1, <2>1, <2>3 DEF Serialize!HeaderNames
    <3>2. ~(data'.handler = "header") /\ ~(at' = 0)
      BY <1>3, <2>1
    <3> QED BY <1>1, <1>3, <2>1, <2>2, <3>1, <3>2 DEF SerIs
  <2>5. ASSUME ~opts.position  PROVE SerTuples(written, at)'
    <3>1. written' = <<t>> \o <<>>
      BY <2>1, <2>5 DEF Serialize!HeaderTuples
    <3>2. t \in SerTuple
      <4>1. /\ <<"Column">> \in SerText /\ <<"Value">> \in SerText /\ <<"(Blank)">> \in SerText
        <5>1. "Column" \in SerChars /\ "Value" \in SerChars /\ "(Blank)" \in SerChars
          BY DEF SerChars
        <5> HIDE DEF SerChars
        <5> QED BY <5>1 DEF SerText
      <4>2. id \in SerText
        <5>1. Serialize!Cell(input[1], opts.id) \in SerText
          BY <1>2, <1>3, SerInput
        <5> QED BY <2>3, <4>1, <5>1 DEF Serialize!Blank
      <4> HIDE DEF id
      <4>3. Serialize!Tuple(input[1], positions, id, <<"Column">>, <<"Value">>) \in SerTuple
        BY <1>2, <1>3, <2>2, <4>1, <4>2, SerTupleOf
      <4> QED BY <2>3, <4>3
    <3> HIDE DEF t, SerTuple
    <3>3. written' \in Seq(SerTuple) /\ Len(written') = 1
      BY <3>1, <3>2
    <3>4. \A k \in 2 .. 1 : FALSE
      OBVIOUS
    <3> QED BY <1>3, <3>3, <3>4 DEF SerTuples, SerCell
  <2>6. pc' # "done"
    BY <1>1
  <2> HIDE DEF t, id
  <2> QED BY <1>1, <1>2, <1>3, <2>4, <2>5, <2>6 DEF SerInv
<1> QED BY <1>4, <1>5

LEMMA SerRowIsRight ==
  ASSUME SerInv, Serialize!Row
  PROVE  SerInv'
PROOF
<1> DEFINE r == Serialize!RowTuples(input[at + 1])
<1>1. /\ pc = "rows" /\ at < Len(input) /\ data.handler = "row"
      /\ written' = (IF data.err THEN written ELSE written \o r)
      /\ at' = at + 1 /\ opts' = opts /\ input' = input /\ data' = data /\ pc' = pc
  BY DEF Serialize!Row
<1>2. /\ input \in SerializeInputs /\ opts \in SerializeOptions /\ at \in 0 .. Len(input) /\ at # 0
      /\ SerIs(at, data)
  BY <1>1 DEF SerInv, SerIs
<1>3. Len(input) \in Nat
  BY <1>2, SerInput
<1>4. at > 0 /\ at' > 0 /\ at' \in 0 .. Len(input) /\ at + 1 \in 1 .. Len(input) /\ at' # 0 /\ at \in Nat
  BY <1>1, <1>2, <1>3
<1>5. SerIs(at, data)'
  BY <1>1, <1>2, <1>4 DEF SerIs, Serialize!HeaderNames
<1>6. ASSUME ~data.err, ~opts.position  PROVE SerTuples(written, at)'
  <2>1. SerTuples(written, at)
    BY <1>4, <1>6 DEF SerInv
  <2>2. /\ r \in Seq(SerTuple)
        /\ \A t : Has(r, t) <=> \E ix \in DOMAIN input[at + 1] :
                     Serialize!Shown(input[at + 1], ix) /\ t = Serialize!CellTuple(input[at + 1], ix)
    BY <1>4, <1>6, SerRowTuples
  <2> HIDE DEF r
  <2>3. written' = written \o r
    BY <1>1, <1>6
  <2> DEFINE w == written
             v == w \o r
  <2>4. w \in Seq(SerTuple) /\ Len(w) > 0 /\ \A t : (\E k \in 2 .. Len(w) : w[k] = t) <=> SerCell(t, at)
    BY <2>1 DEF SerTuples
  <2> HIDE DEF w, SerTuple
  <2>5. /\ v \in Seq(SerTuple) /\ Len(w) \in Nat /\ Len(r) \in Nat /\ Len(v) = Len(w) + Len(r)
        /\ DOMAIN r = 1 .. Len(r)
    BY <2>2, <2>4
  <2>6. \A k \in 1 .. Len(w) : v[k] = w[k]
    BY <2>2, <2>4
  <2>7. ASSUME NEW k \in 1 .. Len(r)  PROVE v[Len(w) + k] = r[k] /\ Len(w) + k \in 2 .. Len(v)
    <3>1. Len(w) + k \in 1 .. Len(w) + Len(r) /\ ~(Len(w) + k <= Len(w)) /\ (Len(w) + k) - Len(w) = k
      BY <2>5
    <3>2. Len(w) + k \in 2 .. Len(v)
      BY <2>4, <2>5
    <3> QED BY <2>2, <2>4, <3>1, <3>2
  <2> HIDE DEF v
  <2>8. ASSUME NEW t
        PROVE  (\E k \in 2 .. Len(v) : v[k] = t) <=> (\E k \in 2 .. Len(w) : w[k] = t) \/ Has(r, t)
    <3>1. ASSUME NEW k \in 2 .. Len(v), v[k] = t  PROVE (\E j \in 2 .. Len(w) : w[j] = t) \/ Has(r, t)
      <4>1. CASE k <= Len(w)
        <5>1. k \in 2 .. Len(w) /\ k \in 1 .. Len(w)
          BY <2>5, <4>1
        <5> QED BY <2>6, <3>1, <5>1
      <4>2. CASE ~(k <= Len(w))
        <5>1. k - Len(w) \in 1 .. Len(r) /\ Len(w) + (k - Len(w)) = k
          BY <2>5, <4>2
        <5>2. r[k - Len(w)] = t
          BY <2>7, <3>1, <5>1
        <5> QED BY <2>5, <5>1, <5>2 DEF Has
      <4> QED BY <4>1, <4>2
    <3>2. ASSUME NEW k \in 2 .. Len(w), w[k] = t  PROVE \E j \in 2 .. Len(v) : v[j] = t
      <4>1. k \in 2 .. Len(v) /\ k \in 1 .. Len(w)
        BY <2>5
      <4> QED BY <2>6, <3>2, <4>1
    <3>3. ASSUME Has(r, t)  PROVE \E j \in 2 .. Len(v) : v[j] = t
      <4>1. PICK k \in 1 .. Len(r) : r[k] = t
        BY <2>5, <3>3 DEF Has
      <4> QED BY <2>7, <4>1
    <3> QED BY <3>1, <3>2, <3>3
  <2>9. \A t : SerCell(t, at + 1) <=>
                 SerCell(t, at) \/ \E ix \in DOMAIN input[at + 1] :
                     Serialize!Shown(input[at + 1], ix) /\ t = Serialize!CellTuple(input[at + 1], ix)
    <3>1. \A n : n \in 2 .. at + 1 <=> n \in 2 .. at \/ n = at + 1
      BY <1>4
    <3> QED BY <3>1, Zenon DEF SerCell
  <2>10. \A t : (\E k \in 2 .. Len(v) : v[k] = t) <=> SerCell(t, at + 1)
    BY <2>2, <2>4, <2>8, <2>9
  <2>11. \A t : SerCell(t, at)' <=> SerCell(t, at + 1)
    BY <1>1 DEF SerCell, Serialize!Shown, Serialize!CellTuple, Serialize!Passes, Serialize!Tuple, Serialize!Cell
  <2>12. written' = v /\ Len(v) > 0
    BY <2>3, <2>4, <2>5 DEF v, w
  <2> QED BY <2>5, <2>10, <2>11, <2>12 DEF SerTuples
<1>7. pc' # "done"
  BY <1>1
<1> HIDE DEF r
<1> QED BY <1>1, <1>2, <1>4, <1>5, <1>6, <1>7 DEF SerInv

LEMMA SerNextIsRight ==
  ASSUME SerInv, Serialize!Next \/ UNCHANGED <<opts, input, at, data, written, pc>>
  PROVE  SerInv'
PROOF
<1>1. CASE Serialize!Header
  BY <1>1, SerHeaderIsRight
<1>2. CASE Serialize!Row
  BY <1>2, SerRowIsRight
<1>3. CASE Serialize!Finish \/ UNCHANGED <<opts, input, at, data, written, pc>>
  <2>1. /\ opts' = opts /\ input' = input /\ at' = at /\ data' = data /\ written' = written
        /\ pc' = pc \/ at = Len(input)
    BY <1>3 DEF Serialize!Finish
  <2>2. SerIs(at, data)' /\ (SerTuples(written, at)' <=> SerTuples(written, at))
    BY <2>1 DEF SerInv, SerIs, SerTuples, SerCell, Serialize!Shown, Serialize!CellTuple, Serialize!Passes,
                Serialize!Tuple, Serialize!Cell, Serialize!HeaderNames
  <2> QED BY <2>1, <2>2 DEF SerInv
<1> QED BY <1>1, <1>2, <1>3 DEF Serialize!Next

LEMMA SerInvIsPromise ==
  ASSUME SerInv
  PROVE  Serialize!Rebuilds
PROOF
<1> DEFINE header == input[1]
           data_rows == 2 .. Len(input)
           ids == [n \in data_rows |-> Serialize!Cell(input[n], opts.id)]
           Name(ix) == IF ix = 1 THEN <<>> ELSE header[ix]
           Value(n, ix) == {t \in {written[k] : k \in 2 .. Len(written)} : t[1] = ids[n] /\ t[2] = Name(ix)}
<1>1. SUFFICES ASSUME pc = "done", input # <<>>, ~data.err, opts.filter = <<>>, ~opts.position,
                      \A m, n \in DOMAIN header : header[m] # <<>> /\ (header[m] = header[n] => m = n),
                      \A m, n \in data_rows : ids[m] = ids[n] => m = n,
                      NEW n \in data_rows, NEW ix \in DOMAIN header, ix # opts.id, ix \in DOMAIN input[n]
               PROVE  \E t \in Value(n, ix) : t[3] = input[n][ix] /\ Value(n, ix) = {t}
  BY ZenonT(30) DEF Serialize!Rebuilds
<1> DEFINE t == Serialize!CellTuple(input[n], ix)
<1>2. input \in SerializeInputs /\ at = Len(input)
  BY <1>1 DEF SerInv
<1>3. Len(input) \in Nat /\ DOMAIN input = 1 .. Len(input)
  BY <1>2, SerInput
<1>4. n \in 1 .. Len(input) /\ at > 0
  BY <1>2, <1>3
<1>5. SerTuples(written, at)
  BY <1>1, <1>4 DEF SerInv
<1>6. \A u : (\E k \in 2 .. Len(written) : written[k] = u) <=> SerCell(u, at)
  BY <1>5 DEF SerTuples
<1>7. /\ Len(data.header_names) = Len(header) /\ Len(header) \in Nat /\ DOMAIN header = 1 .. Len(header)
      /\ \A jx \in 1 .. Len(header) : data.header_names[jx] = IF jx = 1 THEN <<>> ELSE header[jx]
  <2>1. 1 \in 1 .. Len(input)
    BY <1>3, <1>4
  <2>2. Len(header) \in Nat /\ DOMAIN header = 1 .. Len(header)
    BY <1>2, <2>1, SerInput
  <2> QED BY <1>1, <1>4, <2>2, SerNames
<1>8. Serialize!Shown(input[n], ix)
  BY <1>1, <1>7 DEF Serialize!Shown, Serialize!Passes
<1>9. t[1] = ids[n] /\ t[2] = Name(ix) /\ t[3] = input[n][ix]
  <2>1. t[1] = Serialize!Cell(input[n], opts.id) /\ t[2] = data.header_names[ix] /\ t[3] = input[n][ix]
    BY <1>1, <1>4, <1>8, SerCellTuple
  <2>2. data.header_names[ix] = Name(ix)
    BY <1>1, <1>7
  <2> HIDE DEF t, header, Name
  <2> QED BY <2>1, <2>2
<1>10. t \in {written[k] : k \in 2 .. Len(written)}
  <2>1. SerCell(t, at)
    BY <1>1, <1>2, <1>8 DEF SerCell
  <2> HIDE DEF t
  <2> QED BY <1>6, <2>1
<1>11. ASSUME NEW u \in Value(n, ix)  PROVE u = t
  <2>1. u[1] = ids[n] /\ u[2] = Name(ix) /\ SerCell(u, at)
    <3> HIDE DEF ids, header, Name
    <3> QED BY <1>6, <1>11
  <2>2. PICK m \in 2 .. at : \E jx \in DOMAIN input[m] :
               Serialize!Shown(input[m], jx) /\ u = Serialize!CellTuple(input[m], jx)
    BY <2>1 DEF SerCell
  <2>3. PICK jx \in DOMAIN input[m] : Serialize!Shown(input[m], jx) /\ u = Serialize!CellTuple(input[m], jx)
    BY <2>2
  <2>4. m \in data_rows /\ m \in 1 .. Len(input)
    BY <1>2, <1>3
  <2>5. jx \in 1 .. Len(header) /\ u[1] = Serialize!Cell(input[m], opts.id) /\ u[2] = data.header_names[jx]
    BY <1>1, <1>4, <2>3, <2>4, SerCellTuple
  <2>6. m = n
    <3>1. ids[m] = Serialize!Cell(input[m], opts.id)
      BY <2>4
    <3> HIDE DEF ids, data_rows
    <3> QED BY <1>1, <2>1, <2>4, <2>5, <3>1
  <2>7. jx = ix
    <3>1. ix \in DOMAIN header /\ jx \in DOMAIN header
      BY <1>1, <1>7, <2>5
    <3>2. header[ix] # <<>> /\ header[jx] # <<>> /\ (header[jx] = header[ix] => jx = ix)
      BY <1>1, <3>1
    <3>3. u[2] = data.header_names[jx] /\ data.header_names[jx] = Name(jx)
      <4>1. data.header_names[jx] = Name(jx)
        BY <1>7, <2>5
      <4> HIDE DEF Name
      <4> QED BY <2>5, <4>1
    <3>4. Name(jx) = Name(ix)
      <4> HIDE DEF Name
      <4> QED BY <2>1, <3>3
    <3> HIDE DEF header
    <3> QED BY <3>2, <3>4
  <2> QED BY <2>3, <2>6, <2>7
<1>12. t \in Value(n, ix)
  <2> HIDE DEF t, ids, header, Name
  <2> QED BY <1>9, <1>10
<1> HIDE DEF Value, t
<1> QED BY <1>9, <1>11, <1>12

==============================================================================
