------------------------------ MODULE Compare ------------------------------
(***************************************************************************)
(* zsv compare: the rows of several inputs are matched by key, and missing *)
(* rows and different values are reported.  src/app/compare.c,             *)
(* compare_sort.c, compare_unique_colname.c, compare_added_column.c.       *)
(*                                                                         *)
(* Left out: the order of the columns in the report and its format,        *)
(* row_count and diff_count, which number rows and count differences, and  *)
(* memory that runs out.  The rows of an input are those it delivers: the  *)
(* code takes an error for the end.                                        *)
(***************************************************************************)
EXTENDS Integers, Sequences, FiniteSets

CONSTANTS
  InputCount,
  Text,            \* names and values; Blank is the empty one
  Blank,
  Same(_, _),      \* zsv_strincmp of two trimmed texts is 0
  Close(_, _),     \* two numbers that differ by less than the tolerance
  KeyOrder(_),     \* the place of a key in the order of zsv_strincmp, column by column
  SqlOrder(_),     \* its place in the order of SQLite
  Headers, Rows, Unended, Keys, AddedColumns, Sorting   \* bound: inputs and options

Input == 1 .. InputCount

(* Same compares what the two texts become in lower case: it is an equivalence. *)
ASSUME CompareAssumption ==
  /\ InputCount \in Nat \ {0} /\ Blank \in Text
  /\ \A s \in Text : Same(s, s)
  /\ \A s, t, u \in Text : Same(s, t) /\ Same(s, u) => Same(t, u)
  /\ Headers \subseteq [Input -> Seq(Text)] /\ Rows \subseteq [Input -> Seq(Seq(Text))]
  /\ Unended \subseteq SUBSET Input /\ Keys \subseteq Seq(Text) /\ Sorting \subseteq BOOLEAN
  /\ \A k \in Keys : \A key \in [DOMAIN k -> Text] : KeyOrder(key) \in Nat

VARIABLES
  header, rows,    \* the inputs
  unended,         \* inputs whose last row has no line end
  keys, sort,      \* options
  pc,
  inputs,          \* struct zsv_compare_input; row is what get_cell reads
  printed          \* what the last call of zsv_compare_print_row reported

given == <<header, rows, unended, keys, sort>>
vars == <<header, rows, unended, keys, sort, pc, inputs, printed>>

-----------------------------------------------------------------------------
(* Columns.  A column is a name, of whatever case, and how many columns of that
   name come before it in the same input. *)

Column(i, j) ==
  <<header[i][j], Cardinality({m \in 1 .. j - 1 : header[i][m] = header[i][j]})>>

HasColumn(i, c) == \E j \in DOMAIN header[i] : Column(i, j) = c

OutputColumns == UNION {{Column(i, j) : j \in DOMAIN header[i]} : i \in Input}

KeyColumn(k) == <<keys[k], Cardinality({m \in 1 .. k - 1 : keys[m] = keys[k]})>>

KeyColumns == {KeyColumn(k) : k \in DOMAIN keys}

(* get_cell *)
CellIn(row, j) == IF j \in DOMAIN row THEN row[j] ELSE Blank

(* Faulty: columns are matched by their place in the first input. *)
ValueIn_ByPlace(i, row, c) ==
  IF HasColumn(i, c)
  THEN CellIn(row, CHOOSE j \in DOMAIN header[1] \cup {0} : j > 0 => Column(1, j) = c)
  ELSE Blank

(* out2in *)
ValueIn(i, row, c) ==
  IF HasColumn(i, c)
  THEN CellIn(row, CHOOSE j \in DOMAIN header[i] : Column(i, j) = c)
  ELSE Blank

KeyIn(i, row) == [k \in DOMAIN keys |-> ValueIn(i, row, KeyColumn(k))]

(* The first input that has an added column is where its values come from. *)
AddedFrom(c) == {i \in Input : HasColumn(i, c) /\ \A m \in 1 .. i - 1 : ~HasColumn(m, c)}

-----------------------------------------------------------------------------
(* The rows of an input in the order of its select statement. *)
SqlSorted(i) ==
  \A m, n \in DOMAIN rows[i] :
    m <= n => SqlOrder(KeyIn(i, rows[i][m])) <= SqlOrder(KeyIn(i, rows[i][n]))

Init ==
  /\ header \in Headers /\ rows \in Rows /\ unended \in Unended
  /\ keys \in Keys /\ sort \in Sorting
  /\ sort => unended = {} /\ \A i \in Input : SqlSorted(i)
  /\ pc = "start"
  /\ inputs = [i \in Input |-> [ pos |-> 0, row_loaded |-> FALSE, done |-> FALSE,
                                 row |-> IF sort THEN <<>> ELSE header[i] ]]
  /\ printed = [group |-> {}]

(* Set-up: keys are looked for in every input. *)
SetUp ==
  /\ pc = "start"
  /\ pc' = IF \/ sort /\ keys = <<>>
              \/ InputCount < 2
              \/ \E i \in Input, k \in DOMAIN keys : ~HasColumn(i, KeyColumn(k))
           THEN "failed" ELSE "comparing"
  /\ UNCHANGED <<given, inputs, printed>>

-----------------------------------------------------------------------------
HasNext(i) == inputs[i].pos < Len(rows[i])

(* The loop of zsv_compare_advance, for one input.  At the end of the input the
   cells of a row that zsv_finish has delivered stay readable. *)
AdvancedInput(i) ==
  LET input == inputs[i]
      next  == input.pos + 1
  IN  IF input.done \/ input.row_loaded THEN input
      ELSE IF HasNext(i)
      THEN [pos |-> next, row_loaded |-> TRUE, done |-> FALSE, row |-> rows[i][next]]
      ELSE [input EXCEPT !.done = TRUE, !.row = IF i \in unended THEN @ ELSE <<>>]

Advanced == [i \in Input |-> AdvancedInput(i)]

(* Faulty: keys compare as they do in SQLite. *)
KeyRank_Sql(now, i) == SqlOrder(KeyIn(i, now[i].row))

KeyRank(now, i) == KeyOrder(KeyIn(i, now[i].row))

(* What qsort may return for zsv_compare_inputp_cmp.  The place of inputs with
   the same key is not fixed, and the array is not reset between rows. *)
SortedInputs(now) ==
  { order \in [Input -> Input] :
      /\ \A i \in Input : \E n \in Input : order[n] = i
      /\ \A m, n \in Input :
           m <= n /\ now[order[n]].row_loaded =>
             /\ now[order[m]].row_loaded
             /\ KeyRank(now, order[m]) <= KeyRank(now, order[n]) }

(* The inputs up to "last": a loaded one with another key ends the search. *)
Group(now, order) ==
  { order[n] : n \in {n \in Input :
      \E m \in n .. InputCount :
        /\ now[order[m]].row_loaded
        /\ \A k \in 1 .. m : now[order[k]].row_loaded =>
                               KeyRank(now, order[k]) = KeyRank(now, order[1])} }

Different(now, group, first, c) ==
  \E i \in group \ {first} :
    LET value       == ValueIn(i, now[i].row, c)
        first_value == ValueIn(first, now[first].row, c)
    IN  HasColumn(i, c) /\ ~Same(first_value, value) /\ ~Close(first_value, value)

(* zsv_compare_print_row, zsv_compare_output_tuple *)
PrintRow(now, group, first) ==
  [ group    |-> group,
    key      |-> KeyIn(first, now[first].row),
    missing  |-> Input \ group,
    differs  |-> [ c \in {c \in OutputColumns \ KeyColumns : Different(now, group, first, c)} |->
                     [ i \in Input |-> IF i \in group THEN ValueIn(i, now[i].row, c) ELSE Blank ] ],
    added    |-> [ c \in AddedColumns |-> {ValueIn(i, now[i].row, c) : i \in AddedFrom(c)} ] ]

(* zsv_compare_next, when no input has a row left. *)
NoMoreInput ==
  /\ pc = "comparing"
  /\ \A i \in Input : ~Advanced[i].row_loaded
  /\ pc' = "finished" /\ inputs' = Advanced
  /\ UNCHANGED <<given, printed>>

(* Faulty: the rows reported stay loaded. *)
Used_None(now, group) == now

Used(now, group) ==
  [i \in Input |-> IF i \in group THEN [now[i] EXCEPT !.row_loaded = FALSE] ELSE now[i]]

(* zsv_compare_next, when one has. *)
CompareRows ==
  /\ pc = "comparing"
  /\ \E i \in Input : Advanced[i].row_loaded
  /\ \E order \in SortedInputs(Advanced) :
       LET group == Group(Advanced, order)
       IN  /\ printed' = PrintRow(Advanced, group, order[1])
           /\ inputs' = Used(Advanced, group)
  /\ UNCHANGED <<given, pc>>

Next == SetUp \/ CompareRows \/ NoMoreInput

Spec == Init /\ [][Next]_vars

(* The command is one loop of one thread. *)
FairSpec == Spec /\ WF_vars(Next)

-----------------------------------------------------------------------------
(* The row in hand is that of its position, an input is over when all its rows
   have been read, and a row that waits for its key has not been reported. *)
TypeOK ==
  /\ header \in Headers /\ rows \in Rows /\ unended \subseteq Input
  /\ keys \in Keys /\ sort \in BOOLEAN
  /\ pc \in {"start", "comparing", "finished", "failed"}
  /\ inputs \in [Input -> [pos : Nat, row_loaded : BOOLEAN, done : BOOLEAN, row : Seq(Text)]]
  /\ \A i \in Input :
       /\ inputs[i].pos <= Len(rows[i])
       /\ inputs[i].row_loaded =>
            inputs[i].pos > 0 /\ inputs[i].row = rows[i][inputs[i].pos] /\ ~inputs[i].done
       /\ inputs[i].done => inputs[i].pos = Len(rows[i])
       /\ pc = "finished" => inputs[i].done

(* Rows of an input that have been reported. *)
Taken(i) == IF inputs[i].row_loaded THEN inputs[i].pos - 1 ELSE inputs[i].pos

KeysLeft(i) ==
  [n \in 1 .. Len(rows[i]) - Taken(i) |-> KeyOrder(KeyIn(i, rows[i][Taken(i) + n]))]

Promise == INSTANCE RowMatch WITH
  left <- [i \in Input |-> KeysLeft(i)],
  phase <- CASE pc = "start" -> "start" [] pc = "comparing" -> "matching" [] OTHER -> "over"

(* Every row of every input is reported once, with rows that have its key, and
   in inputs that are sorted never without the row of an input that has its key
   too. *)
ImplementsRowMatch == Promise!Spec

-----------------------------------------------------------------------------
(* What a report says about the rows it is about.                           *)

(* The rows of an input that the last report was about. *)
Row(i) == rows[i][inputs[i].pos]

Value(i, c) ==
  LET j == CHOOSE j \in DOMAIN header[i] : Column(i, j) = c
  IN  IF j \in DOMAIN Row(i) THEN Row(i)[j] ELSE Blank

KeyOf(i) == [k \in DOMAIN keys |-> Value(i, KeyColumn(k))]

Reported == DOMAIN printed.differs

(* A row is reported under its key and with its own values: whatever the order
   and the number of the columns of each input, columns are matched by their
   names.  Of the columns that all inputs of the group have, those are reported
   whose values differ between some of them; two values may stay unreported only if
   one of them is within the tolerance of a third.  (Of a column that only some
   have, what is reported depends on which input is the first of the group.)  An
   added value is from the reported row, if its input has one. *)
ReportsRows ==
  printed.group # {} =>
    LET group  == printed.group
        common == {c \in OutputColumns \ KeyColumns : \A i \in group : HasColumn(i, c)}
        Apart(i, m, c) == ~Same(Value(i, c), Value(m, c)) /\ ~Close(Value(i, c), Value(m, c))
    IN  /\ \A i \in group : KeyOrder(KeyOf(i)) = KeyOrder(printed.key)
        /\ \A c \in common \cap Reported : \E i, m \in group : Apart(i, m, c)
        /\ \A c \in common \ Reported : \A i, m \in group :
             Apart(i, m, c) =>
               \E n \in group : Close(Value(n, c), Value(i, c)) \/ Close(Value(n, c), Value(m, c))
        /\ \A c \in Reported : \A i \in group : HasColumn(i, c) => printed.differs[c][i] = Value(i, c)
        /\ \A c \in AddedColumns : \A i \in AddedFrom(c) \cap group : printed.added[c] = {Value(i, c)}

(* An input is called missing only if it has no row left with the key of the
   report.  The usage text makes this depend on sorted inputs, "unless the --sort
   option is used" (compare.c:625-628). *)
MissingIsAbsent ==
  printed.group # {} =>
    \A i \in printed.missing : \A n \in Taken(i) + 1 .. Len(rows[i]) :
      KeyOrder(KeyIn(i, rows[i][n])) # KeyOrder(printed.key)

(* The comparison ends: each turn of the loop uses up a row. *)
Terminates == <>(pc \in {"finished", "failed"})

=============================================================================
