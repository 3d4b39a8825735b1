------------------------------ MODULE Flatten ------------------------------
(***************************************************************************)
(* zsv flatten: rows with the same id, which lie together, become one row. *)
(* A name column says in which output column the value of a row goes, and  *)
(* further columns are aggregated.  src/app/flatten.c.                     *)
(*                                                                         *)
(* Two passes over the input: the first collects the names and copies the  *)
(* bytes to a temporary file, the second reads that file with a parser of  *)
(* its own, which has no options.  One step is a row, first its cells and  *)
(* then its end.                                                           *)
(*                                                                         *)
(* Left out: the text of a delimiter, delimiters inside values, the        *)
(* unused limit -m, messages, interrupts, and memory or files that fail.   *)
(***************************************************************************)
EXTENDS Integers, Sequences, SequencesExt, Texts

CONSTANTS
  MaxOutputCols,       \* -C
  FlattenOptions,      \* bound: what the command may be called with
  FlattenInputs        \* bound: the rows of the input

VARIABLES
  opts, input,
  at,                  \* rows delivered so far, in the current pass
  data,                \* struct flatten_data
  written, pc          \* "pass 1", "pass 2", "done"

vars == <<opts, input, at, data, written, pc>>

(* A text that may be missing is a sequence of at most one text. *)
None == <<>>

HaveAgg == opts.agg # <<>>
Passes == IF opts.column_name # None \/ ~HaveAgg THEN 2 ELSE 1

(* A parser without options takes a row with another delimiter for one cell. *)
SecondInput ==
  IF opts.delimiter = "comma" THEN input
  ELSE [n \in DOMAIN input |-> IF input[n] = <<>> THEN <<>> ELSE <<FlattenSeq(input[n])>>]

-----------------------------------------------------------------------------
(* The columns of the input; 0 is none. *)

(* set_cnx compares as many characters as the header has. *)
HeaderMatches(name, header) ==
  Len(header) <= Len(name) /\ SameName(SubSeq(name, 1, Len(header)), header)

SetCnx(cnx, header, ix) ==
  IF cnx.ix > 0 THEN cnx
  ELSE IF cnx.name = None THEN [name |-> <<header>>, ix |-> ix]
  ELSE IF HeaderMatches(cnx.name[1], header) THEN [cnx EXCEPT !.ix = ix] ELSE cnx

(* Without a name, and if nothing is aggregated, it is the i-th column. *)
FindColumn(cnx, row, i) ==
  FoldLeftDomain(LAMBDA c, ix : IF c.name # None \/ (~HaveAgg /\ ix = i)
                                THEN SetCnx(c, row[ix], ix) ELSE c, cnx, row)

(* In the second pass the id may still be found, in any column. *)
FindRowId(cnx, row) ==
  FoldLeftDomain(LAMBDA c, ix : IF c.ix = 0 /\ (c.name # None \/ ~HaveAgg)
                                THEN SetCnx(c, row[ix], ix) ELSE c, cnx, row)

(* The last column of that name. *)
AggColumn(name, row) ==
  LET same == {ix \in DOMAIN row : SameName(name, row[ix])}
  IN  IF same = {} THEN 0 ELSE Max(same)

(* agg_output_cols_vector: of two for the same column the later one. *)
AggVector(row) ==
  [ix \in DOMAIN row |->
     LET of == {a \in DOMAIN opts.agg : AggColumn(opts.agg[a], row) = ix}
     IN  IF of = {} THEN 0 ELSE Max(of)]

(* flatten_output_column_find *)
Find(names, name) ==
  LET same == {n \in DOMAIN names : SameName(names[n], name)}
  IN  IF same = {} THEN 0 ELSE Min(same)

-----------------------------------------------------------------------------
NewData ==
  [ row_id |-> [name |-> opts.row_id, ix |-> 0],
    column_name |-> [name |-> opts.column_name, ix |-> 0],
    value |-> [name |-> opts.value, ix |-> 0],
    names |-> <<>>,                               \* output_columns_by_value
    current_value |-> <<>>,                       \* of each of them
    agg_vector |-> <<>>,
    agg_values |-> [a \in DOMAIN opts.agg |-> <<>>],
    last |-> None, current |-> None,              \* asset ids
    cancelled |-> FALSE ]

Init ==
  /\ opts \in FlattenOptions /\ input \in FlattenInputs
  /\ at = 0 /\ written = <<>>
  /\ data = NewData
  /\ pc = IF Passes = 2 THEN "pass 1" ELSE "header"

NextRow == at' = at + 1 /\ UNCHANGED <<opts, input, pc, written>>

(* flatten_cell1, flatten_row1 on the first row *)
Header1 ==
  /\ pc = "pass 1" /\ at = 0 /\ at < Len(input)
  /\ data' = [data EXCEPT !.row_id = FindColumn(@, input[1], 1),
                          !.column_name = FindColumn(@, input[1], 2),
                          !.value = FindColumn(@, input[1], 3)]
  /\ NextRow

(* flatten_cell1: a new name is a new column of the output, if there is room. *)
Row1 ==
  /\ pc = "pass 1" /\ at > 0 /\ at < Len(input) /\ ~data.cancelled
  /\ LET row == input[at + 1]
         ix == data.column_name.ix
     IN  data' = IF ix \notin DOMAIN row \/ Find(data.names, row[ix]) > 0 THEN data
                 ELSE IF Len(data.names) = MaxOutputCols THEN [data EXCEPT !.cancelled = TRUE]
                 ELSE [data EXCEPT !.names = Append(@, row[ix]),
                                   !.current_value = Append(@, None)]
  /\ NextRow

Rewind ==
  /\ pc = "pass 1" /\ (at = Len(input) \/ data.cancelled)
  /\ pc' = "header" /\ at' = 0
  /\ UNCHANGED <<opts, input, data, written>>

(* flatten_output_header, before the second pass reads anything *)
OutputHeader ==
  /\ pc = "header" /\ pc' = "pass 2"
  /\ written' = <<[ id |-> data.row_id.name, values |-> [n \in DOMAIN data.names |-> <<data.names[n]>>],
                    agg |-> [a \in DOMAIN opts.agg |-> <<opts.agg[a]>>] ]>>
  /\ UNCHANGED <<opts, input, at, data>>

(* flatten_cell2, flatten_row2 on the first row *)
Header2 ==
  /\ pc = "pass 2" /\ at = 0 /\ at < Len(SecondInput) /\ ~data.cancelled
  /\ LET row == SecondInput[1]
     IN  data' = [data EXCEPT !.row_id = FindRowId(@, row), !.agg_vector = AggVector(row)]
  /\ NextRow

(* Every cell of the row is appended to what is aggregated of its column. *)
AddAggregates(d, row) ==
  [d EXCEPT !.agg_values =
     [a \in DOMAIN @ |->
        @[a] \o SelectSeq([ix \in DOMAIN row |-> IF ix \in DOMAIN d.agg_vector /\ d.agg_vector[ix] = a
                                                 THEN <<row[ix]>> ELSE None],
                          LAMBDA cell : cell # None)]]

(* flatten_cell2: a cell is the name, or else the value, or else the id. *)
NameIn(d, row) == IF d.column_name.ix \in DOMAIN row THEN Find(d.names, row[d.column_name.ix]) ELSE 0
ValueIn(d, row) ==
  IF d.value.ix \in DOMAIN row /\ d.value.ix # d.column_name.ix THEN <<row[d.value.ix]>> ELSE None
SetId(d, row) ==
  IF d.row_id.ix \notin DOMAIN row \/ d.row_id.ix \in {d.column_name.ix, d.value.ix} THEN d
  ELSE LET id == <<row[d.row_id.ix]>>
       IN  [d EXCEPT !.current = id, !.last = IF @ = None THEN id ELSE @]

(* Faulty: what is aggregated stays for the next row. *)
Cleared_Kept(d) ==
  [d EXCEPT !.last = None, !.current_value = [n \in DOMAIN @ |-> None]]

Cleared(d) ==
  [d EXCEPT !.last = None, !.current_value = [n \in DOMAIN @ |-> None],
            !.agg_values = [a \in DOMAIN @ |-> <<>>]]

(* output_current_row *)
OutputRow(d) == [id |-> d.last, values |-> d.current_value, agg |-> d.agg_values]

(* The row is written when the id is no more the same; only the cells of the row
   that came with the new id have been aggregated by then. *)
Row2 ==
  /\ pc = "pass 2" /\ at > 0 /\ at < Len(SecondInput) /\ ~data.cancelled
  /\ LET row   == SecondInput[at + 1]
         cells == SetId(AddAggregates(data, row), row)
         other == cells.last # cells.current
         next  == IF other THEN [Cleared(cells) EXCEPT !.last = cells.current] ELSE cells
         name  == NameIn(data, row)
         value == ValueIn(data, row)
     IN  /\ data' = IF next.last # None /\ name > 0 /\ value # None
                    THEN [next EXCEPT !.current_value[name] = value] ELSE next
         /\ written' = IF other THEN Append(written, OutputRow(cells)) ELSE written
  /\ at' = at + 1 /\ UNCHANGED <<opts, input, pc>>

Finish ==
  /\ pc = "pass 2" /\ (at = Len(SecondInput) \/ data.cancelled)
  /\ written' = IF data.last # None THEN Append(written, OutputRow(data)) ELSE written
  /\ data' = IF data.last # None THEN Cleared(data) ELSE data
  /\ pc' = "done"
  /\ UNCHANGED <<opts, input, at>>

Next == Header1 \/ Row1 \/ Rewind \/ OutputHeader \/ Header2 \/ Row2 \/ Finish

Spec == Init /\ [][Next]_vars

-----------------------------------------------------------------------------
(* What is promised. *)

Rows == 2 .. Len(SecondInput)
IdColumn == IF data.row_id.ix \in {data.column_name.ix, data.value.ix} THEN 0 ELSE data.row_id.ix
HasId(n) == IdColumn \in DOMAIN SecondInput[n]
WithId == {n \in Rows : HasId(n)}
IdOf(n) == SecondInput[Max({m \in WithId : m <= n})][IdColumn]

(* Rows at which a block begins, and the rows of the block. *)
BlockStarts == {n \in WithId : (\A m \in WithId : m >= n) \/ IdOf(n) # IdOf(n - 1)}
Block(n) == {m \in Rows : m >= n /\ \A k \in BlockStarts : k > n => m < k}

LastValue(rows, name) ==
  LET having == {m \in rows : NameIn(data, SecondInput[m]) = name /\ ValueIn(data, SecondInput[m]) # None}
  IN  IF having = {} THEN None ELSE ValueIn(data, SecondInput[Max(having)])

CellsOf(a, rows) ==
  FlattenSeq([n \in DOMAIN SecondInput |->
    IF n \notin rows THEN <<>>
    ELSE SelectSeq([ix \in DOMAIN SecondInput[n] |->
                      IF ix \in DOMAIN data.agg_vector /\ data.agg_vector[ix] = a
                      THEN <<SecondInput[n][ix]>> ELSE None], LAMBDA cell : cell # None)])

(* Each block of rows with one id becomes one row, in order, with the last value of
   the block under each name; and each aggregated value is in one row and in order. *)
RowPerBlock ==
  pc = "done" /\ ~data.cancelled =>
    LET out == Tail(written)
        starts == SetToSortSeq(BlockStarts, <)
    IN  /\ Len(out) = Len(starts)
        /\ \A n \in DOMAIN out :
             /\ out[n].id = <<IdOf(starts[n])>>
             /\ \A name \in DOMAIN data.names :
                  out[n].values[name] = LastValue(Block(starts[n]), name)
        /\ out # <<>> =>
             \A a \in DOMAIN opts.agg :
               FlattenSeq([n \in DOMAIN out |-> out[n].agg[a]]) = CellsOf(a, Rows)

(* A row has the values aggregated of its own block. *)
AggregatesBlock ==
  pc = "done" =>
    \A n \in 1 .. Len(written) - 1, a \in DOMAIN opts.agg :
      written[n + 1].agg[a] = CellsOf(a, Block(SetToSortSeq(BlockStarts, <)[n]))

=============================================================================
