------------------------------- MODULE Stack -------------------------------
(***************************************************************************)
(* zsv stack: files one below the other, columns with the same name in one *)
(* column.  src/app/stack.c.                                               *)
(*                                                                         *)
(* The headers are read in a first pass, with a parser for each file that  *)
(* is stopped after its header; the rows in a second pass.  One step is    *)
(* the header of a file, or a row.                                         *)
(*                                                                         *)
(* Left out: -q, which does nothing, files that cannot be opened, and      *)
(* memory that runs out.                                                   *)
(***************************************************************************)
EXTENDS Integers, Sequences, SequencesExt, Texts

CONSTANTS
  StackOptions,        \* bound: what the command may be called with
  StackInputs          \* bound: the files

(* A file: its rows, none of them blank at the beginning, its delimiter, and
   whether its last row has a line end. *)

VARIABLES opts, input,
  at,                  \* the file, and its rows delivered so far
  data,                \* struct zsv_stack_data and the input files
  written, pc          \* "headers", "consolidate", "rows", "done", "crashed"

vars == <<opts, input, at, data, written, pc>>

(* A parser with another delimiter sees one cell in each row. *)
ReadAs(file, delimiter) ==
  IF file.delimiter = delimiter THEN file.rows
  ELSE [n \in DOMAIN file.rows |-> <<FlattenSeq(file.rows[n])>>]

(* -T is for both passes, an option in front of the command for the second one. *)
HeaderDelimiter == IF opts.tab THEN "tab" ELSE "comma"
RowDelimiter == IF opts.tab THEN "tab" ELSE opts.delimiter

Init ==
  /\ opts \in StackOptions /\ input \in StackInputs
  /\ at = [file |-> 1, rows |-> 0]
  /\ data = [ headers_done |-> [f \in DOMAIN input |-> FALSE],
              header |-> [f \in DOMAIN input |-> <<>>],       \* the cells in its parser
              colnames |-> <<>>,
              map |-> [f \in DOMAIN input |-> <<>>] ]         \* output_column_map
  /\ written = <<>> /\ pc = "headers"

(* zsv_stack_header_row.  Of a header without a line end the parser has all cells
   but the last one. *)
ReadHeader ==
  /\ pc = "headers" /\ at.file <= Len(input)
  /\ LET rows  == ReadAs(input[at.file], HeaderDelimiter)
         whole == Len(rows) > 1 \/ (Len(rows) = 1 /\ input[at.file].ended)
     IN  data' = [data EXCEPT !.headers_done[at.file] = whole,
                              !.header[at.file] = IF whole THEN rows[1]
                                                  ELSE IF rows = <<>> THEN <<>> ELSE Front(rows[1])]
  /\ at' = [at EXCEPT !.file = @ + 1]
  /\ pc' = IF at.file = Len(input) THEN "consolidate" ELSE "headers"
  /\ UNCHANGED <<opts, input, written>>

(* zsv_stack_consolidate_header: a name not seen yet is a new output column. *)
Position(colnames, name) ==
  LET same == {n \in DOMAIN colnames : SameName(colnames[n], name)}
  IN  IF same = {} THEN 0 ELSE Min(same)

ConsolidateHeader(colnames, name) ==
  IF Position(colnames, name) > 0 THEN colnames ELSE Append(colnames, name)

AllNames == FoldLeft(LAMBDA names, cells : FoldLeft(ConsolidateHeader, names, cells), <<>>, data.header)

(* Faulty: the position in the file is the position in the output. *)
Map_Same(cells, colnames) == [n \in DOMAIN colnames |-> IF n \in DOMAIN cells THEN n ELSE 0]

(* Of columns with one name in a file the last one is used. *)
Map(cells, colnames) ==
  [n \in DOMAIN colnames |-> Max({0} \cup {ix \in DOMAIN cells : SameName(cells[ix], colnames[n])})]

(* The parser has no function to get a cell before the end of its header. *)
CannotGetCells == \E f \in DOMAIN input : ~data.headers_done[f] /\ data.header[f] # <<>>

Crash ==
  /\ pc = "consolidate" /\ CannotGetCells /\ pc' = "crashed"
  /\ UNCHANGED <<opts, input, at, data, written>>

Consolidate ==
  /\ pc = "consolidate" /\ ~CannotGetCells
  /\ data' = [data EXCEPT !.colnames = AllNames,
                          !.map = [f \in DOMAIN input |-> Map(data.header[f], AllNames)]]
  /\ written' = <<[file |-> 0, row |-> 0, cells |-> AllNames]>>
  /\ at' = [file |-> 1, rows |-> 0] /\ pc' = "rows"
  /\ UNCHANGED <<opts, input>>

Blank(row) == \A ix \in DOMAIN row : row[ix] = <<>>

(* zsv_stack_data_row; the first row that is delivered is the header. *)
DataRow ==
  /\ pc = "rows" /\ at.file <= Len(input) /\ data.headers_done[at.file]
  /\ LET rows == ReadAs(input[at.file], RowDelimiter)
         row  == rows[at.rows + 1]
         map  == data.map[at.file]
     IN  /\ at.rows < Len(rows)
         /\ written' =
              IF at.rows = 0 \/ Blank(row) THEN written
              ELSE Append(written, [file |-> at.file, row |-> at.rows + 1,
                                    cells |-> [n \in DOMAIN data.colnames |->
                                                 IF map[n] \in DOMAIN row THEN row[map[n]] ELSE <<>>]])
  /\ at' = [at EXCEPT !.rows = @ + 1]
  /\ UNCHANGED <<opts, input, data, pc>>

(* A file whose header was not found is passed over. *)
NextFile ==
  /\ pc = "rows"
  /\ at.file <= Len(input)
  /\ data.headers_done[at.file] => at.rows = Len(input[at.file].rows)
  /\ at' = [file |-> at.file + 1, rows |-> 0]
  /\ pc' = IF at.file = Len(input) THEN "done" ELSE "rows"
  /\ UNCHANGED <<opts, input, data, written>>

Next == ReadHeader \/ Crash \/ Consolidate \/ DataRow \/ NextFile

Spec == Init /\ [][Next]_vars

-----------------------------------------------------------------------------
(* What is promised, when both passes read with the same delimiter: each row of a
   file that is not blank is written, in order, and each of its values that is
   written is under the name it has in its own file; and no name is twice. *)
UnderItsName ==
  pc = "done" /\ HeaderDelimiter = RowDelimiter =>
    LET out == Tail(written)
        names == written[1].cells
        Rows(f) == ReadAs(input[f], RowDelimiter)
        Of(f) == SelectSeq(out, LAMBDA w : w.file = f)
        Due(f) == {n \in 2 .. Len(Rows(f)) : ~Blank(Rows(f)[n])}
    IN  /\ \A m, n \in DOMAIN names : SameName(names[m], names[n]) => m = n
        /\ \A m, n \in DOMAIN out : m < n => out[m].file < out[n].file
                                             \/ (out[m].file = out[n].file /\ out[m].row < out[n].row)
        /\ \A f \in DOMAIN input :
             /\ {Of(f)[n].row : n \in DOMAIN Of(f)} = IF Rows(f) = <<>> THEN {} ELSE Due(f)
             /\ \A n \in DOMAIN Of(f), k \in DOMAIN names :
                  LET row == Rows(f)[Of(f)[n].row]
                      same == {ix \in DOMAIN Rows(f)[1] : SameName(Rows(f)[1][ix], names[k])}
                  IN  Of(f)[n].cells[k] =
                        IF same = {} \/ Max(same) \notin DOMAIN row THEN <<>> ELSE row[Max(same)]

=============================================================================
