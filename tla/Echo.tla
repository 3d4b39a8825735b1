-------------------------------- MODULE Echo --------------------------------
(***************************************************************************)
(* zsv echo: the rows as they are, with some cells overwritten from a      *)
(* query.  src/app/echo.c.  (A file of overwrites is used by the parser,   *)
(* see Overwrites.)  With --trim-columns the input is read twice, first to *)
(* find the last column with something in it.                              *)
(*                                                                         *)
(* Left out: the copy of standard input that is read twice, the text of    *)
(* the query, files that cannot be opened, and memory that runs out.       *)
(***************************************************************************)
EXTENDS Integers, Sequences, SequencesExt, Texts

CONSTANTS
  EchoOptions,         \* bound: what the command may be called with
  EchoInputs           \* bound: the rows of the input

VARIABLES opts, input, at,
  data,                \* struct zsv_echo_data
  written, pc          \* "measure", "rows", "done"

vars == <<opts, input, at, data, written, pc>>

Text(cell) == IF opts.trim_white THEN Trimmed(cell).text ELSE cell
Blank(row) == \A ix \in DOMAIN row : row[ix] = <<>>

Init ==
  /\ opts \in EchoOptions /\ input \in EchoInputs
  /\ at = 0 /\ written = <<>>
  /\ data = [ row_ix |-> 0, max_nonempty_cols |-> 0, rest |-> opts.overwrites,
              overwrite |-> [row |-> 0, col |-> 0, str |-> <<>>], eof |-> opts.overwrites = <<>>,
              handler |-> IF opts.skip_until # <<>> THEN "skip until" ELSE "row" ]
  /\ pc = IF opts.skip_until = <<>> /\ opts.trim_columns THEN "measure" ELSE "rows"

(* zsv_echo_get_max_nonempty_cols *)
Measure ==
  /\ pc = "measure" /\ at < Len(input)
  /\ LET row == input[at + 1]
     IN  data' = [data EXCEPT !.max_nonempty_cols =
                    Max({@} \cup {ix \in DOMAIN row : Text(row[ix]) # <<>>})]
  /\ at' = at + 1 /\ UNCHANGED <<opts, input, written, pc>>

Reopen ==
  /\ pc = "measure" /\ at = Len(input)
  /\ pc' = "rows" /\ at' = 0
  /\ UNCHANGED <<opts, input, data, written>>

(* zsv_echo_get_next_overwrite *)
GetNextOverwrite(d) ==
  IF d.eof THEN d
  ELSE IF d.rest = <<>> THEN [d EXCEPT !.eof = TRUE]
  ELSE [d EXCEPT !.overwrite = Head(d.rest), !.rest = Tail(@)]

(* The overwrites up to this row have had their turn. *)
SkipOverwrites(d) ==
  FoldLeft(LAMBDA x, n : IF ~x.eof /\ x.overwrite.row <= x.row_ix THEN GetNextOverwrite(x) ELSE x,
           d, [n \in 1 .. Len(d.rest) + 1 |-> n])

(* Faulty: an overwrite that is used is not followed by the next one. *)
EchoCell_Stuck(x, cell, ix) ==
  IF x.d.overwrite.row = x.d.row_ix /\ x.d.overwrite.col = ix
  THEN [x EXCEPT !.cells = Append(@, x.d.overwrite.str)]
  ELSE [x EXCEPT !.cells = Append(@, Text(cell))]

EchoCell(x, cell, ix) ==
  IF x.d.overwrite.row = x.d.row_ix /\ x.d.overwrite.col = ix
  THEN [d |-> GetNextOverwrite(x.d), cells |-> Append(x.cells, x.d.overwrite.str)]
  ELSE [x EXCEPT !.cells = Append(@, Text(cell))]

(* zsv_echo_row: the data, and the row that is written.  Columns are numbered from 0. *)
Shown(row) ==
  IF opts.trim_columns THEN SubSeq(row, 1, Min({Len(row), data.max_nonempty_cols})) ELSE row

EchoRow(row) ==
  IF data.row_ix = 0 THEN [d |-> data, cells |-> [ix \in DOMAIN Shown(row) |-> Text(Shown(row)[ix])]]
  ELSE LET x == FoldLeftDomain(LAMBDA y, ix : EchoCell(y, row[ix], ix - 1),
                               [d |-> data, cells |-> <<>>], Shown(row))
       IN  [x EXCEPT !.d = SkipOverwrites(@)]

Echoed(row) ==
  LET x == EchoRow(row)
  IN  /\ data' = [x.d EXCEPT !.row_ix = @ + 1, !.handler = "row"]
      /\ written' = IF Shown(row) = <<>> THEN written
                    ELSE Append(written, [row |-> at + 1, ix |-> data.row_ix, cells |-> x.cells])

Row ==
  /\ pc = "rows" /\ at < Len(input) /\ data.handler = "row"
  /\ ~(opts.contiguous /\ data.row_ix > 0 /\ Blank(input[at + 1]))
  /\ Echoed(input[at + 1])
  /\ at' = at + 1 /\ UNCHANGED <<opts, input, pc>>

(* --contiguous: a blank row stops the parser. *)
AbortAtBlank ==
  /\ pc = "rows" /\ at < Len(input) /\ data.handler = "row"
  /\ opts.contiguous /\ data.row_ix > 0 /\ Blank(input[at + 1])
  /\ pc' = "done" /\ UNCHANGED <<opts, input, at, data, written>>

(* zsv_echo_row_skip_until; the row that is found is the header. *)
HasPrefix(s) ==
  Len(s) >= Len(opts.skip_until) /\ SameName(SubSeq(s, 1, Len(opts.skip_until)), opts.skip_until)

SkipUntil ==
  /\ pc = "rows" /\ at < Len(input) /\ data.handler = "skip until"
  /\ IF HasPrefix(input[at + 1][1]) THEN Echoed(input[at + 1]) ELSE UNCHANGED <<data, written>>
  /\ at' = at + 1 /\ UNCHANGED <<opts, input, pc>>

Finish ==
  /\ pc = "rows" /\ at = Len(input) /\ pc' = "done"
  /\ UNCHANGED <<opts, input, at, data, written>>

Next == Measure \/ Reopen \/ Row \/ AbortAtBlank \/ SkipUntil \/ Finish

Spec == Init /\ [][Next]_vars

-----------------------------------------------------------------------------
(* What is promised. *)

Given(w, ix) == {o \in ToSet(opts.overwrites) : o.row = w.ix /\ o.col = ix - 1}
Sorted == \A m, n \in DOMAIN opts.overwrites : m < n =>
            \/ opts.overwrites[m].row < opts.overwrites[n].row
            \/ /\ opts.overwrites[m].row = opts.overwrites[n].row
               /\ opts.overwrites[m].col < opts.overwrites[n].col

Expected(w, from) ==
  \A ix \in DOMAIN w.cells :
    w.cells[ix] = IF w.ix >= from /\ Given(w, ix) # {}
                  THEN (CHOOSE o \in Given(w, ix) : TRUE).str ELSE Text(input[w.row][ix])

(* From the second row of data on a cell is overwritten if and only if there is an
   overwrite for its row and column, also if others are for cells that are not
   there; and no cell with something in it is cut off. *)
Overwritten ==
  /\ Sorted => \A n \in DOMAIN written : Expected(written[n], 2)
  /\ opts.skip_until = <<>> =>
       \A n \in DOMAIN written :
         \A ix \in DOMAIN input[written[n].row] :
           ix > Len(written[n].cells) => Text(input[written[n].row][ix]) = <<>>

(* The same of every row of data. *)
AllOverwritten == Sorted => \A n \in DOMAIN written : Expected(written[n], 1)

=============================================================================
