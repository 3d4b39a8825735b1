----------------------------- MODULE Overwrites -----------------------------
(***************************************************************************)
(* A parser with a file of overwrites: the value of a cell is taken from   *)
(* that file if it has a line for the row and column.  The file is read    *)
(* along with the table, by a parser of its own.  src/src/zsv_internal.c.  *)
(* One step is a row of the table, or a call of zsv_get_cell, for any cell *)
(* of the row.                                                             *)
(*                                                                         *)
(* Left out: numbers that are not numbers, and what happens to a value     *)
(* that is kept while the file is read further.                            *)
(***************************************************************************)
EXTENDS Integers, Sequences, FiniteSets, Functions

CONSTANT OverwritesInputs   \* bound: [table, file]; a line of the file is [row, col, val]

VARIABLES opts, input,
  at,                  \* rows delivered so far; the row at hand is scanner->data_row_count = at - 1
  data,                \* struct zsv_overwrite
  written,             \* the cells that were asked for
  pc                   \* "rows", "failed", "done"

vars == <<opts, input, at, data, written, pc>>

None == -1             \* a number that is left empty in the file

(* zsv_next_overwrite: a line without a row or a column is one for the first cell of
   the header, with no value. *)
NextOverwrite(d) ==
  IF ~d.have THEN d
  ELSE IF d.rest = <<>> THEN [d EXCEPT !.have = FALSE]
  ELSE [d EXCEPT !.rest = Tail(@),
                 !.over = IF None \in {Head(d.rest).row, Head(d.rest).col}
                          THEN [row |-> 0, col |-> 0, val |-> "empty"] ELSE Head(d.rest)]

NoOverwrite == [row |-> 0, col |-> 0, val |-> "empty"]

(* zsv_init_overwrites: without a line behind the header there is no parser. *)
Init ==
  /\ opts = "none" /\ input \in OverwritesInputs
  /\ at = 0 /\ written = <<>>
  /\ data = NextOverwrite([have |-> TRUE, rest |-> input.file, over |-> NoOverwrite, get_cell |-> "overwrite"])
  /\ pc = IF data.have THEN "rows" ELSE "failed"

(* What may be at hand. *)
Lines == Range(input.file) \cup {NoOverwrite}

(* As often as there are lines, while the one at hand is one of these. *)
Skip(d, lines) ==
  LET skipped[n \in 0 .. Len(d.rest) + 1] ==
        IF n = 0 THEN d
        ELSE LET x == skipped[n - 1] IN IF x.have /\ x.over \in lines THEN NextOverwrite(x) ELSE x
  IN  skipped[Len(d.rest) + 1]

(* Faulty: columns are compared whichever row the line is for. *)
HaveOverwrite_AnyRow(d, row_ix, col_ix) ==
  Skip(Skip(d, {o \in Lines : o.row < row_ix}), {o \in Lines : o.col < col_ix})

(* zsv_have_overwrite: lines for rows before this one, then those for cells before
   this one, are passed. *)
HaveOverwrite(d, row_ix, col_ix) ==
  Skip(Skip(d, {o \in Lines : o.row < row_ix}), {o \in Lines : o.row = row_ix /\ o.col < col_ix})

(* zsv_get_cell_with_overwrite; behind the last line the plain function takes over. *)
GetCell(col_ix) ==
  LET row_ix == at - 1
      row    == input.table[at]
      d      == HaveOverwrite(data, row_ix, col_ix)
      hit    == d.have /\ d.over.row = row_ix /\ d.over.col = col_ix
  IN  /\ pc = "rows" /\ at > 0
      /\ IF data.get_cell = "plain" \/ col_ix >= Len(row)
         THEN /\ UNCHANGED data
              /\ written' = Append(written, [row |-> row_ix, col |-> col_ix,
                                             val |-> IF col_ix < Len(row) THEN row[col_ix + 1] ELSE "none"])
         ELSE /\ data' = [d EXCEPT !.get_cell = IF d.have THEN @ ELSE "plain"]
              /\ written' = Append(written, [row |-> row_ix, col |-> col_ix,
                                             val |-> IF hit THEN d.over.val ELSE row[col_ix + 1]])
      /\ UNCHANGED <<opts, input, at, pc>>

GetAnyCell ==
  \E col_ix \in 0 .. 2 :
    /\ Cardinality({n \in DOMAIN written : written[n].row = at - 1}) < 2     \* bound: requests for a row
    /\ GetCell(col_ix)

DeliverRow ==
  /\ pc = "rows" /\ at < Len(input.table)
  /\ at' = at + 1
  /\ UNCHANGED <<opts, input, data, written, pc>>

Finish ==
  /\ pc = "rows" /\ at = Len(input.table) /\ pc' = "done"
  /\ UNCHANGED <<opts, input, at, data, written>>

Next == GetAnyCell \/ DeliverRow \/ Finish

Spec == Init /\ [][Next]_vars

-----------------------------------------------------------------------------
(* What is promised. *)

Before(a, b) == a.row < b.row \/ (a.row = b.row /\ a.col < b.col)
Ascending(s) == \A m, n \in DOMAIN s : m < n => Before(s[m], s[n])
WellFormed == \A n \in DOMAIN input.file : None \notin {input.file[n].row, input.file[n].col}

Own(w) == LET row == input.table[w.row + 1] IN IF w.col < Len(row) THEN row[w.col + 1] ELSE "none"
Listed(w) == {o \in Range(input.file) : o.row = w.row /\ o.col = w.col /\ w.col < Len(input.table[w.row + 1])}

(* In whatever order the cells are asked for, and however often, a cell never has the
   value of another one's line.  If they are asked for in order, some of them or all,
   and the file is in order, then every line for one of them is used. *)
OverwrittenWhereListed ==
  WellFormed =>
    /\ \A n \in DOMAIN written : LET w == written[n] IN w.val = Own(w) \/ w \in Listed(w)
    /\ Ascending(input.file) /\ Ascending(written) =>
         \A n \in DOMAIN written : LET w == written[n] IN w.val = Own(w) => Listed(w) \subseteq {w}

=============================================================================
