----------------------------- MODULE Serialize -----------------------------
(***************************************************************************)
(* zsv serialize: each cell becomes a row of its id, the name of its       *)
(* column and its value.  src/app/serialize.c.                             *)
(*                                                                         *)
(* Left out: the quotes around names that need them, and memory that runs  *)
(* out.                                                                    *)
(***************************************************************************)
EXTENDS Integers, Sequences, SequencesExt, Texts

CONSTANTS
  SerializeOptions,    \* bound: what the command may be called with
  SerializeInputs      \* bound: the rows of the input

VARIABLES opts, input, at,
  data,                \* struct serialize_data
  written, pc          \* "rows", "done"

vars == <<opts, input, at, data, written, pc>>

Blank == <<"(Blank)">>

Cell(row, ix) == IF ix \in DOMAIN row THEN row[ix] ELSE <<>>

Init ==
  /\ opts \in SerializeOptions /\ input \in SerializeInputs
  /\ at = 0 /\ written = <<>> /\ pc = "rows"
  /\ data = [header_names |-> <<>>, positions |-> <<>>, err |-> FALSE, handler |-> "header"]

(* serialize_write_tuple *)
Tuple(row, positions, id, name, value) ==
  <<id, name, value>> \o [k \in DOMAIN positions |-> Cell(row, positions[k])]

FindColumn(header, name) ==
  LET same == {ix \in DOMAIN header : SameName(header[ix], name)}
  IN  IF same = {} THEN 0 ELSE Min(same)

(* The names begin with the second column, whichever has the ids.  Positions are
   numbers, counted from 0. *)
HeaderNames(header) ==
  [ix \in DOMAIN header |-> IF ix = 1 THEN <<>> ELSE IF opts.position THEN <<ix - 1>> ELSE header[ix]]

(* With -p the header is written as the row "Header" first. *)
HeaderTuples(header, positions) ==
  LET id == IF Cell(header, opts.id) = <<>> THEN Blank ELSE Cell(header, opts.id)
      others == SelectSeq([ix \in DOMAIN header |-> ix], LAMBDA ix : ix # opts.id)
  IN  << Tuple(header, positions, id, <<"Column">>, <<"Value">>) >>
      \o IF ~opts.position THEN <<>>
         ELSE << Tuple(header, positions, <<"Header">>, <<0>>, Cell(header, opts.id)) >>
              \o [k \in DOMAIN others |->
                    Tuple(header, positions, <<"Header">>, HeaderNames(header)[others[k]], header[others[k]])]

Header ==
  /\ pc = "rows" /\ at < Len(input) /\ data.handler = "header"
  /\ LET header == input[at + 1]
         positions == [k \in DOMAIN opts.add |-> FindColumn(header, opts.add[k])]
     IN  IF \E k \in DOMAIN positions : positions[k] = 0
         THEN /\ data' = [data EXCEPT !.err = TRUE, !.handler = "row"]
              /\ UNCHANGED written
         ELSE /\ data' = [ header_names |-> HeaderNames(header), positions |-> positions,
                           err |-> FALSE, handler |-> "row" ]
              /\ written' = HeaderTuples(header, positions)
  /\ at' = at + 1 /\ UNCHANGED <<opts, input, pc>>

HasText(s, t) == \E n \in 0 .. Len(s) - Len(t) : SubSeq(s, n + 1, n + Len(t)) = t
Lowered(s) == [n \in DOMAIN s |-> Lower(s[n])]

(* serialize_cell: what the filter lets through *)
Passes(cell) ==
  LET value == IF opts.case_insensitive THEN Lowered(opts.filter) ELSE opts.filter
      text  == IF opts.case_insensitive THEN Lowered(cell) ELSE cell
  IN  \/ opts.filter = <<>>
      \/ IF opts.entire THEN text = value ELSE HasText(text, value)

Shown(row, ix) == ix # opts.id /\ ix <= Len(data.header_names) /\ Passes(row[ix])

(* Faulty: the ids are taken from the first column. *)
CellTuple_First(row, ix) == Tuple(row, data.positions, Cell(row, 1), data.header_names[ix], row[ix])

CellTuple(row, ix) == Tuple(row, data.positions, Cell(row, opts.id), data.header_names[ix], row[ix])

(* serialize_row *)
RowTuples(row) ==
  FlattenSeq([ix \in DOMAIN row |-> IF Shown(row, ix) THEN <<CellTuple(row, ix)>> ELSE <<>>])

Row ==
  /\ pc = "rows" /\ at < Len(input) /\ data.handler = "row"
  /\ written' = IF data.err THEN written ELSE written \o RowTuples(input[at + 1])
  /\ at' = at + 1 /\ UNCHANGED <<opts, input, data, pc>>

Finish ==
  /\ pc = "rows" /\ at = Len(input) /\ pc' = "done"
  /\ UNCHANGED <<opts, input, at, data, written>>

Next == Header \/ Row \/ Finish

Spec == Init /\ [][Next]_vars

-----------------------------------------------------------------------------
(* What is promised: a table in which each row has its own id, with no filter and
   all columns named, can be put together again from its tuples, those behind the
   first row: that one is a header, which may look like the tuple of a cell.  Each cell
   but the id is found by its id and the name of its column; those of the first column,
   when another has the ids, by their id and the empty name, as that of the first column
   is never stored (serialize.c:152). *)
Rebuilds ==
  LET header == input[1]
      data_rows == 2 .. Len(input)
      ids == [n \in data_rows |-> Cell(input[n], opts.id)]
      named == \A m, n \in DOMAIN header : header[m] # <<>> /\ (header[m] = header[n] => m = n)
      Name(ix) == IF ix = 1 THEN <<>> ELSE header[ix]
      Value(n, ix) == {t \in {written[k] : k \in 2 .. Len(written)} : t[1] = ids[n] /\ t[2] = Name(ix)}
  IN  pc = "done" /\ input # <<>> /\ ~data.err /\ opts.filter = <<>> /\ ~opts.position
        /\ opts.id \in DOMAIN header /\ named
        /\ (\A m, n \in data_rows : ids[m] = ids[n] => m = n) =>
          \A n \in data_rows, ix \in DOMAIN header :
            ix # opts.id /\ ix \in DOMAIN input[n] =>
              \E t \in Value(n, ix) : t[3] = input[n][ix] /\ Value(n, ix) = {t}

=============================================================================
