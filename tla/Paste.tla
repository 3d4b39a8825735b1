------------------------------- MODULE Paste -------------------------------
(***************************************************************************)
(* zsv paste: files side by side, each with as many columns as its first   *)
(* row.  src/app/paste.c.  Every file has a parser that is asked for its   *)
(* next row; one step asks one of them.                                    *)
(*                                                                         *)
(* Left out: files that cannot be opened and memory that runs out.         *)
(***************************************************************************)
EXTENDS Integers, Sequences, SequencesExt

CONSTANT PasteInputs   \* bound: the files, each a sequence of rows

VARIABLES opts, input,
  at,                  \* the file that is asked next
  data,                \* the input files, and whether a row was loaded
  written, pc          \* "add", "print", "load", "done"

vars == <<opts, input, at, data, written, pc>>

Init ==
  /\ opts = "none" /\ input \in PasteInputs
  /\ at = 1 /\ written = <<>> /\ pc = "add"
  /\ data = [ status    |-> [f \in DOMAIN input |-> "row"],
              row       |-> [f \in DOMAIN input |-> 0],
              col_count |-> [f \in DOMAIN input |-> 0],
              have_row  |-> FALSE ]

(* zsv_next_row *)
NextRow(d, f) ==
  IF d.row[f] < Len(input[f]) THEN [d EXCEPT !.row[f] = @ + 1, !.have_row = TRUE]
  ELSE [d EXCEPT !.status[f] = "no more input"]

(* zsv_paste_add_input *)
AddInput ==
  /\ pc = "add"
  /\ data' = LET d == NextRow(data, at)
             IN  [d EXCEPT !.col_count[at] = IF d.status[at] = "row" THEN Len(input[at][1]) ELSE 0]
  /\ at' = at + 1 /\ pc' = IF at = Len(input) THEN "print" ELSE "add"
  /\ UNCHANGED <<opts, input, written>>

(* Faulty: a file that has ended leaves no cells. *)
CellsOf_Short(f) ==
  IF data.status[f] = "row" THEN [n \in 1 .. data.col_count[f] |->
       IF n \in DOMAIN input[f][data.row[f]] THEN input[f][data.row[f]][n] ELSE "empty"]
  ELSE <<>>

(* The cells of one file: cut, or filled up, to its number of columns. *)
CellsOf(f) ==
  LET row == IF data.status[f] = "row" THEN input[f][data.row[f]] ELSE <<>>
  IN  [n \in 1 .. data.col_count[f] |-> IF n \in DOMAIN row THEN row[n] ELSE "empty"]

(* zsv_paste_print_row *)
PrintRow ==
  /\ pc = "print"
  /\ written' = Append(written, FlattenSeq([f \in DOMAIN input |-> CellsOf(f)]))
  /\ data' = [data EXCEPT !.have_row = FALSE]
  /\ at' = 1 /\ pc' = "load"
  /\ UNCHANGED <<opts, input>>

(* zsv_paste_load_row: a file that has ended is not asked again. *)
LoadRow ==
  /\ pc = "load" /\ at <= Len(input)
  /\ data' = IF data.status[at] = "row" THEN NextRow(data, at) ELSE data
  /\ at' = at + 1
  /\ UNCHANGED <<opts, input, written, pc>>

Loaded ==
  /\ pc = "load" /\ at > Len(input)
  /\ pc' = IF data.have_row THEN "print" ELSE "done"
  /\ UNCHANGED <<opts, input, at, data, written>>

Next == AddInput \/ PrintRow \/ LoadRow \/ Loaded

Spec == Init /\ [][Next]_vars

-----------------------------------------------------------------------------
(* What is promised. *)

Width(f) == IF input[f] = <<>> THEN 0 ELSE Len(input[f][1])

(* The columns of the files before it. *)
Offset ==
  LET offset[f \in 1 .. Len(input)] == IF f = 1 THEN 0 ELSE offset[f - 1] + Width(f - 1)
  IN  offset

(* Row n of the output has row n of each file, in columns that never move, and
   there is a row as long as any file has one. *)
SideBySide ==
  /\ \A n \in DOMAIN written, f \in DOMAIN input : \A k \in 1 .. Width(f) :
       written[n][Offset[f] + k] =
         IF n \in DOMAIN input[f] /\ k \in DOMAIN input[f][n] THEN input[f][n][k] ELSE "empty"
  /\ pc = "done" => Len(written) = Max({1} \cup {Len(input[f]) : f \in DOMAIN input})

=============================================================================
