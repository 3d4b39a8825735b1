------------------------------- MODULE ToTsv -------------------------------
(***************************************************************************)
(* zsv 2tsv: tabs, line ends and backslashes in a cell become "\t" and so  *)
(* on, and the output is collected in a buffer.  src/app/2tsv.c.           *)
(***************************************************************************)
EXTENDS Integers, Sequences, SequencesExt

CONSTANTS
  TsvBuffSize,         \* ZSV_2TSV_BUFF_SIZE
  TsvInputs            \* bound: the rows of the input

VARIABLES opts, input, at,
  data,                \* what is in the buffer
  written, pc          \* "rows", "done"

vars == <<opts, input, at, data, written, pc>>

Special == {"\t", "\n", "\\"}       \* "\n" stands for "\r" too
Escape(c) == CASE c = "\t" -> <<"\\", "t">> [] c = "\n" -> <<"\\", "n">> [] c = "\\" -> <<"\\", "\\">>
               [] OTHER -> <<c>>

(* zsv_to_tsv *)
Converted(cell) == FlattenSeq([n \in DOMAIN cell |-> Escape(cell[n])])

HasAny(s, chars) == \E n \in DOMAIN s : s[n] \in chars

(* zsv_2tsv_cell: a cell without a tab is as it is if there is no line end and no
   backslash in the whole row. *)
CellText(cell, no_newline_or_slash) ==
  IF no_newline_or_slash /\ ~HasAny(cell, {"\t"}) THEN cell ELSE Converted(cell)

(* Faulty: only the first cell is searched for line ends. *)
NoNewlineOrSlash_First(row) == ~HasAny(row[1], {"\n", "\\"})

NoNewlineOrSlash(row) == \A ix \in DOMAIN row : ~HasAny(row[ix], {"\n", "\\"})

(* zsv_2tsv_write: what does not fit goes out after what was there before, and past
   the buffer if it is larger than that. *)
Write(b, s) ==
  IF s = <<>> THEN b
  ELSE IF Len(s) + Len(b.buff) <= TsvBuffSize THEN [b EXCEPT !.buff = @ \o s]
  ELSE IF Len(s) > TsvBuffSize THEN [out |-> b.out \o b.buff \o s, buff |-> <<>>]
  ELSE [out |-> b.out \o b.buff, buff |-> s]

WriteRow(b, row) ==
  LET plain == NoNewlineOrSlash(row)
      cells == FoldLeftDomain(
                 LAMBDA x, ix : Write(IF ix = 1 THEN x ELSE Write(x, <<"\t">>), CellText(row[ix], plain)),
                 b, row)
  IN  Write(cells, <<"\n">>)

Init ==
  /\ opts = "none" /\ input \in TsvInputs
  /\ at = 0 /\ data = <<>> /\ written = <<>> /\ pc = "rows"

(* zsv_2tsv_row *)
Row ==
  /\ pc = "rows" /\ at < Len(input)
  /\ LET b == WriteRow([out |-> written, buff |-> data], input[at + 1])
     IN  data' = b.buff /\ written' = b.out
  /\ at' = at + 1 /\ UNCHANGED <<opts, input, pc>>

(* zsv_2tsv_flush *)
Flush ==
  /\ pc = "rows" /\ at = Len(input)
  /\ written' = written \o data /\ data' = <<>> /\ pc' = "done"
  /\ UNCHANGED <<opts, input, at>>

Next == Row \/ Flush

Spec == Init /\ [][Next]_vars

-----------------------------------------------------------------------------
(* What is promised: split at its line ends and tabs and with the escapes taken
   back, what was written is the rows of the input. *)

Unescaped(s) ==
  LET Take(x, c) ==
        IF x.escaped
        THEN [text |-> Append(x.text, CASE c = "t" -> "\t" [] c = "n" -> "\n" [] OTHER -> c), escaped |-> FALSE]
        ELSE IF c = "\\" THEN [x EXCEPT !.escaped = TRUE] ELSE [x EXCEPT !.text = Append(@, c)]
  IN  FoldLeft(Take, [text |-> <<>>, escaped |-> FALSE], s).text

(* The parts of a text that ends with the separator. *)
Parts(s, separator) ==
  LET ends == SetToSortSeq({n \in DOMAIN s : s[n] = separator}, <)
  IN  [k \in DOMAIN ends |-> SubSeq(s, IF k = 1 THEN 1 ELSE ends[k - 1] + 1, ends[k] - 1)]

ReadsBack ==
  pc = "done" =>
    LET lines == Parts(written, "\n")
        RowOf(line) == LET cells == Parts(Append(line, "\t"), "\t")
                       IN  [ix \in DOMAIN cells |-> Unescaped(cells[ix])]
    IN  [n \in DOMAIN lines |-> RowOf(lines[n])] = input

=============================================================================
