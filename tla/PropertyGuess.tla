---------------------------- MODULE PropertyGuess ----------------------------
(***************************************************************************)
(* What `prop --auto` reads off the first rows of a file (prop.c): how      *)
(* many rows to skip before the header and how many rows the header spans.  *)
(* A row is what detect_properties_row counts of it: its cells, the empty   *)
(* ones, and how often a cell looked like a number, a date or a bool (a     *)
(* cell may look like several).  What looks like what is left to the        *)
(* counts: looks_like_num and its kin are tests of one string.              *)
(***************************************************************************)
EXTENDS Naturals, Sequences, FiniteSetsExt

DetectRowMax == 10                \* ZSV_PROP_DETECT_ROW_MAX

RowCount == [cols : Nat, null : Nat, like : Nat]

(* detect_properties_row aborts the parser at the tenth row                 *)
Detected(rows) == SubSeq(rows, 1, Min({Len(rows), DetectRowMax}))

Blank(row) == row.cols <= row.null

(* Rows are skipped while they, or the row after them, are blank            *)
GuessSkip(rows) ==
    LET first == {i \in 1..Len(rows) :
                    /\ ~Blank(rows[i])
                    /\ i < Len(rows) => ~Blank(rows[i + 1])}
    IN  Min({i - 1 : i \in first} \cup {Len(rows)})

(* The first row that is neither blank nor wider than the one before it and *)
(* has data enough ends the header                                          *)
LooksLikeData(rows, i) ==
    LET row == rows[i] IN
    /\ row.cols # row.null
    /\ row.cols <= rows[i - 1].cols
    /\ \/ row.like > 5
       \/ row.like > 0 /\ row.like >= row.cols \div 2
       \/ row.like + row.null = row.cols
       \/ row.like \in 1..5 /\ row.cols <= 5

(* Faulty: the rows skipped count as header rows. *)
GuessSpan_FromTop(rows) ==
    LET skip == GuessSkip(rows)
        ends == {i \in skip + 2..Len(rows) : LooksLikeData(rows, i)}
        span == Min({i - 1 : i \in ends} \cup {Len(rows)})
    IN  IF span = Len(rows) THEN 1 ELSE span

GuessSpan(rows) ==
    LET skip == GuessSkip(rows)
        ends == {i \in skip + 2..Len(rows) : LooksLikeData(rows, i)}
        span == Min({i - 1 - skip : i \in ends}
                      \cup {IF skip < Len(rows) THEN Len(rows) - skip ELSE 1})
    IN  IF span = Len(rows) THEN 1 ELSE span

Guess(rows) == [d |-> GuessSpan(Detected(rows)), R |-> GuessSkip(Detected(rows))]
=============================================================================
