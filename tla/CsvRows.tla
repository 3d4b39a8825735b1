------------------------------ MODULE CsvRows ------------------------------
(***************************************************************************)
(* What the push parser promises, with no buffer, no chunks and no         *)
(* indices: the rows delivered are a function of the bytes consumed, row   *)
(* by row, and the last row is delivered when the input is finished.       *)
(*                                                                         *)
(* Parse reads one byte at a time.  A cell is in one of the modes          *)
(*   "start"   no byte yet                                                 *)
(*   "bare"    it did not begin with a quote: every byte is content        *)
(*   "open"    inside the opening quote                                    *)
(*   "quote"   after a quote that closes the cell, or begins a pair        *)
(*   "after"   in the text that follows the closing quote                  *)
(*   "raw"     a quote followed in that text: the cell is delivered as is  *)
(***************************************************************************)
EXTENDS Integers, Sequences, SequencesExt

CONSTANTS
  Delim, Cr, Lf, Quote,
  MaxCols,     \* cells kept of a row
  RowLimit     \* bytes of a row that is too long to hold

VARIABLES
  consumed,    \* the bytes scanned so far
  delivered,   \* the rows delivered so far, each a sequence of cell values
  phase        \* "reading"; "over": finished or cancelled; "cut": a row did not fit

-----------------------------------------------------------------------------
EmptyCell == [mode |-> "start", value |-> <<>>, raw |-> <<>>]

Start == [rows |-> <<>>, cells |-> <<>>, cell |-> EmptyCell,
          length |-> 0, begun |-> FALSE, afterCr |-> FALSE]

ValueOf(cell) == IF cell.mode = "raw" THEN cell.raw ELSE cell.value

NextMode(mode, c) ==
  CASE mode = "start" -> IF c = Quote THEN "open" ELSE "bare"
    [] mode = "open"  -> IF c = Quote THEN "quote" ELSE "open"
    [] mode = "quote" -> IF c = Quote THEN "open" ELSE "after"
    [] mode = "after" -> IF c = Quote THEN "raw" ELSE "after"
    [] OTHER          -> mode

(* Only the opening quote, the closing one and the first of a pair are not
   content. *)
AddByte(cell, c) ==
  LET markup == c = Quote /\ cell.mode \in {"start", "open"} IN
  [ mode  |-> NextMode(cell.mode, c),
    value |-> IF markup THEN cell.value ELSE Append(cell.value, c),
    raw   |-> Append(cell.raw, c) ]

(* Columns past the maximum are dropped. *)
CloseCell(p) ==
  [p EXCEPT !.cells = IF Len(@) < MaxCols THEN Append(@, ValueOf(p.cell)) ELSE @,
            !.cell = EmptyCell, !.length = @ + 1, !.begun = TRUE, !.afterCr = FALSE]

CloseRow(p, c) ==
  LET q == CloseCell(p) IN
  [Start EXCEPT !.rows = Append(q.rows, q.cells), !.afterCr = (c = Cr)]

AddToRow(p, c) ==
  LET open == p.cell.mode = "open" IN
  IF c = Delim /\ ~open THEN CloseCell(p)
  ELSE IF c = Lf /\ p.afterCr THEN [p EXCEPT !.afterCr = FALSE]
  ELSE IF c \in {Cr, Lf} /\ ~open THEN CloseRow(p, c)
  ELSE [p EXCEPT !.cell = AddByte(@, c), !.length = @ + 1,
                 !.begun = TRUE, !.afterCr = FALSE]

(* What has been read after the last of the bytes. *)
Parse(bytes) ==
  LET after[n \in 0 .. Len(bytes)] ==
        IF n = 0 THEN Start ELSE AddToRow(after[n - 1], bytes[n])
  IN  after[Len(bytes)]

RowsOf(bytes) == Parse(bytes).rows

(* At the end of the input an open quote is closed and a row that has begun
   is complete. *)
FinalRowsOf(bytes) ==
  LET p == Parse(bytes) IN
  IF p.begun THEN Append(p.rows, CloseCell(p).cells) ELSE p.rows

(* The input ends right after an opening quote: the one case in which the
   value of the last cell is not promised. *)
EndsAtOpeningQuote(bytes) ==
  LET cell == Parse(bytes).cell IN cell.mode = "open" /\ Len(cell.raw) = 1

-----------------------------------------------------------------------------
Init == consumed = <<>> /\ delivered = <<>> /\ phase = "reading"

(* More bytes are scanned; the rows they complete have been delivered. *)
Consume ==
  /\ phase = "reading" /\ phase' \in {"reading", "over"}
  /\ IsPrefix(consumed, consumed')
  /\ delivered' = RowsOf(consumed')

Finish ==
  /\ phase = "reading" /\ phase' = "over"
  /\ UNCHANGED consumed
  /\ \/ delivered' = FinalRowsOf(consumed)
     \/ /\ EndsAtOpeningQuote(consumed)
        /\ IsPrefix(delivered, delivered')
        /\ Len(delivered') = Len(FinalRowsOf(consumed))

(* A row does not fit: its complete cells are delivered.  Of what follows
   this module promises only that no delivery is taken back. *)
Truncate ==
  /\ phase = "reading" /\ phase' = "cut"
  /\ Parse(consumed).length = RowLimit
  /\ delivered' = Append(delivered, Parse(consumed).cells)
  /\ UNCHANGED consumed

AfterCut ==
  /\ phase = "cut" /\ phase' = "cut"
  /\ IsPrefix(consumed, consumed') /\ IsPrefix(delivered, delivered')

Next == Consume \/ Finish \/ Truncate \/ AfterCut

Spec == Init /\ [][Next]_<<consumed, delivered, phase>>
=============================================================================
