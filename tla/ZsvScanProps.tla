---------------------------- MODULE ZsvScanProps ----------------------------
(***************************************************************************)
(* What the push parser (ZsvScan) is meant to guarantee its callers: that  *)
(* it implements CsvRows however the input is divided into chunks, and     *)
(* what the public headers say of rows, cells, flags, counts and aborts.   *)
(***************************************************************************)
EXTENDS ZsvScan, SequencesExt

(* How many of the bytes read the scanner has been over. *)
Scanned ==
  IF pc = "scan" THEN Len(fed) - (bytes_read - i)
  ELSE IF status = "cancelled" THEN Len(fed) - (bytes_read - Smaller(i + 1, bytes_read))
  ELSE Len(fed)

Consumed == SubSeq(fed, 1, Scanned)
Values(row) == [j \in DOMAIN row |-> row[j].value]
DeliveredCells == UNION {Range(calls[k].cells) : k \in DOMAIN calls}
RowCalls == {k \in DOMAIN calls : calls[k].handler = "row"}

Promise == INSTANCE CsvRows WITH
  consumed  <- Consumed,
  delivered <- [k \in DOMAIN calls |-> Values(calls[k].cells)],
  phase     <- IF truncated THEN "cut"
               ELSE IF finished \/ status = "cancelled" THEN "over" ELSE "reading",
  RowLimit  <- Size

-----------------------------------------------------------------------------
(* The parser implements CsvRows: the rows it delivers are those of the bytes
   scanned, wherever the chunks divide rows, cells, escaped quotes and CR LF
   pairs, up to the first row that fills the buffer (scanner_pre_parse,
   zsv_scan_delim, cell_dl, row_dl, zsv_finish). *)
ImplementsCsvRows == Promise!Spec

(* The cells collected so far of the row being scanned are those that the
   bytes of this row alone determine: neither the shift of a partial row to the
   front of the buffer nor the in-place unquoting of its other cells leaves a
   trace, nor does a truncated row before it if there are no quotes.  With quotes
   it does: the closing quote's position outlives a truncated row, and cell_dl's
   memmove may shift bytes that are not scanned yet (scanner_pre_parse, cell_dl). *)
RowSoFar ==
  pc = "scan" /\ ~buffer_exceeded /\ (truncated => Quote \notin Range(fed)) =>
    LET row == SubSeq(fed, Scanned - (i - row_start) + 1, Scanned)
    IN  Values(Delivered(buff, cells)) = Promise!Parse(row).cells

(* A cell whose quoted flags are 0 can be written as CSV without a look at its
   contents: no delimiter, line end or quote is in it (common.h:65-68). *)
QuotedWhenNeeded ==
  \A c \in DeliveredCells :
    c.quoted = {} => Range(c.value) \cap {Delim, Cr, Lf, Quote} = {}

(* The row handler is called at most once for each row of the input
   (common.h:110). *)
OneCallPerRow ==
  Cardinality(RowCalls) <= Len(Promise!FinalRowsOf(Consumed))

(* max_rows bounds the rows delivered, the one zsv_finish delivers included
   (row_dl, zsv_finish). *)
MaxRowsHolds == MaxRows > 0 => Cardinality(RowCalls) <= MaxRows

(* There are no more calls than rows in the input, also when rows are truncated and
   their tails thrown away, except in the two cases where it fails: zsv_finish after
   zsv_parse_bytes, and quoted line ends in the tail (zsv_throwaway_row;
   common.h:128-135).  Nor are there more than max_rows. *)
OneCallPerPlainRow ==
  /\ Quote \notin Range(fed) /\ (api = "more" \/ ~finished) => OneCallPerRow
  /\ MaxRowsHolds

(* A cell's length is the length of contents that are in the buffer
   (common.h:50). *)
CellsHaveContents == \A c \in DeliveredCells : c.value # <<Junk>>

-----------------------------------------------------------------------------
(* The invariants that the proofs of ZsvScan_proofs carry from step to step, and
   the operators they are stated with. *)

IInv == TypeOK /\ SafetyInv

(* The states of Parse over the first m of the bytes. *)
Runs(f, bytes, m) ==
  f = [n \in 0 .. m |-> IF n = 0 THEN Promise!Start
                        ELSE Promise!AddToRow(f[n - 1], bytes[n])]

(* Byte k is a quote that unescaping from byte s on removes. *)
Dropped(b, s, k) == b[k] = Quote /\ Cardinality(RunOfQuotes(b, s, k)) % 2 = 0

(* How many are removed before byte k. *)
Before(b, s, k) == Cardinality({d \in s .. k - 1 : Dropped(b, s, d)})

(* v is what unescaping leaves of b[s .. e - 1]. *)
Squeezed(b, s, e, v) ==
  /\ v \in Seq(Byte \cup {Junk})
  /\ Len(v) = e - s - Before(b, s, e)
  /\ \A m \in s .. e - 1 : ~Dropped(b, s, m) =>
       /\ m - Before(b, s, m) - s + 1 \in 1 .. Len(v)
       /\ v[m - Before(b, s, m) - s + 1] = b[m]
  /\ \A j \in 1 .. Len(v) : \E m \in s .. e - 1 :
       ~Dropped(b, s, m) /\ m - Before(b, s, m) - s + 1 = j

Content == Seq(Byte \cup {Junk})
Mode == {"start", "bare", "open", "quote", "after", "raw"}
ReadCell == [mode : Mode, value : Content, raw : Content]
ReadState ==
  [rows : Seq(Seq(Content)), cells : Seq(Content), cell : ReadCell,
   length : Nat, begun : BOOLEAN, afterCr : BOOLEAN]

NoQuote(b, s, e) == \A m \in s .. e - 1 : b[m] # Quote

(* The cell read so far is what the bytes b[cs .. k - 1] and the quote flags q
   say it is; more: byte k is there to be scanned. *)
CellRel(cell, b, cs, k, q, close, skips, more) ==
  LET open    == "UNCLOSED" \in q
      plain   == "EMBEDDED" \notin q
      shifted == ShiftRight(b, cs, close)
  IN
  /\ cs <= k
  /\ cell.raw = [j \in 1 .. k - cs |-> b[cs + j - 1]]
  /\ \/ /\ cell.mode = "start"
        /\ k = cs /\ q = {} /\ ~skips /\ cell.value = <<>>
     \/ /\ cell.mode = "bare"
        /\ k > cs /\ ~open /\ ~skips
        /\ q # {} => close = 0 /\ k >= cs + 2
        /\ cell.value = cell.raw
     \/ /\ cell.mode = "open"
        /\ k > cs /\ open /\ "PENDING" \notin q /\ ~skips /\ close = 0
        /\ Squeezed(b, cs + 1, k, cell.value)
        /\ k > cs + 1 /\ b[k - 1] = Quote => Dropped(b, cs + 1, k - 1)
        /\ plain => NoQuote(b, cs + 1, k)
     \/ /\ cell.mode = "quote"
        /\ k >= cs + 2 /\ b[k - 1] = Quote /\ ~Dropped(b, cs + 1, k - 1)
        /\ Squeezed(b, cs + 1, k - 1, cell.value)
        /\ plain => NoQuote(b, cs + 1, k - 1)
        /\ \/ /\ open /\ close = 0 /\ (skips \/ "PENDING" \in q)
              /\ skips => ~plain
           \/ ~open /\ ~skips /\ q # {} /\ close = k - 1 - cs /\ more /\ b[k] # Quote
     \/ /\ cell.mode = "after"
        /\ ~open /\ ~skips /\ q # {} /\ 0 < close /\ cs + close + 1 < k
        /\ Squeezed(shifted, cs + 2, k, cell.value)
        /\ plain => NoQuote(shifted, cs + 2, k)
     \/ /\ cell.mode = "raw"
        /\ ~open /\ ~skips /\ q # {} /\ close = 0 /\ k >= cs + 3

(* The slice u shows the value v, and nothing up to byte s has been touched. *)
Shows(u, s, v) ==
  /\ u.fault = FALSE
  /\ u.str \in Nat /\ u.len = Len(v) /\ u.str + u.len <= Size
  /\ \A j \in 1 .. Len(v) : u.buff[u.str + j - 1] = v[j]
  /\ \A m \in 0 .. s - 1 : u.buff[m] = buff[m]

(* The row read so far is what the buffer, the finished cells and the cell being
   read say it is. *)
RowRel(p, b, cs, rs, s, k, q, close, skips, more) ==
  /\ p \in ReadState /\ p.rows = <<>> /\ p.afterCr = FALSE
  /\ p.cells = Values(Delivered(b, cs))
  /\ rs <= k /\ p.length = k - rs /\ (p.begun <=> k > rs)
  /\ CellRel(p.cell, b, s, k, q, close, skips, more)

(* Until a row overflows the buffer, and after that if there are no quotes. *)
Sound == truncated => Quote \notin Range(fed)

More  == pc = "scan" /\ i < bytes_read
Skips == pc = "scan" /\ skip_next_delim

RowBytes == SubSeq(fed, Scanned - (Cursor - row_start) + 1, Scanned)

FeedInv ==
  /\ pc = "scan" => bytes_read - i <= Len(fed)
  /\ Quote \notin Range(fed) => quoted = {}
  /\ Sound /\ pc = "scan" =>
       \A m \in i .. bytes_read - 1 : buff[m] = fed[Len(fed) - bytes_read + m + 1]

TraceInv ==
  InRow /\ Sound =>
    /\ Cursor - row_start <= Scanned
    /\ RowRel(Promise!Parse(RowBytes), buff, cells, row_start, cell_start, Cursor,
              quoted, quote_close_position, Skips, More)

(* The row in the buffer, and what its bytes alone determine, agree. *)
RowTraced ==
  /\ Cursor - row_start <= Scanned
  /\ RowRel(Promise!Parse(RowBytes), buff, cells, row_start, cell_start, Cursor,
            quoted, quote_close_position, Skips, More)

RowIInv == IInv /\ FeedInv /\ TraceInv

(* What the rest of a call and the rest of the input may rely on, when the input
   is one stream. *)
OneStreamInv ==
  /\ pc \in {"idle", "truncate", "read"} /\ status # "cancelled" => i = bytes_read
  /\ finished <=> pc = "done"
  /\ bytes_read <= Len(fed) /\ old_bytes_read <= Len(fed) /\ partial_row_length <= Len(fed)
  /\ pc = "idle" /\ status = "ok" /\ old_bytes_read = 0 => fed = <<>>
  /\ status = "no_more_input" =>
       inputs > 0 /\ pc \in {"idle", "fault"} /\ old_bytes_read = 0 /\ row_start = 0

Closed(q) == (q \ {"UNCLOSED"}) \cup {"CLOSED"}

Reading == ~truncated /\ ~finished /\ status # "cancelled"

(* The last byte scanned is where the scanner looks for it, and the row has
   cells exactly when a delimiter has been seen in it. *)
LastInv ==
  Reading =>
    /\ Cursor > 0 => Scanned > 0 /\ buff[Cursor - 1] = fed[Scanned]
    /\ pc \in {"read", "truncate"} \/ (pc = "scan" /\ i = 0) \/ status = "no_more_input" =>
         last = IF Scanned > 0 THEN fed[Scanned] ELSE Junk
    /\ have_cell => abort \/ cells # <<>>
    /\ cells = <<>> => cell_start = row_start

RowsDelivered == [k \in DOMAIN calls |-> Values(calls[k].cells)]

(* Two parsings are at the same place of the same row. *)
SameRow(P, p) ==
  P.cells = p.cells /\ P.cell = p.cell /\ P.length = p.length /\ P.begun = p.begun

(* P is what all the bytes scanned amount to, p what those of the row do. *)
Whole(P, p) ==
  /\ P \in ReadState
  /\ P.rows = RowsDelivered
  /\ SameRow(P, p)
  /\ P.afterCr <=> ~P.begun /\ Scanned > 0 /\ fed[Scanned] = Cr

WholeInv == Reading => Whole(Promise!Parse(Consumed), Promise!Parse(RowBytes))

Phase == IF truncated THEN "cut" ELSE IF finished \/ status = "cancelled" THEN "over" ELSE "reading"

RefInv == RowIInv /\ OneStreamInv /\ LastInv /\ WholeInv

(* The bytes that a cell without quotes may not hold. *)
Specials == {Delim, Cr, Lf, Quote}

(* Handlers may still be called with what the parser holds now. *)
Live == pc \notin {"done", "fault"} /\ status # "cancelled"

(* The cells of the row so far that are delivered without a flag. *)
Unflagged == {k \in DOMAIN cells : cells[k].quoted = {}}

(* No handler sees a special byte in the cell c of a row that starts at rs, the
   next cell of which starts at cs: none is in it, or it ends behind the buffer,
   and still does when the row is moved to the front. *)
PlainCell(c, b, rs, cs) ==
  \/ c.str + c.len > Size + rs
  \/ /\ rs <= c.str /\ c.str + c.len < cs
     /\ \A m \in c.str .. c.str + c.len - 1 : b[m] \notin Specials

(* It holds of every such cell of the row. *)
PlainInv == Live => \A k \in Unflagged : PlainCell(cells[k], buff, row_start, cell_start)

(* So far, the cell that is being scanned needs no quotes if it has no flag. *)
HereInv == Live /\ quoted = {} => \A m \in cell_start .. Cursor - 1 : buff[m] \notin Specials

(* A doubled quote is skipped in a quoted cell only. *)
SkipInv == pc = "scan" /\ skip_next_delim => quoted # {}

(* In the tail of a truncated row, only the first cell can have been quoted:
   once that one has ended, cell_dl moves nothing, and no line feed is taken for
   that of a CR LF pair after a cell without flags. *)
TailInv ==
  Live /\ buffer_exceeded /\ cells # <<>> =>
    /\ quoted \subseteq {"EMBEDDED"}
    /\ quoted # {} => quote_close_position = 0
    /\ cell_start <= Cursor
    /\ Unflagged # {} => row_start < cell_start /\ buff[Cursor - 1] # Cr

(* What makes QuotedWhenNeeded inductive: a flag, once a delivery needs it, was there
   when the cell was scanned, and no later memmove brings a special byte into a cell
   without flags. *)
FlagsInv == PlainInv /\ HereInv /\ SkipInv /\ TailInv /\ QuotedWhenNeeded

(* What Parse has reached when it has met no quote. *)
PlainRead(p) == p \in ReadState /\ p.cell.mode # "open" /\ (p.afterCr => ~p.begun)

(* The rows of the input once it ends there. *)
Due(p) == IF p.begun THEN Len(p.rows) + 1 ELSE Len(p.rows)

FedPlain == Quote \notin Range(fed)

(* Still to be called, or inside a call. *)
Going == ~finished /\ status # "cancelled" /\ pc # "fault"

(* A row was cut short, and the caller has aborted. *)
AfterCut == pc \in {"read", "idle"} /\ partial_row_length = Size

CallCount == Cardinality(RowCalls)
Seen == Promise!Parse(Consumed)

(* No more rows are delivered than are due. *)
CallsInv == FedPlain /\ (api = "more" \/ ~finished) => CallCount <= Due(Seen)

(* Where the scanner is in the input and in the row, as far as the rows are
   counted: a row that was cut short has been delivered before it has ended, any
   other after. *)
AheadInv ==
  FedPlain /\ Going =>
    /\ Cursor > 0 => Scanned > 0 /\ buff[Cursor - 1] = fed[Scanned]
    /\ pc \in {"read", "truncate"} \/ (pc = "scan" /\ i = 0) =>
         last = IF Scanned > 0 THEN fed[Scanned] ELSE Junk
    /\ have_cell => abort \/ cells # <<>>
    /\ row_start < Cursor /\ ~buffer_exceeded => Seen.begun
    /\ IF buffer_exceeded \/ AfterCut THEN Seen.begun ELSE CallCount <= Len(Seen.rows)

(* The limit stops the parser before it could deliver another row. *)
LimitInv ==
  /\ CallCount <= cum_row_count
  /\ MaxRows > 0 => \/ cum_row_count < MaxRows
                    \/ cum_row_count = MaxRows /\ abort /\ (~Going \/ AfterCut)

Stopped == ~Going \/ AfterCut

CountInv == CallsInv /\ AheadInv /\ LimitInv

=============================================================================
