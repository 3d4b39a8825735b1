------------------------------ MODULE ZsvScan ------------------------------
(***************************************************************************)
(* The push parser of the zsv library in delimited mode: the input buffer  *)
(* that holds one chunk plus the partial row left from the last one        *)
(* (scanner_pre_parse, zsv_parse_more, zsv_parse_bytes), the byte scanner  *)
(* (zsv_scan_delim), cell and row delivery (cell_dl, row_dl) and           *)
(* zsv_finish.  src/src/zsv.c, src/src/zsv_scan_delim.c and                *)
(* src/src/zsv_internal.c.                                                 *)
(*                                                                         *)
(* One step is one part of a library call that the code runs in one go:    *)
(* the buffer shift, the truncation of a row that fills the buffer, a      *)
(* read, one iteration of the scan loop, zsv_finish.  The environment      *)
(* chooses the bytes, how many of them a read returns, where the input     *)
(* ends, and where the caller aborts.                                      *)
(*                                                                         *)
(* Options are those of a scanner with no header processing (see           *)
(* RowHandlers for that), delimiter ',' and quotes enabled.             *)
(***************************************************************************)
EXTENDS Integers, Sequences, FiniteSets

CONSTANTS
  Byte,          \* the bytes the input may hold
  Delim, Cr, Lf, Quote,
  Junk,          \* what malloc left in a buffer byte that was never written
  Size,          \* buff.size
  MaxCols,       \* opts.max_columns, that is row.allocated
  MaxRows,       \* opts.max_rows; 0 for no limit
  SizeMod,       \* size_t counts modulo SizeMod
  Apis,          \* "more": zsv_parse_more; "bytes": zsv_parse_bytes
  MaxInput,      \* bound: bytes in all the inputs together
  MaxInputs,     \* bound: streams read as one input (zsv_set_input)
  HasBom,        \* whether the input may start with a byte order mark
  AbortPoints    \* where the caller may call zsv_abort

ASSUME SpecialsAssumption ==
  /\ Delim \notin {Cr, Lf, Quote} /\ Quote \notin {Cr, Lf} /\ Cr # Lf
  /\ Junk \notin Byte \cup {Delim, Cr, Lf, Quote}
ASSUME SizeAssumption ==
  /\ Size \in Nat \ {0}
  /\ MaxCols \in Nat \ {0}
  /\ MaxRows \in Nat
  /\ MaxInput \in Nat
  /\ MaxInputs \in Nat \ {0}
  /\ SizeMod \in Nat
  /\ SizeMod > 2 * Size + MaxInput + 4
ASSUME ApiAssumption ==
  /\ Apis \subseteq {"more", "bytes"}
  /\ HasBom \in BOOLEAN
  /\ AbortPoints \subseteq {"row", "cell", "idle"}

VARIABLES
  buff,                \* buff.buff
  last,                \* last byte of the previous chunk, or Junk for '\0'
  old_bytes_read,
  partial_row_length,
  capacity,            \* local of zsv_parse_more and zsv_parse_bytes
  cell_start,
  row_start,
  scanned_length,
  cum_scanned_length,
  quoted,              \* set of ZSV_PARSER_QUOTE_ flags
  quote_close_position,
  buffer_exceeded,     \* set exactly while row_handler = zsv_throwaway_row
  have_cell,
  cells,               \* row.cells[0 .. row.used - 1]
  data_row_count,
  cum_row_count,       \* progress.cum_row_count
  checked_bom,
  had_bom,
  abort,
  finished,
  i,                   \* locals of zsv_scan_delim
  bytes_read,
  skip_next_delim,
  pc,                  \* what the library does next
  status,              \* what the last call returned
  api,                 \* the entry point that the caller uses throughout
  fed,                 \* history: the bytes read so far, BOM aside
  inputs,              \* history: streams that have ended
  truncated,           \* history: a row did not fit in the buffer
  calls                \* history: the handler calls made for rows

bufVars    == <<buff, last, old_bytes_read, partial_row_length, capacity>>
posVars    == <<cell_start, row_start>>
lengthVars == <<scanned_length, cum_scanned_length>>
quoteVars  == <<quoted, quote_close_position>>
rowVars    == <<cells, have_cell, buffer_exceeded, data_row_count, cum_row_count>>
scanVars   == <<i, bytes_read, skip_next_delim>>
envVars    == <<api, fed, inputs>>
onceVars   == <<checked_bom, had_bom, truncated>>
vars == <<bufVars, posVars, lengthVars, quoteVars, rowVars, scanVars, envVars,
          onceVars, abort, finished, pc, status, calls>>

Flags == {"UNCLOSED", "CLOSED", "NEEDED", "EMBEDDED", "PENDING"}
SizeT == 0 .. SizeMod - 1
Wrap(n) == n % SizeMod
Smaller(m, n) == IF m < n THEN m ELSE n

-----------------------------------------------------------------------------
(* Cells in the buffer.                                                     *)

Cell == [str : SizeT, len : SizeT, quoted : SUBSET Flags]

InBuffer(c) == c.str + c.len <= Size

(* The bytes a handler sees in cell c of buffer b; a cell that reaches past
   the buffer has no contents of its own. *)
Contents(b, c) ==
  IF InBuffer(c) THEN [k \in 1 .. c.len |-> b[c.str + k - 1]] ELSE <<Junk>>

(* The quotes of b[s .. s+n-1] that the unescaping loop removes: the second
   of each pair, that is each one at an even place in its run of quotes. *)
RunOfQuotes(b, s, k) ==
  { m \in s .. k : \A j \in m .. k : b[j] = Quote }
DoubledQuotes(b, s, n) ==
  { k \in s .. s + n - 1 :
      b[k] = Quote /\ Cardinality(RunOfQuotes(b, s, k)) % 2 = 0 }

(* cell_dl's loop over b[s .. s+n-1]: each removed quote pulls what follows
   it down by one.  What lies past the result, which nothing reads, is left as it
   was; the memmove calls of the code leave other bytes there. *)
RemoveDoubled(b, s, n) ==
  LET dropped    == DoubledQuotes(b, s, n)
      kept       == (s .. s + n - 1) \ dropped
      NewPlace(m) == m - Cardinality({d \in dropped : d < m})
      From(k)    == {m \in kept : NewPlace(m) = k}
  IN  [ len  |-> n - Cardinality(dropped),
        buff |-> [ k \in DOMAIN b |->
                     IF From(k) = {} THEN b[k] ELSE b[CHOOSE m \in From(k) : TRUE] ] ]

(* memmove(s + 1, s, n) *)
ShiftRight(b, s, n) ==
  [ k \in DOMAIN b |-> IF k > s /\ k <= s + n THEN b[k - 1] ELSE b[k] ]

(* The quote handling of cell_dl on the n bytes at s, with flags q and closing
   quote at s + close: the cell's slice, the buffer as the memmoves leave it,
   and whether one of them left the buffer. *)
Unquote(q, close, s, n) ==
  LET untouched == [str |-> s, len |-> n, buff |-> buff, fault |-> FALSE]
      outside(str, len) == str + len > Size
  IN
  IF q = {} THEN untouched
  ELSE IF Wrap(close + 1) = n THEN
    IF "EMBEDDED" \notin q
    THEN [untouched EXCEPT !.str = s + 1, !.len = Wrap(n - 2)]
    ELSE IF outside(s + 1, Wrap(n - 1)) THEN [untouched EXCEPT !.fault = TRUE]
    ELSE LET r == RemoveDoubled(buff, s + 1, n - 1) IN
         [str |-> s + 1, len |-> Wrap(r.len - 1), buff |-> r.buff, fault |-> FALSE]
  ELSE IF close = 0 THEN untouched
  ELSE IF outside(s + 1, close) THEN [untouched EXCEPT !.fault = TRUE]
  ELSE
    LET shifted == ShiftRight(buff, s, close)
        rest    == Wrap(n - 2)
    IN IF "EMBEDDED" \notin q
       THEN [str |-> s + 2, len |-> rest, buff |-> shifted, fault |-> FALSE]
       ELSE IF outside(s + 2, rest) THEN [untouched EXCEPT !.fault = TRUE]
       ELSE LET r == RemoveDoubled(shifted, s + 2, rest) IN
            [str |-> s + 2, len |-> r.len, buff |-> r.buff, fault |-> FALSE]

(* Faulty: only a cell that was quoted keeps its flags. *)
AddCell_Unflagged(u, q) ==
  IF Len(cells) < MaxCols
  THEN Append(cells, [str |-> u.str, len |-> u.len,
                      quoted |-> IF "CLOSED" \in q THEN q ELSE {}])
  ELSE cells

(* The row with the cell u of flags q, if it still has room for it. *)
AddCell(u, q) ==
  IF Len(cells) < MaxCols
  THEN Append(cells, [str |-> u.str, len |-> u.len, quoted |-> q])
  ELSE cells

-----------------------------------------------------------------------------
(* Delivering cells and rows.                                               *)

Delivered(b, cs) ==
  [k \in 1 .. Len(cs) |-> [value |-> Contents(b, cs[k]), quoted |-> cs[k].quoted]]

(* Faulty: the tail of a truncated row goes to the caller's row handler. *)
CallRowHandler_KeepTail(b, cs) ==
  calls' = Append(calls, [handler |-> "row", number |-> data_row_count,
                          cells |-> Delivered(b, cs)])

(* The effect of opts.row_handler: the caller's own, or zsv_throwaway_row,
   which passes the tail of a truncated row to overflow_row_handler unless
   it is a single empty cell. *)
CallRowHandler(b, cs) ==
  LET Call(handler) == Append(calls, [handler |-> handler, number |-> data_row_count,
                                      cells |-> Delivered(b, cs)])
  IN calls' = IF ~buffer_exceeded THEN Call("row")
              ELSE IF Len(cs) > 1 \/ (Len(cs) = 1 /\ cs[1].len > 0)
              THEN Call("overflow")
              ELSE calls

MayAbortIn(points) == IF points \cap AbortPoints = {} THEN {} ELSE {TRUE}

AtMaxRows == MaxRows > 0 /\ cum_row_count' = MaxRows

(* row_dl, on buffer b and the cells cs of the row, after a handler called at
   one of the points may have aborted.  It returns zsv_status_ok iff ~abort'. *)
RowDl(b, cs, points) ==
  /\ CallRowHandler(b, cs)
  /\ cum_row_count' = cum_row_count + 1
  /\ \E stop \in {abort} \cup MayAbortIn(points) :
       abort' = (stop \/ AtMaxRows)
  /\ have_cell' = (abort' /\ cs # <<>>)
  /\ cells' = IF abort' /\ ~AtMaxRows THEN cs ELSE <<>>

(* Faulty: the tail is uncounted, though nothing has counted its row. *)
RowsBefore_Uncount == IF buffer_exceeded THEN data_row_count - 1 ELSE data_row_count

(* set_callbacks restarts the row count when the throwaway handler ends. *)
RowsBefore == IF buffer_exceeded THEN 0 ELSE data_row_count

-----------------------------------------------------------------------------
(* A call begins: scanner_pre_parse, zsv_parse_more, zsv_parse_bytes.       *)

Init ==
  /\ buff = [k \in 0 .. Size - 1 |-> Junk]
  /\ last = Junk
  /\ old_bytes_read = 0 /\ partial_row_length = 0 /\ capacity = 0
  /\ cell_start = 0 /\ row_start = 0
  /\ scanned_length = 0 /\ cum_scanned_length = 0
  /\ quoted = {} /\ quote_close_position = 0
  /\ buffer_exceeded = FALSE /\ have_cell = FALSE /\ cells = <<>>
  /\ data_row_count = 0 /\ cum_row_count = 0
  /\ checked_bom = FALSE /\ had_bom = FALSE
  /\ abort = FALSE /\ finished = FALSE
  /\ i = 0 /\ bytes_read = 0 /\ skip_next_delim = FALSE
  /\ pc = "idle" /\ status = "ok"
  /\ api \in Apis
  /\ fed = <<>> /\ inputs = 0 /\ calls = <<>> /\ truncated = FALSE

(* Callers stop at the first status that is not ok, except that after
   no_more_input they may supply another stream. *)
MayParse ==
  /\ pc = "idle" /\ ~finished
  /\ \/ status = "ok"
     \/ status = "no_more_input" /\ inputs < MaxInputs

(* The bytes scanned before the buffer's first, once the partial row is it. *)
LengthBefore(partial) == Wrap(cum_scanned_length + scanned_length - partial)

(* What scanner_pre_parse has set by the time it knows the capacity. *)
EnterParse(partial) ==
  /\ partial_row_length' = partial
  /\ cum_scanned_length' = LengthBefore(partial)
  /\ capacity' = Size - partial
  /\ pc' = IF partial = Size THEN "truncate" ELSE "read"
  /\ old_bytes_read' = 0
  /\ UNCHANGED <<scanned_length, have_cell, buffer_exceeded, data_row_count,
                 cum_row_count, scanVars, envVars, onceVars, abort, finished,
                 status, calls, quote_close_position>>

(* Faulty: the cells of the partial row point where it used to be. *)
RebasedCells_Stale == cells

RebasedCells ==
  [ k \in DOMAIN cells |->
      [cells[k] EXCEPT !.str = Wrap(cells[k].str - row_start)] ]

(* The last chunk ended inside a row: move the partial row to the front of
   the buffer, and its cells with it. *)
MovePartialRow ==
  /\ MayParse
  /\ old_bytes_read > 0 /\ row_start < old_bytes_read
  /\ last' = buff[old_bytes_read - 1]
  /\ buff' = [ k \in DOMAIN buff |-> IF k < old_bytes_read - row_start
                                     THEN buff[k + row_start] ELSE buff[k] ]
  /\ cell_start' = Wrap(cell_start - row_start)
  /\ cells' = RebasedCells
  /\ row_start' = 0
  /\ EnterParse(old_bytes_read - row_start)
  /\ UNCHANGED quoted

(* The last chunk ended with a row. *)
StartFreshRow ==
  /\ MayParse
  /\ old_bytes_read > 0 /\ row_start >= old_bytes_read
  /\ last' = buff[old_bytes_read - 1]
  /\ cell_start' = 0 /\ row_start' = 0
  /\ quoted' = {}
  /\ EnterParse(partial_row_length)
  /\ UNCHANGED <<buff, cells>>

(* There is no chunk to shift: the first call, or the last read got nothing. *)
StartEmpty ==
  /\ MayParse
  /\ old_bytes_read = 0
  /\ last' = Junk
  /\ EnterParse(partial_row_length)
  /\ UNCHANGED <<buff, posVars, cells, quoted>>

(* The row fills the buffer: deliver the cells it has so far and throw its
   tail away.  When row_dl cancels, scanner_pre_parse returns the status,
   zsv_status_cancelled = 1, where its callers expect the capacity. *)
TruncateRow ==
  /\ pc = "truncate"
  /\ RowDl(buff, cells, {"row"})
  /\ data_row_count' = RowsBefore
  /\ buffer_exceeded' = IF abort' THEN FALSE ELSE TRUE
  /\ capacity' = IF abort' THEN 1 ELSE Size
  /\ partial_row_length' = IF abort' THEN partial_row_length ELSE 0
  /\ pc' = "read"
  /\ truncated' = TRUE
  /\ UNCHANGED <<buff, last, old_bytes_read, posVars, lengthVars, quoteVars,
                 scanVars, envVars, checked_bom, had_bom, finished, status>>

(* The first read found a byte order mark and dropped it. *)
SkipBom ==
  /\ pc = "read" /\ api = "more" /\ HasBom /\ ~checked_bom
  /\ checked_bom' = TRUE /\ had_bom' = TRUE
  /\ UNCHANGED <<bufVars, posVars, lengthVars, quoteVars, rowVars, scanVars,
                 envVars, truncated, abort,
                 finished, pc, status, calls>>

(* The read returned 0. *)
ReadNothing ==
  /\ pc = "read" /\ api = "more"
  /\ checked_bom' = TRUE
  /\ scanned_length' = partial_row_length
  /\ inputs' = inputs + 1
  /\ status' = "no_more_input" /\ pc' = "idle"
  /\ UNCHANGED <<bufVars, posVars, cum_scanned_length, quoteVars, rowVars,
                 scanVars, api, fed, had_bom, truncated, abort, finished, calls>>

(* The read returned the bytes: the prologue of zsv_scan_delim, which also
   settles a quote that ended the last chunk inside a quoted cell. *)
BeginScan(bytes) ==
  LET pending == "PENDING" \in quoted
      doubled == bytes[1] = Quote
      flags   == quoted \ {"PENDING"}
  IN
  /\ bytes_read' = partial_row_length + Len(bytes)
  /\ partial_row_length' = 0
  /\ skip_next_delim' = FALSE
  /\ i' = IF pending /\ doubled THEN partial_row_length + 1 ELSE partial_row_length
  /\ quoted' = IF ~pending THEN quoted
               ELSE IF doubled THEN flags \cup {"NEEDED", "EMBEDDED"}
               ELSE (flags \ {"UNCLOSED"}) \cup {"CLOSED"}
  /\ quote_close_position' =
       IF pending /\ ~doubled THEN Wrap(partial_row_length - cell_start - 1)
       ELSE quote_close_position

Read ==
  /\ pc = "read"
  /\ \E n \in 1 .. Smaller(capacity, MaxInput - Len(fed)) :
       \E bytes \in [1 .. n -> Byte] :
         /\ fed' = fed \o bytes
         /\ IF partial_row_length + n > Size
            THEN pc' = "fault" /\ UNCHANGED <<buff, partial_row_length, scanVars, quoteVars>>
            ELSE /\ buff' = [ k \in DOMAIN buff |->
                               IF k >= partial_row_length /\ k < partial_row_length + n
                               THEN bytes[k - partial_row_length + 1] ELSE buff[k] ]
                 /\ BeginScan(bytes)
                 /\ pc' = "scan"
  /\ checked_bom' = TRUE
  /\ UNCHANGED <<last, old_bytes_read, capacity, posVars, lengthVars, rowVars,
                 api, inputs, had_bom, truncated, abort, finished, status, calls>>

-----------------------------------------------------------------------------
(* The scan loop: zsv_scan_delim.  Each action is one iteration, on the     *)
(* byte c = buff[i]; the vector search only skips bytes that Plain skips.   *)

Scanning == pc = "scan" /\ i < bytes_read
Visit(c) == Scanning /\ ~skip_next_delim /\ buff[i] = c
Open     == "UNCLOSED" \in quoted

(* Faulty: the last byte of the previous chunk is forgotten. *)
ScannerLast_ThisChunk == IF i > 0 THEN buff[i - 1] ELSE Junk

ScannerLast == IF i > 0 THEN buff[i - 1] ELSE last

(* Faulty: the cell includes the delimiter. *)
CellHere_Delimited ==
  Unquote(quoted, quote_close_position, cell_start, Wrap(i + 1 - cell_start))

(* The cell that ends before byte i. *)
CellHere ==
  Unquote(quoted, quote_close_position, cell_start, Wrap(i - cell_start))

NextByte == i' = i + 1 /\ UNCHANGED bytes_read

(* The second quote of an escaped quote: part of the content. *)
SkipDoubledQuote ==
  /\ Scanning /\ skip_next_delim
  /\ skip_next_delim' = FALSE
  /\ NextByte
  /\ UNCHANGED <<bufVars, posVars, lengthVars, quoteVars, rowVars, envVars,
                 onceVars, abort, finished, pc, status, calls>>

Plain ==
  /\ Scanning /\ ~skip_next_delim /\ buff[i] \notin {Delim, Cr, Lf, Quote}
  /\ NextByte
  /\ UNCHANGED <<bufVars, posVars, lengthVars, quoteVars, rowVars, envVars,
                 skip_next_delim, onceVars, abort, finished, pc, status, calls>>

(* A delimiter or line end inside quotes is content. *)
EscapedSpecial ==
  /\ \E c \in {Delim, Cr, Lf} : Visit(c)
  /\ Open
  /\ quoted' = quoted \cup {"NEEDED"}
  /\ NextByte
  /\ UNCHANGED <<bufVars, posVars, lengthVars, quote_close_position, rowVars,
                 envVars, skip_next_delim, onceVars, abort, finished, pc, status, calls>>

EndCell ==
  /\ Visit(Delim) /\ ~Open /\ ~CellHere.fault
  /\ scanned_length' = i
  /\ buff' = CellHere.buff
  /\ cells' = AddCell(CellHere, quoted)
  /\ have_cell' = TRUE
  /\ quoted' = {}
  /\ abort' \in {abort} \cup MayAbortIn({"cell"})
  /\ cell_start' = i + 1
  /\ NextByte
  /\ UNCHANGED <<last, old_bytes_read, partial_row_length, capacity, row_start,
                 cum_scanned_length, quote_close_position, buffer_exceeded,
                 data_row_count, cum_row_count, envVars, skip_next_delim,
                 onceVars, finished, pc, status, calls>>

(* The line feed of a CR LF pair, wherever the chunks divide it. *)
IgnoreLf ==
  /\ Visit(Lf) /\ ~Open /\ ScannerLast = Cr
  /\ cell_start' = i + 1 /\ row_start' = i + 1
  /\ NextByte
  /\ UNCHANGED <<bufVars, lengthVars, quoteVars, rowVars, envVars,
                 skip_next_delim, onceVars, abort, finished, pc, status, calls>>

AtRowEnd == ~Open /\ (Visit(Cr) \/ (Visit(Lf) /\ ScannerLast # Cr))

EndRow ==
  /\ AtRowEnd /\ ~CellHere.fault
  /\ scanned_length' = i
  /\ buff' = CellHere.buff
  /\ quoted' = {}
  /\ RowDl(CellHere.buff, AddCell(CellHere, quoted), {"cell", "row"})
  /\ buffer_exceeded' = FALSE
  /\ IF abort'
     THEN /\ data_row_count' = RowsBefore
          /\ pc' = "idle" /\ status' = "cancelled"
          /\ UNCHANGED <<posVars, scanVars>>
     ELSE /\ data_row_count' = RowsBefore + 1
          /\ cell_start' = i + 1 /\ row_start' = i + 1
          /\ NextByte
          /\ UNCHANGED <<skip_next_delim, pc, status>>
  /\ UNCHANGED <<last, old_bytes_read, partial_row_length, capacity,
                 cum_scanned_length, quote_close_position, envVars, onceVars,
                 finished>>

(* The memmoves of cell_dl leave the buffer. *)
FaultInCell ==
  /\ AtRowEnd \/ (Visit(Delim) /\ ~Open)
  /\ CellHere.fault
  /\ pc' = "fault"
  /\ UNCHANGED <<bufVars, posVars, lengthVars, quoteVars, rowVars, scanVars,
                 envVars, onceVars, abort, finished, status, calls>>

(* A quote opens the cell, closes it, escapes a quote, waits for the next
   chunk to tell, or is a plain byte of an unquoted cell. *)
VisitQuote ==
  LET opens == i = cell_start /\ ~buffer_exceeded
      atEnd == i + 1 = bytes_read
      doubled == buff[i + 1] = Quote
  IN
  /\ Visit(Quote)
  /\ \/ /\ opens
        /\ quoted' = {"UNCLOSED"} /\ quote_close_position' = 0
        /\ UNCHANGED skip_next_delim
     \/ /\ ~opens /\ Open /\ atEnd
        /\ quoted' = quoted \cup {"PENDING"}
        /\ UNCHANGED <<quote_close_position, skip_next_delim>>
     \/ /\ ~opens /\ Open /\ ~atEnd /\ doubled
        /\ quoted' = quoted \cup {"NEEDED", "EMBEDDED"}
        /\ skip_next_delim' = TRUE
        /\ UNCHANGED quote_close_position
     \/ /\ ~opens /\ Open /\ ~atEnd /\ ~doubled
        /\ quoted' = (quoted \ {"UNCLOSED"}) \cup {"CLOSED"}
        /\ quote_close_position' = IF quote_close_position = 0
                                   THEN Wrap(i - cell_start)
                                   ELSE quote_close_position
        /\ UNCHANGED skip_next_delim
     \/ /\ ~opens /\ ~Open
        /\ quoted' = quoted \cup {"EMBEDDED"} /\ quote_close_position' = 0
        /\ UNCHANGED skip_next_delim
  /\ NextByte
  /\ UNCHANGED <<bufVars, posVars, lengthVars, rowVars, envVars, onceVars, abort,
                 finished, pc, status, calls>>

EndScan ==
  /\ pc = "scan" /\ i >= bytes_read
  /\ scanned_length' = i
  /\ old_bytes_read' = bytes_read
  /\ pc' = "idle" /\ status' = "ok"
  /\ UNCHANGED <<buff, last, partial_row_length, capacity, posVars,
                 cum_scanned_length, quoteVars, rowVars, scanVars, envVars,
                 onceVars, abort, finished, calls>>

-----------------------------------------------------------------------------
(* zsv_abort and zsv_finish.                                                *)

AbortBetweenCalls ==
  /\ pc = "idle" /\ ~finished /\ "idle" \in AbortPoints
  /\ abort' = TRUE
  /\ UNCHANGED <<bufVars, posVars, lengthVars, quoteVars, rowVars, scanVars,
                 envVars, onceVars, finished, pc, status, calls>>

(* zsv_finish closes an open quote by pretending that the closing one is the
   last byte, when the input ended with a quote, or follows the last byte. *)
ClosesOpenQuote == ~abort /\ Open /\ partial_row_length > cell_start

FinalLength ==
  IF ClosesOpenQuote /\ last # Quote THEN scanned_length + 1 ELSE scanned_length
FinalQuoted ==
  IF ClosesOpenQuote THEN (quoted \ {"UNCLOSED"}) \cup {"CLOSED"} ELSE quoted
FinalClosePosition ==
  IF ClosesOpenQuote THEN partial_row_length - cell_start ELSE quote_close_position
HasFinalCell == ~abort /\ FinalLength > 0 /\ FinalLength >= cell_start

FinalCell ==
  Unquote(FinalQuoted, FinalClosePosition, cell_start, FinalLength - cell_start)

(* Faulty: an abort does not hold the last row back. *)
DeliversFinalRow_Aborted == HasFinalCell \/ have_cell

DeliversFinalRow == ~abort /\ (HasFinalCell \/ have_cell)

(* The caller finishes after all input has been read, or after an error. *)
MayFinish ==
  /\ pc = "idle" /\ ~finished
  /\ abort \/ status # "ok" \/ api = "bytes"

Finish ==
  /\ MayFinish
  /\ ~(HasFinalCell /\ FinalCell.fault)
  /\ finished' = TRUE /\ pc' = "done"
  /\ scanned_length' = FinalLength
  /\ quote_close_position' = FinalClosePosition
  /\ quoted' = IF HasFinalCell THEN {} ELSE FinalQuoted
  /\ buff' = IF HasFinalCell THEN FinalCell.buff ELSE buff
  /\ IF DeliversFinalRow
     THEN /\ RowDl(buff', IF HasFinalCell THEN AddCell(FinalCell, FinalQuoted)
                          ELSE cells, {"cell", "row"})
          /\ data_row_count' = RowsBefore
          /\ buffer_exceeded' = FALSE
          /\ status' = IF abort' THEN "cancelled" ELSE "ok"
     ELSE /\ status' = IF abort THEN "cancelled" ELSE "ok"
          /\ UNCHANGED <<rowVars, abort, calls>>
  /\ UNCHANGED <<last, old_bytes_read, partial_row_length, capacity, posVars,
                 cum_scanned_length, scanVars, envVars, onceVars>>

FaultInFinish ==
  /\ MayFinish /\ HasFinalCell /\ FinalCell.fault
  /\ pc' = "fault"
  /\ UNCHANGED <<bufVars, posVars, lengthVars, quoteVars, rowVars, scanVars,
                 envVars, onceVars, abort, finished, status, calls>>

-----------------------------------------------------------------------------
PreParse == MovePartialRow \/ StartFreshRow \/ StartEmpty
Scan ==
  \/ SkipDoubledQuote \/ Plain \/ EscapedSpecial \/ EndCell \/ IgnoreLf
  \/ EndRow \/ FaultInCell \/ VisitQuote \/ EndScan

Next ==
  \/ PreParse \/ TruncateRow \/ SkipBom \/ ReadNothing \/ Read
  \/ Scan
  \/ AbortBetweenCalls \/ Finish \/ FaultInFinish

Spec == Init /\ [][Next]_vars

-----------------------------------------------------------------------------
(* Invariants.                                                              *)

Value == Seq(Byte \cup {Junk})
Buffer == [0 .. Size - 1 -> Byte \cup {Junk}]
DeliveredCell == [value : Value, quoted : SUBSET Flags]
HandlerCall ==
  [handler : {"row", "overflow"}, number : Nat, cells : Seq(DeliveredCell)]

(* Every variable stays within its declared type: sizes never exceed
   size_t, offsets into the buffer never pass its end, flags are flags. *)
TypeOK ==
  /\ buff \in Buffer
  /\ last \in Byte \cup {Junk}
  /\ old_bytes_read \in 0 .. Size /\ partial_row_length \in 0 .. Size
  /\ capacity \in 0 .. Size
  /\ row_start \in 0 .. Size /\ cell_start \in row_start .. Size
  /\ scanned_length \in 0 .. (IF finished THEN Size + 1 ELSE Size)
  /\ cum_scanned_length \in SizeT
  /\ quoted \subseteq Flags /\ quote_close_position \in SizeT
  /\ cells \in Seq(Cell) /\ Len(cells) <= MaxCols
  /\ have_cell \in BOOLEAN /\ buffer_exceeded \in BOOLEAN
  /\ data_row_count \in Nat /\ cum_row_count \in Nat
  /\ checked_bom \in BOOLEAN /\ had_bom \in BOOLEAN /\ truncated \in BOOLEAN
  /\ abort \in BOOLEAN /\ finished \in BOOLEAN
  /\ i \in 0 .. Size /\ bytes_read \in 0 .. Size /\ skip_next_delim \in BOOLEAN
  /\ pc \in {"idle", "truncate", "read", "scan", "done", "fault"}
  /\ status \in {"ok", "no_more_input", "cancelled"}
  /\ fed \in Seq(Byte) /\ inputs \in Nat
  /\ calls \in Seq(HandlerCall)

(* Where the next byte goes, or is: the end of what has been scanned. *)
Cursor ==
  IF pc = "scan" THEN i
  ELSE IF old_bytes_read > 0 THEN old_bytes_read ELSE partial_row_length

(* A row fills the buffer, was truncated, and the caller has aborted: what
   scanner_pre_parse returned may be a status, not a capacity. *)
CutShort ==
  truncated /\ abort /\ partial_row_length = Size /\ pc \in {"idle", "truncate", "read"}

(* What each stage of a call may rely on. *)
StageInv ==
  /\ pc = "scan" =>
       /\ row_start <= i /\ i <= bytes_read /\ bytes_read > 0
       /\ old_bytes_read = 0 /\ partial_row_length = 0
       /\ skip_next_delim => i < bytes_read /\ buff[i] = Quote
  /\ status = "cancelled" => abort /\ pc \in {"idle", "done", "fault"}
  /\ pc \in {"read", "truncate"} => old_bytes_read = 0 /\ row_start = 0
  /\ pc = "truncate" => partial_row_length = Size
  /\ pc = "idle" /\ status # "cancelled" =>
       row_start <= old_bytes_read /\ scanned_length = Cursor
  /\ pc = "idle" /\ ~CutShort => partial_row_length < Size
  /\ old_bytes_read > 0 => partial_row_length = 0
  /\ buffer_exceeded => truncated

(* A read always has room, and stays in the buffer: a capacity of 0 would
   make zsv_parse_more take a full buffer for the end of the input. *)
ReadHasRoom ==
  pc = "read" /\ ~CutShort =>
    capacity > 0 /\ partial_row_length + capacity = Size

(* The row, its last cell and the cursor are in that order. *)
OrderInv ==
  row_start <= cell_start /\ cell_start <= Cursor

(* The finished cells of the row lie one after the other between the row's
   start and the cell being read, a delimiter at least from each other. *)
CellsInRow ==
  \A k \in DOMAIN cells :
    /\ row_start <= cells[k].str
    /\ cells[k].str + cells[k].len < cell_start
    /\ \A j \in 1 .. k - 1 : cells[j].str + cells[j].len < cells[k].str

(* The quote flags agree with the bytes of the cell that have been read. *)
QuoteInv ==
  /\ Open => quote_close_position = 0 /\ cell_start < Cursor
  /\ Open /\ "EMBEDDED" \in quoted => cell_start + 2 <= Cursor
  /\ "PENDING" \in quoted =>
       /\ Open /\ cell_start + 2 <= Cursor
       /\ buff[Cursor - 1] = Quote
       /\ pc = "scan" => i = bytes_read
  /\ quoted # {} /\ ~Open =>
       IF quote_close_position = 0 THEN cell_start + 2 <= Cursor
       ELSE cell_start + quote_close_position < Cursor

(* A carriage return outside quotes has ended the row. *)
CrInv ==
  Cursor > 0 /\ buff[Cursor - 1] = Cr /\ ~Open =>
    cells = <<>> /\ cell_start = Cursor

InRow ==
  /\ pc \in {"idle", "truncate", "read", "scan"}
  /\ status # "cancelled" /\ ~buffer_exceeded /\ ~CutShort

(* While no truncated row is being thrown away the scanner's indices are
   those of the row in the buffer. *)
RowInv ==
  InRow => OrderInv /\ CellsInRow /\ QuoteInv /\ CrInv

(* Undefined behaviour needs a truncated row. *)
NoFault == pc = "fault" => truncated

SafetyInv == StageInv /\ ReadHasRoom /\ RowInv /\ NoFault

(* Once a call has returned zsv_status_cancelled no handler is called any more,
   by zsv_finish either (row_dl, zsv_finish). *)
CancelledIsFinal == [][status = "cancelled" => UNCHANGED <<calls, cells>>]_vars

=============================================================================
