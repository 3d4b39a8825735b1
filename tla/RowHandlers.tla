---------------------------- MODULE RowHandlers ----------------------------
(***************************************************************************)
(* What happens to a row once its cells are known: the chain of row        *)
(* handlers that stands between the scanner and its caller, in push and in *)
(* pull mode.                                                              *)
(*                                                                         *)
(* set_callbacks installs, one after the other, ignore_header_rows,        *)
(* skip_to_first_row_w_data, collate_header_row and the caller's handler;  *)
(* each installs its successor when it is done, and may hand it the row it *)
(* has just seen.  zsv_throwaway_row cuts in when a row does not fit in    *)
(* the buffer.  zsv_next_row (pull mode) is a caller's handler that stops  *)
(* the scan loop.  src/src/zsv_internal.c and src/src/zsv.c.               *)
(*                                                                         *)
(* One step is one row end, or one row that fills the buffer, with every   *)
(* handler it runs; bytes, quotes and chunks are those of ZsvScan.         *)
(***************************************************************************)
EXTENDS Integers, Sequences, FiniteSets, SequencesExt

CONSTANTS
  MaxCols,         \* opts.max_columns, that is row.allocated
  Options,         \* the options a parser may be created with
  MayCut,          \* whether a row may be longer than the buffer
  CallerAborts,    \* whether a handler, or the caller of zsv_next_row, may abort
  MaxPieces,       \* bound: rows and parts of rows in the input
  Shapes           \* bound: the rows tried; shape[j]: cell j has text

Modes == {"push", "pull"}

(* insert_header_row: none, a row, or a row with its line end. *)
Inserts == {"none", "row", "line"}

ASSUME OptionsAssumption ==
  /\ MaxCols \in Nat \ {0} /\ MaxPieces \in Nat
  /\ Shapes \subseteq UNION {[1 .. n -> BOOLEAN] : n \in 1 .. MaxCols}
  /\ MayCut \in BOOLEAN /\ CallerAborts \in BOOLEAN
  /\ Options \subseteq
       [ mode : Modes, rows_to_ignore : Nat, keep_empty_header_rows : BOOLEAN,
         header_span : Nat, max_rows : Nat, insert : Inserts,
         overwrite : BOOLEAN ]

VARIABLES
  options,    \* opts as the caller gave them
  scanner,    \* the fields of struct zsv_scanner that the handlers use
  pc,         \* "insert", "scan": in the scan loop; "idle": between two calls
  stat,       \* what the last call returned
  input,      \* history: the pieces of rows scanned so far
  calls       \* history: what the caller was given

vars == <<options, scanner, pc, stat, input, calls>>

-----------------------------------------------------------------------------
(* Cells.  A cell's text is a sequence of words, so that a collated header  *)
(* can be told from its rows; a blank cell has none.                        *)

Word  == Nat \X Nat       \* the row and the column it was read from
Text  == Seq(Word)
Blank == <<>>

Column == 1 .. MaxCols
NoCells == [j \in Column |-> Blank]

(* Piece n of the input. *)
RowOf(n, shape) ==
  [j \in DOMAIN shape |-> IF shape[j] THEN <<<<n, j>>>> ELSE Blank]

Wider(m, n) == IF m > n THEN m ELSE n

Chain  == {"ignore", "skip", "collate"}
Caller == {"header", "data", "pull"}

(* The cells of the row: zsv_cell_count of them. *)
Row(s) == [j \in 1 .. s.used |-> s.cells[j]]

RowIsBlank(s) == \A j \in 1 .. s.used : s.cells[j] = Blank

(* cell_dl for each cell of a piece: the cell handler, then row.cells. *)
AddCells(s, cells) ==
  [s EXCEPT
     !.seen  = IF s.cell_handler THEN @ \o cells ELSE @,
     !.cells = [j \in Column |->
                  IF j > s.used /\ j <= s.used + Len(cells)
                  THEN cells[j - s.used] ELSE @[j]],
     !.used  = IF @ + Len(cells) > MaxCols THEN MaxCols ELSE @ + Len(cells)]

-----------------------------------------------------------------------------
(* The handlers.  Each takes the scanner to the scanner it leaves.          *)

Installed(s, handler) ==
  [s EXCEPT !.row_handler = handler, !.cell_handler = FALSE, !.ctx = "scanner"]

(* Faulty: overwrites are never put into use. *)
SetCallbacks_Plain(s) ==
  IF s.rows_to_ignore > 0 THEN Installed(s, "ignore")
  ELSE IF ~s.keep_empty_header_rows THEN Installed(s, "skip")
  ELSE IF s.header_span > 1 THEN Installed(s, "collate")
  ELSE [s EXCEPT
          !.row_handler = s.orig_row_handler, !.cell_handler = s.orig_cell_handler,
          !.ctx = "caller", !.data_row_count = 0, !.get_cell = "plain"]

(* set_callbacks: the next handler of the chain, or else the caller's. *)
SetCallbacks(s) ==
  IF s.rows_to_ignore > 0 THEN Installed(s, "ignore")
  ELSE IF ~s.keep_empty_header_rows THEN Installed(s, "skip")
  ELSE IF s.header_span > 1 THEN Installed(s, "collate")
  ELSE [s EXCEPT
          !.row_handler = s.orig_row_handler, !.cell_handler = s.orig_cell_handler,
          !.ctx = "caller", !.data_row_count = 0,
          !.get_cell = IF s.overwrite THEN "overwrite" ELSE "plain"]

(* A call of one of the caller's functions, and what it can see. *)
Called(s, handler) ==
  [s EXCEPT
     !.called = Append(@, [ to |-> handler, ctx |-> s.ctx, cells |-> Row(s),
                            number |-> s.data_row_count, seen |-> s.seen,
                            get_cell |-> s.get_cell ]),
     !.seen = <<>>]

(* Faulty: what set_callbacks will install stays as it was. *)
SetRowHandler_Once(s, handler) == [s EXCEPT !.row_handler = handler]

(* zsv_set_row_handler *)
SetRowHandler(s, handler) ==
  [s EXCEPT !.row_handler = IF @ = s.orig_row_handler THEN handler ELSE @,
            !.orig_row_handler = handler]

(* The caller's row handler: the tools install one for the header, which
   replaces itself by one for the data.  In pull mode it is zsv_pull_row. *)
CallerRow(s) ==
  CASE s.row_handler = "header" -> SetRowHandler(Called(s, "header"), "data")
    [] s.row_handler = "data"   -> Called(s, "data")
    [] s.row_handler = "pull"   -> [s EXCEPT !.now = TRUE, !.row_used = s.used]

(* apply_callbacks, once the caller's handlers are in place. *)
ApplyToCaller(s) ==
  CallerRow([s EXCEPT !.seen = IF s.cell_handler THEN @ \o Row(s) ELSE @])

(* The cells of a header row, padded to the width of those before it. *)
PadToHeader(s) ==
  IF ~s.collated.have THEN s
  ELSE [s EXCEPT
          !.cells = [j \in Column |->
                       IF j > s.used /\ j <= s.collated.column_count THEN Blank ELSE @[j]],
          !.used = s.collated.column_count]

(* realloc is asked for a size of 0 for the second time: glibc frees the block
   and returns NULL, which collate_header_append takes for a lack of memory. *)
AppendFails(s) ==
  /\ s.collated.have
  /\ \A j \in Column : s.collated.text[j] = Blank
  /\ RowIsBlank(s)

(* Faulty: a cell's text goes before that of the rows above it. *)
CollateHeaderAppend_Reversed(s) ==
  [s EXCEPT !.collated =
     [ have |-> TRUE,
       column_count |-> Wider(s.used, s.collated.column_count),
       text |-> [j \in Column |-> IF j <= s.used THEN s.cells[j] \o s.collated.text[j]
                                  ELSE s.collated.text[j]] ]]

(* collate_header_append: every cell's text goes behind that of its column. *)
CollateHeaderAppend(s) ==
  [s EXCEPT !.collated =
     [ have |-> TRUE,
       column_count |-> Wider(s.used, s.collated.column_count),
       text |-> [j \in Column |-> IF j <= s.used THEN s.collated.text[j] \o s.cells[j]
                                  ELSE s.collated.text[j]] ]]

NothingCollated == [have |-> FALSE, column_count |-> 0, text |-> NoCells]

(* collate_header_row; the collated header is kept in pull mode, where the
   caller still needs it. *)
CollateHeaderRow(s) ==
  LET padded == PadToHeader([s EXCEPT !.header_span = @ - 1])
      saved  == CollateHeaderAppend(padded)
      header == [SetCallbacks(saved) EXCEPT
                   !.cells = [j \in Column |-> IF j <= saved.collated.column_count
                                               THEN saved.collated.text[j] ELSE @[j]]]
      given  == ApplyToCaller(header)
  IN  IF AppendFails(padded) THEN [padded EXCEPT !.abort = TRUE, !.freed = TRUE]
      ELSE IF saved.header_span > 0 THEN saved
      ELSE IF options.mode = "pull" THEN given
      ELSE [given EXCEPT !.collated = NothingCollated]

(* apply_callbacks: the current row goes to whatever handler is installed. *)
ApplyCallbacks(s) ==
  IF s.row_handler = "collate" THEN CollateHeaderRow(s) ELSE ApplyToCaller(s)

(* skip_to_first_row_w_data: the first row with data is not skipped. *)
SkipToFirstRowWithData(s) ==
  IF RowIsBlank(s) THEN [s EXCEPT !.empty_header_rows = @ + 1]
  ELSE ApplyCallbacks(SetCallbacks([s EXCEPT !.keep_empty_header_rows = TRUE]))

(* ignore_header_rows: the last ignored row is not passed on. *)
IgnoreHeaderRow(s) ==
  LET ignored == [s EXCEPT !.rows_to_ignore = @ - 1]
  IN  IF ignored.rows_to_ignore > 0 THEN ignored ELSE SetCallbacks(ignored)

(* Faulty: the tail goes to the caller's handler, once that is back. *)
ThrowawayRow_PassOn(s) ==
  LET restored == SetCallbacks([s EXCEPT !.buffer_exceeded = FALSE])
  IN  IF restored.row_handler \in Caller THEN CallerRow(restored) ELSE restored

(* zsv_throwaway_row: the tail of a row that did not fit. *)
ThrowawayRow(s) ==
  LET overflows == options.mode = "push" /\ s.used > 0
                   /\ (s.used > 1 \/ s.cells[1] # Blank)
      told == IF overflows THEN Called(s, "overflow") ELSE s
  IN  SetCallbacks([told EXCEPT !.buffer_exceeded = FALSE])

(* opts.row_handler *)
CallRowHandler(s) ==
  CASE s.row_handler = "ignore"    -> IgnoreHeaderRow(s)
    [] s.row_handler = "skip"      -> SkipToFirstRowWithData(s)
    [] s.row_handler = "collate"   -> CollateHeaderRow(s)
    [] s.row_handler = "throwaway" -> ThrowawayRow(s)
    [] s.row_handler \in Caller    -> CallerRow(s)

-----------------------------------------------------------------------------
(* row_dl: the handler, the row limit, and an abort in the handler.         *)

AtMaxRows(s) == options.max_rows > 0 /\ s.cum_row_count = options.max_rows

(* stop: one of the caller's functions, if the row reached one, aborted. *)
RowDl(s, stop) ==
  LET handled == CallRowHandler(s)
      counted == [handled EXCEPT
                    !.cum_row_count = @ + 1,
                    !.abort = @ \/ (stop /\ handled.called # s.called)]
      limited == [counted EXCEPT !.abort = @ \/ AtMaxRows(counted)]
  IN  [limited EXCEPT !.used = IF counted.abort /\ ~AtMaxRows(counted) THEN @ ELSE 0]

RowStat(s) ==
  IF ~s.abort THEN "ok" ELSE IF AtMaxRows(s) THEN "max_rows_read" ELSE "cancelled"

Stops == IF CallerAborts THEN BOOLEAN ELSE {FALSE}

-----------------------------------------------------------------------------
(* zsv_new and, in pull mode, the first zsv_next_row, which installs
   zsv_pull_row.  Overwrites are opened after set_callbacks has run. *)

NewScanner(o) ==
  LET handler == IF o.mode = "pull" THEN "pull" ELSE "header"
  IN
  [ rows_to_ignore |-> o.rows_to_ignore,
    keep_empty_header_rows |-> o.keep_empty_header_rows,
    header_span |-> o.header_span,
    overwrite |-> FALSE, get_cell |-> "none",
    row_handler |-> handler, cell_handler |-> o.mode = "push", ctx |-> "caller",
    orig_row_handler |-> handler,
    orig_cell_handler |-> o.mode = "push",
    cells |-> NoCells, used |-> 0, collated |-> NothingCollated, freed |-> FALSE,
    empty_header_rows |-> 0, data_row_count |-> 0, cum_row_count |-> 0,
    buffer_exceeded |-> FALSE, abort |-> FALSE, now |-> FALSE, row_used |-> 0,
    seen |-> <<>>, called |-> <<>> ]

Init ==
  /\ options \in Options
  /\ scanner = [SetCallbacks(NewScanner(options)) EXCEPT !.overwrite = options.overwrite]
  /\ pc = "scan" /\ stat = "ok"
  /\ input = <<>> /\ calls = <<>>

Room == Len(input) < MaxPieces

(* zsv_insert_string is scanned as a first row, and a line end at the end of
   the string as a second, blank one. *)
InsertedRows == CASE options.insert = "none" -> 0
                  [] options.insert = "row"  -> 1
                  [] options.insert = "line" -> 2
Inserting == Len(input) < InsertedRows

NextShapes == IF Len(input) = 1 /\ Inserting THEN {<<FALSE>>} ELSE Shapes

(* A piece of a row: it ends with a line end, at the end of the input, or
   because it fills the buffer. *)
AddPiece(cells, cut) ==
  input' = Append(input, [cells |-> cells, cut |-> cut, tail |-> scanner.buffer_exceeded])

(* The caller has seen what the handlers of s called it with. *)
Give(s) ==
  /\ scanner' = [s EXCEPT !.called = <<>>]
  /\ calls' = calls \o s.called

(* The scan loop behind a line end. *)
PastLineEnd(s) == [s EXCEPT !.used = 0, !.data_row_count = @ + 1]

(* zsv_next_row returns the row that zsv_pull_row was told of. *)
Returned(s) == Called([s EXCEPT !.now = FALSE, !.used = s.row_used], "next_row")

(* An inserted row does not return its status from zsv_parse_more: the scan of
   the input goes on with the cell_start of the row that was cancelled. *)
Undefined(s) == s.freed \/ (s.abort /\ Inserting /\ options.mode = "push")

(* A row ends with a line end. *)
EndRow ==
  /\ pc = "scan" /\ Room
  /\ \E shape \in NextShapes, stop \in Stops :
       LET cells == RowOf(Len(input) + 1, shape)
           s     == RowDl(AddCells(scanner, cells), stop)
       IN
       /\ AddPiece(cells, FALSE)
       /\ \/ /\ Undefined(s)
             /\ Give(s) /\ pc' = "undefined" /\ UNCHANGED stat
          \/ /\ ~Undefined(s) /\ s.abort
             /\ Give(s) /\ pc' = "idle" /\ stat' = RowStat(s)
          \/ /\ ~Undefined(s) /\ ~s.abort /\ ~s.now
             /\ Give(PastLineEnd(s)) /\ UNCHANGED <<pc, stat>>
          \/ /\ ~Undefined(s) /\ ~s.abort /\ s.now
             /\ Give(Returned(s)) /\ pc' = "idle" /\ stat' = "row"
  /\ UNCHANGED options

(* The row fills the buffer: its finished cells are delivered and the next
   piece is thrown away.  If that is cancelled, the status is taken for the
   capacity of the buffer (see TruncateRow of ZsvScan). *)
CutRow ==
  /\ pc = "scan" /\ Room /\ MayCut /\ ~Inserting
  /\ \E shape \in Shapes \cup {<<>>}, stop \in Stops :
       LET cells == RowOf(Len(input) + 1, shape)
           s     == RowDl(AddCells(scanner, cells), stop)
       IN
       /\ AddPiece(cells, TRUE)
       /\ IF s.abort THEN Give(s) /\ pc' = "undefined"
          ELSE /\ Give([s EXCEPT !.buffer_exceeded = TRUE, !.row_handler = "throwaway",
                                 !.ctx = "scanner"])
               /\ UNCHANGED pc
  /\ UNCHANGED <<options, stat>>

(* zsv_finish, which the caller of the push parser calls at the end of the
   input or after an error, and zsv_next_row at the end of the input.  The
   last row has no line end; there is none if the input ends with one. *)
FinishWith(last, stop) ==
  LET s == RowDl(AddCells([scanner EXCEPT !.now = FALSE], last), stop)
      finished == [scanner EXCEPT !.now = FALSE]
  IN
  IF scanner.abort \/ last = <<>>
  THEN /\ Give(finished) /\ pc' = "done" /\ UNCHANGED input
       /\ stat' = IF options.mode = "pull" THEN "done"
                  ELSE IF scanner.abort THEN "cancelled" ELSE "ok"
  ELSE /\ AddPiece(last, FALSE)
       /\ \/ /\ s.freed
             /\ Give(s) /\ pc' = "undefined" /\ UNCHANGED stat
          \/ /\ ~s.freed /\ s.now
             /\ Give(Returned(s)) /\ pc' = "idle" /\ stat' = "done"
          \/ /\ ~s.freed /\ ~s.now
             /\ Give(s) /\ pc' = "done"
             /\ stat' = IF options.mode = "pull" THEN "done"
                        ELSE IF s.abort THEN "cancelled" ELSE "ok"

Finish ==
  /\ ~Inserting
  /\ pc = "scan" \/ (pc = "idle" /\ options.mode = "push")
  /\ \/ FinishWith(<<>>, FALSE)
     \/ /\ pc = "scan" /\ Room
        /\ \E shape \in Shapes, stop \in Stops : FinishWith(RowOf(Len(input) + 1, shape), stop)
  /\ UNCHANGED options

(* zsv_next_row again: the scan loop resumes behind the row it returned. *)
ResumeScan ==
  /\ pc = "idle" /\ options.mode = "pull" /\ stat = "row"
  /\ Give(PastLineEnd(scanner)) /\ pc' = "scan"
  /\ UNCHANGED <<options, stat, input>>

(* After any other status zsv_next_row returns it again. *)
NoMoreRows ==
  /\ pc = "idle" /\ options.mode = "pull" /\ stat # "row"
  /\ pc' = "done"
  /\ UNCHANGED <<options, scanner, stat, input, calls>>

AbortBetweenCalls ==
  /\ CallerAborts /\ ~Inserting
  /\ IF options.mode = "pull" THEN pc = "idle" /\ stat = "row" ELSE pc = "scan"
  /\ scanner' = [scanner EXCEPT !.abort = TRUE]
  /\ UNCHANGED <<options, pc, stat, input, calls>>

Next == EndRow \/ CutRow \/ Finish \/ ResumeScan \/ NoMoreRows \/ AbortBetweenCalls

Spec == Init /\ [][Next]_vars

-----------------------------------------------------------------------------
Given ==
  [ to : {"header", "data", "overflow", "next_row"}, ctx : {"scanner", "caller"},
    cells : Seq(Text), number : Nat, seen : Seq(Text),
    get_cell : {"none", "plain", "overwrite"} ]

Scanner ==
  [ rows_to_ignore : Nat, keep_empty_header_rows : BOOLEAN, header_span : Nat,
    overwrite : BOOLEAN, get_cell : {"none", "plain", "overwrite"},
    row_handler : Chain \cup Caller \cup {"throwaway"},
    cell_handler : BOOLEAN, ctx : {"scanner", "caller"},
    orig_row_handler : Caller, orig_cell_handler : BOOLEAN,
    cells : [Column -> Text], used : 0 .. MaxCols,
    collated : [have : BOOLEAN, column_count : 0 .. MaxCols, text : [Column -> Text]],
    freed : BOOLEAN, empty_header_rows : Nat, data_row_count : Nat,
    cum_row_count : Nat, buffer_exceeded : BOOLEAN, abort : BOOLEAN,
    now : BOOLEAN, row_used : 0 .. MaxCols,
    seen : Seq(Text), called : Seq(Given) ]

InputPiece == [cells : Seq(Text), cut : BOOLEAN, tail : BOOLEAN]

(* Every field stays within its type: no counter of the chain passes 0, and no
   row is longer than row.cells. *)
TypeOK ==
  /\ options \in Options
  /\ scanner \in Scanner
  /\ pc \in {"scan", "idle", "done", "undefined"}
  /\ stat \in {"ok", "row", "done", "cancelled", "max_rows_read"}
  /\ input \in Seq(InputPiece)
  /\ calls \in Seq(Given)

(* overflow_row_handler is not one of the caller's row handlers. *)
IsRowCall(call) == call.to # "overflow"

(* The first row goes to the header handler and all others to the data handler,
   with the caller's context and cells that can be read. *)
HeaderFirst(cs) ==
  \A k \in DOMAIN cs : IsRowCall(cs[k]) =>
    /\ cs[k].to = IF \E m \in 1 .. k - 1 : IsRowCall(cs[m]) THEN "data" ELSE "header"
    /\ cs[k].ctx = "caller"
    /\ cs[k].get_cell # "none"

(* In push mode the caller's first row goes to its header handler and every
   other row to the data handler the header handler installs, each with the
   caller's own context and with cells that zsv_get_cell can read: also when the
   header is cut, ignored rows are cut, or the switch happens inside the chain. *)
HeaderThenData == options.mode = "push" => HeaderFirst(calls)

(* With a handler of the chain in front of the caller's. *)
LateOverwrites ==
  /\ options.overwrite
  /\ options.rows_to_ignore > 0 \/ ~options.keep_empty_header_rows \/ options.header_span > 1

Overwritten(cs) ==
  \A k \in DOMAIN cs : IsRowCall(cs[k]) => cs[k].get_cell = "overwrite"

(* Overwrites are opened after the first handlers are installed; a chain of
   handlers that ends later puts them into use, for every row of the caller. *)
OverwritesInUse == LateOverwrites => Overwritten(calls)

(* The rows of the input that a text was read from are no tails. *)
NoTail(text) == \A k \in DOMAIN text : ~input[text[k][1]].tail

(* What is thrown away ends with the row that was cut: no row that the caller
   is given in push mode has a cell of a tail, also when the chain was at work
   while the row was cut, and when the tail is longer than the buffer again. *)
NoTailInRows ==
  options.mode = "push" =>
    \A k \in DOMAIN calls : IsRowCall(calls[k]) =>
      \A j \in DOMAIN calls[k].cells : NoTail(calls[k].cells[j])

-----------------------------------------------------------------------------
(* What the caller of the zsv library is promised about its rows, whatever
   handlers have seen them first. *)


(* The pieces that row_dl counts: all, or as many as max_rows allows. *)
Counted ==
  IF options.max_rows > 0 /\ options.max_rows < Len(input)
  THEN SubSeq(input, 1, options.max_rows) ELSE input

(* The members of s at the positions in keep, in order. *)
Kept(s, keep) ==
  LET upto[n \in 0 .. Len(s)] ==
        IF n = 0 THEN <<>>
        ELSE IF n \in keep THEN Append(upto[n - 1], s[n]) ELSE upto[n - 1]
  IN  upto[Len(s)]

(* The rows of the input: a row that was cut, without its tail. *)
InputRows ==
  LET pieces == Kept(Counted, {k \in DOMAIN Counted : ~Counted[k].tail})
  IN  [k \in DOMAIN pieces |-> pieces[k].cells]

HasText(row) == \E j \in DOMAIN row : row[j] # Blank

(* The rows behind those to ignore and, unless they are kept, behind the
   blank ones that follow. *)
Body(rows, o) ==
  LET kept  == SubSeq(rows, o.rows_to_ignore + 1, Len(rows))
      texts == {k \in DOMAIN kept : HasText(kept[k])}
      first == IF o.keep_empty_header_rows THEN 1
               ELSE IF texts = {} THEN Len(kept) + 1
               ELSE CHOOSE k \in texts : \A m \in texts : k <= m
  IN  SubSeq(kept, first, Len(kept))

(* One row of n columns that holds the rows, one above the other. *)
Collated(rows, n) ==
  [j \in 1 .. n |->
     FlattenSeq([k \in DOMAIN rows |-> IF j \in DOMAIN rows[k] THEN rows[k][j] ELSE Blank])]

(* The rows that the caller is given: a header of as many columns as its first
   row, and the rows behind it.  A header that is not complete is not given. *)
RowsPromised(rows, o) ==
  LET body == Body(rows, o)
      span == Wider(1, o.header_span)
      top  == SubSeq(body, 1, span)
  IN  IF Len(body) < span THEN <<>>
      ELSE <<IF span = 1 THEN top[1] ELSE Collated(top, Len(top[1]))>>
           \o SubSeq(body, span + 1, Len(body))

RowCalls == Kept(calls, {k \in DOMAIN calls : IsRowCall(calls[k])})
RowsGiven == [k \in DOMAIN RowCalls |-> RowCalls[k].cells]

Truncated == \E k \in DOMAIN input : input[k].cut

(* The caller is given the rows of the input, in order and each once, without
   those it asked to ignore or skip, and with its header rows made one: through
   every handler of the chain, every way to suspend the scan, and for a row that
   is cut.  In pull mode the row that aborts the parse, or that is the last of
   max_rows, is missing.  Not covered, because the code does otherwise: a row
   that is cut in pull mode or within a header of several rows. *)
RowsOfInput ==
  LET promised == RowsPromised(InputRows, options)
      exempt   == \/ pc = "undefined"
                  \/ Truncated /\ (options.mode = "pull" \/ options.header_span > 1)
  IN  exempt \/ (IF options.mode = "pull" /\ scanner.abort
                 THEN /\ IsPrefix(RowsGiven, promised)
                      /\ Len(promised) <= Len(RowsGiven) + 1
                 ELSE RowsGiven = promised)

(* The header is row 0 and rows are counted from there, whatever was consumed
   before it (zsv_internal.c: "0 = in header row; 1 = first data row"), but for
   one case: ignore_header_rows makes way for the caller's handler without
   giving it a row, and the ignored row is then counted. *)
HeaderNumber ==
  IF /\ options.rows_to_ignore > 0 /\ options.keep_empty_header_rows
     /\ options.header_span < 2
  THEN 1 ELSE 0

NumberedFromHeader ==
  ~Truncated => \A k \in DOMAIN RowCalls : RowCalls[k].number = HeaderNumber + k - 1

(* The cell handler is called for exactly the cells of the row that follows,
   in order, also for those of a collated header, and for no row that the chain
   consumes. *)
CellsThenRow ==
  options.mode = "push" /\ ~Truncated =>
    \A k \in DOMAIN calls : calls[k].seen = calls[k].cells

(* What the caller is promised: the rows, their numbers and their cells. *)
RowsAsPromised == RowsOfInput /\ NumberedFromHeader /\ CellsThenRow

=============================================================================
