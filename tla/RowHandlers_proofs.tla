------------------------- MODULE RowHandlers_proofs -------------------------
(***************************************************************************)
(* Proofs about the chain of row handlers for every value of its           *)
(* constants: its state is well typed, the caller's header handler gets    *)
(* the first row and its data handler every other one, and overwrites that *)
(* are opened late are in use for each of them; no row that it is given    *)
(* has a cell of a tail that was thrown away; and the rows that it is      *)
(* given are those of the input, in order and each once, without those to  *)
(* ignore or skip and with its header made one.                            *)
(***************************************************************************)
EXTENDS RowHandlers, TLAPS, WellFoundedInduction, SequenceTheorems

-----------------------------------------------------------------------------
(* The inductive invariant.                                                 *)

(* Each handler of the chain is installed only while there is work for it, and
   the caller's only in full: with its context, and with a way to read cells. *)
ChainInv(s) ==
  /\ s.row_handler = "ignore" => s.rows_to_ignore > 0
  /\ s.row_handler \in {"skip", "collate"} => s.rows_to_ignore = 0
  /\ s.row_handler = "collate" => s.keep_empty_header_rows /\ s.header_span > 0
  /\ s.row_handler \in Caller =>
       s.row_handler = s.orig_row_handler /\ s.ctx = "caller" /\ s.get_cell # "none"

(* Only zsv_pull_row stops the scan loop; and by the time a row is the caller's,
   overwrites are in use if they are to be. *)
ModeInv(s) ==
  /\ IF options.mode = "pull" THEN s.orig_row_handler = "pull"
     ELSE s.orig_row_handler \in {"header", "data"} /\ ~s.now
  /\ LateOverwrites =>
       s.overwrite /\ (s.row_handler \in Caller \/ s.now => s.get_cell = "overwrite")

(* s and s2 differ in nothing that the chain depends on. *)
SameChain(s, s2) ==
  /\ s2.row_handler = s.row_handler /\ s2.orig_row_handler = s.orig_row_handler
  /\ s2.rows_to_ignore = s.rows_to_ignore /\ s2.header_span = s.header_span
  /\ s2.keep_empty_header_rows = s.keep_empty_header_rows
  /\ s2.ctx = s.ctx /\ s2.get_cell = s.get_cell /\ s2.called = s.called
  /\ s2.now = s.now /\ s2.overwrite = s.overwrite

(* From s to s2 the caller has been called at most once: with a tail, or with a
   row, which goes to the handler that was in force, and the next to the data
   handler. *)
CalledOnce(s, s2) ==
  \/ s2.called = s.called /\ s2.orig_row_handler = s.orig_row_handler
  \/ \E c \in Given :
       /\ s2.called = Append(s.called, c)
       /\ \/ c.to = "overflow" /\ s2.orig_row_handler = s.orig_row_handler
          \/ /\ c.to = s.orig_row_handler /\ c.to \in {"header", "data"}
             /\ s2.orig_row_handler = "data"
             /\ c.ctx = "caller" /\ c.get_cell # "none"
             /\ LateOverwrites => c.get_cell = "overwrite"

-----------------------------------------------------------------------------
(* Rows.                                                                    *)

(* A row is a sequence of texts, no longer than row.cells. *)
LEMMA RowType ==
  ASSUME NEW s \in Scanner
  PROVE  Row(s) \in Seq(Text) /\ Len(Row(s)) <= MaxCols
PROOF
<1>1. s.used \in Nat /\ s.used <= MaxCols /\ s.cells \in [Column -> Text]
  BY OptionsAssumption DEF Scanner
<1>2. Row(s) \in [1 .. s.used -> Text]
  BY <1>1, OptionsAssumption DEF Row, Column
<1>3. Row(s) \in Seq(Text)
  BY <1>1, <1>2
<1>4. Len(Row(s)) = s.used
  BY <1>1, <1>2, <1>3
<1> QED BY <1>1, <1>3, <1>4

(* cell_dl changes nothing but the row and what the cell handler has seen. *)
LEMMA AddCellsFacts ==
  ASSUME NEW s \in Scanner, NEW cells \in Seq(Text)
  PROVE  AddCells(s, cells) \in Scanner /\ SameChain(s, AddCells(s, cells))
PROOF
<1> DEFINE s2 == AddCells(s, cells)
<1>1. [j \in Column |-> IF j > s.used /\ j <= s.used + Len(cells)
                        THEN cells[j - s.used] ELSE s.cells[j]] \in [Column -> Text]
  BY OptionsAssumption, SMTT(30) DEF Scanner, Column
<1>2. (IF s.used + Len(cells) > MaxCols THEN MaxCols ELSE s.used + Len(cells)) \in 0 .. MaxCols
  BY OptionsAssumption DEF Scanner
<1>3. (IF s.cell_handler THEN s.seen \o cells ELSE s.seen) \in Seq(Text)
  BY DEF Scanner
<1>4. s2 \in Scanner
  BY <1>1, <1>2, <1>3, ZenonT(60) DEF AddCells, Scanner
<1>5. SameChain(s, s2)
  BY DEF AddCells, Scanner, SameChain
<1> QED BY <1>4, <1>5

-----------------------------------------------------------------------------
(* The handlers.                                                            *)

(* What set_callbacks does not touch. *)
Untouched(s, s2) ==
  /\ s2.orig_row_handler = s.orig_row_handler /\ s2.called = s.called
  /\ s2.now = s.now /\ s2.overwrite = s.overwrite
  /\ s2.rows_to_ignore = s.rows_to_ignore
  /\ s2.header_span = s.header_span
  /\ s2.keep_empty_header_rows = s.keep_empty_header_rows

(* Overwrites are in use in s2 if it is the caller's turn or if they were in s. *)
InUse(s, s2) ==
  s2.row_handler \in Caller \/ s.get_cell = "overwrite" => s2.get_cell = "overwrite"

(* A handler of the chain is installed without touching anything else. *)
LEMMA InstalledFacts ==
  ASSUME NEW s \in Scanner, NEW handler \in Chain
  PROVE  /\ Installed(s, handler) \in Scanner
         /\ Installed(s, handler).row_handler = handler
         /\ Untouched(s, Installed(s, handler))
         /\ InUse(s, Installed(s, handler))
PROOF
<1>1. Installed(s, handler) \in Scanner
  BY DEF Installed, Scanner
<1>2. Installed(s, handler).row_handler = handler
  BY DEF Installed, Scanner
<1>3. Untouched(s, Installed(s, handler))
  BY DEF Installed, Scanner, Untouched
<1>4. InUse(s, Installed(s, handler))
  BY DEF Installed, Scanner, InUse, Chain, Caller
<1> QED BY <1>1, <1>2, <1>3, <1>4

(* set_callbacks leaves a handler installed that has work to do, and never the
   one that throws rows away. *)
LEMMA SetCallbacksFacts ==
  ASSUME NEW s \in Scanner
  PROVE  /\ SetCallbacks(s) \in Scanner /\ ChainInv(SetCallbacks(s))
         /\ Untouched(s, SetCallbacks(s))
         /\ SetCallbacks(s).row_handler # "throwaway"
         /\ s.rows_to_ignore = 0 => SetCallbacks(s).row_handler # "ignore"
         /\ s.keep_empty_header_rows => SetCallbacks(s).row_handler # "skip"
         /\ s.header_span = 0 => SetCallbacks(s).row_handler # "collate"
         /\ s.overwrite => InUse(s, SetCallbacks(s))
         /\ s.rows_to_ignore > 0 \/ ~s.keep_empty_header_rows \/ s.header_span > 1
              => SetCallbacks(s).row_handler \in Chain
PROOF
<1>0. s.rows_to_ignore \in Nat /\ s.header_span \in Nat /\ s.keep_empty_header_rows \in BOOLEAN
  BY DEF Scanner
<1>1. CASE s.rows_to_ignore > 0
  <2> DEFINE x == Installed(s, "ignore")
  <2>1. SetCallbacks(s) = x
    BY <1>1 DEF SetCallbacks
  <2>2. x \in Scanner /\ x.row_handler = "ignore" /\ Untouched(s, x) /\ InUse(s, x)
    BY InstalledFacts DEF Chain
  <2> HIDE DEF x
  <2>3. ChainInv(x)
    BY <1>1, <2>2 DEF ChainInv, Caller, Untouched
  <2> QED BY <1>0, <1>1, <2>1, <2>2, <2>3 DEF Chain
<1>2. CASE s.rows_to_ignore = 0 /\ ~s.keep_empty_header_rows
  <2> DEFINE x == Installed(s, "skip")
  <2>1. SetCallbacks(s) = x
    BY <1>2 DEF SetCallbacks
  <2>2. x \in Scanner /\ x.row_handler = "skip" /\ Untouched(s, x) /\ InUse(s, x)
    BY InstalledFacts DEF Chain
  <2> HIDE DEF x
  <2>3. ChainInv(x)
    BY <1>2, <2>2 DEF ChainInv, Caller, Untouched
  <2> QED BY <1>2, <2>1, <2>2, <2>3 DEF Chain
<1>3. CASE s.rows_to_ignore = 0 /\ s.keep_empty_header_rows /\ s.header_span > 1
  <2> DEFINE x == Installed(s, "collate")
  <2>1. SetCallbacks(s) = x
    BY <1>3 DEF SetCallbacks
  <2>2. x \in Scanner /\ x.row_handler = "collate" /\ Untouched(s, x) /\ InUse(s, x)
    BY InstalledFacts DEF Chain
  <2> HIDE DEF x
  <2>3. ChainInv(x)
    BY <1>0, <1>3, <2>2 DEF ChainInv, Caller, Untouched
  <2> QED BY <1>0, <1>3, <2>1, <2>2, <2>3 DEF Chain
<1>4. CASE s.rows_to_ignore = 0 /\ s.keep_empty_header_rows /\ ~(s.header_span > 1)
  <2>1. SetCallbacks(s) =
          [s EXCEPT !.row_handler = s.orig_row_handler, !.cell_handler = s.orig_cell_handler,
                    !.ctx = "caller", !.data_row_count = 0,
                    !.get_cell = IF s.overwrite THEN "overwrite" ELSE "plain"]
    BY <1>4 DEF SetCallbacks
  <2>2. SetCallbacks(s) \in Scanner
    <3> DEFINE reader == IF s.overwrite THEN "overwrite" ELSE "plain"
    <3>1. reader \in {"none", "plain", "overwrite"}
      OBVIOUS
    <3>2. /\ s.orig_row_handler \in Chain \cup Caller \cup {"throwaway"}
          /\ s.orig_cell_handler \in BOOLEAN
      BY DEF Scanner
    <3> HIDE DEF reader
    <3>3. [s EXCEPT !.row_handler = s.orig_row_handler, !.cell_handler = s.orig_cell_handler,
                    !.ctx = "caller", !.data_row_count = 0, !.get_cell = reader] \in Scanner
      BY <3>1, <3>2 DEF Scanner
    <3> QED BY <2>1, <3>3 DEF reader
  <2>3. Untouched(s, SetCallbacks(s))
    BY <2>1 DEF Scanner, Untouched
  <2>4. /\ SetCallbacks(s).row_handler = s.orig_row_handler
        /\ SetCallbacks(s).ctx = "caller" /\ SetCallbacks(s).get_cell # "none"
        /\ s.orig_row_handler \in Caller
    BY <2>1 DEF Scanner
  <2>5. ChainInv(SetCallbacks(s))
    BY <1>4, <2>3, <2>4 DEF ChainInv, Caller, Untouched
  <2>6. s.overwrite => InUse(s, SetCallbacks(s))
    BY <2>1 DEF Scanner, InUse
  <2> QED BY <1>0, <1>4, <2>2, <2>3, <2>4, <2>5, <2>6 DEF Caller
<1> QED BY <1>0, <1>1, <1>2, <1>3, <1>4

(* set_callbacks puts overwrites into use when it installs the caller's handler. *)
LEMMA SetCallbacksMode ==
  ASSUME NEW s \in Scanner, ModeInv(s)
  PROVE  ModeInv(SetCallbacks(s))
PROOF
<1> DEFINE x == SetCallbacks(s)
<1>1. Untouched(s, x) /\ (s.overwrite => InUse(s, x))
  BY SetCallbacksFacts
<1> HIDE DEF x
<1>2. /\ x.orig_row_handler = s.orig_row_handler /\ x.now = s.now
      /\ x.overwrite = s.overwrite
  BY <1>1 DEF Untouched
<1>3. LateOverwrites =>
        x.overwrite /\ (x.row_handler \in Caller \/ x.now => x.get_cell = "overwrite")
  BY <1>1, <1>2 DEF ModeInv, InUse
<1> QED BY <1>2, <1>3 DEF ModeInv, x

(* What a call tells the caller. *)
Told(s, handler) ==
  [ to |-> handler, ctx |-> s.ctx, cells |-> Row(s), number |-> s.data_row_count,
    seen |-> s.seen, get_cell |-> s.get_cell ]

(* A call is recorded, and the chain is left alone. *)
LEMMA CalledFacts ==
  ASSUME NEW s \in Scanner, NEW handler \in {"header", "data", "overflow", "next_row"}
  PROVE  /\ Called(s, handler) \in Scanner
         /\ Told(s, handler) \in Given
         /\ Called(s, handler).called = Append(s.called, Told(s, handler))
         /\ SameChain(s, [Called(s, handler) EXCEPT !.called = s.called])
PROOF
<1> DEFINE c == Told(s, handler)
<1>1. c \in Given
  BY RowType DEF Told, Given, Scanner
<1>2. Append(s.called, c) \in Seq(Given) /\ <<>> \in Seq(Text)
  BY <1>1 DEF Scanner
<1>3. Called(s, handler) = [s EXCEPT !.called = Append(s.called, c), !.seen = <<>>]
  BY DEF Called, Told
<1> HIDE DEF c
<1>4. Called(s, handler) \in Scanner
  BY <1>2, <1>3, ZenonT(60) DEF Scanner
<1>5. Called(s, handler).called = Append(s.called, c)
  BY <1>3 DEF Scanner
<1>6. SameChain(s, [Called(s, handler) EXCEPT !.called = s.called])
  BY <1>3 DEF Scanner, SameChain
<1> QED BY <1>1, <1>4, <1>5, <1>6 DEF c

(* What any handler of a row does: the caller is told at most once, and the next
   row finds the chain in order, unless collate_header_append gave up. *)
Handled(s, s2) ==
  /\ s2 \in Scanner /\ ModeInv(s2) /\ CalledOnce(s, s2)
  /\ ChainInv(s2) \/ s2.freed

(* zsv_set_row_handler changes both the handler in use and the one to restore. *)
LEMMA SetRowHandlerFacts ==
  ASSUME NEW s \in Scanner, s.row_handler = s.orig_row_handler
  PROVE  LET s2 == SetRowHandler(s, "data") IN
         /\ s2 \in Scanner
         /\ s2.row_handler = "data" /\ s2.orig_row_handler = "data"
         /\ s2.called = s.called /\ s2.ctx = s.ctx /\ s2.get_cell = s.get_cell
         /\ s2.now = s.now /\ s2.overwrite = s.overwrite
BY DEF SetRowHandler, Scanner, Caller

(* The caller's own row handler: in push mode it is called with the row, and in
   pull mode the row is kept for zsv_next_row to return. *)
LEMMA CallerRowFacts ==
  ASSUME NEW s \in Scanner, ChainInv(s), ModeInv(s), s.row_handler \in Caller
  PROVE  Handled(s, CallerRow(s))
PROOF
<1>1. /\ s.row_handler = s.orig_row_handler /\ s.ctx = "caller" /\ s.get_cell # "none"
      /\ LateOverwrites => s.overwrite /\ s.get_cell = "overwrite"
  BY DEF ChainInv, ModeInv
<1>2. CASE s.row_handler = "pull"
  <2>1. CallerRow(s) = [s EXCEPT !.now = TRUE, !.row_used = s.used]
    BY <1>2 DEF CallerRow
  <2>2. CallerRow(s) \in Scanner
    BY <2>1, ZenonT(60) DEF Scanner
  <2>3. options.mode = "pull"
    BY <1>1, <1>2 DEF ModeInv
  <2>4. ModeInv(CallerRow(s)) /\ ChainInv(CallerRow(s)) /\ CalledOnce(s, CallerRow(s))
    BY <1>1, <1>2, <2>1, <2>3, ZenonT(60) DEF ModeInv, ChainInv, CalledOnce, Scanner
  <2> QED BY <2>2, <2>4 DEF Handled
<1>3. CASE s.row_handler \in {"header", "data"}
  <2> DEFINE handler == s.row_handler
             x == Called(s, handler)
  <2>0. handler \in {"header", "data", "overflow", "next_row"}
    BY <1>3
  <2> HIDE DEF handler
  <2>1. x \in Scanner /\ SameChain(s, [x EXCEPT !.called = s.called])
    BY <2>0, CalledFacts
  <2> DEFINE c == Told(s, handler)
  <2>2. /\ c \in Given /\ x.called = Append(s.called, c) /\ c.to = handler
        /\ c.ctx = s.ctx /\ c.get_cell = s.get_cell
    BY <2>0, CalledFacts DEF Told
  <2> USE DEF handler
  <2> HIDE DEF x, c
  <2>3. /\ x.row_handler = s.row_handler /\ x.orig_row_handler = s.row_handler
        /\ x.ctx = "caller" /\ x.get_cell # "none" /\ x.now = s.now
        /\ LateOverwrites => x.overwrite /\ x.get_cell = "overwrite"
    BY <1>1, <2>1 DEF SameChain, Scanner
  <2>4. /\ ~x.now /\ options.mode # "pull"
    BY <1>1, <1>3, <2>3 DEF ModeInv
  <2>5. CASE s.row_handler = "data"
    <3>1. CallerRow(s) = x
      BY <2>5 DEF CallerRow, x
    <3>2. ModeInv(x) /\ ChainInv(x)
      BY <2>3, <2>4, <2>5 DEF ModeInv, ChainInv
    <3>3. CalledOnce(s, x)
      BY <1>1, <2>2, <2>3, <2>5 DEF CalledOnce
    <3> QED BY <2>1, <3>1, <3>2, <3>3 DEF Handled
  <2>6. CASE s.row_handler = "header"
    <3> DEFINE y == SetRowHandler(x, "data")
    <3>1. CallerRow(s) = y
      BY <2>6 DEF CallerRow, x
    <3>2. /\ y \in Scanner /\ y.row_handler = "data" /\ y.orig_row_handler = "data"
          /\ y.called = x.called /\ y.ctx = x.ctx /\ y.get_cell = x.get_cell /\ y.now = x.now
          /\ y.overwrite = x.overwrite
      BY <2>1, <2>3, SetRowHandlerFacts
    <3> HIDE DEF y
    <3>3. ModeInv(y) /\ ChainInv(y)
      BY <2>3, <2>4, <3>2 DEF ModeInv, ChainInv
    <3>4. CalledOnce(s, y)
      BY <1>1, <2>2, <2>6, <3>2 DEF CalledOnce
    <3> QED BY <3>1, <3>2, <3>3, <3>4 DEF Handled
  <2> QED BY <1>3, <2>5, <2>6
<1> QED BY <1>2, <1>3 DEF Caller

(* apply_callbacks, with the caller's handlers in place. *)
LEMMA ApplyToCallerFacts ==
  ASSUME NEW s \in Scanner, ChainInv(s), ModeInv(s), s.row_handler \in Caller
  PROVE  Handled(s, ApplyToCaller(s))
PROOF
<1> DEFINE cells == IF s.cell_handler THEN s.seen \o Row(s) ELSE s.seen
           x == [s EXCEPT !.seen = cells]
<1>1. cells \in Seq(Text)
  BY RowType DEF Scanner
<1>2. ApplyToCaller(s) = CallerRow(x)
  BY DEF ApplyToCaller
<1> HIDE DEF cells
<1>3. x \in Scanner /\ SameChain(s, x)
  BY <1>1 DEF Scanner, SameChain
<1> HIDE DEF x
<1>4. ChainInv(x) /\ ModeInv(x) /\ x.row_handler \in Caller
  BY <1>3 DEF SameChain, ChainInv, ModeInv
<1>5. Handled(x, CallerRow(x))
  BY <1>3, <1>4, CallerRowFacts
<1> QED BY <1>2, <1>3, <1>5 DEF Handled, CalledOnce, SameChain

(* Padding and collating keep the types, and leave the chain alone. *)
LEMMA PadToHeaderFacts ==
  ASSUME NEW s \in Scanner
  PROVE  PadToHeader(s) \in Scanner /\ SameChain(s, PadToHeader(s))
PROOF
<1> DEFINE cells == [j \in Column |->
                       IF j > s.used /\ j <= s.collated.column_count THEN Blank ELSE s.cells[j]]
<1>1. cells \in [Column -> Text]
  BY DEF Scanner, Blank, Text
<1>2. s.collated.column_count \in 0 .. MaxCols
  BY DEF Scanner
<1>3. CASE ~s.collated.have
  BY <1>3 DEF PadToHeader, SameChain
<1>4. CASE s.collated.have
  <2>1. PadToHeader(s) = [s EXCEPT !.cells = cells, !.used = s.collated.column_count]
    BY <1>4 DEF PadToHeader
  <2> HIDE DEF cells
  <2>2. PadToHeader(s) \in Scanner
    BY <1>1, <1>2, <2>1, ZenonT(60) DEF Scanner
  <2>3. SameChain(s, PadToHeader(s))
    BY <2>1 DEF Scanner, SameChain
  <2> QED BY <2>2, <2>3
<1> QED BY <1>3, <1>4

(* The same for the text that is collated. *)
LEMMA CollateHeaderAppendFacts ==
  ASSUME NEW s \in Scanner
  PROVE  CollateHeaderAppend(s) \in Scanner /\ SameChain(s, CollateHeaderAppend(s))
PROOF
<1> DEFINE text == [j \in Column |-> IF j <= s.used THEN s.collated.text[j] \o s.cells[j]
                                     ELSE s.collated.text[j]]
           width == Wider(s.used, s.collated.column_count)
<1>1. s.collated.text \in [Column -> Text] /\ s.cells \in [Column -> Text]
  BY DEF Scanner
<1>2. text \in [Column -> Text]
  BY <1>1 DEF Text
<1>3. width \in 0 .. MaxCols
  BY DEF Scanner, Wider
<1>4. CollateHeaderAppend(s) =
        [s EXCEPT !.collated = [have |-> TRUE, column_count |-> width, text |-> text]]
  BY DEF CollateHeaderAppend
<1> HIDE DEF text, width
<1>5. [have |-> TRUE, column_count |-> width, text |-> text] \in
        [have : BOOLEAN, column_count : 0 .. MaxCols, text : [Column -> Text]]
  BY <1>2, <1>3
<1>6. CollateHeaderAppend(s) \in Scanner
  BY <1>4, <1>5, ZenonT(60) DEF Scanner
<1>7. SameChain(s, CollateHeaderAppend(s))
  BY <1>4 DEF Scanner, SameChain
<1> QED BY <1>6, <1>7

(* set_callbacks with nothing left to ignore, to skip or to collate installs the
   caller's handler. *)
LEMMA CallerInstalled ==
  ASSUME NEW s \in Scanner, s.rows_to_ignore = 0, s.keep_empty_header_rows, s.header_span = 0
  PROVE  SetCallbacks(s).row_handler \in Caller
PROOF
<1>1. /\ SetCallbacks(s).row_handler \notin {"ignore", "skip", "collate", "throwaway"}
      /\ SetCallbacks(s) \in Scanner
  BY SetCallbacksFacts
<1>2. SetCallbacks(s).row_handler \in Chain \cup Caller \cup {"throwaway"}
  BY <1>1 DEF Scanner
<1> QED BY <1>1, <1>2 DEF Chain

(* A collated header is given to the caller in the place of its last row, and
   until then the caller gets nothing. *)
LEMMA CollateHeaderRowFacts ==
  ASSUME NEW s \in Scanner, ChainInv(s), ModeInv(s), s.row_handler = "collate"
  PROVE  Handled(s, CollateHeaderRow(s))
PROOF
<1> DEFINE d == [s EXCEPT !.header_span = @ - 1]
           padded == PadToHeader(d)
           saved  == CollateHeaderAppend(padded)
           shown  == [j \in Column |-> IF j <= saved.collated.column_count
                                       THEN saved.collated.text[j]
                                       ELSE SetCallbacks(saved).cells[j]]
           header == [SetCallbacks(saved) EXCEPT !.cells = shown]
           given  == ApplyToCaller(header)
<1>1. s.rows_to_ignore = 0 /\ s.keep_empty_header_rows /\ s.header_span > 0
  BY DEF ChainInv
<1>2. /\ d \in Scanner /\ d.called = s.called /\ d.now = s.now
      /\ d.orig_row_handler = s.orig_row_handler /\ d.row_handler = "collate"
      /\ d.rows_to_ignore = 0 /\ d.keep_empty_header_rows
      /\ d.overwrite = s.overwrite /\ d.get_cell = s.get_cell
  <2> DEFINE span == s.header_span - 1
  <2>1. span \in Nat
    BY <1>1 DEF Scanner
  <2>2. d = [s EXCEPT !.header_span = span]
    BY DEF Scanner
  <2> HIDE DEF span, d
  <2>3. d \in Scanner
    BY <2>1, <2>2 DEF Scanner
  <2>4. /\ d.called = s.called /\ d.now = s.now
        /\ d.orig_row_handler = s.orig_row_handler /\ d.row_handler = s.row_handler
        /\ d.rows_to_ignore = s.rows_to_ignore
        /\ d.keep_empty_header_rows = s.keep_empty_header_rows
        /\ d.overwrite = s.overwrite /\ d.get_cell = s.get_cell
    BY <2>2 DEF Scanner
  <2> QED BY <1>1, <2>3, <2>4
<1>3. CollateHeaderRow(s) =
        IF AppendFails(padded) THEN [padded EXCEPT !.abort = TRUE, !.freed = TRUE]
        ELSE IF saved.header_span > 0 THEN saved
        ELSE IF options.mode = "pull" THEN given
        ELSE [given EXCEPT !.collated = NothingCollated]
  BY DEF CollateHeaderRow
<1> HIDE DEF d
<1>4. padded \in Scanner /\ SameChain(d, padded)
  BY <1>2, PadToHeaderFacts
<1> HIDE DEF padded
<1>5. saved \in Scanner /\ SameChain(padded, saved)
  BY <1>4, CollateHeaderAppendFacts
<1> HIDE DEF saved
<1>6. CASE AppendFails(padded)
  <2> DEFINE x == [padded EXCEPT !.abort = TRUE, !.freed = TRUE]
  <2>1. x \in Scanner /\ x.freed
    BY <1>4 DEF Scanner
  <2>2. ModeInv(x) /\ CalledOnce(s, x)
    <3>1. /\ x.row_handler = padded.row_handler /\ x.called = padded.called
          /\ x.orig_row_handler = padded.orig_row_handler /\ x.now = padded.now
          /\ x.overwrite = padded.overwrite /\ x.get_cell = padded.get_cell
      BY <1>4, ZenonT(60) DEF Scanner
    <3> HIDE DEF x
    <3> QED BY <1>2, <1>4, <3>1 DEF SameChain, ModeInv, CalledOnce
  <2> QED BY <1>3, <1>6, <2>1, <2>2 DEF Handled
<1>7. CASE ~AppendFails(padded) /\ saved.header_span > 0
  <2>1. ModeInv(saved) /\ CalledOnce(s, saved)
    BY <1>2, <1>4, <1>5 DEF SameChain, ModeInv, CalledOnce
  <2>2. ChainInv(saved)
    BY <1>2, <1>4, <1>5, <1>7 DEF SameChain, ChainInv, Caller
  <2> QED BY <1>3, <1>5, <1>7, <2>1, <2>2 DEF Handled
<1>8. CASE ~AppendFails(padded) /\ ~(saved.header_span > 0)
  <2> DEFINE installed == SetCallbacks(saved)
  <2>1. saved.header_span = 0 /\ saved.rows_to_ignore = 0 /\ saved.keep_empty_header_rows
    <3>1. saved.header_span \in Nat
      BY <1>5 DEF Scanner
    <3>2. saved.rows_to_ignore = 0 /\ saved.keep_empty_header_rows
      BY <1>2, <1>4, <1>5 DEF SameChain
    <3> QED BY <1>8, <3>1, <3>2
  <2>2. /\ installed \in Scanner /\ ChainInv(installed) /\ Untouched(saved, installed)
        /\ installed.row_handler \in Caller /\ ModeInv(installed)
    <3>1. ModeInv(saved)
      BY <1>2, <1>4, <1>5 DEF SameChain, ModeInv
    <3> QED BY <1>5, <2>1, <3>1, SetCallbacksFacts, SetCallbacksMode, CallerInstalled
  <2>3. header = [installed EXCEPT !.cells = shown]
    OBVIOUS
  <2>4. shown \in [Column -> Text]
    BY <1>5, <2>2 DEF Scanner
  <2> HIDE DEF installed, shown
  <2>5. header \in Scanner /\ SameChain(installed, header)
    BY <2>2, <2>3, <2>4, ZenonT(60) DEF Scanner, SameChain
  <2> HIDE DEF header
  <2>6. ChainInv(header) /\ ModeInv(header) /\ header.row_handler \in Caller
    BY <2>2, <2>5 DEF ChainInv, ModeInv, SameChain
  <2>7. Handled(header, given)
    BY <2>5, <2>6, ApplyToCallerFacts
  <2> HIDE DEF given
  <2>8. header.called = s.called /\ header.orig_row_handler = s.orig_row_handler
    BY <1>2, <1>4, <1>5, <2>2, <2>5 DEF SameChain, Untouched
  <2>9. Handled(s, given)
    BY <2>7, <2>8 DEF Handled, CalledOnce
  <2> DEFINE x == [given EXCEPT !.collated = NothingCollated]
  <2>10. NothingCollated \in
           [have : BOOLEAN, column_count : 0 .. MaxCols, text : [Column -> Text]]
    BY OptionsAssumption DEF NothingCollated, NoCells, Blank, Text
  <2>11. x \in Scanner /\ SameChain(given, x) /\ x.freed = given.freed
    BY <2>9, <2>10 DEF Handled, Scanner, SameChain
  <2> HIDE DEF x
  <2>12. Handled(s, x)
    BY <2>9, <2>11 DEF Handled, CalledOnce, SameChain, ChainInv, ModeInv
  <2> QED BY <1>3, <1>8, <2>9, <2>12 DEF x
<1> QED BY <1>6, <1>7, <1>8

(* apply_callbacks hands the row to the handler that set_callbacks installed. *)
LEMMA ApplyCallbacksFacts ==
  ASSUME NEW s \in Scanner, ChainInv(s), ModeInv(s),
         s.row_handler = "collate" \/ s.row_handler \in Caller
  PROVE  Handled(s, ApplyCallbacks(s))
PROOF
<1>1. CASE s.row_handler = "collate"
  BY <1>1, CollateHeaderRowFacts DEF ApplyCallbacks
<1>2. CASE s.row_handler \in Caller
  BY <1>2, ApplyToCallerFacts DEF ApplyCallbacks, Caller
<1> QED BY <1>1, <1>2

(* set_callbacks in a handler of the chain: the state it leaves is in order, and
   nobody has been called. *)
LEMMA Reinstalled ==
  ASSUME NEW s \in Scanner, ModeInv(s)
  PROVE  Handled(s, SetCallbacks(s))
BY SetCallbacksFacts, SetCallbacksMode DEF Handled, CalledOnce, Untouched

(* skip_to_first_row_w_data passes on the first row that is not blank. *)
LEMMA SkipFacts ==
  ASSUME NEW s \in Scanner, ChainInv(s), ModeInv(s), s.row_handler = "skip"
  PROVE  Handled(s, SkipToFirstRowWithData(s))
PROOF
<1>1. s.rows_to_ignore = 0
  BY DEF ChainInv
<1>2. CASE RowIsBlank(s)
  <2> DEFINE rows == s.empty_header_rows + 1
             x == [s EXCEPT !.empty_header_rows = rows]
  <2>0. rows \in Nat
    BY DEF Scanner
  <2>2. SkipToFirstRowWithData(s) = x
    BY <1>2 DEF SkipToFirstRowWithData
  <2> HIDE DEF rows
  <2>1. x \in Scanner /\ SameChain(s, x)
    BY <2>0 DEF Scanner, SameChain
  <2> HIDE DEF x
  <2> QED BY <2>1, <2>2 DEF Handled, CalledOnce, SameChain, ChainInv, ModeInv
<1>3. CASE ~RowIsBlank(s)
  <2> DEFINE k == [s EXCEPT !.keep_empty_header_rows = TRUE]
             x == SetCallbacks(k)
  <2>1. /\ k \in Scanner /\ k.keep_empty_header_rows /\ k.rows_to_ignore = 0
        /\ k.orig_row_handler = s.orig_row_handler /\ k.called = s.called /\ k.now = s.now
        /\ k.row_handler = s.row_handler /\ k.overwrite = s.overwrite
        /\ k.get_cell = s.get_cell
    BY <1>1, ZenonT(60) DEF Scanner
  <2>2. SkipToFirstRowWithData(s) = ApplyCallbacks(x)
    BY <1>3 DEF SkipToFirstRowWithData
  <2> HIDE DEF k
  <2>3. /\ x \in Scanner /\ ChainInv(x) /\ Untouched(k, x)
        /\ x.row_handler \notin {"ignore", "skip", "throwaway"}
    BY <2>1, SetCallbacksFacts
  <2>5. ModeInv(x)
    <3>1. ModeInv(k)
      BY <2>1 DEF ModeInv
    <3> QED BY <2>1, <3>1, SetCallbacksMode
  <2> HIDE DEF x
  <2>4. x.row_handler = "collate" \/ x.row_handler \in Caller
    BY <2>3 DEF Scanner, Chain
  <2>6. Handled(x, ApplyCallbacks(x))
    BY <2>3, <2>4, <2>5, ApplyCallbacksFacts
  <2>7. x.called = s.called /\ x.orig_row_handler = s.orig_row_handler
    BY <2>1, <2>3 DEF Untouched
  <2> QED BY <2>2, <2>6, <2>7 DEF Handled, CalledOnce
<1> QED BY <1>2, <1>3

(* ignore_header_rows counts down to 0 and not below. *)
LEMMA IgnoreFacts ==
  ASSUME NEW s \in Scanner, ChainInv(s), ModeInv(s), s.row_handler = "ignore"
  PROVE  Handled(s, IgnoreHeaderRow(s))
PROOF
<1> DEFINE left == s.rows_to_ignore - 1
           x == [s EXCEPT !.rows_to_ignore = left]
<1>1. left \in Nat
  BY DEF ChainInv, Scanner
<1>2. IgnoreHeaderRow(s) = IF x.rows_to_ignore > 0 THEN x ELSE SetCallbacks(x)
  BY DEF IgnoreHeaderRow
<1> HIDE DEF left
<1>3. /\ x \in Scanner /\ x.row_handler = s.row_handler
      /\ x.orig_row_handler = s.orig_row_handler /\ x.called = s.called /\ x.now = s.now
      /\ x.overwrite = s.overwrite /\ x.get_cell = s.get_cell
  BY <1>1 DEF Scanner
<1> HIDE DEF x
<1>4. ModeInv(x)
  BY <1>3 DEF ModeInv
<1>5. CASE x.rows_to_ignore > 0
  BY <1>2, <1>3, <1>4, <1>5 DEF Handled, CalledOnce, ChainInv, Caller
<1>6. CASE ~(x.rows_to_ignore > 0)
  BY <1>2, <1>3, <1>4, <1>6, Reinstalled DEF Handled, CalledOnce
<1> QED BY <1>5, <1>6

(* zsv_throwaway_row tells the overflow handler at most, and restores the chain. *)
LEMMA ThrowawayFacts ==
  ASSUME NEW s \in Scanner, ModeInv(s)
  PROVE  Handled(s, ThrowawayRow(s))
PROOF
<1> DEFINE overflows == options.mode = "push" /\ s.used > 0
                        /\ (s.used > 1 \/ s.cells[1] # Blank)
           told == IF overflows THEN Called(s, "overflow") ELSE s
           x == [told EXCEPT !.buffer_exceeded = FALSE]
           c == Told(s, "overflow")
<1>1. /\ told \in Scanner /\ told.orig_row_handler = s.orig_row_handler /\ told.now = s.now
      /\ told.row_handler = s.row_handler /\ told.overwrite = s.overwrite
      /\ told.get_cell = s.get_cell
      /\ \/ told.called = s.called
         \/ told.called = Append(s.called, c)
  <2> DEFINE y == Called(s, "overflow")
  <2>1. y \in Scanner /\ SameChain(s, [y EXCEPT !.called = s.called])
        /\ y.called = Append(s.called, c)
    BY CalledFacts
  <2>2. told = y \/ told = s
    OBVIOUS
  <2> HIDE DEF y, told, c
  <2>3. /\ y.orig_row_handler = s.orig_row_handler /\ y.now = s.now
        /\ y.row_handler = s.row_handler /\ y.overwrite = s.overwrite
        /\ y.get_cell = s.get_cell
    BY <2>1 DEF SameChain, Scanner
  <2> QED BY <2>1, <2>2, <2>3
<1>2. ThrowawayRow(s) = SetCallbacks(x)
  BY DEF ThrowawayRow
<1>3. c \in Given /\ c.to = "overflow"
  BY CalledFacts DEF Told
<1> HIDE DEF told, c
<1>4. /\ x \in Scanner /\ x.orig_row_handler = s.orig_row_handler /\ x.now = s.now
      /\ x.called = told.called /\ x.row_handler = s.row_handler
      /\ x.overwrite = s.overwrite /\ x.get_cell = s.get_cell
  BY <1>1, ZenonT(60) DEF Scanner
<1> HIDE DEF x
<1>5. CalledOnce(s, x)
  BY <1>1, <1>3, <1>4 DEF CalledOnce
<1>6. ModeInv(x)
  BY <1>4 DEF ModeInv
<1>7. SetCallbacks(x) \in Scanner /\ ChainInv(SetCallbacks(x)) /\ Untouched(x, SetCallbacks(x))
  BY <1>4, SetCallbacksFacts
<1>8. CalledOnce(s, SetCallbacks(x)) /\ ModeInv(SetCallbacks(x))
  BY <1>4, <1>5, <1>6, <1>7, SetCallbacksMode DEF CalledOnce, Untouched
<1> QED BY <1>2, <1>7, <1>8 DEF Handled

(* Whichever handler is installed. *)
LEMMA CallRowHandlerFacts ==
  ASSUME NEW s \in Scanner, ChainInv(s), ModeInv(s)
  PROVE  Handled(s, CallRowHandler(s))
PROOF
<1>1. CASE s.row_handler = "ignore"
  <2>1. CallRowHandler(s) = IgnoreHeaderRow(s)
    BY <1>1 DEF CallRowHandler, Caller
  <2> QED BY <1>1, <2>1, IgnoreFacts
<1>2. CASE s.row_handler = "skip"
  <2>1. CallRowHandler(s) = SkipToFirstRowWithData(s)
    BY <1>2 DEF CallRowHandler, Caller
  <2> QED BY <1>2, <2>1, SkipFacts
<1>3. CASE s.row_handler = "collate"
  <2>1. CallRowHandler(s) = CollateHeaderRow(s)
    BY <1>3 DEF CallRowHandler, Caller
  <2> QED BY <1>3, <2>1, CollateHeaderRowFacts
<1>4. CASE s.row_handler = "throwaway"
  <2>1. CallRowHandler(s) = ThrowawayRow(s)
    BY <1>4 DEF CallRowHandler, Caller
  <2> QED BY <1>4, <2>1, ThrowawayFacts
<1>5. CASE s.row_handler \in Caller
  <2>1. CallRowHandler(s) = CallerRow(s)
    BY <1>5 DEF CallRowHandler, Caller
  <2> QED BY <1>5, <2>1, CallerRowFacts
<1> QED BY <1>1, <1>2, <1>3, <1>4, <1>5 DEF Scanner, Chain

-----------------------------------------------------------------------------
(* The scanner at the end of a row.                                         *)

(* row_dl adds the row limit and the caller's abort to what the handler does. *)
LEMMA RowDlFacts ==
  ASSUME NEW s \in Scanner, ChainInv(s), ModeInv(s), NEW stop \in BOOLEAN
  PROVE  Handled(s, RowDl(s, stop))
PROOF
<1> DEFINE handled == CallRowHandler(s)
           aborted == handled.abort \/ (stop /\ handled.called # s.called)
           rows == handled.cum_row_count + 1
           counted == [handled EXCEPT !.cum_row_count = rows, !.abort = aborted]
           limit == counted.abort \/ AtMaxRows(counted)
           limited == [counted EXCEPT !.abort = limit]
           used == IF counted.abort /\ ~AtMaxRows(counted) THEN limited.used ELSE 0
           x == [limited EXCEPT !.used = used]
<1>1. RowDl(s, stop) = x
  BY DEF RowDl
<1>2. Handled(s, handled)
  BY CallRowHandlerFacts
<1> HIDE DEF handled
<1>3. handled \in Scanner
  BY <1>2 DEF Handled
<1>4. aborted \in BOOLEAN /\ rows \in Nat
  BY <1>3, SMTT(30) DEF Scanner
<1> HIDE DEF aborted, rows
<1>5. counted \in Scanner /\ SameChain(handled, counted) /\ counted.freed = handled.freed
  BY <1>3, <1>4, ZenonT(60) DEF Scanner, SameChain
<1> HIDE DEF counted
<1>6. limit \in BOOLEAN
  BY <1>5 DEF Scanner, AtMaxRows
<1> HIDE DEF limit
<1>7. limited \in Scanner /\ SameChain(counted, limited) /\ limited.freed = counted.freed
  BY <1>5, <1>6, ZenonT(60) DEF Scanner, SameChain
<1> HIDE DEF limited
<1>8. used \in 0 .. MaxCols
  BY <1>7, OptionsAssumption DEF Scanner
<1> HIDE DEF used
<1>9. x \in Scanner /\ SameChain(limited, x) /\ x.freed = limited.freed
  BY <1>7, <1>8 DEF Scanner, SameChain
<1> HIDE DEF x
<1>10. SameChain(handled, x) /\ x.freed = handled.freed
  BY <1>5, <1>7, <1>9 DEF SameChain
<1> QED BY <1>1, <1>2, <1>9, <1>10 DEF Handled, CalledOnce, SameChain, ChainInv, ModeInv

(* The cells of a row, and then its end. *)
LEMMA RowEnds ==
  ASSUME NEW s \in Scanner, ChainInv(s), ModeInv(s),
         NEW cells \in Seq(Text), NEW stop \in BOOLEAN
  PROVE  Handled(s, RowDl(AddCells(s, cells), stop))
PROOF
<1> DEFINE x == AddCells(s, cells)
<1>1. x \in Scanner /\ SameChain(s, x)
  BY AddCellsFacts
<1> HIDE DEF x
<1>2. ChainInv(x) /\ ModeInv(x)
  BY <1>1 DEF SameChain, ChainInv, ModeInv
<1>3. Handled(x, RowDl(x, stop))
  BY <1>1, <1>2, RowDlFacts
<1> QED BY <1>1, <1>3 DEF x, Handled, CalledOnce, SameChain

(* The scan loop goes on behind the line end. *)
LEMMA PastLineEndFacts ==
  ASSUME NEW s \in Scanner
  PROVE  PastLineEnd(s) \in Scanner /\ SameChain(s, PastLineEnd(s))
PROOF
<1> DEFINE row == s.data_row_count + 1
<1>1. row \in Nat /\ 0 \in 0 .. MaxCols
  BY OptionsAssumption DEF Scanner
<1>2. PastLineEnd(s) = [s EXCEPT !.used = 0, !.data_row_count = row]
  BY DEF PastLineEnd
<1> HIDE DEF row
<1> QED BY <1>1, <1>2, ZenonT(60) DEF Scanner, SameChain

(* zsv_next_row returns a row in pull mode. *)
LEMMA ReturnedFacts ==
  ASSUME NEW s \in Scanner, ChainInv(s), options.mode = "pull", ModeInv(s), s.now
  PROVE  /\ Returned(s) \in Scanner /\ ChainInv(Returned(s)) /\ ModeInv(Returned(s))
         /\ LateOverwrites /\ Overwritten(s.called) => Overwritten(Returned(s).called)
PROOF
<1> DEFINE x == [s EXCEPT !.now = FALSE, !.used = s.row_used]
           y == Called(x, "next_row")
<1>1. Returned(s) = y
  BY DEF Returned
<1>2. /\ x \in Scanner /\ x.row_handler = s.row_handler
      /\ x.orig_row_handler = s.orig_row_handler /\ x.rows_to_ignore = s.rows_to_ignore
      /\ x.header_span = s.header_span /\ x.keep_empty_header_rows = s.keep_empty_header_rows
      /\ x.ctx = s.ctx /\ x.get_cell = s.get_cell
      /\ x.overwrite = s.overwrite /\ ~x.now /\ x.called = s.called
  <2> DEFINE used == s.row_used
  <2>1. used \in 0 .. MaxCols
    BY DEF Scanner
  <2> HIDE DEF used
  <2>2. x = [s EXCEPT !.now = FALSE, !.used = used]
    BY DEF used
  <2>3. [s EXCEPT !.now = FALSE, !.used = used] \in Scanner
    BY <2>1, ZenonT(60) DEF Scanner
  <2>4. /\ x.row_handler = s.row_handler
        /\ x.orig_row_handler = s.orig_row_handler /\ x.rows_to_ignore = s.rows_to_ignore
        /\ x.header_span = s.header_span
        /\ x.keep_empty_header_rows = s.keep_empty_header_rows
        /\ x.ctx = s.ctx /\ x.get_cell = s.get_cell
        /\ x.overwrite = s.overwrite /\ ~x.now /\ x.called = s.called
    BY SMTT(30) DEF Scanner
  <2> QED BY <2>2, <2>3, <2>4
<1> HIDE DEF x
<1>3. /\ y \in Scanner /\ SameChain(x, [y EXCEPT !.called = x.called])
      /\ y.called = Append(x.called, Told(x, "next_row"))
  BY <1>2, CalledFacts
<1> HIDE DEF y
<1>4. /\ y.row_handler = s.row_handler /\ y.orig_row_handler = s.orig_row_handler
      /\ y.rows_to_ignore = s.rows_to_ignore /\ y.header_span = s.header_span
      /\ y.keep_empty_header_rows = s.keep_empty_header_rows
      /\ y.ctx = s.ctx /\ y.get_cell = s.get_cell
      /\ y.overwrite = s.overwrite /\ ~y.now
  BY <1>2, <1>3 DEF SameChain, Scanner
<1>5. ChainInv(y) /\ ModeInv(y)
  BY <1>4 DEF ChainInv, ModeInv
<1>6. LateOverwrites /\ Overwritten(s.called) => Overwritten(y.called)
  <2> SUFFICES ASSUME LateOverwrites, Overwritten(s.called) PROVE Overwritten(y.called)
    OBVIOUS
  <2> DEFINE c == Told(x, "next_row")
  <2>1. c.get_cell = "overwrite"
    BY <1>2 DEF Told, ModeInv
  <2> HIDE DEF c
  <2>2. s.called \in Seq(Given) /\ y.called = Append(s.called, c)
    BY <1>2, <1>3 DEF Scanner, c
  <2> QED BY <2>1, <2>2 DEF Overwritten
<1> QED BY <1>1, <1>3, <1>5, <1>6

(* A row of the input is a row of texts. *)
LEMMA RowOfType ==
  ASSUME NEW n \in Nat, NEW shape \in Shapes \cup {<<>>, <<FALSE>>}
  PROVE  RowOf(n, shape) \in Seq(Text)
PROOF
<1>1. PICK m \in Nat : shape \in [1 .. m -> BOOLEAN]
  <2>1. CASE shape \in Shapes
    BY <2>1, OptionsAssumption
  <2>2. CASE shape = <<>>
    <3>1. shape \in [1 .. 0 -> BOOLEAN]
      BY <2>2
    <3> QED BY <3>1
  <2>3. CASE shape = <<FALSE>>
    <3>1. DOMAIN shape = 1 .. 1 /\ shape[1] \in BOOLEAN
      BY <2>3
    <3>2. shape = [j \in 1 .. 1 |-> shape[j]]
      BY <2>3, <3>1
    <3>3. shape \in [1 .. 1 -> BOOLEAN]
      BY <3>1, <3>2
    <3> QED BY <3>3
  <2> QED BY <2>1, <2>2, <2>3
<1>2. ASSUME NEW j \in 1 .. m
      PROVE  (IF shape[j] THEN <<<<n, j>>>> ELSE Blank) \in Text
  <2>1. <<n, j>> \in Word
    BY <1>1 DEF Word
  <2>2. <<<<n, j>>>> \in Text /\ Blank \in Text
    BY <2>1 DEF Text, Blank
  <2> QED BY <2>2
<1>3. RowOf(n, shape) \in [1 .. m -> Text]
  BY <1>1, <1>2 DEF RowOf
<1> QED BY <1>1, <1>3

-----------------------------------------------------------------------------
(* What the caller has been told so far agrees with the handler it will be told
   the next row with. *)
Ordered(handler, cs) ==
  /\ HeaderFirst(cs)
  /\ handler = IF \E k \in DOMAIN cs : IsRowCall(cs[k]) THEN "data" ELSE "header"

IInv ==
  /\ TypeOK
  /\ pc # "undefined" => ChainInv(scanner)
  /\ ModeInv(scanner)
  /\ scanner.called = <<>>
  /\ options.mode = "push" => Ordered(scanner.orig_row_handler, calls)
  /\ OverwritesInUse

(* One more call keeps the order. *)
LEMMA OneMoreCall ==
  ASSUME NEW cs \in Seq(Given), NEW s, NEW s2, s.called = <<>>, CalledOnce(s, s2),
         Ordered(s.orig_row_handler, cs)
  PROVE  Ordered(s2.orig_row_handler, cs \o s2.called)
PROOF
<1>1. CASE s2.called = s.called /\ s2.orig_row_handler = s.orig_row_handler
  <2>1. cs \o s2.called = cs
    BY <1>1
  <2> QED BY <1>1, <2>1
<1>2. ASSUME NEW c \in Given, s2.called = Append(s.called, c),
             \/ c.to = "overflow" /\ s2.orig_row_handler = s.orig_row_handler
             \/ /\ c.to = s.orig_row_handler /\ c.to \in {"header", "data"}
                /\ s2.orig_row_handler = "data"
                /\ c.ctx = "caller" /\ c.get_cell # "none"
                /\ LateOverwrites => c.get_cell = "overwrite"
      PROVE  Ordered(s2.orig_row_handler, cs \o s2.called)
  <2> DEFINE more == cs \o s2.called
  <2>1. more = Append(cs, c)
    BY <1>2
  <2>2. /\ DOMAIN cs = 1 .. Len(cs) /\ DOMAIN more = 1 .. Len(cs) + 1 /\ Len(cs) \in Nat
        /\ \A k \in 1 .. Len(cs) : more[k] = cs[k]
        /\ more[Len(cs) + 1] = c
    BY <2>1
  <2> HIDE DEF more
  <2>3. \A k \in DOMAIN cs : k \in DOMAIN more /\ 1 .. k - 1 \subseteq DOMAIN cs
    BY <2>2
  <2>4. CASE c.to = "overflow" /\ s2.orig_row_handler = s.orig_row_handler
    <3>1. (\E k \in DOMAIN more : IsRowCall(more[k])) <=> (\E k \in DOMAIN cs : IsRowCall(cs[k]))
      BY <2>2, <2>4 DEF IsRowCall
    <3>2. HeaderFirst(more)
      BY <2>2, <2>4, SMTT(30) DEF HeaderFirst, Ordered, IsRowCall
    <3> QED BY <2>4, <3>1, <3>2 DEF Ordered, more
  <2>5. CASE /\ c.to = s.orig_row_handler /\ c.to \in {"header", "data"}
             /\ s2.orig_row_handler = "data"
             /\ c.ctx = "caller" /\ c.get_cell # "none"
    <3>1. \E k \in DOMAIN more : IsRowCall(more[k])
      BY <2>2, <2>5 DEF IsRowCall
    <3>2. HeaderFirst(more)
      BY <2>2, <2>5, SMTT(30) DEF HeaderFirst, Ordered, IsRowCall
    <3> QED BY <2>5, <3>1, <3>2 DEF Ordered, more
  <2> QED BY <1>2, <2>4, <2>5
<1> QED BY <1>1, <1>2 DEF CalledOnce

(* So does it keep overwrites in use. *)
LEMMA OverwrittenOnce ==
  ASSUME NEW s, NEW s2, s.called = <<>>, CalledOnce(s, s2), LateOverwrites
  PROVE  Overwritten(s2.called)
PROOF
<1>1. CASE s2.called = s.called
  BY <1>1 DEF Overwritten
<1>2. ASSUME NEW c \in Given, s2.called = Append(s.called, c),
             c.to = "overflow" \/ c.get_cell = "overwrite"
      PROVE  Overwritten(s2.called)
  <2>1. s2.called = <<c>>
    BY <1>2
  <2> QED BY <1>2, <2>1 DEF Overwritten, IsRowCall
<1> QED BY <1>1, <1>2 DEF CalledOnce

(* The end of every step: the caller has what the handlers of s called it with. *)
LEMMA GiveFacts ==
  ASSUME IInv, NEW s \in Scanner, ModeInv(s), Give(s), options' = options,
         \/ CalledOnce(scanner, s)
         \/ options.mode # "push" /\ (LateOverwrites => Overwritten(s.called)),
         ChainInv(s) \/ pc' = "undefined",
         pc' \in {"scan", "idle", "done", "undefined"},
         stat' \in {"ok", "row", "done", "cancelled", "max_rows_read"},
         input' \in Seq(InputPiece)
  PROVE  IInv'
PROOF
<1>1. scanner' = [s EXCEPT !.called = <<>>] /\ calls' = calls \o s.called
  BY DEF Give
<1>2. /\ scanner' \in Scanner /\ scanner'.called = <<>>
      /\ scanner'.row_handler = s.row_handler /\ scanner'.orig_row_handler = s.orig_row_handler
      /\ scanner'.rows_to_ignore = s.rows_to_ignore /\ scanner'.header_span = s.header_span
      /\ scanner'.keep_empty_header_rows = s.keep_empty_header_rows
      /\ scanner'.ctx = s.ctx /\ scanner'.get_cell = s.get_cell /\ scanner'.now = s.now
      /\ scanner'.overwrite = s.overwrite
  <2>1. <<>> \in Seq(Given)
    OBVIOUS
  <2> DEFINE x == [s EXCEPT !.called = <<>>]
  <2>2. x \in Scanner
    BY <2>1 DEF Scanner
  <2>3. /\ x.called = <<>>
        /\ x.row_handler = s.row_handler /\ x.orig_row_handler = s.orig_row_handler
        /\ x.rows_to_ignore = s.rows_to_ignore /\ x.header_span = s.header_span
        /\ x.keep_empty_header_rows = s.keep_empty_header_rows
        /\ x.ctx = s.ctx /\ x.get_cell = s.get_cell /\ x.now = s.now
        /\ x.overwrite = s.overwrite
    BY DEF Scanner
  <2> HIDE DEF x
  <2> QED BY <1>1, <2>2, <2>3 DEF x
<1>3. calls \in Seq(Given) /\ s.called \in Seq(Given) /\ options \in Options
  BY DEF IInv, TypeOK, Scanner
<1>4. TypeOK'
  BY <1>1, <1>2, <1>3 DEF TypeOK
<1>5. (pc # "undefined" => ChainInv(scanner))'
  BY <1>2 DEF ChainInv
<1>6. ModeInv(scanner)'
  BY <1>2 DEF ModeInv, LateOverwrites
<1>8. OverwritesInUse'
  <2> SUFFICES ASSUME LateOverwrites PROVE Overwritten(calls')
    BY DEF OverwritesInUse, LateOverwrites, Overwritten, IsRowCall
  <2>1. Overwritten(s.called) /\ Overwritten(calls)
    BY OverwrittenOnce DEF IInv, OverwritesInUse
  <2> QED BY <1>1, <1>3, <2>1 DEF Overwritten
<1>7. (options.mode = "push" => Ordered(scanner.orig_row_handler, calls))'
  <2> SUFFICES ASSUME options.mode = "push"
               PROVE  Ordered(scanner'.orig_row_handler, calls')
    BY DEF Ordered, HeaderFirst, IsRowCall
  <2>1. Ordered(s.orig_row_handler, calls \o s.called)
    BY <1>3, OneMoreCall DEF IInv
  <2> QED BY <1>1, <1>2, <2>1
<1> QED BY <1>2, <1>4, <1>5, <1>6, <1>7, <1>8 DEF IInv

(* zsv_new's scanner, before the first handler is installed. *)
LEMMA NewScannerType == Init => NewScanner(options) \in Scanner
PROOF
<1> SUFFICES ASSUME Init PROVE NewScanner(options) \in Scanner
  OBVIOUS
<1>1. /\ options.mode \in Modes /\ options.rows_to_ignore \in Nat
      /\ options.keep_empty_header_rows \in BOOLEAN /\ options.header_span \in Nat
  BY OptionsAssumption DEF Init
<1>2. /\ 0 \in 0 .. MaxCols /\ <<>> \in Seq(Text) /\ <<>> \in Seq(Given)
      /\ NoCells \in [Column -> Text]
  BY OptionsAssumption DEF NoCells, Blank, Text
<1>3. NothingCollated \in
        [have : BOOLEAN, column_count : 0 .. MaxCols, text : [Column -> Text]]
  BY <1>2 DEF NothingCollated
<1> QED BY <1>1, <1>2, <1>3 DEF NewScanner, Scanner, Caller, Modes

(* zsv_new installs the first handler of the chain. *)
LEMMA InitIInv == Init => IInv
PROOF
<1> SUFFICES ASSUME Init PROVE IInv
  OBVIOUS
<1> DEFINE n == NewScanner(options)
           x == SetCallbacks(n)
           y == [x EXCEPT !.overwrite = options.overwrite]
<1>1. options.overwrite \in BOOLEAN
  BY OptionsAssumption DEF Init
<1>4. n \in Scanner
  BY NewScannerType
<1>5. /\ n.called = <<>> /\ ~n.now
      /\ n.orig_row_handler = IF options.mode = "pull" THEN "pull" ELSE "header"
      /\ n.rows_to_ignore = options.rows_to_ignore /\ n.header_span = options.header_span
      /\ n.keep_empty_header_rows = options.keep_empty_header_rows
  BY DEF NewScanner
<1>6. scanner = y
  BY DEF Init
<1> HIDE DEF n
<1>7. /\ x \in Scanner /\ ChainInv(x) /\ Untouched(n, x)
      /\ LateOverwrites => x.row_handler \notin Caller
  BY <1>4, <1>5, SetCallbacksFacts DEF LateOverwrites, Chain, Caller
<1> HIDE DEF x
<1>8. /\ y \in Scanner /\ y.overwrite = options.overwrite
      /\ y.row_handler = x.row_handler /\ y.orig_row_handler = x.orig_row_handler
      /\ y.rows_to_ignore = x.rows_to_ignore /\ y.header_span = x.header_span
      /\ y.keep_empty_header_rows = x.keep_empty_header_rows
      /\ y.ctx = x.ctx /\ y.get_cell = x.get_cell /\ y.called = x.called /\ y.now = x.now
  BY <1>1, <1>7 DEF Scanner
<1> HIDE DEF y
<1>9. ChainInv(y) /\ ModeInv(y) /\ y.called = <<>>
  BY <1>5, <1>7, <1>8 DEF ChainInv, ModeInv, LateOverwrites, Untouched
<1>10. TypeOK
  BY <1>6, <1>8 DEF Init, TypeOK
<1>11. options.mode = "push" => Ordered(y.orig_row_handler, calls)
  BY <1>5, <1>7, <1>8 DEF Init, Ordered, HeaderFirst, Untouched
<1>12. OverwritesInUse
  BY DEF Init, OverwritesInUse, Overwritten
<1> QED BY <1>6, <1>9, <1>10, <1>11, <1>12 DEF IInv

(* The pieces that are scanned and the choices the caller has. *)
LEMMA PieceTypes ==
  ASSUME TypeOK, NEW shape \in Shapes \cup {<<>>, <<FALSE>>}, NEW cut \in BOOLEAN
  PROVE  LET cells == RowOf(Len(input) + 1, shape) IN
         /\ cells \in Seq(Text)
         /\ AddPiece(cells, cut) => input' \in Seq(InputPiece)
PROOF
<1> DEFINE cells == RowOf(Len(input) + 1, shape)
           piece == [cells |-> cells, cut |-> cut, tail |-> scanner.buffer_exceeded]
<1>1. input \in Seq(InputPiece) /\ Len(input) + 1 \in Nat
  BY DEF TypeOK
<1>2. cells \in Seq(Text)
  BY <1>1, RowOfType
<1> HIDE DEF cells
<1>3. piece \in InputPiece
  BY <1>2 DEF TypeOK, Scanner, InputPiece
<1>4. AddPiece(cells, cut) => input' = Append(input, piece)
  BY DEF AddPiece
<1> HIDE DEF piece
<1>5. AddPiece(cells, cut) => input' \in Seq(InputPiece)
  BY <1>1, <1>3, <1>4
<1> QED BY <1>2, <1>5 DEF cells

(* A row end: the four ways out of the scan loop's handling of it. *)
LEMMA EndRowStep == IInv /\ EndRow => IInv'
PROOF
<1> SUFFICES ASSUME IInv, EndRow PROVE IInv'
  OBVIOUS
<1>1. TypeOK /\ scanner \in Scanner /\ ChainInv(scanner) /\ ModeInv(scanner) /\ options' = options
  BY DEF IInv, TypeOK, EndRow
<1>2. PICK shape \in NextShapes, stop \in Stops :
        LET cells == RowOf(Len(input) + 1, shape)
            s     == RowDl(AddCells(scanner, cells), stop)
        IN
        /\ AddPiece(cells, FALSE)
        /\ \/ /\ Undefined(s)
              /\ Give(s) /\ pc' = "undefined" /\ UNCHANGED stat
           \/ /\ ~Undefined(s) /\ s.abort
              /\ Give(s) /\ pc' = "idle" /\ stat' = RowStat(s)
           \/ /\ ~Undefined(s) /\ ~s.abort /\ ~s.now
              /\ Give(PastLineEnd(s)) /\ UNCHANGED <<pc, stat>>
           \/ /\ ~Undefined(s) /\ ~s.abort /\ s.now
              /\ Give(Returned(s)) /\ pc' = "idle" /\ stat' = "row"
  BY DEF EndRow
<1> DEFINE cells == RowOf(Len(input) + 1, shape)
           s     == RowDl(AddCells(scanner, cells), stop)
<1>3. shape \in Shapes \cup {<<>>, <<FALSE>>} /\ stop \in BOOLEAN
  BY DEF NextShapes, Stops
<1>4. cells \in Seq(Text) /\ input' \in Seq(InputPiece)
  BY <1>1, <1>2, <1>3, PieceTypes
<1> HIDE DEF cells
<1>5. Handled(scanner, s)
  BY <1>1, <1>3, <1>4, RowEnds
<1>6. \/ Undefined(s) /\ Give(s) /\ pc' = "undefined" /\ stat' = stat
      \/ ~Undefined(s) /\ Give(s) /\ pc' = "idle" /\ stat' = RowStat(s)
      \/ ~Undefined(s) /\ ~s.now /\ Give(PastLineEnd(s)) /\ pc' = pc /\ stat' = stat
      \/ ~Undefined(s) /\ s.now /\ Give(Returned(s)) /\ pc' = "idle" /\ stat' = "row"
  BY <1>2 DEF cells
<1> HIDE DEF s
<1>7. s \in Scanner /\ ModeInv(s) /\ CalledOnce(scanner, s) /\ (~Undefined(s) => ChainInv(s))
  BY <1>5 DEF Handled, Undefined
<1>8. stat \in {"ok", "row", "done", "cancelled", "max_rows_read"}
      /\ pc \in {"scan", "idle", "done", "undefined"}
  BY <1>1 DEF TypeOK
<1>9. CASE Undefined(s) /\ Give(s) /\ pc' = "undefined" /\ stat' = stat
  BY <1>1, <1>4, <1>7, <1>8, <1>9, GiveFacts
<1>10. CASE ~Undefined(s) /\ Give(s) /\ pc' = "idle" /\ stat' = RowStat(s)
  <2>1. RowStat(s) \in {"ok", "cancelled", "max_rows_read"}
    BY DEF RowStat
  <2> QED BY <1>1, <1>4, <1>7, <1>10, <2>1, GiveFacts
<1>11. CASE ~Undefined(s) /\ ~s.now /\ Give(PastLineEnd(s)) /\ pc' = pc /\ stat' = stat
  <2> DEFINE x == PastLineEnd(s)
  <2>1. x \in Scanner /\ SameChain(s, x)
    BY <1>7, PastLineEndFacts
  <2>2. Give(x)
    BY <1>11
  <2> HIDE DEF x
  <2>3. ModeInv(x) /\ ChainInv(x) /\ CalledOnce(scanner, x)
    BY <1>7, <1>11, <2>1 DEF SameChain, ChainInv, ModeInv, CalledOnce
  <2> QED BY <1>1, <1>4, <1>8, <1>11, <2>1, <2>2, <2>3, GiveFacts
<1>12. CASE ~Undefined(s) /\ s.now /\ Give(Returned(s)) /\ pc' = "idle" /\ stat' = "row"
  <2>1. options.mode = "pull"
    BY <1>7, <1>12 DEF ModeInv
  <2>2. /\ Returned(s) \in Scanner /\ ChainInv(Returned(s)) /\ ModeInv(Returned(s))
        /\ LateOverwrites => Overwritten(Returned(s).called)
    BY <1>7, <1>12, <2>1, ReturnedFacts, OverwrittenOnce DEF IInv
  <2>3. options.mode # "push"
    BY <2>1
  <2> QED BY <1>1, <1>4, <1>12, <2>2, <2>3, GiveFacts
<1> QED BY <1>6, <1>9, <1>10, <1>11, <1>12

(* A row that fills the buffer: the next handler throws its tail away. *)
LEMMA CutRowStep == IInv /\ CutRow => IInv'
PROOF
<1> SUFFICES ASSUME IInv, CutRow PROVE IInv'
  OBVIOUS
<1>1. /\ TypeOK /\ scanner \in Scanner /\ ChainInv(scanner) /\ ModeInv(scanner)
      /\ options' = options /\ stat' = stat
  BY DEF IInv, TypeOK, CutRow
<1>2. PICK shape \in Shapes \cup {<<>>}, stop \in Stops :
        LET cells == RowOf(Len(input) + 1, shape)
            s     == RowDl(AddCells(scanner, cells), stop)
        IN
        /\ AddPiece(cells, TRUE)
        /\ IF s.abort THEN Give(s) /\ pc' = "undefined"
           ELSE /\ Give([s EXCEPT !.buffer_exceeded = TRUE, !.row_handler = "throwaway",
                                  !.ctx = "scanner"])
                /\ UNCHANGED pc
  BY DEF CutRow
<1> DEFINE cells == RowOf(Len(input) + 1, shape)
           s     == RowDl(AddCells(scanner, cells), stop)
           x     == [s EXCEPT !.buffer_exceeded = TRUE, !.row_handler = "throwaway",
                              !.ctx = "scanner"]
<1>3. shape \in Shapes \cup {<<>>, <<FALSE>>} /\ stop \in BOOLEAN
  BY DEF Stops
<1>4. cells \in Seq(Text) /\ input' \in Seq(InputPiece)
  BY <1>1, <1>2, <1>3, PieceTypes
<1> HIDE DEF cells
<1>5. Handled(scanner, s)
  BY <1>1, <1>3, <1>4, RowEnds
<1>6. (Give(s) /\ pc' = "undefined") \/ (Give(x) /\ pc' = pc)
  BY <1>2 DEF cells
<1> HIDE DEF s
<1>7. s \in Scanner /\ ModeInv(s) /\ CalledOnce(scanner, s)
  BY <1>5 DEF Handled
<1>8. stat \in {"ok", "row", "done", "cancelled", "max_rows_read"}
      /\ pc \in {"scan", "idle", "done", "undefined"}
  BY <1>1 DEF TypeOK
<1>9. CASE Give(s) /\ pc' = "undefined"
  BY <1>1, <1>4, <1>7, <1>8, <1>9, GiveFacts
<1>10. CASE Give(x) /\ pc' = pc
  <2>1. /\ x \in Scanner /\ x.row_handler = "throwaway" /\ x.called = s.called
        /\ x.orig_row_handler = s.orig_row_handler /\ x.now = s.now
        /\ x.overwrite = s.overwrite /\ x.get_cell = s.get_cell
    BY <1>7 DEF Scanner
  <2> HIDE DEF x
  <2>2. ModeInv(x) /\ ChainInv(x) /\ CalledOnce(scanner, x)
    BY <1>7, <2>1 DEF ModeInv, ChainInv, CalledOnce, Caller
  <2> QED BY <1>1, <1>4, <1>8, <1>10, <2>1, <2>2, GiveFacts
<1> QED BY <1>6, <1>9, <1>10

(* The end of the input, with or without a last row. *)
LEMMA FinishWithStep ==
  ASSUME IInv, pc # "undefined", options' = options,
         NEW shape \in Shapes \cup {<<>>, <<FALSE>>}, NEW stop \in BOOLEAN,
         FinishWith(RowOf(Len(input) + 1, shape), stop)
  PROVE  IInv'
PROOF
<1> DEFINE last == RowOf(Len(input) + 1, shape)
           begun == [scanner EXCEPT !.now = FALSE]
           s == RowDl(AddCells(begun, last), stop)
<1>1. TypeOK /\ scanner \in Scanner /\ ChainInv(scanner) /\ ModeInv(scanner)
  BY DEF IInv, TypeOK
<1>2. last \in Seq(Text) /\ (AddPiece(last, FALSE) => input' \in Seq(InputPiece))
  BY <1>1, PieceTypes
<1> HIDE DEF last
<1>3. begun \in Scanner /\ SameChain(scanner, [begun EXCEPT !.now = scanner.now]) /\ ~begun.now
  BY <1>1 DEF Scanner, SameChain
<1>4. \/ Give(begun) /\ pc' = "done" /\ input' = input /\ stat' \in {"ok", "done", "cancelled"}
      \/ /\ AddPiece(last, FALSE)
         /\ \/ s.freed /\ Give(s) /\ pc' = "undefined" /\ stat' = stat
            \/ ~s.freed /\ s.now /\ Give(Returned(s)) /\ pc' = "idle" /\ stat' = "done"
            \/ ~s.freed /\ Give(s) /\ pc' = "done" /\ stat' \in {"ok", "done", "cancelled"}
  BY DEF FinishWith, last
<1> HIDE DEF begun
<1>5. /\ begun.called = scanner.called /\ begun.orig_row_handler = scanner.orig_row_handler
      /\ ChainInv(begun) /\ ModeInv(begun)
  <2> DEFINE x == [begun EXCEPT !.now = scanner.now]
  <2>1. /\ begun.row_handler = x.row_handler /\ begun.orig_row_handler = x.orig_row_handler
        /\ begun.rows_to_ignore = x.rows_to_ignore /\ begun.header_span = x.header_span
        /\ begun.keep_empty_header_rows = x.keep_empty_header_rows
        /\ begun.ctx = x.ctx /\ begun.get_cell = x.get_cell /\ begun.called = x.called
    BY <1>3 DEF Scanner
  <2> HIDE DEF x
  <2>2. SameChain(scanner, x)
    BY <1>3 DEF x
  <2> QED BY <1>1, <1>3, <2>1, <2>2 DEF SameChain, ChainInv, ModeInv
<1>6. Handled(begun, s)
  BY <1>2, <1>3, <1>5, RowEnds
<1> HIDE DEF s
<1>7. /\ s \in Scanner /\ ModeInv(s) /\ CalledOnce(scanner, s) /\ (~s.freed => ChainInv(s))
      /\ CalledOnce(scanner, begun)
  BY <1>5, <1>6 DEF Handled, CalledOnce
<1>8. /\ input \in Seq(InputPiece)
      /\ stat \in {"ok", "row", "done", "cancelled", "max_rows_read"}
  BY <1>1 DEF TypeOK
<1>9. CASE Give(begun) /\ pc' = "done" /\ input' = input /\ stat' \in {"ok", "done", "cancelled"}
  BY <1>3, <1>5, <1>7, <1>8, <1>9, GiveFacts
<1>10. CASE AddPiece(last, FALSE) /\ s.freed /\ Give(s) /\ pc' = "undefined" /\ stat' = stat
  BY <1>2, <1>7, <1>8, <1>10, GiveFacts
<1>11. CASE /\ AddPiece(last, FALSE) /\ ~s.freed /\ s.now
            /\ Give(Returned(s)) /\ pc' = "idle" /\ stat' = "done"
  <2>1. options.mode = "pull"
    BY <1>7, <1>11 DEF ModeInv
  <2>2. /\ Returned(s) \in Scanner /\ ChainInv(Returned(s)) /\ ModeInv(Returned(s))
        /\ LateOverwrites => Overwritten(Returned(s).called)
    BY <1>7, <1>11, <2>1, ReturnedFacts, OverwrittenOnce DEF IInv
  <2>3. options.mode # "push"
    BY <2>1
  <2> QED BY <1>2, <1>11, <2>2, <2>3, GiveFacts
<1>12. CASE /\ AddPiece(last, FALSE) /\ ~s.freed
            /\ Give(s) /\ pc' = "done" /\ stat' \in {"ok", "done", "cancelled"}
  BY <1>2, <1>7, <1>12, GiveFacts
<1> QED BY <1>4, <1>9, <1>10, <1>11, <1>12

(* zsv_finish, and zsv_next_row at the end of the input. *)
LEMMA FinishStep == IInv /\ Finish => IInv'
PROOF
<1> SUFFICES ASSUME IInv, Finish PROVE IInv'
  OBVIOUS
<1>1. pc # "undefined" /\ options' = options
  BY DEF Finish
<1>2. CASE FinishWith(<<>>, FALSE)
  <2>1. RowOf(Len(input) + 1, <<>>) = <<>>
    BY DEF RowOf
  <2>2. FinishWith(RowOf(Len(input) + 1, <<>>), FALSE)
    BY <1>2, <2>1
  <2> QED BY <1>1, <2>2, FinishWithStep
<1>3. ASSUME NEW shape \in Shapes, NEW stop \in Stops,
             FinishWith(RowOf(Len(input) + 1, shape), stop)
      PROVE  IInv'
  <2>1. stop \in BOOLEAN
    BY DEF Stops
  <2> QED BY <1>1, <1>3, <2>1, FinishWithStep
<1> QED BY <1>2, <1>3 DEF Finish

(* zsv_next_row for the next row. *)
LEMMA ResumeScanStep == IInv /\ ResumeScan => IInv'
PROOF
<1> SUFFICES ASSUME IInv, ResumeScan PROVE IInv'
  OBVIOUS
<1> DEFINE x == PastLineEnd(scanner)
<1>1. /\ Give(x) /\ pc' = "scan" /\ options' = options /\ stat' = stat /\ input' = input
      /\ scanner \in Scanner /\ ChainInv(scanner) /\ ModeInv(scanner)
      /\ input \in Seq(InputPiece) /\ stat \in {"ok", "row", "done", "cancelled", "max_rows_read"}
  BY DEF ResumeScan, IInv, TypeOK
<1>2. x \in Scanner /\ SameChain(scanner, x)
  BY <1>1, PastLineEndFacts
<1> HIDE DEF x
<1>3. ModeInv(x) /\ ChainInv(x) /\ CalledOnce(scanner, x)
  BY <1>1, <1>2 DEF SameChain, ChainInv, ModeInv, CalledOnce
<1> QED BY <1>1, <1>2, <1>3, GiveFacts

(* zsv_next_row called once more at the end. *)
LEMMA NoMoreRowsStep == IInv /\ NoMoreRows => IInv'
PROOF
<1> SUFFICES ASSUME IInv, NoMoreRows PROVE IInv'
  OBVIOUS
<1>1. TypeOK' /\ ChainInv(scanner)' /\ ModeInv(scanner)' /\ scanner'.called = <<>>
  BY DEF NoMoreRows, IInv, TypeOK, ChainInv, ModeInv, LateOverwrites
<1>2. (options.mode = "push" => Ordered(scanner.orig_row_handler, calls))'
  BY DEF NoMoreRows, IInv, Ordered, HeaderFirst, IsRowCall
<1>3. OverwritesInUse'
  BY DEF NoMoreRows, IInv, OverwritesInUse, LateOverwrites, Overwritten, IsRowCall
<1> QED BY <1>1, <1>2, <1>3 DEF IInv

(* zsv_abort between two calls. *)
LEMMA AbortStep == IInv /\ AbortBetweenCalls => IInv'
PROOF
<1> SUFFICES ASSUME IInv, AbortBetweenCalls PROVE IInv'
  OBVIOUS
<1> DEFINE x == [scanner EXCEPT !.abort = TRUE]
<1>1. /\ scanner' = x /\ pc' = pc /\ options' = options /\ stat' = stat
      /\ input' = input /\ calls' = calls /\ TypeOK /\ scanner \in Scanner
  BY DEF AbortBetweenCalls, IInv, TypeOK
<1>2. x \in Scanner /\ SameChain(scanner, x)
  BY <1>1 DEF Scanner, SameChain
<1> HIDE DEF x
<1>3. TypeOK'
  BY <1>1, <1>2 DEF TypeOK
<1>4. (pc # "undefined" => ChainInv(scanner))' /\ ModeInv(scanner)' /\ scanner'.called = <<>>
  BY <1>1, <1>2 DEF IInv, SameChain, ChainInv, ModeInv, LateOverwrites
<1>5. (options.mode = "push" => Ordered(scanner.orig_row_handler, calls))'
  BY <1>1, <1>2 DEF IInv, SameChain, Ordered, HeaderFirst, IsRowCall
<1>6. OverwritesInUse'
  BY <1>1 DEF IInv, OverwritesInUse, LateOverwrites, Overwritten, IsRowCall
<1> QED BY <1>3, <1>4, <1>5, <1>6 DEF IInv

(* Every step keeps the invariant. *)
LEMMA Inductive == IInv /\ [Next]_vars => IInv'
PROOF
<1> SUFFICES ASSUME IInv, [Next]_vars PROVE IInv'
  OBVIOUS
<1>1. CASE UNCHANGED vars
  <2>1. TypeOK' /\ (pc # "undefined" => ChainInv(scanner))' /\ ModeInv(scanner)'
        /\ scanner'.called = <<>>
    BY <1>1 DEF vars, IInv, TypeOK, ChainInv, ModeInv, LateOverwrites
  <2>2. (options.mode = "push" => Ordered(scanner.orig_row_handler, calls))'
    BY <1>1 DEF vars, IInv, Ordered, HeaderFirst, IsRowCall
  <2>3. OverwritesInUse'
    BY <1>1 DEF vars, IInv, OverwritesInUse, LateOverwrites, Overwritten, IsRowCall
  <2> QED BY <2>1, <2>2, <2>3 DEF IInv
<1>2. CASE EndRow
  BY <1>2, EndRowStep
<1>3. CASE CutRow
  BY <1>3, CutRowStep
<1>4. CASE Finish
  BY <1>4, FinishStep
<1>5. CASE ResumeScan
  BY <1>5, ResumeScanStep
<1>6. CASE NoMoreRows
  BY <1>6, NoMoreRowsStep
<1>7. CASE AbortBetweenCalls
  BY <1>7, AbortStep
<1> QED BY <1>1, <1>2, <1>3, <1>4, <1>5, <1>6, <1>7 DEF Next

(* TypeOK holds throughout: however the handlers of the chain follow each other,
   no counter of theirs passes 0, and no row, padded or collated ones included,
   is longer than row.cells (zsv_internal.c, set_callbacks and the handlers it
   installs). *)
THEOREM RowsTypeCorrect == Spec => []TypeOK
PROOF
<1>1. IInv => TypeOK
  BY DEF IInv
<1> QED BY <1>1, InitIInv, Inductive, PTL DEF Spec

(* HeaderThenData holds throughout: in push mode the caller's first row goes to
   its header handler and every other row to the data handler that it installs
   with zsv_set_row_handler, with the caller's own context and readable cells,
   for every setting of the options that make the chain, with rows that are cut
   and with aborts (zsv.c:208-212, zsv_internal.c:527-626). *)
THEOREM HeaderHandledFirst == Spec => []HeaderThenData
PROOF
<1>1. IInv => HeaderThenData
  BY DEF IInv, Ordered, HeaderThenData
<1> QED BY <1>1, InitIInv, Inductive, PTL DEF Spec

(* OverwritesInUse holds throughout: overwrites are opened after zsv_new has
   installed the first handler (zsv.c, zsv_new), and whatever chain of handlers
   follows, in push and in pull mode, with rows that are cut and with aborts,
   every row of the caller is read through them (zsv_internal.c, set_callbacks). *)
THEOREM OverwritesReachRows == Spec => []OverwritesInUse
PROOF
<1>1. IInv => OverwritesInUse
  BY DEF IInv
<1> QED BY <1>1, InitIInv, Inductive, PTL DEF Spec

-----------------------------------------------------------------------------
(* Where the texts that the caller is given come from: from the rows of a set   *)
(* G, which is to be that of the rows that are no tails.                        *)

From(text, G) == \A k \in DOMAIN text : text[k][1] \in G

(* The row in hand, the collated header, and calls. *)
RowFrom(s, G)    == \A j \in 1 .. s.used : From(s.cells[j], G)
HeaderFrom(s, G) == \A j \in Column : From(s.collated.text[j], G)
CallsFrom(cs, G) ==
  \A k \in DOMAIN cs : IsRowCall(cs[k]) => \A j \in DOMAIN cs[k].cells : From(cs[k].cells[j], G)

Clean(s, G) == HeaderFrom(s, G) /\ CallsFrom(s.called, G)

(* No row is being thrown away. *)
Whole(s) == s.row_handler # "throwaway" /\ ~s.buffer_exceeded

(* s and s2 hold the same texts. *)
SameTexts(s, s2) ==
  /\ s2.cells = s.cells /\ s2.used = s.used /\ s2.collated = s.collated
  /\ s2.called = s.called /\ s2.buffer_exceeded = s.buffer_exceeded

(* set_callbacks touches no text. *)
LEMMA SetCallbacksTexts ==
  ASSUME NEW s \in Scanner
  PROVE  SameTexts(s, SetCallbacks(s)) /\ SetCallbacks(s).row_handler # "throwaway"
PROOF
<1>1. ASSUME NEW handler PROVE SameTexts(s, Installed(s, handler))
  BY DEF Installed, Scanner, SameTexts
<1>2. ASSUME NEW reader
      PROVE  SameTexts(s, [s EXCEPT !.row_handler = s.orig_row_handler,
                                    !.cell_handler = s.orig_cell_handler, !.ctx = "caller",
                                    !.data_row_count = 0, !.get_cell = reader])
  BY DEF Scanner, SameTexts
<1>3. SameTexts(s, SetCallbacks(s))
  BY <1>1, <1>2 DEF SetCallbacks
<1> QED BY <1>3, SetCallbacksFacts

(* A call with a row of G is one more call with rows of G. *)
LEMMA CalledTexts ==
  ASSUME NEW s \in Scanner, NEW handler \in {"header", "data", "overflow", "next_row"}, NEW G,
         Clean(s, G), handler = "overflow" \/ RowFrom(s, G)
  PROVE  /\ Clean(Called(s, handler), G) /\ Called(s, handler).row_handler = s.row_handler
         /\ Called(s, handler).buffer_exceeded = s.buffer_exceeded
PROOF
<1> DEFINE c == Told(s, handler)
           x == Called(s, handler)
<1>1. c.to = handler /\ c.cells = Row(s)
  BY DEF Told
<1>2. x.called = Append(s.called, c) /\ s.called \in Seq(Given)
  <2>1. x.called = Append(s.called, c)
    BY CalledFacts
  <2> QED BY <2>1 DEF Scanner
<1>3. /\ x.collated = s.collated /\ x.row_handler = s.row_handler
      /\ x.buffer_exceeded = s.buffer_exceeded
  BY DEF Called, Scanner
<1> HIDE DEF c, x
<1>4. IsRowCall(c) => \A j \in DOMAIN c.cells : From(c.cells[j], G)
  BY <1>1 DEF IsRowCall, RowFrom, Row
<1>5. CallsFrom(x.called, G)
  BY <1>2, <1>4 DEF Clean, CallsFrom
<1> QED BY <1>3, <1>5 DEF Clean, HeaderFrom, x

(* The caller's row handler, which is given the row in hand. *)
LEMMA CallerRowTexts ==
  ASSUME NEW s \in Scanner, ChainInv(s), ModeInv(s), s.row_handler \in Caller,
         options.mode = "push", NEW G, Clean(s, G), RowFrom(s, G), ~s.buffer_exceeded
  PROVE  Clean(CallerRow(s), G) /\ Whole(CallerRow(s))
PROOF
<1> DEFINE x == Called(s, s.row_handler)
           y == SetRowHandler(x, "data")
<1>1. s.row_handler \in {"header", "data"} /\ s.row_handler = s.orig_row_handler
  BY DEF ChainInv, ModeInv
<1>2. /\ x \in Scanner /\ Clean(x, G) /\ ~x.buffer_exceeded
      /\ x.row_handler = s.row_handler
  <2>1. s.row_handler \in {"header", "data", "overflow", "next_row"}
    BY <1>1
  <2>2. x \in Scanner
    BY <2>1, CalledFacts
  <2> QED BY <2>1, <2>2, CalledTexts
<1>3. CASE s.row_handler = "data"
  <2>1. CallerRow(s) = x
    BY <1>3 DEF CallerRow
  <2> QED BY <1>2, <1>3, <2>1 DEF Whole
<1>4. CASE s.row_handler = "header"
  <2>1. CallerRow(s) = y
    BY <1>4 DEF CallerRow
  <2> HIDE DEF x
  <2>2. /\ y.called = x.called /\ y.collated = x.collated
        /\ y.buffer_exceeded = x.buffer_exceeded /\ y.row_handler \in {"header", "data"}
    BY <1>1, <1>2 DEF SetRowHandler, Scanner
  <2> HIDE DEF y
  <2> QED BY <1>2, <2>1, <2>2 DEF Clean, HeaderFrom, Whole
<1> QED BY <1>1, <1>3, <1>4

(* apply_callbacks. *)
LEMMA ApplyToCallerTexts ==
  ASSUME NEW s \in Scanner, ChainInv(s), ModeInv(s), s.row_handler \in Caller,
         options.mode = "push", NEW G, Clean(s, G), RowFrom(s, G), ~s.buffer_exceeded
  PROVE  Clean(ApplyToCaller(s), G) /\ Whole(ApplyToCaller(s))
PROOF
<1> DEFINE cells == IF s.cell_handler THEN s.seen \o Row(s) ELSE s.seen
           x == [s EXCEPT !.seen = cells]
<1>1. cells \in Seq(Text)
  BY RowType DEF Scanner
<1>2. ApplyToCaller(s) = CallerRow(x)
  BY DEF ApplyToCaller
<1> HIDE DEF cells
<1>3. x \in Scanner /\ SameChain(s, x) /\ SameTexts(s, x)
  BY <1>1 DEF Scanner, SameChain, SameTexts
<1> HIDE DEF x
<1>4. ChainInv(x) /\ ModeInv(x) /\ x.row_handler \in Caller
  BY <1>3 DEF SameChain, ChainInv, ModeInv
<1>5. Clean(x, G) /\ RowFrom(x, G) /\ ~x.buffer_exceeded
  BY <1>3 DEF SameTexts, Clean, HeaderFrom, RowFrom
<1> QED BY <1>2, <1>3, <1>4, <1>5, CallerRowTexts

(* Blank cells come from nowhere. *)
LEMMA PadTexts ==
  ASSUME NEW s \in Scanner, NEW G, Clean(s, G), RowFrom(s, G)
  PROVE  /\ Clean(PadToHeader(s), G) /\ RowFrom(PadToHeader(s), G)
         /\ PadToHeader(s).buffer_exceeded = s.buffer_exceeded
PROOF
<1> DEFINE cells == [j \in Column |->
                       IF j > s.used /\ j <= s.collated.column_count THEN Blank ELSE s.cells[j]]
           x == [s EXCEPT !.cells = cells, !.used = s.collated.column_count]
<1>1. CASE ~s.collated.have
  BY <1>1 DEF PadToHeader
<1>2. CASE s.collated.have
  <2>1. PadToHeader(s) = x
    BY <1>2 DEF PadToHeader
  <2>2. s.collated.column_count \in 0 .. MaxCols /\ s.used \in 0 .. MaxCols
    BY DEF Scanner
  <2>3. \A j \in 1 .. s.collated.column_count :
          \/ cells[j] = Blank
          \/ j \in 1 .. s.used /\ cells[j] = s.cells[j]
    BY <2>2, OptionsAssumption DEF Column
  <2>4. From(Blank, G)
    BY DEF From, Blank
  <2> HIDE DEF cells
  <2>5. /\ x.cells = cells /\ x.used = s.collated.column_count /\ x.collated = s.collated
        /\ x.called = s.called /\ x.buffer_exceeded = s.buffer_exceeded
    BY DEF Scanner
  <2> HIDE DEF x
  <2>6. RowFrom(x, G)
    BY <2>3, <2>4, <2>5 DEF RowFrom
  <2>7. Clean(x, G)
    BY <2>5 DEF Clean, HeaderFrom
  <2> QED BY <2>1, <2>5, <2>6, <2>7
<1> QED BY <1>1, <1>2

(* A text behind another comes from where both come from. *)
LEMMA ConcatFrom ==
  ASSUME NEW a \in Seq(Word), NEW b \in Seq(Word), NEW G, From(a, G), From(b, G)
  PROVE  From(a \o b, G)
PROOF
<1>1. /\ DOMAIN a = 1 .. Len(a) /\ DOMAIN b = 1 .. Len(b) /\ Len(a) \in Nat /\ Len(b) \in Nat
      /\ DOMAIN (a \o b) = 1 .. Len(a) + Len(b)
      /\ \A k \in 1 .. Len(a) + Len(b) :
           (a \o b)[k] = IF k <= Len(a) THEN a[k] ELSE b[k - Len(a)]
  OBVIOUS
<1>2. ASSUME NEW k \in 1 .. Len(a) + Len(b) PROVE (a \o b)[k][1] \in G
  <2>1. CASE k <= Len(a)
    BY <1>1, <2>1 DEF From
  <2>2. CASE ~(k <= Len(a))
    <3>1. k - Len(a) \in DOMAIN b
      BY <1>1, <2>2
    <3> QED BY <1>1, <2>2, <3>1 DEF From
  <2> QED BY <2>1, <2>2
<1> QED BY <1>1, <1>2 DEF From

LEMMA AppendTexts ==
  ASSUME NEW s \in Scanner, NEW G, Clean(s, G), RowFrom(s, G)
  PROVE  /\ Clean(CollateHeaderAppend(s), G) /\ RowFrom(CollateHeaderAppend(s), G)
         /\ CollateHeaderAppend(s).buffer_exceeded = s.buffer_exceeded
PROOF
<1> DEFINE text == [j \in Column |-> IF j <= s.used THEN s.collated.text[j] \o s.cells[j]
                                     ELSE s.collated.text[j]]
           width == Wider(s.used, s.collated.column_count)
           x == CollateHeaderAppend(s)
<1>1. s.used \in 0 .. MaxCols
  BY DEF Scanner
<1>2. ASSUME NEW j \in Column PROVE From(text[j], G)
  <2>1. s.collated.text[j] \in Seq(Word) /\ s.cells[j] \in Seq(Word)
    BY <1>2 DEF Scanner, Text
  <2>2. From(s.collated.text[j], G)
    BY <1>2 DEF Clean, HeaderFrom
  <2>3. CASE j <= s.used
    <3>1. From(s.cells[j], G)
      BY <1>1, <1>2, <2>3, OptionsAssumption DEF RowFrom, Column
    <3>2. text[j] = s.collated.text[j] \o s.cells[j]
      BY <1>2, <2>3
    <3> HIDE DEF text
    <3> QED BY <2>1, <2>2, <3>1, <3>2, ConcatFrom
  <2>4. CASE ~(j <= s.used)
    BY <1>2, <2>2, <2>4
  <2> QED BY <2>3, <2>4
<1>3. x = [s EXCEPT !.collated = [have |-> TRUE, column_count |-> width, text |-> text]]
  BY DEF CollateHeaderAppend
<1> HIDE DEF text, width, x
<1>4. /\ x.collated.text = text /\ x.called = s.called /\ x.cells = s.cells /\ x.used = s.used
      /\ x.buffer_exceeded = s.buffer_exceeded
  BY <1>3 DEF Scanner
<1> QED BY <1>2, <1>4 DEF Clean, HeaderFrom, RowFrom, x

(* collate_header_row: the header that is given is made of the rows it spans. *)
LEMMA CollateTexts ==
  ASSUME NEW s \in Scanner, ChainInv(s), ModeInv(s), s.row_handler = "collate",
         options.mode = "push", NEW G, Clean(s, G), RowFrom(s, G), ~s.buffer_exceeded
  PROVE  Clean(CollateHeaderRow(s), G) /\ Whole(CollateHeaderRow(s))
PROOF
<1> DEFINE d == [s EXCEPT !.header_span = @ - 1]
           padded == PadToHeader(d)
           saved  == CollateHeaderAppend(padded)
           installed == SetCallbacks(saved)
           shown  == [j \in Column |-> IF j <= saved.collated.column_count
                                       THEN saved.collated.text[j]
                                       ELSE installed.cells[j]]
           header == [installed EXCEPT !.cells = shown]
           given  == ApplyToCaller(header)
<1>1. s.rows_to_ignore = 0 /\ s.keep_empty_header_rows /\ s.header_span > 0
  BY DEF ChainInv
<1>2. d \in Scanner /\ SameTexts(s, d) /\ SameChain(s, [d EXCEPT !.header_span = s.header_span])
  <2> DEFINE span == s.header_span - 1
  <2>1. span \in Nat
    BY <1>1 DEF Scanner
  <2>2. d = [s EXCEPT !.header_span = span]
    BY DEF Scanner
  <2> HIDE DEF span, d
  <2>3. d \in Scanner
    BY <2>1, <2>2 DEF Scanner
  <2>4. SameTexts(s, d)
    BY <2>2 DEF Scanner, SameTexts
  <2>5. SameChain(s, [d EXCEPT !.header_span = s.header_span])
    BY <2>2 DEF Scanner, SameChain
  <2> QED BY <2>3, <2>4, <2>5
<1>3. CollateHeaderRow(s) =
        IF AppendFails(padded) THEN [padded EXCEPT !.abort = TRUE, !.freed = TRUE]
        ELSE IF saved.header_span > 0 THEN saved
        ELSE [given EXCEPT !.collated = NothingCollated]
  BY DEF CollateHeaderRow
<1>4. /\ d.row_handler = s.row_handler /\ d.orig_row_handler = s.orig_row_handler
      /\ d.rows_to_ignore = s.rows_to_ignore /\ d.now = s.now
      /\ d.keep_empty_header_rows = s.keep_empty_header_rows
      /\ d.overwrite = s.overwrite /\ d.get_cell = s.get_cell
  <2> DEFINE x == [d EXCEPT !.header_span = s.header_span]
  <2>1. /\ x.row_handler = d.row_handler /\ x.orig_row_handler = d.orig_row_handler
        /\ x.rows_to_ignore = d.rows_to_ignore /\ x.now = d.now
        /\ x.keep_empty_header_rows = d.keep_empty_header_rows
        /\ x.overwrite = d.overwrite /\ x.get_cell = d.get_cell
    BY <1>2 DEF Scanner
  <2> HIDE DEF x
  <2> QED BY <1>2, <2>1 DEF SameChain, x
<1> HIDE DEF d
<1>5. Clean(d, G) /\ RowFrom(d, G) /\ ~d.buffer_exceeded /\ ModeInv(d)
  BY <1>2, <1>4 DEF SameTexts, Clean, HeaderFrom, RowFrom, ModeInv
<1>6. /\ padded \in Scanner /\ SameChain(d, padded) /\ ~padded.buffer_exceeded
      /\ Clean(padded, G) /\ RowFrom(padded, G)
  BY <1>2, <1>5, PadToHeaderFacts, PadTexts
<1> HIDE DEF padded
<1>7. /\ saved \in Scanner /\ SameChain(padded, saved) /\ ~saved.buffer_exceeded
      /\ Clean(saved, G) /\ RowFrom(saved, G)
  BY <1>6, CollateHeaderAppendFacts, AppendTexts
<1> HIDE DEF saved
<1>8. CASE AppendFails(padded)
  <2> DEFINE x == [padded EXCEPT !.abort = TRUE, !.freed = TRUE]
  <2>1. /\ x.called = padded.called /\ x.collated = padded.collated
        /\ x.row_handler = padded.row_handler /\ x.buffer_exceeded = padded.buffer_exceeded
    BY <1>6 DEF Scanner
  <2> HIDE DEF x
  <2>2. Clean(x, G) /\ Whole(x)
    BY <1>4, <1>6, <2>1 DEF Clean, HeaderFrom, Whole, SameChain
  <2> QED BY <1>3, <1>8, <2>2 DEF x
<1>9. CASE ~AppendFails(padded) /\ saved.header_span > 0
  BY <1>3, <1>4, <1>6, <1>7, <1>9 DEF Whole, SameChain
<1>10. CASE ~AppendFails(padded) /\ ~(saved.header_span > 0)
  <2>1. saved.header_span = 0 /\ saved.rows_to_ignore = 0 /\ saved.keep_empty_header_rows
        /\ ModeInv(saved)
    <3>1. saved.header_span \in Nat
      BY <1>7 DEF Scanner
    <3>2. saved.rows_to_ignore = 0 /\ saved.keep_empty_header_rows /\ ModeInv(saved)
      BY <1>1, <1>4, <1>5, <1>6, <1>7 DEF SameChain, ModeInv
    <3> QED BY <1>10, <3>1, <3>2
  <2>2. /\ installed \in Scanner /\ ChainInv(installed) /\ ModeInv(installed)
        /\ installed.row_handler \in Caller /\ SameTexts(saved, installed)
    BY <1>7, <2>1, SetCallbacksFacts, SetCallbacksMode, SetCallbacksTexts, CallerInstalled
  <2>3. shown \in [Column -> Text] /\ \A j \in 1 .. installed.used : From(shown[j], G)
    <3>1. shown \in [Column -> Text]
      BY <1>7, <2>2 DEF Scanner
    <3>2. 1 .. installed.used \subseteq Column
      <4>1. installed.used \in 0 .. MaxCols
        BY <2>2 DEF Scanner
      <4> HIDE DEF installed
      <4> QED BY <4>1, OptionsAssumption DEF Column
    <3>3. \A j \in 1 .. installed.used :
            From(saved.collated.text[j], G) /\ From(installed.cells[j], G)
      BY <1>7, <2>2, <3>2 DEF SameTexts, Clean, HeaderFrom, RowFrom
    <3> QED BY <3>1, <3>2, <3>3
  <2> HIDE DEF installed, shown
  <2>4. header \in Scanner /\ SameChain(installed, header)
    BY <2>2, <2>3, ZenonT(60) DEF Scanner, SameChain
  <2>5. /\ header.cells = shown /\ header.used = installed.used
        /\ header.collated = installed.collated /\ header.called = installed.called
        /\ header.buffer_exceeded = installed.buffer_exceeded
    BY <2>2 DEF Scanner
  <2> HIDE DEF header
  <2>6. /\ ChainInv(header) /\ ModeInv(header) /\ header.row_handler \in Caller
        /\ Clean(header, G) /\ RowFrom(header, G) /\ ~header.buffer_exceeded
    BY <1>7, <2>2, <2>3, <2>4, <2>5
       DEF ChainInv, ModeInv, SameChain, SameTexts, Clean, HeaderFrom, RowFrom
  <2>7. Clean(given, G) /\ Whole(given) /\ given \in Scanner
    BY <2>4, <2>6, ApplyToCallerTexts, ApplyToCallerFacts DEF Handled
  <2> HIDE DEF given
  <2> DEFINE x == [given EXCEPT !.collated = NothingCollated]
  <2>8. /\ x.called = given.called /\ x.row_handler = given.row_handler
        /\ x.buffer_exceeded = given.buffer_exceeded /\ x.collated = NothingCollated
    BY <2>7 DEF Scanner
  <2> HIDE DEF x
  <2>9. \A j \in Column : From(NothingCollated.text[j], G)
    BY DEF NothingCollated, NoCells, From, Blank
  <2>10. Clean(x, G) /\ Whole(x)
    BY <2>7, <2>8, <2>9 DEF Clean, HeaderFrom, Whole
  <2> QED BY <1>3, <1>10, <2>10 DEF x
<1> QED BY <1>8, <1>9, <1>10

(* skip_to_first_row_w_data. *)
LEMMA SkipTexts ==
  ASSUME NEW s \in Scanner, ChainInv(s), ModeInv(s), s.row_handler = "skip",
         options.mode = "push", NEW G, Clean(s, G), RowFrom(s, G), ~s.buffer_exceeded
  PROVE  Clean(SkipToFirstRowWithData(s), G) /\ Whole(SkipToFirstRowWithData(s))
PROOF
<1>1. CASE RowIsBlank(s)
  <2> DEFINE x == [s EXCEPT !.empty_header_rows = @ + 1]
  <2>1. SkipToFirstRowWithData(s) = x
    BY <1>1 DEF SkipToFirstRowWithData
  <2>2. /\ x.called = s.called /\ x.collated = s.collated
        /\ x.row_handler = s.row_handler /\ x.buffer_exceeded = s.buffer_exceeded
    BY DEF Scanner
  <2> HIDE DEF x
  <2> QED BY <2>1, <2>2 DEF Clean, HeaderFrom, Whole
<1>2. CASE ~RowIsBlank(s)
  <2> DEFINE k == [s EXCEPT !.keep_empty_header_rows = TRUE]
             x == SetCallbacks(k)
  <2>1. /\ k \in Scanner /\ k.keep_empty_header_rows /\ k.rows_to_ignore = s.rows_to_ignore
        /\ k.orig_row_handler = s.orig_row_handler /\ k.now = s.now
        /\ k.row_handler = s.row_handler /\ k.overwrite = s.overwrite
        /\ k.get_cell = s.get_cell
    BY ZenonT(60) DEF Scanner
  <2>2. SameTexts(s, k)
    BY DEF Scanner, SameTexts
  <2>3. SkipToFirstRowWithData(s) = ApplyCallbacks(x)
    BY <1>2 DEF SkipToFirstRowWithData
  <2> HIDE DEF k
  <2>4. ModeInv(k) /\ k.rows_to_ignore = 0
    BY <2>1 DEF ModeInv, ChainInv
  <2>5. /\ x \in Scanner /\ ChainInv(x) /\ ModeInv(x) /\ SameTexts(k, x)
        /\ x.row_handler \notin {"ignore", "skip", "throwaway"}
    BY <2>1, <2>4, SetCallbacksFacts, SetCallbacksMode, SetCallbacksTexts
  <2> HIDE DEF x
  <2>6. Clean(x, G) /\ RowFrom(x, G) /\ ~x.buffer_exceeded
    BY <2>2, <2>5 DEF SameTexts, Clean, HeaderFrom, RowFrom
  <2>7. CASE x.row_handler = "collate"
    BY <2>3, <2>5, <2>6, <2>7, CollateTexts DEF ApplyCallbacks
  <2>8. CASE x.row_handler \in Caller
    BY <2>3, <2>5, <2>6, <2>8, ApplyToCallerTexts DEF ApplyCallbacks, Caller
  <2> QED BY <2>5, <2>7, <2>8 DEF Scanner, Chain
<1> QED BY <1>1, <1>2

(* ignore_header_rows. *)
LEMMA IgnoreTexts ==
  ASSUME NEW s \in Scanner, ChainInv(s), s.row_handler = "ignore",
         NEW G, Clean(s, G), ~s.buffer_exceeded
  PROVE  Clean(IgnoreHeaderRow(s), G) /\ Whole(IgnoreHeaderRow(s))
PROOF
<1> DEFINE left == s.rows_to_ignore - 1
           x == [s EXCEPT !.rows_to_ignore = left]
<1>1. left \in Nat
  BY DEF ChainInv, Scanner
<1>2. IgnoreHeaderRow(s) = IF x.rows_to_ignore > 0 THEN x ELSE SetCallbacks(x)
  BY DEF IgnoreHeaderRow
<1> HIDE DEF left
<1>3. x \in Scanner /\ x.row_handler = s.row_handler /\ SameTexts(s, x)
  BY <1>1 DEF Scanner, SameTexts
<1> HIDE DEF x
<1>4. Clean(x, G) /\ Whole(x)
  BY <1>3 DEF SameTexts, Clean, HeaderFrom, Whole
<1>5. Clean(SetCallbacks(x), G) /\ Whole(SetCallbacks(x))
  BY <1>3, <1>4, SetCallbacksTexts DEF SameTexts, Clean, HeaderFrom, Whole
<1> QED BY <1>2, <1>4, <1>5

(* zsv_throwaway_row: a tail is given to the overflow handler at most. *)
LEMMA ThrowawayTexts ==
  ASSUME NEW s \in Scanner, NEW G, Clean(s, G)
  PROVE  Clean(ThrowawayRow(s), G) /\ Whole(ThrowawayRow(s))
PROOF
<1> DEFINE overflows == options.mode = "push" /\ s.used > 0
                        /\ (s.used > 1 \/ s.cells[1] # Blank)
           told == IF overflows THEN Called(s, "overflow") ELSE s
           x == [told EXCEPT !.buffer_exceeded = FALSE]
<1>1. told \in Scanner /\ Clean(told, G)
  BY CalledFacts, CalledTexts
<1>2. ThrowawayRow(s) = SetCallbacks(x)
  BY DEF ThrowawayRow
<1> HIDE DEF told
<1>3. /\ x \in Scanner /\ x.called = told.called /\ x.collated = told.collated
      /\ ~x.buffer_exceeded
  BY <1>1, ZenonT(60) DEF Scanner
<1> HIDE DEF x
<1>4. Clean(x, G)
  BY <1>1, <1>3 DEF Clean, HeaderFrom
<1> QED BY <1>2, <1>3, <1>4, SetCallbacksTexts DEF SameTexts, Clean, HeaderFrom, Whole

(* Whichever handler is installed; the one that throws rows away may find any row. *)
LEMMA RowHandlerTexts ==
  ASSUME NEW s \in Scanner, ChainInv(s), ModeInv(s), options.mode = "push",
         NEW G, Clean(s, G), s.row_handler = "throwaway" \/ (RowFrom(s, G) /\ ~s.buffer_exceeded)
  PROVE  Clean(CallRowHandler(s), G) /\ Whole(CallRowHandler(s))
PROOF
<1>1. CASE s.row_handler = "throwaway"
  <2>1. CallRowHandler(s) = ThrowawayRow(s)
    BY <1>1 DEF CallRowHandler, Caller
  <2> QED BY <2>1, ThrowawayTexts
<1>2. CASE s.row_handler = "ignore"
  <2>1. CallRowHandler(s) = IgnoreHeaderRow(s)
    BY <1>2 DEF CallRowHandler, Caller
  <2> QED BY <1>2, <2>1, IgnoreTexts
<1>3. CASE s.row_handler = "skip"
  <2>1. CallRowHandler(s) = SkipToFirstRowWithData(s)
    BY <1>3 DEF CallRowHandler, Caller
  <2> QED BY <1>3, <2>1, SkipTexts
<1>4. CASE s.row_handler = "collate"
  <2>1. CallRowHandler(s) = CollateHeaderRow(s)
    BY <1>4 DEF CallRowHandler, Caller
  <2> QED BY <1>4, <2>1, CollateTexts
<1>5. CASE s.row_handler \in Caller
  <2>1. CallRowHandler(s) = CallerRow(s) /\ s.row_handler # "throwaway"
    BY <1>5 DEF CallRowHandler, Caller
  <2> QED BY <1>5, <2>1, CallerRowTexts
<1> QED BY <1>1, <1>2, <1>3, <1>4, <1>5 DEF Scanner, Chain

(* row_dl: after it there is no row in hand, unless the parse is aborted. *)
LEMMA RowDlTexts ==
  ASSUME NEW s \in Scanner, ChainInv(s), ModeInv(s), options.mode = "push", NEW stop \in BOOLEAN,
         NEW G, Clean(s, G), s.row_handler = "throwaway" \/ (RowFrom(s, G) /\ ~s.buffer_exceeded)
  PROVE  LET x == RowDl(s, stop) IN
         x \in Scanner /\ Clean(x, G) /\ Whole(x) /\ (x.used = 0 \/ x.abort)
PROOF
<1> DEFINE h == CallRowHandler(s)
           aborted == h.abort \/ (stop /\ h.called # s.called)
           counted == [h EXCEPT !.cum_row_count = @ + 1, !.abort = aborted]
           limit   == counted.abort \/ AtMaxRows(counted)
           limited == [counted EXCEPT !.abort = limit]
           x == [limited EXCEPT !.used = IF counted.abort /\ ~AtMaxRows(counted) THEN @ ELSE 0]
<1>1. RowDl(s, stop) = x
  BY DEF RowDl
<1>2. h \in Scanner /\ Clean(h, G) /\ Whole(h) /\ RowDl(s, stop) \in Scanner
  BY CallRowHandlerFacts, RowHandlerTexts, RowDlFacts DEF Handled
<1> HIDE DEF h, aborted
<1>3. /\ counted.called = h.called /\ counted.collated = h.collated
      /\ counted.row_handler = h.row_handler /\ counted.buffer_exceeded = h.buffer_exceeded
      /\ DOMAIN counted = DOMAIN h
  BY <1>2 DEF Scanner
<1> HIDE DEF counted, limit
<1>4. /\ limited.called = h.called /\ limited.collated = h.collated
      /\ limited.row_handler = h.row_handler /\ limited.buffer_exceeded = h.buffer_exceeded
      /\ DOMAIN limited = DOMAIN h /\ limited.abort = limit
  BY <1>2, <1>3 DEF Scanner
<1> HIDE DEF limited
<1>5. /\ x.called = h.called /\ x.collated = h.collated
      /\ x.row_handler = h.row_handler /\ x.buffer_exceeded = h.buffer_exceeded
      /\ x.abort = limit
      /\ x.used = 0 \/ counted.abort
  BY <1>2, <1>4 DEF Scanner
<1>6. Clean(x, G) /\ Whole(x)
  BY <1>2, <1>5 DEF Clean, HeaderFrom, Whole
<1>7. x.used = 0 \/ x.abort
  BY <1>5 DEF limit
<1> HIDE DEF x
<1> QED BY <1>1, <1>2, <1>6, <1>7

(* What comes from G comes from any larger set. *)
LEMMA LargerTexts ==
  ASSUME NEW G, NEW H, G \subseteq H
  PROVE  /\ \A s : HeaderFrom(s, G) => HeaderFrom(s, H)
         /\ \A cs : CallsFrom(cs, G) => CallsFrom(cs, H)
BY DEF HeaderFrom, CallsFrom, From

(* A piece in an empty row, and the handlers behind it. *)
LEMMA AddCellsTexts ==
  ASSUME NEW s \in Scanner, s.used = 0, NEW n \in Nat, NEW shape \in Shapes \cup {<<>>, <<FALSE>>},
         NEW G, Clean(s, G)
  PROVE  LET x == AddCells(s, RowOf(n, shape)) IN
         /\ Clean(x, G) /\ x.row_handler = s.row_handler
         /\ x.buffer_exceeded = s.buffer_exceeded
         /\ n \in G => RowFrom(x, G)
PROOF
<1> DEFINE cells == RowOf(n, shape)
           held == [j \in Column |-> IF j > s.used /\ j <= s.used + Len(cells)
                                     THEN cells[j - s.used] ELSE s.cells[j]]
           used == IF s.used + Len(cells) > MaxCols THEN MaxCols ELSE s.used + Len(cells)
           x == AddCells(s, cells)
<1>1. cells \in Seq(Text)
  BY RowOfType
<1>2. \A j \in DOMAIN cells : cells[j] = <<<<n, j>>>> \/ cells[j] = Blank
  BY DEF RowOf
<1> HIDE DEF cells
<1>3. \A j \in 1 .. used : j \in DOMAIN cells /\ j \in Column /\ j - s.used = j
  BY <1>1, OptionsAssumption DEF Column
<1>4. \A j \in 1 .. used : held[j] = cells[j]
  BY <1>1, <1>3
<1>5. x = [s EXCEPT !.seen = IF s.cell_handler THEN @ \o cells ELSE @,
                    !.cells = held, !.used = used]
  BY DEF AddCells
<1> HIDE DEF held, used, x
<1>6. /\ x.cells = held /\ x.used = used /\ x.collated = s.collated /\ x.called = s.called
      /\ x.row_handler = s.row_handler /\ x.buffer_exceeded = s.buffer_exceeded
  BY <1>5 DEF Scanner
<1>7. Clean(x, G)
  BY <1>6 DEF Clean, HeaderFrom
<1>8. ASSUME n \in G PROVE RowFrom(x, G)
  <2>1. From(Blank, G) /\ \A j : From(<<<<n, j>>>>, G)
    BY <1>8 DEF From, Blank
  <2> QED BY <1>2, <1>3, <1>4, <1>6, <2>1 DEF RowFrom
<1> QED BY <1>6, <1>7, <1>8 DEF x, cells

-----------------------------------------------------------------------------
(* The rows of the input that are no tails. *)
NotTail == {n \in DOMAIN input : ~input[n].tail}

(* All that the caller has been given, and all that is kept for its header, is
   of such rows; and the handler that throws rows away is in force for exactly
   the tails. *)
TailInv ==
  options.mode = "push" =>
    /\ CallsFrom(calls, NotTail)
    /\ HeaderFrom(scanner, NotTail)
    /\ (scanner.row_handler = "throwaway") <=> scanner.buffer_exceeded
    /\ pc = "scan" => scanner.used = 0

LEMMA RowEndTexts ==
  ASSUME IInv, TailInv, options.mode = "push", pc = "scan",
         NEW begun \in Scanner, SameTexts(scanner, begun),
         begun.row_handler = scanner.row_handler, ChainInv(begun), ModeInv(begun),
         NEW shape \in Shapes \cup {<<>>, <<FALSE>>}, NEW stop \in BOOLEAN, NEW cut \in BOOLEAN,
         AddPiece(RowOf(Len(input) + 1, shape), cut)
  PROVE  LET x == RowDl(AddCells(begun, RowOf(Len(input) + 1, shape)), stop) IN
         /\ x \in Scanner /\ Clean(x, NotTail') /\ Whole(x) /\ (x.used = 0 \/ x.abort)
         /\ NotTail \subseteq NotTail'
PROOF
<1> DEFINE n == Len(input) + 1
           cells == RowOf(n, shape)
           a == AddCells(begun, cells)
           piece == [cells |-> cells, cut |-> cut, tail |-> scanner.buffer_exceeded]
<1>1. input' = Append(input, piece) /\ piece.tail = scanner.buffer_exceeded
  BY DEF AddPiece
<1>2. input \in Seq(InputPiece) /\ scanner \in Scanner /\ n \in Nat
  BY DEF IInv, TypeOK
<1> HIDE DEF piece
<1>3. /\ DOMAIN input = 1 .. Len(input) /\ DOMAIN input' = 1 .. n /\ input'[n] = piece
      /\ \A m \in DOMAIN input : input'[m] = input[m]
  BY <1>1, <1>2
<1>4. NotTail \subseteq NotTail'
  BY <1>2, <1>3 DEF NotTail
<1>5. ~scanner.buffer_exceeded => n \in NotTail'
  BY <1>1, <1>2, <1>3 DEF NotTail
<1> HIDE DEF n
<1>6. HeaderFrom(scanner, NotTail) /\ scanner.used = 0 /\ scanner.called = <<>>
  BY DEF TailInv, IInv
<1>7. HeaderFrom(scanner, NotTail')
  BY <1>4, <1>6, LargerTexts
<1>8. /\ Clean(begun, NotTail') /\ begun.used = 0
      /\ begun.buffer_exceeded = scanner.buffer_exceeded
  BY <1>6, <1>7 DEF SameTexts, Clean, HeaderFrom, CallsFrom
<1>9. /\ Clean(a, NotTail') /\ a.row_handler = scanner.row_handler
      /\ a.buffer_exceeded = scanner.buffer_exceeded
      /\ n \in NotTail' => RowFrom(a, NotTail')
  BY <1>2, <1>8, AddCellsTexts
<1>10. cells \in Seq(Text)
  BY <1>2, RowOfType
<1> HIDE DEF cells
<1>11. a \in Scanner /\ SameChain(begun, a)
  BY <1>10, AddCellsFacts
<1> HIDE DEF a
<1>12. ChainInv(a) /\ ModeInv(a)
  BY <1>11 DEF SameChain, ChainInv, ModeInv
<1>13. a.row_handler = "throwaway" \/ (RowFrom(a, NotTail') /\ ~a.buffer_exceeded)
  BY <1>5, <1>9 DEF TailInv
<1> QED BY <1>4, <1>9, <1>11, <1>12, <1>13, RowDlTexts DEF a, cells, n

(* The end of every step, as in GiveFacts. *)
LEMMA GiveTexts ==
  ASSUME IInv, TailInv, NEW s \in Scanner, Give(s), options' = options, options.mode = "push",
         NotTail \subseteq NotTail', Clean(s, NotTail'),
         (s.row_handler = "throwaway") <=> s.buffer_exceeded,
         pc' = "scan" => s.used = 0
  PROVE  TailInv'
PROOF
<1> DEFINE G == NotTail'
           x == [s EXCEPT !.called = <<>>]
<1>1. scanner' = x /\ calls' = calls \o s.called
  BY DEF Give
<1>2. /\ x.row_handler = s.row_handler /\ x.buffer_exceeded = s.buffer_exceeded
      /\ x.collated = s.collated /\ x.used = s.used
  BY DEF Scanner
<1> HIDE DEF x
<1>3. calls \in Seq(Given) /\ s.called \in Seq(Given)
  BY DEF IInv, TypeOK, Scanner
<1> HIDE DEF G
<1>4. CallsFrom(calls, G) /\ CallsFrom(s.called, G)
  BY LargerTexts DEF TailInv, Clean, G
<1>5. CallsFrom(calls', G)
  BY <1>1, <1>3, <1>4 DEF CallsFrom
<1>6. HeaderFrom(scanner', G)
  BY <1>1, <1>2 DEF Clean, HeaderFrom, G
<1>7. /\ (scanner'.row_handler = "throwaway") <=> scanner'.buffer_exceeded
      /\ pc' = "scan" => scanner'.used = 0
  BY <1>1, <1>2
<1> QED BY <1>5, <1>6, <1>7 DEF TailInv, G, CallsFrom, HeaderFrom, From, IsRowCall

(* Nothing that the caller of this lemma changes matters to TailInv. *)
LEMMA TailSame ==
  ASSUME TailInv, UNCHANGED <<options, input, calls>>,
         scanner'.collated = scanner.collated, scanner'.row_handler = scanner.row_handler,
         scanner'.buffer_exceeded = scanner.buffer_exceeded,
         pc' = "scan" => scanner'.used = 0
  PROVE  TailInv'
BY DEF TailInv, NotTail, CallsFrom, HeaderFrom, From, IsRowCall

LEMMA InitTail == Init => TailInv
PROOF
<1> SUFFICES ASSUME Init PROVE TailInv
  OBVIOUS
<1> DEFINE n == NewScanner(options)
           x == SetCallbacks(n)
           y == [x EXCEPT !.overwrite = options.overwrite]
<1>4. n \in Scanner
  BY NewScannerType
<1>5. n.collated = NothingCollated /\ ~n.buffer_exceeded /\ n.used = 0
  BY DEF NewScanner
<1>6. scanner = y /\ calls = <<>>
  BY DEF Init
<1> HIDE DEF n
<1>7. x \in Scanner /\ SameTexts(n, x) /\ x.row_handler # "throwaway"
  BY <1>4, SetCallbacksFacts, SetCallbacksTexts
<1> HIDE DEF x
<1>8. /\ y.collated = x.collated /\ y.row_handler = x.row_handler
      /\ y.buffer_exceeded = x.buffer_exceeded /\ y.used = x.used
  BY <1>7 DEF Scanner
<1> HIDE DEF y
<1>9. HeaderFrom(scanner, NotTail)
  BY <1>5, <1>6, <1>7, <1>8
     DEF SameTexts, HeaderFrom, NothingCollated, NoCells, From, Blank
<1>10. CallsFrom(calls, NotTail)
  BY <1>6 DEF CallsFrom
<1> QED BY <1>5, <1>6, <1>7, <1>8, <1>9, <1>10 DEF TailInv, SameTexts

LEMMA EndRowTail == IInv /\ TailInv /\ options.mode = "push" /\ EndRow => TailInv'
PROOF
<1> SUFFICES ASSUME IInv, TailInv, options.mode = "push", EndRow PROVE TailInv'
  OBVIOUS
<1>1. /\ scanner \in Scanner /\ ChainInv(scanner) /\ ModeInv(scanner)
      /\ options' = options /\ pc = "scan"
  BY DEF IInv, TypeOK, EndRow
<1>2. PICK shape \in NextShapes, stop \in Stops :
        LET cells == RowOf(Len(input) + 1, shape)
            s     == RowDl(AddCells(scanner, cells), stop)
        IN
        /\ AddPiece(cells, FALSE)
        /\ \/ /\ Undefined(s)
              /\ Give(s) /\ pc' = "undefined" /\ UNCHANGED stat
           \/ /\ ~Undefined(s) /\ s.abort
              /\ Give(s) /\ pc' = "idle" /\ stat' = RowStat(s)
           \/ /\ ~Undefined(s) /\ ~s.abort /\ ~s.now
              /\ Give(PastLineEnd(s)) /\ UNCHANGED <<pc, stat>>
           \/ /\ ~Undefined(s) /\ ~s.abort /\ s.now
              /\ Give(Returned(s)) /\ pc' = "idle" /\ stat' = "row"
  BY DEF EndRow
<1> DEFINE cells == RowOf(Len(input) + 1, shape)
           s     == RowDl(AddCells(scanner, cells), stop)
<1>3. shape \in Shapes \cup {<<>>, <<FALSE>>} /\ stop \in BOOLEAN
  BY DEF NextShapes, Stops
<1>4. cells \in Seq(Text) /\ AddPiece(cells, FALSE)
  BY <1>2, <1>3, PieceTypes DEF IInv
<1>5. SameTexts(scanner, scanner)
  BY DEF SameTexts
<1>6. /\ s \in Scanner /\ Clean(s, NotTail') /\ Whole(s) /\ NotTail \subseteq NotTail'
  BY <1>1, <1>3, <1>4, <1>5, RowEndTexts
<1>7. ~s.now
  BY <1>1, <1>3, <1>4, RowEnds DEF Handled, ModeInv
<1>8. \/ Give(s) /\ pc' \in {"undefined", "idle"}
      \/ Give(PastLineEnd(s))
  BY <1>2, <1>7
<1> HIDE DEF s
<1>9. CASE Give(s) /\ pc' \in {"undefined", "idle"}
  BY <1>1, <1>6, <1>9, GiveTexts DEF Whole
<1>10. CASE Give(PastLineEnd(s))
  <2> DEFINE x == PastLineEnd(s)
  <2>1. x \in Scanner
    BY <1>6, PastLineEndFacts
  <2>2. /\ x.called = s.called /\ x.collated = s.collated /\ x.used = 0
        /\ x.row_handler = s.row_handler /\ x.buffer_exceeded = s.buffer_exceeded
    BY <1>6 DEF PastLineEnd, Scanner
  <2>3. Give(x)
    BY <1>10
  <2> HIDE DEF x
  <2>4. Clean(x, NotTail') /\ Whole(x)
    BY <1>6, <2>2 DEF Clean, HeaderFrom, Whole
  <2> QED BY <1>1, <1>6, <2>1, <2>2, <2>3, <2>4, GiveTexts DEF Whole
<1> QED BY <1>8, <1>9, <1>10

LEMMA CutRowTail == IInv /\ TailInv /\ options.mode = "push" /\ CutRow => TailInv'
PROOF
<1> SUFFICES ASSUME IInv, TailInv, options.mode = "push", CutRow PROVE TailInv'
  OBVIOUS
<1>1. /\ scanner \in Scanner /\ ChainInv(scanner) /\ ModeInv(scanner)
      /\ options' = options /\ pc = "scan"
  BY DEF IInv, TypeOK, CutRow
<1>2. PICK shape \in Shapes \cup {<<>>}, stop \in Stops :
        LET cells == RowOf(Len(input) + 1, shape)
            s     == RowDl(AddCells(scanner, cells), stop)
        IN
        /\ AddPiece(cells, TRUE)
        /\ IF s.abort THEN Give(s) /\ pc' = "undefined"
           ELSE /\ Give([s EXCEPT !.buffer_exceeded = TRUE, !.row_handler = "throwaway",
                                  !.ctx = "scanner"])
                /\ UNCHANGED pc
  BY DEF CutRow
<1> DEFINE cells == RowOf(Len(input) + 1, shape)
           s     == RowDl(AddCells(scanner, cells), stop)
           x     == [s EXCEPT !.buffer_exceeded = TRUE, !.row_handler = "throwaway",
                              !.ctx = "scanner"]
<1>3. shape \in Shapes \cup {<<>>, <<FALSE>>} /\ stop \in BOOLEAN
  BY DEF Stops
<1>4. AddPiece(cells, TRUE) /\ SameTexts(scanner, scanner)
  BY <1>2 DEF SameTexts
<1>5. /\ s \in Scanner /\ Clean(s, NotTail') /\ Whole(s) /\ NotTail \subseteq NotTail'
      /\ s.used = 0 \/ s.abort
  BY <1>1, <1>3, <1>4, RowEndTexts
<1>6. \/ Give(s) /\ pc' = "undefined"
      \/ ~s.abort /\ Give(x)
  BY <1>2
<1> HIDE DEF s
<1>7. CASE Give(s) /\ pc' = "undefined"
  BY <1>1, <1>5, <1>7, GiveTexts DEF Whole
<1>8. CASE ~s.abort /\ Give(x)
  <2>1. /\ x \in Scanner /\ x.called = s.called /\ x.collated = s.collated /\ x.used = s.used
        /\ x.row_handler = "throwaway" /\ x.buffer_exceeded
    BY <1>5 DEF Scanner
  <2> HIDE DEF x
  <2>2. Clean(x, NotTail')
    BY <1>5, <2>1 DEF Clean, HeaderFrom
  <2> QED BY <1>1, <1>5, <1>8, <2>1, <2>2, GiveTexts
<1> QED BY <1>6, <1>7, <1>8

LEMMA FinishTail == IInv /\ TailInv /\ options.mode = "push" /\ Finish => TailInv'
PROOF
<1> SUFFICES ASSUME IInv, TailInv, options.mode = "push", Finish PROVE TailInv'
  OBVIOUS
<1> DEFINE begun == [scanner EXCEPT !.now = FALSE]
<1>1. /\ scanner \in Scanner /\ ChainInv(scanner) /\ ModeInv(scanner)
      /\ options' = options
  BY DEF IInv, TypeOK, Finish
<1>2. /\ begun \in Scanner /\ SameTexts(scanner, begun)
      /\ begun.row_handler = scanner.row_handler
      /\ begun.orig_row_handler = scanner.orig_row_handler
      /\ begun.rows_to_ignore = scanner.rows_to_ignore
      /\ begun.header_span = scanner.header_span
      /\ begun.keep_empty_header_rows = scanner.keep_empty_header_rows
      /\ begun.ctx = scanner.ctx /\ begun.get_cell = scanner.get_cell
      /\ begun.overwrite = scanner.overwrite /\ ~begun.now
  BY <1>1 DEF Scanner, SameTexts
<1> HIDE DEF begun
<1>3. ChainInv(begun) /\ ModeInv(begun)
  BY <1>1, <1>2 DEF ChainInv, ModeInv
<1>4. CASE Give(begun) /\ pc' = "done" /\ input' = input
  <2>1. NotTail' = NotTail
    BY <1>4 DEF NotTail
  <2>2. Clean(begun, NotTail) /\ ((begun.row_handler = "throwaway") <=> begun.buffer_exceeded)
    BY <1>2 DEF TailInv, SameTexts, Clean, HeaderFrom, CallsFrom, IInv
  <2> QED BY <1>1, <1>2, <1>4, <2>1, <2>2, GiveTexts
<1>5. ASSUME pc = "scan", NEW shape \in Shapes, NEW stop \in Stops,
             AddPiece(RowOf(Len(input) + 1, shape), FALSE),
             LET s == RowDl(AddCells(begun, RowOf(Len(input) + 1, shape)), stop) IN
             \/ Give(s) /\ pc' \in {"undefined", "done"}
             \/ s.now
      PROVE  TailInv'
  <2> DEFINE cells == RowOf(Len(input) + 1, shape)
             s == RowDl(AddCells(begun, cells), stop)
  <2>1. shape \in Shapes \cup {<<>>, <<FALSE>>} /\ stop \in BOOLEAN
    BY DEF Stops
  <2>2. cells \in Seq(Text)
    BY <2>1, PieceTypes DEF IInv
  <2>3. /\ s \in Scanner /\ Clean(s, NotTail') /\ Whole(s) /\ NotTail \subseteq NotTail'
    BY <1>2, <1>3, <1>5, <2>1, RowEndTexts
  <2>4. ~s.now
    BY <1>2, <1>3, <2>1, <2>2, RowEnds DEF Handled, ModeInv
  <2>5. Give(s) /\ pc' \in {"undefined", "done"}
    BY <1>5, <2>4
  <2> HIDE DEF s
  <2> QED BY <1>1, <2>3, <2>5, GiveTexts DEF Whole
<1>6. ASSUME NEW last, NEW stop, FinishWith(last, stop)
      PROVE  \/ Give(begun) /\ pc' = "done" /\ input' = input
             \/ /\ last # <<>> /\ AddPiece(last, FALSE)
                /\ LET s == RowDl(AddCells(begun, last), stop) IN
                   \/ Give(s) /\ pc' \in {"undefined", "done"}
                   \/ s.now
  BY <1>6 DEF FinishWith, begun
<1>7. CASE FinishWith(<<>>, FALSE)
  BY <1>4, <1>6, <1>7
<1>8. ASSUME pc = "scan", NEW shape \in Shapes, NEW stop \in Stops,
             FinishWith(RowOf(Len(input) + 1, shape), stop)
      PROVE  TailInv'
  BY <1>4, <1>5, <1>6, <1>8
<1> QED BY <1>7, <1>8 DEF Finish

LEMMA TailInvariance == Spec => []TailInv
PROOF
<1>1. IInv /\ TailInv /\ [Next]_vars => TailInv'
  <2> SUFFICES ASSUME IInv, TailInv, [Next]_vars PROVE TailInv'
    OBVIOUS
  <2>1. options' = options
    BY DEF Next, vars, EndRow, CutRow, Finish, ResumeScan, NoMoreRows, AbortBetweenCalls
  <2>2. CASE options.mode # "push"
    BY <2>1, <2>2 DEF TailInv
  <2>3. CASE options.mode = "push" /\ UNCHANGED vars
    BY <2>3, TailSame DEF vars, TailInv
  <2>4. CASE options.mode = "push" /\ (EndRow \/ CutRow \/ Finish)
    BY <2>4, EndRowTail, CutRowTail, FinishTail
  <2>5. CASE options.mode = "push" /\ (ResumeScan \/ NoMoreRows)
    BY <2>5 DEF ResumeScan, NoMoreRows
  <2>6. CASE options.mode = "push" /\ AbortBetweenCalls
    <3>1. scanner \in Scanner /\ scanner' = [scanner EXCEPT !.abort = TRUE]
          /\ pc' = pc /\ UNCHANGED <<options, input, calls>>
      BY <2>6 DEF AbortBetweenCalls, IInv, TypeOK
    <3>2. /\ scanner'.collated = scanner.collated /\ scanner'.row_handler = scanner.row_handler
          /\ scanner'.buffer_exceeded = scanner.buffer_exceeded /\ scanner'.used = scanner.used
      BY <3>1 DEF Scanner
    <3> QED BY <2>6, <3>1, <3>2, TailSame DEF TailInv
  <2> QED BY <2>2, <2>3, <2>4, <2>5, <2>6 DEF Next
<1> QED BY <1>1, InitTail, InitIInv, Inductive, PTL DEF Spec

(* NoTailInRows holds throughout: in push mode no cell of a row that the caller
   is given, header or data, was read from the tail of a row that did not fit in
   the buffer, whatever handlers of the chain were at work while it was cut
   (zsv_throwaway_row, zsv.c; set_callbacks and collate_header_append,
   zsv_internal.c). *)
THEOREM TailsAreThrownAway == Spec => []NoTailInRows
PROOF
<1>1. TailInv => NoTailInRows
  BY DEF TailInv, NoTailInRows, NoTail, CallsFrom, From, NotTail
<1> QED BY <1>1, TailInvariance, PTL

-----------------------------------------------------------------------------
(* The rows of the input reach the caller. Of each step it is said what it
   adds to what was promised so far; first, what is kept of a sequence
   (Kept) is what was kept of its beginning, and one member more or none. *)

(* A set of numbers that is not empty has a least one. *)
LEMMA LeastNumber ==
  ASSUME NEW S, S \subseteq Nat, S # {}
  PROVE  \E m \in S : \A k \in S : m <= k
PROOF
<1> DEFINE less == {p \in Nat \X Nat : p[1] < p[2]}
<1>1. less = OpToRel(<, Nat)
  BY Zenon DEF OpToRel
<1>2. IsWellFoundedOn(less, Nat)
  BY <1>1, NatLessThanWellFounded
<1> HIDE DEF less
<1>3. PICK m \in S : \A k \in S : ~(<<k, m>> \in less)
  BY <1>2, WFMin
<1>4. \A j, k \in Nat : j < k => <<j, k>> \in less
  BY DEF less
<1>5. ASSUME NEW k \in S  PROVE  m <= k
  <2>1. k \in Nat /\ m \in Nat
    OBVIOUS
  <2>2. ~(k < m)
    BY <1>3, <1>4, <2>1, Zenon
  <2> QED BY <2>1, <2>2
<1> QED BY <1>5

(* f holds what Kept makes of the first members of s, up to the m-th. *)
Keeps(f, s, keep, m) ==
  f = [n \in 0 .. m |-> IF n = 0 THEN <<>>
                        ELSE IF n \in keep THEN Append(f[n - 1], s[n]) ELSE f[n - 1]]

(* There is such a function for every sequence. *)
LEMMA KeepsExists ==
  ASSUME NEW s, NEW keep, NEW m \in Nat
  PROVE  \E f : Keeps(f, s, keep, m)
PROOF
<1> DEFINE Without == {n \in Nat : ~\E f : Keeps(f, s, keep, n)}
<1>1. SUFFICES ASSUME Without # {} PROVE FALSE
  OBVIOUS
<1>2. PICK n \in Without : \A k \in Without : n <= k
  BY <1>1, LeastNumber
<1>3. n # 0
  <2> DEFINE f == [j \in 0 .. 0 |-> <<>>]
  <2>1. Keeps(f, s, keep, 0)
    BY DEF Keeps
  <2> QED BY <2>1
<1>4. n - 1 \in Nat /\ n - 1 \notin Without
  BY <1>2, <1>3
<1>5. PICK g : Keeps(g, s, keep, n - 1)
  BY <1>4
<1> DEFINE Next1(x, j) == IF j \in keep THEN Append(x, s[j]) ELSE x
           f == [j \in 0 .. n |-> IF j < n THEN g[j] ELSE Next1(g[n - 1], n)]
<1>6. ASSUME NEW j \in 0 .. n
      PROVE  f[j] = IF j = 0 THEN <<>> ELSE Next1(f[j - 1], j)
  <2>1. CASE j = n
    BY <1>3, <1>4, <2>1
  <2>2. CASE j < n
    <3>1. j \in 0 .. n - 1
      BY <2>2
    <3>2. g[j] = IF j = 0 THEN <<>> ELSE Next1(g[j - 1], j)
      BY <1>5, <3>1 DEF Keeps
    <3>3. f[j] = g[j] /\ (j # 0 => f[j - 1] = g[j - 1])
      BY <2>2, <3>1
    <3> QED BY <3>2, <3>3
  <2> QED BY <2>1, <2>2
<1>7. Keeps(f, s, keep, n)
  <2>1. f = [j \in 0 .. n |-> f[j]]
    OBVIOUS
  <2> HIDE DEF f
  <2> QED BY <1>6, <2>1 DEF Keeps
<1> QED BY <1>2, <1>7

(* The first m members of s and of t are the same, and kept alike. *)
Alike(s, t, keep, keep2, m) ==
  \A j \in 1 .. m : s[j] = t[j] /\ (j \in keep <=> j \in keep2)

(* Then so is what is kept of them. *)
LEMMA KeepsUnique ==
  ASSUME NEW s, NEW t, NEW keep, NEW keep2, NEW f, NEW g, NEW m \in Nat, NEW n \in Nat, m <= n,
         Keeps(f, s, keep, m), Keeps(g, t, keep2, n),
         Alike(s, t, keep, keep2, m)
  PROVE  \A j \in 0 .. m : f[j] = g[j]
PROOF
<1> DEFINE Apart == {j \in 0 .. m : f[j] # g[j]}
<1>1. SUFFICES ASSUME Apart # {} PROVE FALSE
  OBVIOUS
<1>2. Apart \subseteq Nat
  OBVIOUS
<1>3. PICK j \in Apart : \A k \in Apart : j <= k
  <2> HIDE DEF Apart
  <2> QED BY <1>1, <1>2, LeastNumber
<1>4. /\ f[j] = IF j = 0 THEN <<>>
                ELSE IF j \in keep THEN Append(f[j - 1], s[j]) ELSE f[j - 1]
      /\ g[j] = IF j = 0 THEN <<>>
                ELSE IF j \in keep2 THEN Append(g[j - 1], t[j]) ELSE g[j - 1]
  <2>1. j \in 0 .. m /\ j \in 0 .. n
    OBVIOUS
  <2> QED BY <2>1 DEF Keeps
<1>5. j # 0
  BY <1>4
<1>6. /\ j - 1 \in 0 .. m /\ j - 1 \notin Apart
      /\ s[j] = t[j] /\ (j \in keep <=> j \in keep2)
  BY <1>3, <1>5 DEF Alike
<1>7. f[j - 1] = g[j - 1]
  BY <1>6
<1> QED BY <1>4, <1>5, <1>6, <1>7

(* Kept is where that function ends. *)
LEMMA KeptIsLast ==
  ASSUME NEW s, Len(s) \in Nat, NEW keep, NEW f, Keeps(f, s, keep, Len(s))
  PROVE  Kept(s, keep) = f[Len(s)]
PROOF
<1> DEFINE g == CHOOSE g : Keeps(g, s, keep, Len(s))
<1>1. Keeps(g, s, keep, Len(s))
  OBVIOUS
<1>2. Kept(s, keep) = g[Len(s)]
  BY DEF Kept, Keeps
<1> HIDE DEF g
<1>3. \A j \in 0 .. Len(s) : g[j] = f[j]
  BY <1>1, KeepsUnique DEF Alike
<1> QED BY <1>2, <1>3

(* One more member is kept, or not; of no members none are. *)
LEMMA KeptMore ==
  ASSUME NEW T, NEW s \in Seq(T), NEW x \in T, NEW keep, NEW keep2,
         \A j \in 1 .. Len(s) : j \in keep <=> j \in keep2
  PROVE  Kept(Append(s, x), keep2) =
           IF Len(s) + 1 \in keep2 THEN Append(Kept(s, keep), x) ELSE Kept(s, keep)
PROOF
<1> DEFINE n == Len(s)
           t == Append(s, x)
<1>1. n \in Nat /\ Len(t) = n + 1 /\ t[n + 1] = x /\ \A j \in 1 .. n : t[j] = s[j]
  OBVIOUS
<1> HIDE DEF n, t
<1>2. PICK f : Keeps(f, s, keep, n)
  BY <1>1, KeepsExists
<1> DEFINE k == n + 1
<1>a. /\ n \in Nat /\ k \in Nat /\ n <= k /\ n \in 0 .. n
      /\ k \in 0 .. k /\ k # 0 /\ k - 1 = n
  BY <1>1
<1>b. Len(t) = k
  BY <1>1
<1> HIDE DEF k
<1>3. PICK g : Keeps(g, t, keep2, k)
  BY <1>a, KeepsExists
<1>4. g[n] = f[n]
  <2>1. Alike(s, t, keep, keep2, n)
    BY <1>1 DEF n, Alike
  <2>2. \A j \in 0 .. n : f[j] = g[j]
    BY <1>a, <1>2, <1>3, <2>1, KeepsUnique
  <2> QED BY <1>a, <2>2
<1>5. g[k] = IF k \in keep2 THEN Append(g[n], t[k]) ELSE g[n]
  <2>1. g[k] = IF k = 0 THEN <<>> ELSE IF k \in keep2 THEN Append(g[k - 1], t[k]) ELSE g[k - 1]
    BY <1>3, <1>a DEF Keeps
  <2> QED BY <1>a, <2>1
<1>6. Kept(s, keep) = f[n]
  BY <1>1, <1>2, KeptIsLast DEF n
<1>7. Kept(t, keep2) = g[k]
  BY <1>a, <1>b, <1>3, KeptIsLast
<1>8. t[k] = x
  BY <1>1 DEF k
<1> QED BY <1>4, <1>5, <1>6, <1>7, <1>8 DEF n, t, k

(* Of no members none is kept. *)
LEMMA KeptNone == \A keep : Kept(<<>>, keep) = <<>>
PROOF
<1>1. ASSUME NEW keep PROVE Kept(<<>>, keep) = <<>>
  <2>1. PICK f : Keeps(f, <<>>, keep, 0)
    BY KeepsExists
  <2>2. f[0] = <<>>
    BY <2>1 DEF Keeps
  <2>3. Len(<<>>) = 0
    OBVIOUS
  <2> QED BY <2>1, <2>2, <2>3, KeptIsLast
<1> QED BY <1>1

(* What is kept is a sequence of members. *)
LEMMA KeptType ==
  ASSUME NEW T, NEW s \in Seq(T), NEW keep
  PROVE  Kept(s, keep) \in Seq(T)
PROOF
<1> DEFINE n == Len(s)
<1>1. n \in Nat /\ \A j \in 1 .. n : s[j] \in T
  OBVIOUS
<1> HIDE DEF n
<1>2. PICK f : Keeps(f, s, keep, n)
  BY <1>1, KeepsExists
<1> DEFINE Wrong == {j \in 0 .. n : f[j] \notin Seq(T)}
<1>3. Wrong = {}
  <2>1. SUFFICES ASSUME Wrong # {} PROVE FALSE
    OBVIOUS
  <2>2. Wrong \subseteq Nat
    OBVIOUS
  <2>3. PICK j \in Wrong : \A k \in Wrong : j <= k
    <3> HIDE DEF Wrong
    <3> QED BY <2>1, <2>2, LeastNumber
  <2>4. f[j] = IF j = 0 THEN <<>> ELSE IF j \in keep THEN Append(f[j - 1], s[j]) ELSE f[j - 1]
    BY <1>2 DEF Keeps
  <2>5. j # 0
    <3>1. <<>> \in Seq(T) /\ f[j] \notin Seq(T)
      BY <2>3
    <3> HIDE DEF Wrong
    <3> QED BY <2>4, <3>1
  <2>6. j - 1 \in 0 .. n /\ j - 1 \notin Wrong /\ s[j] \in T
    BY <1>1, <2>3, <2>5
  <2>7. f[j - 1] \in Seq(T)
    BY <2>6
  <2>8. f[j] \in Seq(T)
    <3> HIDE DEF Wrong
    <3> QED BY <2>4, <2>5, <2>6, <2>7
  <2> QED BY <2>3, <2>8
<1>4. f[n] \in Seq(T)
  BY <1>1, <1>3
<1> QED BY <1>1, <1>2, <1>4, KeptIsLast DEF n

-----------------------------------------------------------------------------
(* The body: what is promised of the rows behind those to ignore or skip. *)

(* Sequences of rows of cells. *)
CellRows == Seq(Seq(Text))

(* One row more. *)
LEMMA RowAppended ==
  ASSUME NEW s \in CellRows, NEW x \in Seq(Text)
  PROVE  /\ Append(s, x) \in CellRows /\ Len(s) \in Nat /\ Len(Append(s, x)) = Len(s) + 1
         /\ Append(s, x)[Len(s) + 1] = x /\ \A k \in 1 .. Len(s) : Append(s, x)[k] = s[k]
         /\ DOMAIN s = 1 .. Len(s) /\ DOMAIN Append(s, x) = 1 .. Len(s) + 1
         /\ \A k \in 1 .. Len(s) : s[k] \in Seq(Text)
PROOF
<1> DEFINE T == Seq(Text)
<1>1. s \in Seq(T) /\ x \in T
  BY DEF CellRows
<1> HIDE DEF T
<1>2. /\ Append(s, x) \in Seq(T) /\ Len(s) \in Nat /\ Len(Append(s, x)) = Len(s) + 1
      /\ Append(s, x)[Len(s) + 1] = x /\ \A k \in 1 .. Len(s) : Append(s, x)[k] = s[k]
      /\ DOMAIN s = 1 .. Len(s) /\ DOMAIN Append(s, x) = 1 .. Len(s) + 1
      /\ \A k \in 1 .. Len(s) : s[k] \in T
  BY <1>1
<1> QED BY <1>2 DEF T, CellRows

(* The end of a sequence of rows from its m-th member on, when one more is appended. *)
LEMMA EndAppended ==
  ASSUME NEW s \in CellRows, NEW x \in Seq(Text), NEW m \in Nat, 1 <= m, m <= Len(s) + 1
  PROVE  /\ SubSeq(s, m, Len(s)) \in CellRows
         /\ Len(SubSeq(s, m, Len(s))) = Len(s) + 1 - m
         /\ SubSeq(Append(s, x), m, Len(s) + 1) = Append(SubSeq(s, m, Len(s)), x)
PROOF
<1> DEFINE T == Seq(Text)
           u == SubSeq(s, m, Len(s))
           t == Append(s, x)
           v == SubSeq(t, m, Len(s) + 1)
<1>0. s \in Seq(T) /\ x \in T
  BY DEF CellRows
<1> HIDE DEF T
<1>1. t \in Seq(T) /\ Len(t) = Len(s) + 1 /\ t[Len(s) + 1] = x
      /\ \A j \in 1 .. Len(s) : t[j] = s[j]
  BY <1>0
<1> HIDE DEF t
<1>2. /\ u \in Seq(T) /\ Len(u) = Len(s) + 1 - m
      /\ \A j \in 1 .. Len(s) + 1 - m : u[j] = s[m + j - 1]
  BY <1>0
<1>3. /\ v \in Seq(T) /\ Len(v) = Len(s) + 2 - m
      /\ \A j \in 1 .. Len(s) + 2 - m : v[j] = t[m + j - 1]
  BY <1>1
<1> HIDE DEF u, v
<1>4. v = Append(u, x)
  <2> DEFINE w == Append(u, x)
  <2>0. /\ w \in Seq(T) /\ Len(w) = Len(u) + 1 /\ w[Len(u) + 1] = x
        /\ \A j \in 1 .. Len(u) : w[j] = u[j]
    <3>1. u \in CellRows
      BY <1>2 DEF CellRows, T
    <3> QED BY <3>1, RowAppended DEF CellRows, T
  <2>1. /\ w \in Seq(T) /\ Len(w) = Len(s) + 2 - m /\ w[Len(s) + 2 - m] = x
        /\ \A j \in 1 .. Len(s) + 1 - m : w[j] = u[j]
    <3>1. Len(u) + 1 = Len(s) + 2 - m
      BY <1>0, <1>2
    <3> HIDE DEF w
    <3> QED BY <1>2, <2>0, <3>1
  <2> HIDE DEF w
  <2>2. ASSUME NEW j \in 1 .. Len(s) + 2 - m PROVE v[j] = w[j]
    <3>a. v[j] = t[m + j - 1]
      BY <1>3
    <3>1. CASE j = Len(s) + 2 - m
      <4>1. m + j - 1 = Len(s) + 1
        BY <3>1
      <4> QED BY <1>1, <2>1, <3>a, <3>1, <4>1
    <3>2. CASE j # Len(s) + 2 - m
      <4>1. j \in 1 .. Len(s) + 1 - m /\ m + j - 1 \in 1 .. Len(s)
        BY <3>2
      <4>2. t[m + j - 1] = s[m + j - 1]
        BY <1>1, <4>1
      <4>3. u[j] = s[m + j - 1] /\ w[j] = u[j]
        BY <1>2, <2>1, <4>1
      <4> QED BY <3>a, <4>2, <4>3
    <3> QED BY <3>1, <3>2
  <2>3. v = w
    BY <1>3, <2>1, <2>2
  <2> QED BY <2>3 DEF w
<1> QED BY <1>2, <1>4 DEF t, u, v, T, CellRows

(* Its beginning stays. *)
LEMMA FrontAppended ==
  ASSUME NEW s \in CellRows, NEW x \in Seq(Text), NEW n \in Nat, n <= Len(s)
  PROVE  /\ SubSeq(s, 1, n) \in CellRows /\ Len(SubSeq(s, 1, n)) = n
         /\ SubSeq(Append(s, x), 1, n) = SubSeq(s, 1, n)
         /\ SubSeq(s, 1, Len(s)) = s
PROOF
<1> DEFINE T == Seq(Text)
           u == SubSeq(s, 1, n)
           t == Append(s, x)
           v == SubSeq(t, 1, n)
<1>0. s \in Seq(T) /\ x \in T
  BY DEF CellRows
<1> HIDE DEF T
<1>1. t \in Seq(T) /\ Len(t) = Len(s) + 1 /\ \A j \in 1 .. Len(s) : t[j] = s[j]
  BY <1>0
<1> HIDE DEF t
<1>2. u \in Seq(T) /\ Len(u) = n /\ \A j \in 1 .. n : u[j] = s[j]
  BY <1>0
<1>3. v \in Seq(T) /\ Len(v) = n /\ \A j \in 1 .. n : v[j] = t[j]
  BY <1>1
<1> HIDE DEF u, v
<1>4. v = u
  BY <1>1, <1>2, <1>3
<1>5. SubSeq(s, 1, Len(s)) = s
  BY <1>0
<1> QED BY <1>2, <1>4, <1>5 DEF t, u, v, T, CellRows

(* The first position of rows that a set holds is found however many positions
   behind it are added. *)
LEMMA LeastStays ==
  ASSUME NEW S, S \subseteq Nat, S # {}, NEW S2, S \subseteq S2, S2 \subseteq Nat,
         \A k \in S2 \ S : \A m \in S : m <= k
  PROVE  LET least  == CHOOSE k \in S : \A m \in S : k <= m
             least2 == CHOOSE k \in S2 : \A m \in S2 : k <= m
         IN  least \in S /\ least2 = least
PROOF
<1> DEFINE least  == CHOOSE k \in S : \A m \in S : k <= m
           least2 == CHOOSE k \in S2 : \A m \in S2 : k <= m
<1>1. least \in S /\ \A m \in S : least <= m
  BY LeastNumber
<1>2. least2 \in S2 /\ \A m \in S2 : least2 <= m
  <2>1. S2 # {}
    OBVIOUS
  <2> QED BY <2>1, LeastNumber
<1> HIDE DEF least, least2
<1>3. least <= least2 /\ least2 <= least
  BY <1>1, <1>2
<1>4. least \in Nat /\ least2 \in Nat
  BY <1>1, <1>2
<1>5. least2 = least
  BY <1>3, <1>4
<1> QED BY <1>1, <1>5 DEF least, least2

(* What a row adds to the body: nothing as long as rows are to be ignored or
   skipped. *)
LEMMA BodyMore ==
  ASSUME NEW rows \in CellRows, NEW r \in Seq(Text), NEW o, o.rows_to_ignore \in Nat
  PROVE  /\ Body(rows, o) \in CellRows
         /\ Len(rows) <= o.rows_to_ignore => Body(rows, o) = <<>>
         /\ Body(Append(rows, r), o) =
              IF \/ Len(rows) < o.rows_to_ignore
                 \/ ~o.keep_empty_header_rows /\ Body(rows, o) = <<>> /\ ~HasText(r)
              THEN <<>> ELSE Append(Body(rows, o), r)
PROOF
<1> DEFINE more == Append(rows, r)
           ign == o.rows_to_ignore
           kept == SubSeq(rows, ign + 1, Len(rows))
           kept2 == SubSeq(more, ign + 1, Len(more))
           texts == {k \in DOMAIN kept : HasText(kept[k])}
           texts2 == {k \in DOMAIN kept2 : HasText(kept2[k])}
           First(S, ks) == IF o.keep_empty_header_rows THEN 1
                           ELSE IF S = {} THEN Len(ks) + 1
                           ELSE CHOOSE k \in S : \A m \in S : k <= m
<1>1. more \in CellRows /\ Len(more) = Len(rows) + 1
      /\ Len(rows) \in Nat /\ ign \in Nat
  BY DEF CellRows
<1>2. Body(rows, o) = SubSeq(kept, First(texts, kept), Len(kept))
  BY DEF Body
<1>3. Body(more, o) = SubSeq(kept2, First(texts2, kept2), Len(kept2))
  BY DEF Body
<1>4. ASSUME NEW s, NEW S, s = <<>>, S \subseteq DOMAIN s
      PROVE  SubSeq(s, First(S, s), Len(s)) = <<>>
  <2>1. S = {} /\ Len(s) = 0
    BY <1>4
  <2>2. First(S, s) = 1
    BY <2>1
  <2> QED BY <1>4, <2>1, <2>2
<1>5. CASE Len(rows) < ign
  <2>1. kept = <<>> /\ kept2 = <<>>
    BY <1>1, <1>5, SubSeqEmpty
  <2>2. Body(rows, o) = <<>> /\ Body(more, o) = <<>>
    <3>1. texts \subseteq DOMAIN kept /\ texts2 \subseteq DOMAIN kept2
      OBVIOUS
    <3> HIDE DEF kept, kept2, texts, texts2
    <3>2. SubSeq(kept, First(texts, kept), Len(kept)) = <<>>
      BY <1>4, <2>1, <3>1
    <3>3. SubSeq(kept2, First(texts2, kept2), Len(kept2)) = <<>>
      BY <1>4, <2>1, <3>1
    <3> HIDE DEF First
    <3> QED BY <1>2, <1>3, <3>2, <3>3
  <2>3. <<>> \in CellRows
    BY DEF CellRows
  <2> QED BY <1>5, <2>2, <2>3
<1>6. CASE Len(rows) >= ign
  <2>1. kept \in CellRows /\ Len(kept) = Len(rows) - ign /\ kept2 = Append(kept, r)
    <3> DEFINE m == ign + 1
    <3>1. m \in Nat /\ 1 <= m /\ m <= Len(rows) + 1 /\ Len(rows) + 1 - m = Len(rows) - ign
      BY <1>1, <1>6
    <3> HIDE DEF m
    <3>2. /\ SubSeq(rows, m, Len(rows)) \in CellRows
          /\ Len(SubSeq(rows, m, Len(rows))) = Len(rows) + 1 - m
          /\ SubSeq(more, m, Len(rows) + 1) = Append(SubSeq(rows, m, Len(rows)), r)
      BY <3>1, EndAppended
    <3>3. kept = SubSeq(rows, m, Len(rows)) /\ kept2 = SubSeq(more, m, Len(rows) + 1)
      BY <1>1 DEF m
    <3> HIDE DEF kept, kept2, more
    <3> QED BY <3>1, <3>2, <3>3
  <2> HIDE DEF kept, kept2
  <2>2. /\ Len(kept) \in Nat /\ Len(kept2) = Len(kept) + 1 /\ kept2[Len(kept) + 1] = r
        /\ DOMAIN kept = 1 .. Len(kept) /\ DOMAIN kept2 = 1 .. Len(kept) + 1
        /\ \A k \in 1 .. Len(kept) : kept2[k] = kept[k]
    BY <2>1, RowAppended
  <2>3. texts2 = IF HasText(r) THEN texts \cup {Len(kept) + 1} ELSE texts
    BY <2>2
  <2>4. texts \subseteq 1 .. Len(kept)
    BY <2>2
  <2> DEFINE first == First(texts, kept)
             first2 == First(texts2, kept2)
  <2>5. CASE o.keep_empty_header_rows \/ texts # {}
    <3>1. /\ first \in 1 .. Len(kept) + 1 /\ first2 = first
          /\ ~o.keep_empty_header_rows => first \in 1 .. Len(kept)
      <4>1. CASE o.keep_empty_header_rows
        BY <2>2, <4>1
      <4>2. CASE ~o.keep_empty_header_rows
        <5>1. texts # {} /\ texts \subseteq Nat /\ texts \subseteq texts2 /\ texts2 \subseteq Nat
              /\ \A k \in texts2 \ texts : \A m \in texts : m <= k
          BY <2>2, <2>3, <2>4, <2>5, <4>2
        <5>2. texts2 # {}
          BY <5>1
        <5> HIDE DEF texts, texts2
        <5>3. first = CHOOSE k \in texts : \A m \in texts : k <= m
          BY <4>2, <5>1
        <5>4. first2 = CHOOSE k \in texts2 : \A m \in texts2 : k <= m
          BY <4>2, <5>2
        <5>5. first \in texts /\ first2 = first
          <6> DEFINE x == CHOOSE k \in texts : \A m \in texts : k <= m
                     x2 == CHOOSE k \in texts2 : \A m \in texts2 : k <= m
          <6>1. x \in texts /\ x2 = x
            BY <5>1, LeastStays
          <6> HIDE DEF x, x2, first, first2
          <6> QED BY <5>3, <5>4, <6>1 DEF x, x2
        <5> HIDE DEF first, first2
        <5>6. first \in 1 .. Len(kept) /\ first2 = first
          BY <2>4, <5>5
        <5> QED BY <2>2, <5>6
      <4> QED BY <4>1, <4>2
    <3> HIDE DEF first, first2
    <3>2. first \in Nat /\ 1 <= first /\ first <= Len(kept) + 1
      BY <2>2, <3>1
    <3>3. /\ SubSeq(kept, first, Len(kept)) \in CellRows
          /\ Len(SubSeq(kept, first, Len(kept))) = Len(kept) + 1 - first
          /\ SubSeq(Append(kept, r), first, Len(kept) + 1) = Append(SubSeq(kept, first, Len(kept)), r)
      BY <1>1, <2>1, <2>2, <3>2, EndAppended
    <3>4. Body(rows, o) \in CellRows /\ Len(Body(rows, o)) = Len(kept) + 1 - first
          /\ Body(more, o) = Append(Body(rows, o), r)
      BY <1>2, <1>3, <2>1, <2>2, <3>1, <3>3 DEF first, first2
    <3>5. ~o.keep_empty_header_rows => Body(rows, o) # <<>>
      BY <2>2, <3>1, <3>4
    <3>6. Len(rows) <= ign => Body(rows, o) = <<>>
      <4>1. SUFFICES ASSUME Len(rows) <= ign PROVE Body(rows, o) = <<>>
        OBVIOUS
      <4>2. Len(kept) = 0
        BY <1>1, <1>6, <2>1, <4>1
      <4>3. Len(Body(rows, o)) = 0
        BY <2>4, <3>1, <3>4, <4>2
      <4> QED BY <3>4, <4>3
    <3> QED BY <1>1, <1>6, <3>4, <3>5, <3>6
  <2>6. CASE ~o.keep_empty_header_rows /\ texts = {}
    <3>1. first = Len(kept) + 1
      BY <2>6
    <3>a. <<>> \in CellRows /\ Append(<<>>, r) \in CellRows
      <4>1. <<>> \in CellRows
        BY DEF CellRows
      <4> QED BY <4>1, RowAppended
    <3>2. Body(rows, o) = <<>>
      <4>1. SubSeq(kept, Len(kept) + 1, Len(kept)) = <<>>
        BY <2>2, SubSeqEmpty
      <4> QED BY <1>2, <3>1, <4>1
    <3>3. CASE HasText(r)
      <4>1. texts2 = {Len(kept) + 1}
        BY <2>3, <2>6, <3>3
      <4>2. first2 = Len(kept) + 1
        <5> HIDE DEF texts2
        <5> DEFINE n == Len(kept) + 1
        <5>1. n \in Nat /\ texts2 = {n}
          BY <2>2, <4>1
        <5> HIDE DEF n
        <5>2. first2 = CHOOSE k \in texts2 : \A m \in texts2 : k <= m
          BY <2>6, <5>1
        <5>3. n \in texts2 /\ \A m \in texts2 : n <= m
          BY <5>1
        <5>4. first2 \in texts2
          BY <5>2, <5>3, Zenon
        <5> QED BY <5>1, <5>4 DEF n
      <4> HIDE DEF first2
      <4>3. Body(more, o) = SubSeq(kept2, Len(kept) + 1, Len(kept) + 1)
        BY <1>3, <2>2, <4>2 DEF first2
      <4>4. SubSeq(Append(kept, r), Len(kept) + 1, Len(kept) + 1) = Append(SubSeq(kept, Len(kept) + 1, Len(kept)), r)
        <5> DEFINE n == Len(kept) + 1
        <5>1. n \in Nat /\ 1 <= n /\ n <= Len(kept) + 1
          BY <2>2
        <5> HIDE DEF n
        <5>2. SubSeq(Append(kept, r), n, Len(kept) + 1) = Append(SubSeq(kept, n, Len(kept)), r)
          BY <1>1, <2>1, <5>1, EndAppended
        <5> QED BY <5>2 DEF n
      <4>5. SubSeq(kept, Len(kept) + 1, Len(kept)) = <<>>
        BY <2>2, SubSeqEmpty
      <4>6. Body(more, o) = Append(<<>>, r)
        BY <2>1, <4>3, <4>4, <4>5
      <4> QED BY <1>1, <1>6, <2>6, <3>a, <3>2, <3>3, <4>6
    <3>4. CASE ~HasText(r)
      <4>1. texts2 = {}
        BY <2>3, <2>6, <3>4
      <4>2. first2 = Len(kept2) + 1
        BY <2>6, <4>1
      <4> HIDE DEF first2
      <4>3. Body(more, o) = <<>>
        <5>1. SubSeq(kept2, Len(kept2) + 1, Len(kept2)) = <<>>
          BY <2>2, SubSeqEmpty
        <5> QED BY <1>3, <4>2, <5>1 DEF first2
      <4> QED BY <1>1, <1>6, <2>6, <3>a, <3>2, <3>4, <4>3
    <3> QED BY <3>3, <3>4
  <2> QED BY <2>5, <2>6
<1> QED BY <1>1, <1>5, <1>6

-----------------------------------------------------------------------------
(* The texts of a collated header. *)

(* f holds the first members of s put one behind the other. *)
Joins(f, s, m) == f = [i \in 1 .. m |-> IF i = 1 THEN s[i] ELSE f[i - 1] \o s[i]]

(* There is such a function for every sequence. *)
LEMMA JoinsExists ==
  ASSUME NEW s, NEW m \in Nat
  PROVE  \E f : Joins(f, s, m)
PROOF
<1> DEFINE Without == {n \in Nat : ~\E f : Joins(f, s, n)}
<1>1. SUFFICES ASSUME Without # {} PROVE FALSE
  OBVIOUS
<1>2. PICK n \in Without : \A k \in Without : n <= k
  BY <1>1, LeastNumber
<1>3. n # 0
  <2> DEFINE f == [i \in 1 .. 0 |-> <<>>]
  <2>1. f = [i \in 1 .. 0 |-> IF i = 1 THEN s[i] ELSE f[i - 1] \o s[i]]
    OBVIOUS
  <2> HIDE DEF f
  <2>2. Joins(f, s, 0)
    BY <2>1 DEF Joins
  <2> QED BY <2>2
<1>4. n - 1 \in Nat /\ n - 1 \notin Without
  BY <1>2, <1>3
<1>5. PICK g : Joins(g, s, n - 1)
  BY <1>4
<1> DEFINE f == [j \in 1 .. n |-> IF j < n THEN g[j] ELSE IF n = 1 THEN s[n] ELSE g[n - 1] \o s[n]]
<1>6. ASSUME NEW j \in 1 .. n
      PROVE  f[j] = IF j = 1 THEN s[j] ELSE f[j - 1] \o s[j]
  <2>1. CASE j = n
    <3>1. CASE n = 1
      BY <2>1, <3>1
    <3>2. CASE n # 1
      <4>1. n - 1 \in 1 .. n /\ n - 1 < n /\ n \in 1 .. n /\ ~(n < n)
        BY <1>3, <1>4, <3>2
      <4>2. f[n] = g[n - 1] \o s[n]
        BY <3>2, <4>1
      <4>3. f[n - 1] = g[n - 1]
        BY <4>1
      <4> HIDE DEF f
      <4> QED BY <2>1, <3>2, <4>2, <4>3
    <3> QED BY <3>1, <3>2
  <2>2. CASE j < n
    <3>1. j \in 1 .. n - 1
      BY <2>2
    <3>2. g[j] = IF j = 1 THEN s[j] ELSE g[j - 1] \o s[j]
      BY <1>5, <3>1 DEF Joins
    <3>3. f[j] = g[j] /\ (j # 1 => f[j - 1] = g[j - 1])
      BY <2>2, <3>1
    <3> HIDE DEF f
    <3> QED BY <3>2, <3>3
  <2> QED BY <2>1, <2>2
<1>7. Joins(f, s, n)
  <2>1. f = [j \in 1 .. n |-> f[j]]
    OBVIOUS
  <2> HIDE DEF f
  <2> QED BY <1>6, <2>1 DEF Joins
<1> QED BY <1>2, <1>7

(* The first m members of s and of t are the same. *)
StartAlike(s, t, m) == \A j \in 1 .. m : s[j] = t[j]

(* Then so is what they are joined to. *)
LEMMA JoinsUnique ==
  ASSUME NEW s, NEW t, NEW f, NEW g, NEW m \in Nat, NEW n \in Nat, m <= n,
         Joins(f, s, m), Joins(g, t, n), StartAlike(s, t, m)
  PROVE  \A j \in 1 .. m : f[j] = g[j]
PROOF
<1> DEFINE Apart == {j \in 1 .. m : f[j] # g[j]}
<1>1. SUFFICES ASSUME Apart # {} PROVE FALSE
  OBVIOUS
<1>2. Apart \subseteq Nat
  OBVIOUS
<1>3. PICK j \in Apart : \A k \in Apart : j <= k
  <2> HIDE DEF Apart
  <2> QED BY <1>1, <1>2, LeastNumber
<1>4. /\ f[j] = IF j = 1 THEN s[j] ELSE f[j - 1] \o s[j]
      /\ g[j] = IF j = 1 THEN t[j] ELSE g[j - 1] \o t[j]
  <2>1. j \in 1 .. m /\ j \in 1 .. n
    OBVIOUS
  <2> QED BY <2>1 DEF Joins
<1>5. s[j] = t[j] /\ f[j] # g[j]
  BY <1>3 DEF StartAlike
<1>6. j # 1
  BY <1>4, <1>5
<1>7. j - 1 \in 1 .. m /\ j - 1 \notin Apart
  BY <1>3, <1>6
<1>8. f[j - 1] = g[j - 1]
  BY <1>7
<1> QED BY <1>4, <1>5, <1>6, <1>8

(* FlattenSeq is where that function ends. *)
LEMMA FlattenIsLast ==
  ASSUME NEW s, Len(s) \in Nat, Len(s) # 0, NEW f, Joins(f, s, Len(s))
  PROVE  FlattenSeq(s) = f[Len(s)]
PROOF
<1> DEFINE g == CHOOSE g : Joins(g, s, Len(s))
<1>1. Joins(g, s, Len(s))
  OBVIOUS
<1>2. FlattenSeq(s) = g[Len(s)]
  BY DEF FlattenSeq, Joins
<1> HIDE DEF g
<1>3. \A j \in 1 .. Len(s) : g[j] = f[j]
  BY <1>1, JoinsUnique DEF StartAlike
<1>4. Len(s) \in 1 .. Len(s)
  OBVIOUS
<1> QED BY <1>2, <1>3, <1>4

(* Texts joined are a text. *)
LEMMA FlattenType ==
  ASSUME NEW s \in Seq(Text)
  PROVE  FlattenSeq(s) \in Text
PROOF
<1>1. CASE Len(s) = 0
  <2>1. FlattenSeq(s) = <<>>
    BY <1>1 DEF FlattenSeq
  <2> QED BY <2>1 DEF Text
<1>2. CASE Len(s) # 0
  <2> DEFINE n == Len(s)
  <2>1. n \in Nat /\ n \in 1 .. n /\ \A j \in 1 .. n : s[j] \in Text
    BY <1>2
  <2> HIDE DEF n
  <2>2. PICK f : Joins(f, s, n)
    BY <2>1, JoinsExists
  <2> DEFINE Wrong == {j \in 1 .. n : f[j] \notin Text}
  <2>3. Wrong = {}
    <3>1. SUFFICES ASSUME Wrong # {} PROVE FALSE
      OBVIOUS
    <3>2. Wrong \subseteq Nat
      OBVIOUS
    <3>3. PICK j \in Wrong : \A k \in Wrong : j <= k
      <4> HIDE DEF Wrong
      <4> QED BY <3>1, <3>2, LeastNumber
    <3>4. f[j] = IF j = 1 THEN s[j] ELSE f[j - 1] \o s[j]
      BY <2>2 DEF Joins
    <3>5. j \in 1 .. n /\ f[j] \notin Text /\ s[j] \in Text
      BY <2>1, <3>3
    <3>6. j # 1
      <4> HIDE DEF Wrong
      <4> QED BY <3>4, <3>5
    <3>7. j - 1 \in 1 .. n /\ j - 1 \notin Wrong
      <4>1. j \in Nat /\ j - 1 \in 1 .. n /\ j - 1 < j
        BY <2>1, <3>5, <3>6
      <4> HIDE DEF Wrong
      <4>2. j - 1 \notin Wrong
        BY <3>3, <4>1
      <4> QED BY <4>1, <4>2
    <3>8. f[j - 1] \in Text
      BY <3>7
    <3> HIDE DEF Wrong
    <3>9. f[j - 1] \o s[j] \in Text
      BY <3>5, <3>8 DEF Text
    <3> QED BY <3>4, <3>5, <3>6, <3>9
  <2>4. f[n] \in Text
    BY <2>1, <2>3
  <2> QED BY <1>2, <2>1, <2>2, <2>4, FlattenIsLast DEF n
<1> QED BY <1>1, <1>2

(* One more text goes behind the others. *)
LEMMA FlattenMore ==
  ASSUME NEW s \in Seq(Text), NEW x \in Text
  PROVE  FlattenSeq(Append(s, x)) = FlattenSeq(s) \o x
PROOF
<1> DEFINE n == Len(s)
           k == n + 1
           t == Append(s, x)
<1>1. /\ n \in Nat /\ Len(t) = k /\ t[k] = x /\ \A j \in 1 .. n : t[j] = s[j]
      /\ k \in Nat /\ k # 0 /\ k \in 1 .. k /\ k - 1 = n /\ n <= k
  OBVIOUS
<1>2. n = 0 => k = 1
  OBVIOUS
<1> HIDE DEF n, k, t
<1>3. PICK g : Joins(g, t, k)
  BY <1>1, JoinsExists
<1>4. FlattenSeq(t) = g[k]
  BY <1>1, <1>3, FlattenIsLast
<1>5. g[k] = IF k = 1 THEN t[k] ELSE g[k - 1] \o t[k]
  BY <1>1, <1>3 DEF Joins
<1>6. CASE n = 0
  <2>1. FlattenSeq(s) = <<>>
    <3>1. s = <<>>
      BY <1>6 DEF n
    <3> QED BY <3>1 DEF FlattenSeq
  <2>2. <<>> \o x = x
    BY DEF Text
  <2> QED BY <1>1, <1>2, <1>4, <1>5, <1>6, <2>1, <2>2 DEF t
<1>7. CASE n # 0
  <2>1. PICK f : Joins(f, s, n)
    BY <1>1, JoinsExists
  <2>2. FlattenSeq(s) = f[n]
    BY <1>1, <1>7, <2>1, FlattenIsLast DEF n
  <2>3. StartAlike(s, t, n)
    BY <1>1 DEF StartAlike
  <2>4. \A j \in 1 .. n : f[j] = g[j]
    BY <1>1, <1>3, <2>1, <2>3, JoinsUnique
  <2>5. n \in 1 .. n /\ k # 1
    BY <1>1, <1>7
  <2>6. f[n] = g[n]
    BY <2>4, <2>5
  <2> QED BY <1>1, <1>4, <1>5, <2>2, <2>5, <2>6 DEF t
<1> QED BY <1>6, <1>7

(* Column j of the rows, from top to bottom. *)
Stacked(rows, j) ==
  [k \in DOMAIN rows |-> IF j \in DOMAIN rows[k] THEN rows[k][j] ELSE Blank]

(* Cell j of a row, which may be too short to have one. *)
CellOf(r, j) == IF j \in DOMAIN r THEN r[j] ELSE Blank

(* A row more in every column. *)
LEMMA StackedMore ==
  ASSUME NEW rows \in CellRows, NEW r \in Seq(Text), NEW j \in Nat
  PROVE  /\ Stacked(rows, j) \in Seq(Text) /\ CellOf(r, j) \in Text
         /\ Stacked(Append(rows, r), j) = Append(Stacked(rows, j), CellOf(r, j))
PROOF
<1> DEFINE more == Append(rows, r)
           n == Len(rows)
           u == Stacked(rows, j)
           x == CellOf(r, j)
           v == Stacked(more, j)
<1>1. /\ n \in Nat /\ DOMAIN rows = 1 .. n /\ DOMAIN more = 1 .. n + 1 /\ more[n + 1] = r
      /\ \A k \in 1 .. n : more[k] = rows[k] /\ rows[k] \in Seq(Text)
  BY RowAppended
<1> HIDE DEF more, n
<1>2. Blank \in Text
  BY DEF Blank, Text
<1>3. x \in Text
  BY <1>2 DEF CellOf
<1>4. ASSUME NEW k \in 1 .. n PROVE (IF j \in DOMAIN rows[k] THEN rows[k][j] ELSE Blank) \in Text
  <2>1. rows[k] \in Seq(Text)
    BY <1>1
  <2> QED BY <1>2, <2>1
<1>5. u \in [1 .. n -> Text]
  BY <1>1, <1>4 DEF Stacked
<1>6. DOMAIN v = 1 .. n + 1 /\ v[n + 1] = x /\ \A k \in 1 .. n : v[k] = u[k]
  BY <1>1 DEF Stacked, CellOf
<1>7. v = [k \in 1 .. n + 1 |-> v[k]]
  BY <1>6 DEF Stacked
<1> HIDE DEF u, v, x
<1>8. u \in Seq(Text) /\ Len(u) = n
  BY <1>1, <1>5
<1>9. v = Append(u, x)
  <2> HIDE DEF Text
  <2> DEFINE w == Append(u, x)
  <2>1. /\ w \in Seq(Text) /\ Len(w) = n + 1 /\ w[n + 1] = x
        /\ \A k \in 1 .. n : w[k] = u[k]
    BY <1>3, <1>8
  <2> HIDE DEF w
  <2>2. w = [k \in 1 .. n + 1 |-> w[k]]
    BY <1>1, <2>1
  <2>3. ASSUME NEW k \in 1 .. n + 1 PROVE v[k] = w[k]
    <3>1. k \in 1 .. n \/ k = n + 1
      BY <1>1
    <3> QED BY <1>6, <2>1, <3>1
  <2>4. v = w
    BY <1>7, <2>2, <2>3
  <2> QED BY <2>4 DEF w
<1> QED BY <1>3, <1>8, <1>9 DEF u, v, x, more

(* A row more in a collated header. *)
LEMMA CollatedMore ==
  ASSUME NEW rows \in CellRows, NEW r \in Seq(Text), NEW n \in Nat
  PROVE  /\ Collated(rows, n) \in Seq(Text) /\ Len(Collated(rows, n)) = n
         /\ \A j \in 1 .. n : Collated(Append(rows, r), n)[j] = Collated(rows, n)[j] \o CellOf(r, j)
         /\ \A j \in 1 .. n : Collated(<<>>, n)[j] = Blank
PROOF
<1>1. \A rs : Collated(rs, n) = [j \in 1 .. n |-> FlattenSeq(Stacked(rs, j))]
  BY DEF Collated, Stacked
<1>2. ASSUME NEW j \in 1 .. n
      PROVE  /\ FlattenSeq(Stacked(rows, j)) \in Text
             /\ FlattenSeq(Stacked(Append(rows, r), j)) = FlattenSeq(Stacked(rows, j)) \o CellOf(r, j)
             /\ FlattenSeq(Stacked(<<>>, j)) = Blank
  <2> DEFINE u == Stacked(rows, j)
             x == CellOf(r, j)
  <2>1. u \in Seq(Text) /\ x \in Text /\ Stacked(Append(rows, r), j) = Append(u, x)
    BY StackedMore
  <2> HIDE DEF u, x
  <2>2. FlattenSeq(u) \in Text /\ FlattenSeq(Append(u, x)) = FlattenSeq(u) \o x
    BY <2>1, FlattenType, FlattenMore
  <2>3. Stacked(<<>>, j) = <<>>
    BY DEF Stacked
  <2>4. FlattenSeq(<<>>) = <<>>
    BY DEF FlattenSeq
  <2> QED BY <2>1, <2>2, <2>3, <2>4 DEF u, x, Blank
<1>3. Collated(rows, n) \in [1 .. n -> Text]
  BY <1>1, <1>2
<1>4. Collated(rows, n) \in Seq(Text) /\ Len(Collated(rows, n)) = n
  BY <1>3
<1> QED BY <1>1, <1>2, <1>4

-----------------------------------------------------------------------------
(* What is promised: a header, and the rows behind its rows. *)

(* The first row of the caller: made of the rows of a header. *)
HeaderOf(top, span) == IF span = 1 THEN top[1] ELSE Collated(top, Len(top[1]))

(* What is promised of the rows behind those to ignore or skip. *)
Handed(body, span) ==
  IF Len(body) < span THEN <<>>
  ELSE <<HeaderOf(SubSeq(body, 1, span), span)>> \o SubSeq(body, span + 1, Len(body))

(* RowsPromised is that, of the body. *)
LEMMA PromisedIsHanded ==
  ASSUME NEW rows, NEW o
  PROVE  RowsPromised(rows, o) = Handed(Body(rows, o), Wider(1, o.header_span))
BY DEF RowsPromised, Handed, HeaderOf

(* A header is a row. *)
LEMMA HeaderType ==
  ASSUME NEW top \in CellRows, Len(top) > 0, NEW span
  PROVE  HeaderOf(top, span) \in Seq(Text)
PROOF
<1>1. Len(top) \in Nat /\ 1 \in 1 .. Len(top) /\ top[1] \in Seq(Text)
  <2>1. Len(top) \in Nat
    BY DEF CellRows
  <2>2. <<>> \in Seq(Text) /\ 1 \in 1 .. Len(top)
    BY <2>1
  <2> QED BY <2>1, <2>2, RowAppended
<1>2. Collated(top, Len(top[1])) \in Seq(Text)
  <2> DEFINE n == Len(top[1])
  <2>1. n \in Nat /\ <<>> \in Seq(Text)
    BY <1>1
  <2> HIDE DEF n
  <2>2. Collated(top, n) \in Seq(Text)
    BY <2>1, CollatedMore
  <2> QED BY <2>2 DEF n
<1> QED BY <1>1, <1>2 DEF HeaderOf

(* What one more row adds: nothing before the header is complete, then the
   header, then the row itself. *)
LEMMA HandedMore ==
  ASSUME NEW body \in CellRows, NEW r \in Seq(Text), NEW span \in Nat, span > 0
  PROVE  /\ Handed(body, span) \in CellRows
         /\ Len(body) < span => Handed(body, span) = <<>>
         /\ Len(body) + 1 = span =>
              Handed(Append(body, r), span) = <<HeaderOf(Append(body, r), span)>>
         /\ Len(body) >= span =>
              Handed(Append(body, r), span) = Append(Handed(body, span), r)
PROOF
<1> DEFINE n == Len(body)
           more == Append(body, r)
<1>1. n \in Nat /\ more \in CellRows /\ Len(more) = n + 1
  BY RowAppended
<1> HIDE DEF more
<1>2. n < span => Handed(body, span) = <<>>
  BY DEF Handed
<1>3. ASSUME n + 1 = span PROVE Handed(more, span) = <<HeaderOf(more, span)>>
  <2>1. SubSeq(more, 1, span) = more
    <3>1. SubSeq(more, 1, Len(more)) = more
      BY <1>1, FrontAppended
    <3> QED BY <1>1, <1>3, <3>1
  <2>2. SubSeq(more, span + 1, Len(more)) = <<>>
    <3>1. span + 1 \in Int /\ Len(more) \in Int /\ Len(more) < span + 1
      BY <1>1, <1>3
    <3> QED BY <3>1, SubSeqEmpty
  <2>3. <<HeaderOf(more, span)>> \o <<>> = <<HeaderOf(more, span)>>
    OBVIOUS
  <2>4. ~(Len(more) < span)
    BY <1>1, <1>3
  <2> QED BY <2>1, <2>2, <2>3, <2>4 DEF Handed
<1>4. ASSUME n >= span
      PROVE  /\ Handed(body, span) \in CellRows
             /\ Handed(more, span) = Append(Handed(body, span), r)
  <2> DEFINE top == SubSeq(body, 1, span)
             m == span + 1
             rest == SubSeq(body, m, n)
             h == HeaderOf(top, span)
  <2>1. top \in CellRows /\ Len(top) = span /\ SubSeq(more, 1, span) = top
    BY <1>4, FrontAppended DEF more
  <2>2. rest \in CellRows /\ SubSeq(more, m, n + 1) = Append(rest, r)
    <3>1. m \in Nat /\ 1 <= m /\ m <= n + 1
      BY <1>1, <1>4
    <3> HIDE DEF m
    <3> QED BY <3>1, EndAppended DEF more
  <2>3. h \in Seq(Text)
    <3> HIDE DEF top
    <3> QED BY <2>1, HeaderType
  <2>4. Handed(body, span) = <<h>> \o rest
    BY <1>1, <1>4 DEF Handed
  <2>5. Handed(more, span) = <<h>> \o Append(rest, r)
    <3>1. ~(Len(more) < span) /\ Len(more) = n + 1
      BY <1>1, <1>4
    <3> HIDE DEF n, rest
    <3> QED BY <2>1, <2>2, <3>1 DEF Handed
  <2> HIDE DEF h, rest
  <2>6. /\ <<h>> \o rest \in CellRows
        /\ <<h>> \o Append(rest, r) = Append(<<h>> \o rest, r)
    <3> DEFINE T == Seq(Text)
    <3>1. h \in T /\ rest \in Seq(T) /\ r \in T
      BY <2>2, <2>3 DEF CellRows
    <3> HIDE DEF T
    <3>2. <<h>> \in Seq(T) /\ <<h>> \o rest \in Seq(T)
      BY <3>1
    <3>3. <<h>> \o Append(rest, r) = Append(<<h>> \o rest, r)
      BY <3>1, <3>2
    <3> QED BY <3>2, <3>3 DEF CellRows, T
  <2> QED BY <2>4, <2>5, <2>6
<1>5. <<>> \in CellRows
  BY DEF CellRows
<1>6. n < span \/ n >= span
  BY <1>1
<1> QED BY <1>2, <1>3, <1>4, <1>5, <1>6 DEF more

-----------------------------------------------------------------------------
(* What the handlers do: set_callbacks, and the caller's handler. *)

(* The handler that is due for the next row. *)
Due(s) ==
  IF s.rows_to_ignore > 0 THEN "ignore"
  ELSE IF ~s.keep_empty_header_rows THEN "skip"
  ELSE IF options.header_span > 1 /\ s.header_span > 0 THEN "collate"
  ELSE s.orig_row_handler

(* s2 has from s what the chain counts by. *)
Steady(s, s2) ==
  /\ s2.rows_to_ignore = s.rows_to_ignore
  /\ s2.keep_empty_header_rows = s.keep_empty_header_rows
  /\ s2.header_span = s.header_span /\ s2.collated = s.collated
  /\ s2.cum_row_count = s.cum_row_count /\ s2.buffer_exceeded = s.buffer_exceeded
  /\ s2.orig_cell_handler = s.orig_cell_handler
  /\ s2.abort = s.abort /\ s2.freed = s.freed

(* The caller is not told of a row. *)
Silent(s, s2) == s2.called = s.called /\ s2.now = s.now

(* collate_header_append gives up. *)
GivesUp(s, s2) == s2.freed /\ s2.abort /\ Silent(s, s2)

(* The caller is told of row x, and its cell handler has seen v: at once, or in
   pull mode when zsv_next_row returns. *)
Tells(s, s2, x, v) ==
  IF options.mode = "pull"
  THEN s2.called = s.called /\ s2.now /\ x = [j \in 1 .. s2.row_used |-> s2.cells[j]]
  ELSE \E c \in Given :
         /\ s2.called = Append(s.called, c) /\ IsRowCall(c)
         /\ c.cells = x /\ c.number = s2.data_row_count /\ c.seen = v

(* The cell handler is the caller's while the row handler is, and has seen the
   cells of the row, or nothing. *)
CellsBy(s) == s.orig_cell_handler /\ (s.cell_handler <=> s.row_handler \in Caller)
Attentive(s) == CellsBy(s) /\ s.seen = IF s.cell_handler THEN Row(s) ELSE <<>>
Quiet(s) == CellsBy(s) /\ s.seen = <<>>

(* set_callbacks installs the handler that is due. *)
LEMMA SetCallbacksDoes ==
  ASSUME NEW s \in Scanner,
         s.header_span = options.header_span \/ s.header_span = 0
  PROVE  LET s2 == SetCallbacks(s) IN
         /\ Steady(s, s2) /\ Silent(s, s2) /\ s2.orig_row_handler = s.orig_row_handler
         /\ s2.cells = s.cells /\ s2.used = s.used /\ s2.seen = s.seen
         /\ s2.row_handler = Due(s) /\ Due(s2) = Due(s)
         /\ s2.row_handler \in Caller =>
              s2.data_row_count = 0 /\ s2.cell_handler = s.orig_cell_handler
         /\ s2.row_handler \notin Caller => ~s2.cell_handler
PROOF
<1> DEFINE s2 == SetCallbacks(s)
<1>1. s.orig_row_handler \in Caller /\ s.header_span \in Nat
  BY DEF Scanner
<1>2. Due(s) = IF s.rows_to_ignore > 0 THEN "ignore"
               ELSE IF ~s.keep_empty_header_rows THEN "skip"
               ELSE IF s.header_span > 1 THEN "collate" ELSE s.orig_row_handler
  BY <1>1 DEF Due
<1>3. ASSUME NEW h \in Chain, s2 = Installed(s, h)
      PROVE  /\ Steady(s, s2) /\ Silent(s, s2) /\ s2.orig_row_handler = s.orig_row_handler
             /\ s2.cells = s.cells /\ s2.used = s.used /\ s2.seen = s.seen
             /\ s2.row_handler = h /\ ~s2.cell_handler /\ h \notin Caller
  <2> HIDE DEF s2
  <2>1. h \notin Caller
    BY DEF Chain, Caller
  <2>2. Steady(s, s2)
    BY <1>3 DEF Installed, Steady, Scanner
  <2>3. /\ Silent(s, s2) /\ s2.orig_row_handler = s.orig_row_handler
        /\ s2.cells = s.cells /\ s2.used = s.used /\ s2.seen = s.seen
        /\ s2.row_handler = h /\ ~s2.cell_handler
    BY <1>3 DEF Installed, Silent, Scanner
  <2> QED BY <2>1, <2>2, <2>3
<1>4. CASE s.rows_to_ignore > 0
  BY <1>2, <1>3, <1>4 DEF SetCallbacks, Chain, Steady, Due
<1>5. CASE ~(s.rows_to_ignore > 0) /\ ~s.keep_empty_header_rows
  BY <1>2, <1>3, <1>5 DEF SetCallbacks, Chain, Steady, Due
<1>6. CASE ~(s.rows_to_ignore > 0) /\ s.keep_empty_header_rows /\ s.header_span > 1
  BY <1>2, <1>3, <1>6 DEF SetCallbacks, Chain, Steady, Due
<1>7. CASE ~(s.rows_to_ignore > 0) /\ s.keep_empty_header_rows /\ ~(s.header_span > 1)
  <2>1. s2 = [s EXCEPT !.row_handler = s.orig_row_handler, !.cell_handler = s.orig_cell_handler,
                       !.ctx = "caller", !.data_row_count = 0,
                       !.get_cell = IF s.overwrite THEN "overwrite" ELSE "plain"]
    BY <1>7 DEF SetCallbacks
  <2> HIDE DEF s2
  <2>2. Steady(s, s2)
    BY <2>1 DEF Steady, Scanner
  <2>3. /\ Silent(s, s2) /\ s2.orig_row_handler = s.orig_row_handler
        /\ s2.cells = s.cells /\ s2.used = s.used /\ s2.seen = s.seen
        /\ s2.row_handler = s.orig_row_handler
        /\ s2.data_row_count = 0 /\ s2.cell_handler = s.orig_cell_handler
    BY <2>1 DEF Silent, Scanner
  <2>4. Due(s2) = Due(s)
    BY <2>2, <2>3 DEF Due, Steady
  <2> QED BY <1>1, <1>2, <1>7, <2>2, <2>3, <2>4 DEF s2
<1> QED BY <1>4, <1>5, <1>6, <1>7

(* The caller's handler is given the row, and stays its handler. *)
LEMMA CallerRowDoes ==
  ASSUME NEW s \in Scanner, ChainInv(s), ModeInv(s), s.row_handler \in Caller
  PROVE  LET s2 == CallerRow(s) IN
         /\ Steady(s, s2) /\ s2.cells = s.cells /\ s2.cell_handler = s.cell_handler
         /\ s2.data_row_count = s.data_row_count
         /\ s2.row_handler = s2.orig_row_handler /\ s2.row_handler \in Caller
         /\ Tells(s, s2, Row(s), s.seen)
         /\ options.mode # "pull" => s2.seen = <<>>
PROOF
<1> DEFINE s2 == CallerRow(s)
<1>1. s.row_handler = s.orig_row_handler
      /\ (options.mode = "pull" <=> s.row_handler = "pull")
  BY DEF ChainInv, ModeInv
<1>2. CASE s.row_handler = "pull"
  <2>1. s2 = [s EXCEPT !.now = TRUE, !.row_used = s.used]
    BY <1>2 DEF CallerRow
  <2> HIDE DEF s2
  <2>2. Steady(s, s2)
    BY <2>1 DEF Steady, Scanner
  <2>3. /\ s2.cells = s.cells /\ s2.cell_handler = s.cell_handler
        /\ s2.data_row_count = s.data_row_count
        /\ s2.row_handler = s.row_handler /\ s2.orig_row_handler = s.orig_row_handler
        /\ s2.called = s.called /\ s2.now /\ s2.row_used = s.used
    BY <2>1 DEF Scanner
  <2>4. Tells(s, s2, Row(s), s.seen)
    BY <1>1, <1>2, <2>3 DEF Tells, Row
  <2> QED BY <1>1, <1>2, <2>2, <2>3, <2>4 DEF s2
<1>3. CASE s.row_handler \in {"header", "data"}
  <2> DEFINE handler == s.row_handler
             x == Called(s, handler)
             c == Told(s, handler)
  <2>0. handler \in {"header", "data", "overflow", "next_row"} /\ handler \in Caller
        /\ handler # "overflow" /\ options.mode # "pull"
    BY <1>1, <1>3 DEF Caller
  <2>1. s2 = IF handler = "header" THEN SetRowHandler(x, "data") ELSE x
    BY <1>3 DEF CallerRow
  <2> HIDE DEF handler, s2
  <2>2. c \in Given /\ x.called = Append(s.called, c) /\ x \in Scanner
    BY <2>0, CalledFacts
  <2>3. IsRowCall(c) /\ c.cells = Row(s) /\ c.number = s.data_row_count /\ c.seen = s.seen
    BY <2>0 DEF Told, IsRowCall
  <2>4. /\ Steady(s, x) /\ x.cells = s.cells /\ x.cell_handler = s.cell_handler
        /\ x.data_row_count = s.data_row_count /\ x.seen = <<>>
        /\ x.row_handler = s.row_handler /\ x.orig_row_handler = s.orig_row_handler
    <3>1. x = [s EXCEPT !.called = Append(s.called, c), !.seen = <<>>]
      BY DEF Called, Told
    <3> HIDE DEF x, c
    <3>2. Steady(s, x)
      BY <3>1 DEF Steady, Scanner
    <3>3. /\ x.cells = s.cells /\ x.cell_handler = s.cell_handler
          /\ x.data_row_count = s.data_row_count /\ x.seen = <<>>
          /\ x.row_handler = s.row_handler /\ x.orig_row_handler = s.orig_row_handler
      BY <3>1 DEF Scanner
    <3> QED BY <3>2, <3>3
  <2> HIDE DEF x, c
  <2>5. /\ Steady(x, s2) /\ s2.cells = x.cells /\ s2.cell_handler = x.cell_handler
        /\ s2.data_row_count = x.data_row_count /\ s2.seen = x.seen /\ s2.called = x.called
        /\ s2.row_handler = s2.orig_row_handler /\ s2.row_handler \in Caller
    <3>1. CASE handler # "header"
      BY <1>1, <2>0, <2>1, <2>4, <3>1 DEF Steady, handler
    <3>2. CASE handler = "header"
      <4>1. s2 = [x EXCEPT !.row_handler = IF x.row_handler = x.orig_row_handler THEN "data" ELSE x.row_handler,
                           !.orig_row_handler = "data"]
        BY <2>1, <3>2 DEF SetRowHandler
      <4>2. Steady(x, s2)
        BY <2>2, <4>1 DEF Steady, Scanner
      <4>3. /\ s2.cells = x.cells /\ s2.cell_handler = x.cell_handler
            /\ s2.data_row_count = x.data_row_count /\ s2.seen = x.seen /\ s2.called = x.called
            /\ s2.row_handler = "data" /\ s2.orig_row_handler = "data"
        BY <1>1, <2>2, <2>4, <4>1 DEF Scanner
      <4> QED BY <4>2, <4>3 DEF Caller
    <3> QED BY <3>1, <3>2
  <2>6. Steady(s, s2)
    BY <2>4, <2>5 DEF Steady
  <2>7. Tells(s, s2, Row(s), s.seen)
    BY <2>0, <2>2, <2>3, <2>4, <2>5 DEF Tells
  <2> QED BY <2>0, <2>4, <2>5, <2>6, <2>7 DEF s2
<1> QED BY <1>2, <1>3 DEF Caller

(* The same with the cells given to the cell handler first. *)
LEMMA ApplyToCallerDoes ==
  ASSUME NEW s \in Scanner, ChainInv(s), ModeInv(s), s.row_handler \in Caller
  PROVE  LET s2 == ApplyToCaller(s)
             v  == IF s.cell_handler THEN s.seen \o Row(s) ELSE s.seen
         IN
         /\ Steady(s, s2) /\ s2.cells = s.cells /\ s2.cell_handler = s.cell_handler
         /\ s2.data_row_count = s.data_row_count
         /\ s2.row_handler = s2.orig_row_handler /\ s2.row_handler \in Caller
         /\ Tells(s, s2, Row(s), v)
         /\ options.mode # "pull" => s2.seen = <<>>
PROOF
<1> DEFINE v == IF s.cell_handler THEN s.seen \o Row(s) ELSE s.seen
           x == [s EXCEPT !.seen = v]
           s2 == CallerRow(x)
<1>1. v \in Seq(Text)
  BY RowType DEF Scanner
<1>2. ApplyToCaller(s) = s2
  BY DEF ApplyToCaller
<1> HIDE DEF v
<1>3. x \in Scanner /\ SameChain(s, x)
  BY <1>1 DEF Scanner, SameChain
<1>4. /\ Steady(s, x) /\ x.cells = s.cells /\ x.cell_handler = s.cell_handler
      /\ x.used = s.used /\ x.data_row_count = s.data_row_count /\ x.seen = v
      /\ x.called = s.called
  BY DEF Steady, Scanner
<1> HIDE DEF x
<1>5. ChainInv(x) /\ ModeInv(x) /\ x.row_handler \in Caller
  BY <1>3 DEF SameChain, ChainInv, ModeInv
<1>6. Row(x) = Row(s)
  BY <1>4 DEF Row
<1>7. /\ Steady(x, s2) /\ s2.cells = x.cells /\ s2.cell_handler = x.cell_handler
      /\ s2.data_row_count = x.data_row_count
      /\ s2.row_handler = s2.orig_row_handler /\ s2.row_handler \in Caller
      /\ Tells(x, s2, Row(x), x.seen)
      /\ options.mode # "pull" => s2.seen = <<>>
  BY <1>3, <1>5, CallerRowDoes
<1> HIDE DEF s2
<1>8. Steady(s, s2)
  BY <1>4, <1>7 DEF Steady
<1>9. Tells(s, s2, Row(s), v)
  BY <1>4, <1>6, <1>7 DEF Tells
<1> QED BY <1>2, <1>4, <1>7, <1>8, <1>9 DEF v

-----------------------------------------------------------------------------
(* What the chain has done behind some rows, and what a handler does to it. *)

(* The header of body, as far as it is collated. *)
CollatedOf(c, body) ==
  IF body = <<>> THEN c = NothingCollated
  ELSE /\ c.have /\ c.column_count = Len(body[1])
       /\ \A j \in 1 .. Len(body[1]) : c.text[j] = Collated(body, Len(body[1]))[j]

(* What is left to collate behind body: header_span counts down to 0, and
   collated is the header of the rows so far. *)
HeaderPhase(s, body) ==
  IF options.header_span < 2 THEN s.header_span = options.header_span
  ELSE IF Len(body) < options.header_span
  THEN s.header_span = options.header_span - Len(body) /\ CollatedOf(s.collated, body)
  ELSE s.header_span = 0

(* The scanner ignores and skips no more: body is behind it. *)
BodyPhase(s, body) ==
  s.rows_to_ignore = 0 /\ s.keep_empty_header_rows /\ HeaderPhase(s, body)

(* What the scanner has left to do behind these rows. *)
Phase(s, rows) ==
  LET body == Body(rows, options) IN
  \/ /\ s.rows_to_ignore > 0
     /\ s.rows_to_ignore + Len(rows) = options.rows_to_ignore
     /\ s.keep_empty_header_rows = options.keep_empty_header_rows
     /\ HeaderPhase(s, <<>>)
  \/ /\ s.rows_to_ignore = 0 /\ Len(rows) >= options.rows_to_ignore
     /\ ~s.keep_empty_header_rows /\ ~options.keep_empty_header_rows
     /\ body = <<>>
     /\ HeaderPhase(s, <<>>)
  \/ /\ Len(rows) >= options.rows_to_ignore
     /\ options.keep_empty_header_rows \/ body # <<>>
     /\ BodyPhase(s, body)

(* How many rows the header is made of. *)
Span == Wider(1, options.header_span)

(* What this needs of the options of a parser. *)
OptionsOk ==
  /\ options.mode \in Modes /\ options.rows_to_ignore \in Nat
  /\ options.keep_empty_header_rows \in BOOLEAN
  /\ options.header_span \in Nat /\ options.max_rows \in Nat

(* given rows have been given to the caller before the current one, or with it. *)
Counts(s, given)  == s.row_handler \in Caller => s.data_row_count = HeaderNumber + given
CountedTo(s, given) == s.row_handler \in Caller => s.data_row_count + 1 = HeaderNumber + given

(* From s to s2 the handlers have taken the row of s, and where before they had
   handed on the rows of before they have now handed on those of after; heard:
   also to the caller's cell handler. *)
TakesRow(s, s2, before, after, heard) ==
  /\ s2.row_handler = Due(s2)
  /\ s2.cum_row_count = s.cum_row_count /\ s2.buffer_exceeded = s.buffer_exceeded
  /\ s2.abort = s.abort
  /\ \/ Silent(s, s2) /\ after = before
     \/ \E x, v \in Seq(Text) :
          /\ Tells(s, s2, x, v) /\ after = Append(before, x)
          /\ s2.row_handler \in Caller
          /\ heard => v = x
  /\ heard /\ options.mode = "push" => Quiet(s2)

(* The length of a header that is due. *)
LEMMA SpanFacts ==
  ASSUME OptionsOk
  PROVE  /\ Span \in Nat /\ Span > 0
         /\ IF options.header_span < 2 THEN Span = 1 ELSE Span = options.header_span
BY DEF OptionsOk, Span, Wider

(* The caller's handler hands every row on. *)
LEMMA HandsOn ==
  ASSUME OptionsOk, NEW s \in Scanner, NEW body \in CellRows, BodyPhase(s, body),
         s.row_handler \in Caller, s.row_handler = Due(s),
         NEW s2, Steady(s, s2), s2.row_handler = s2.orig_row_handler
  PROVE  /\ BodyPhase(s2, Append(body, Row(s))) /\ s2.row_handler = Due(s2)
         /\ Handed(Append(body, Row(s)), Span) = Append(Handed(body, Span), Row(s))
PROOF
<1> DEFINE r == Row(s)
           more == Append(body, r)
           hs == options.header_span
<1>1. r \in Seq(Text) /\ more \in CellRows /\ Len(body) \in Nat /\ Len(more) = Len(body) + 1
      /\ more[Len(body) + 1] = r
  BY RowType, RowAppended
<1>2. hs \in Nat
  BY DEF OptionsOk
<1> HIDE DEF r, more
<1>3. hs < 2 \/ Len(body) >= hs
  <2>1. SUFFICES ASSUME ~(hs < 2), Len(body) < hs PROVE FALSE
    BY <1>1, <1>2
  <2>2. s.header_span > 0
    BY <1>1, <1>2, <2>1 DEF BodyPhase, HeaderPhase
  <2>3. Due(s) = "collate"
    BY <1>2, <2>1, <2>2 DEF Due, BodyPhase
  <2> QED BY <2>3 DEF Caller
<1>4. BodyPhase(s2, more)
  <2>1. HeaderPhase(s2, more)
    BY <1>1, <1>2, <1>3 DEF BodyPhase, HeaderPhase, Steady
  <2> QED BY <2>1 DEF BodyPhase, Steady
<1>5. s2.row_handler = Due(s2)
  <2>1. ~(hs > 1 /\ s2.header_span > 0)
    BY <1>1, <1>2, <1>3, <1>4 DEF BodyPhase, HeaderPhase
  <2> QED BY <1>4, <2>1 DEF Due, BodyPhase
<1>6. Handed(more, Span) = Append(Handed(body, Span), r)
  <2>1. CASE Len(body) >= Span
    BY <1>1, <2>1, SpanFacts, HandedMore DEF more
  <2>2. CASE Len(body) < Span
    <3>1. Len(body) = 0 /\ Span = 1
      BY <1>1, <1>2, <1>3, <2>2, SpanFacts
    <3>2. Handed(body, Span) = <<>> /\ Handed(more, Span) = <<HeaderOf(more, Span)>>
      <4>1. Len(body) < Span /\ Len(body) + 1 = Span /\ Span \in Nat /\ Span > 0
        BY <3>1
      <4> QED BY <1>1, <4>1, HandedMore DEF more
    <3>3. HeaderOf(more, Span) = r
      BY <1>1, <3>1 DEF HeaderOf
    <3> QED BY <3>2, <3>3
  <2> QED BY <1>1, <2>1, <2>2, SpanFacts
<1> QED BY <1>4, <1>5, <1>6 DEF r, more

(* zsv's caller takes a row ... *)
LEMMA CallerTakes ==
  ASSUME OptionsOk, NEW s \in Scanner, ChainInv(s), ModeInv(s), s.row_handler \in Caller,
         s.row_handler = Due(s), NEW body \in CellRows, BodyPhase(s, body)
  PROVE  LET s2    == CallerRow(s)
             after == Append(body, Row(s))
         IN
         /\ BodyPhase(s2, after)
         /\ TakesRow(s, s2, Handed(body, Span), Handed(after, Span), Attentive(s))
         /\ Counts(s, Len(Handed(body, Span))) => CountedTo(s2, Len(Handed(after, Span)))
PROOF
<1> DEFINE s2 == CallerRow(s)
           r == Row(s)
           more == Append(body, r)
           before == Handed(body, Span)
           after == Handed(more, Span)
<1>1. /\ Steady(s, s2) /\ s2.cells = s.cells /\ s2.cell_handler = s.cell_handler
      /\ s2.data_row_count = s.data_row_count
      /\ s2.row_handler = s2.orig_row_handler /\ s2.row_handler \in Caller
      /\ Tells(s, s2, r, s.seen)
      /\ options.mode # "pull" => s2.seen = <<>>
  BY CallerRowDoes
<1> HIDE DEF s2
<1>2. BodyPhase(s2, more) /\ s2.row_handler = Due(s2) /\ after = Append(before, r)
  BY <1>1, HandsOn
<1>3. r \in Seq(Text) /\ s.seen \in Seq(Text) /\ before \in CellRows
  BY RowType, SpanFacts, HandedMore DEF Scanner
<1> HIDE DEF r, more, before, after
<1>4. Attentive(s) => s.seen = r
  BY DEF Attentive, CellsBy, r
<1>5. Attentive(s) /\ options.mode = "push" => Quiet(s2)
  BY <1>1 DEF Attentive, CellsBy, Quiet, Steady
<1>6. TakesRow(s, s2, before, after, Attentive(s))
  BY <1>1, <1>2, <1>3, <1>4, <1>5 DEF TakesRow, Steady
<1>7. Counts(s, Len(before)) => CountedTo(s2, Len(after))
  <2>1. Len(after) = Len(before) + 1 /\ Len(before) \in Nat
    BY <1>2, <1>3, RowAppended
  <2>2. HeaderNumber \in Nat /\ s.data_row_count \in Nat
    BY DEF HeaderNumber, Scanner
  <2> QED BY <1>1, <2>1, <2>2 DEF Counts, CountedTo
<1> QED BY <1>2, <1>6, <1>7 DEF s2, r, more, before, after

(* ... which the chain may hand to it. *)
LEMMA ApplyTakes ==
  ASSUME OptionsOk, NEW s \in Scanner, ChainInv(s), ModeInv(s), s.row_handler \in Caller,
         s.row_handler = Due(s), NEW body \in CellRows, BodyPhase(s, body)
  PROVE  LET s2    == ApplyToCaller(s)
             after == Append(body, Row(s))
         IN
         /\ BodyPhase(s2, after)
         /\ TakesRow(s, s2, Handed(body, Span), Handed(after, Span), Quiet(s))
         /\ Counts(s, Len(Handed(body, Span))) => CountedTo(s2, Len(Handed(after, Span)))
PROOF
<1> DEFINE s2 == ApplyToCaller(s)
           r == Row(s)
           v == IF s.cell_handler THEN s.seen \o r ELSE s.seen
           more == Append(body, r)
           before == Handed(body, Span)
           after == Handed(more, Span)
<1>1. /\ Steady(s, s2) /\ s2.cells = s.cells /\ s2.cell_handler = s.cell_handler
      /\ s2.data_row_count = s.data_row_count
      /\ s2.row_handler = s2.orig_row_handler /\ s2.row_handler \in Caller
      /\ Tells(s, s2, r, v)
      /\ options.mode # "pull" => s2.seen = <<>>
  BY ApplyToCallerDoes
<1> HIDE DEF s2
<1>2. BodyPhase(s2, more) /\ s2.row_handler = Due(s2) /\ after = Append(before, r)
  BY <1>1, HandsOn
<1>3. r \in Seq(Text) /\ s.seen \in Seq(Text) /\ before \in CellRows
  BY RowType, SpanFacts, HandedMore DEF Scanner
<1> HIDE DEF r, more, before, after
<1>4. v \in Seq(Text) /\ (Quiet(s) => v = r)
  BY <1>3 DEF Quiet, CellsBy
<1> HIDE DEF v
<1>5. Quiet(s) /\ options.mode = "push" => Quiet(s2)
  BY <1>1 DEF CellsBy, Quiet, Steady
<1>6. TakesRow(s, s2, before, after, Quiet(s))
  BY <1>1, <1>2, <1>3, <1>4, <1>5 DEF TakesRow, Steady
<1>7. Counts(s, Len(before)) => CountedTo(s2, Len(after))
  <2>1. Len(after) = Len(before) + 1 /\ Len(before) \in Nat
    BY <1>2, <1>3, RowAppended
  <2>2. HeaderNumber \in Nat /\ s.data_row_count \in Nat
    BY DEF HeaderNumber, Scanner
  <2> QED BY <1>1, <2>1, <2>2 DEF Counts, CountedTo
<1> QED BY <1>2, <1>6, <1>7 DEF s2, r, more, before, after

-----------------------------------------------------------------------------
(* collate_header_append. *)

(* Padding gives the row as many cells as its header has columns, the first row
   of a header as many as it has. *)
LEMMA PadDoes ==
  ASSUME NEW s \in Scanner, NEW body \in CellRows, CollatedOf(s.collated, body)
  PROVE  LET p == PadToHeader(s)
             more == Append(body, Row(s))
         IN
         /\ p.collated = s.collated /\ p.used = Len(more[1])
         /\ \A j \in 1 .. Len(more[1]) : j \in Column /\ p.cells[j] = CellOf(Row(s), j)
PROOF
<1> DEFINE p == PadToHeader(s)
           r == Row(s)
           more == Append(body, r)
<1>1. /\ s.used \in Nat /\ s.used <= MaxCols /\ MaxCols \in Nat /\ s.cells \in [Column -> Text]
      /\ s.collated.column_count \in Nat /\ s.collated.column_count <= MaxCols
  BY OptionsAssumption DEF Scanner
<1>2. DOMAIN r = 1 .. s.used /\ (\A j \in 1 .. s.used : r[j] = s.cells[j])
      /\ r \in Seq(Text) /\ Len(r) = s.used
  BY <1>1, RowType DEF Row
<1>3. /\ Len(body) \in Nat /\ DOMAIN body = 1 .. Len(body) /\ more[Len(body) + 1] = r
      /\ \A k \in 1 .. Len(body) : more[k] = body[k]
  BY <1>2, RowAppended
<1> HIDE DEF r, more
<1>4. CASE body = <<>>
  <2>1. s.collated = NothingCollated /\ Len(body) = 0
    BY <1>4 DEF CollatedOf
  <2>2. p = s
    BY <2>1 DEF PadToHeader, NothingCollated
  <2>3. more[1] = r
    <3>1. 0 + 1 = 1
      OBVIOUS
    <3> QED BY <1>3, <2>1, <3>1, Zenon
  <2>4. \A j \in 1 .. s.used : j \in Column /\ s.cells[j] = CellOf(r, j)
    BY <1>1, <1>2 DEF Column, CellOf
  <2> QED BY <1>2, <2>2, <2>3, <2>4 DEF r, more
<1>5. CASE body # <<>>
  <2>1. /\ s.collated.have /\ s.collated.column_count = Len(body[1])
    BY <1>5 DEF CollatedOf
  <2>2. more[1] = body[1]
    <3>1. Len(body) # 0
      BY <1>5 DEF CellRows
    <3> QED BY <1>3, <3>1
  <2> DEFINE count == s.collated.column_count
             cells == [j \in Column |-> IF j > s.used /\ j <= count THEN Blank ELSE s.cells[j]]
  <2>3. p = [s EXCEPT !.cells = cells, !.used = count]
    BY <2>1 DEF PadToHeader
  <2> HIDE DEF p
  <2>4. p.collated = s.collated /\ p.used = count /\ p.cells = cells
    BY <2>3 DEF Scanner
  <2>5. ASSUME NEW j \in 1 .. count PROVE j \in Column /\ p.cells[j] = CellOf(r, j)
    <3>1. j \in Column
      BY <1>1 DEF Column
    <3>2. j \in DOMAIN r <=> ~(j > s.used)
      BY <1>1, <1>2
    <3>3. j <= count
      OBVIOUS
    <3>4. p.cells[j] = IF j > s.used THEN Blank ELSE s.cells[j]
      BY <2>4, <3>1, <3>3
    <3> QED BY <1>2, <3>1, <3>2, <3>4 DEF CellOf
  <2> QED BY <2>1, <2>2, <2>4, <2>5 DEF p, r, more
<1> QED BY <1>4, <1>5

(* A row more is collated: every column's text is that of all its rows. *)
LEMMA AppendDoes ==
  ASSUME NEW s \in Scanner, NEW body \in CellRows, CollatedOf(s.collated, body)
  PROVE  LET saved == CollateHeaderAppend(PadToHeader(s))
             more  == Append(body, Row(s))
         IN
         /\ CollatedOf(saved.collated, more) /\ more # <<>> /\ saved.used = Len(more[1])
         /\ Len(more[1]) \in Nat /\ Len(more[1]) <= MaxCols
PROOF
<1> DEFINE p == PadToHeader(s)
           saved == CollateHeaderAppend(p)
           r == Row(s)
           more == Append(body, r)
           w == Len(more[1])
           text == [j \in Column |-> IF j <= p.used THEN p.collated.text[j] \o p.cells[j]
                                     ELSE p.collated.text[j]]
           width == Wider(p.used, p.collated.column_count)
<1>1. /\ p.collated = s.collated /\ p.used = w
      /\ \A j \in 1 .. w : j \in Column /\ p.cells[j] = CellOf(r, j)
  BY PadDoes
<1>2. p \in Scanner
  BY PadToHeaderFacts
<1>3. saved = [p EXCEPT !.collated = [have |-> TRUE, column_count |-> width, text |-> text]]
  BY DEF CollateHeaderAppend
<1>4. r \in Seq(Text)
  BY RowType
<1>5. /\ Len(body) \in Nat /\ DOMAIN body = 1 .. Len(body) /\ more[Len(body) + 1] = r
      /\ \A k \in 1 .. Len(body) : more[k] = body[k] /\ body[k] \in Seq(Text)
      /\ Len(more) = Len(body) + 1
  BY <1>4, RowAppended
<1> HIDE DEF p, r, more, saved
<1>6. /\ saved.used = w /\ saved.collated.have
      /\ saved.collated.column_count = width /\ saved.collated.text = text
  BY <1>1, <1>2, <1>3 DEF Scanner
<1>7. more # <<>>
  BY <1>5
<1> HIDE DEF w
<1>8. w \in Nat /\ w <= MaxCols
  <2>1. p.used \in 0 .. MaxCols
    BY <1>2 DEF Scanner
  <2>2. MaxCols \in Nat
    BY OptionsAssumption
  <2> QED BY <1>1, <2>1, <2>2
<1>9. /\ width = w
      /\ \A j \in 1 .. w : s.collated.text[j] = Collated(body, w)[j]
  <2>1. CASE body = <<>>
    <3>1. s.collated = NothingCollated
      BY <2>1 DEF CollatedOf
    <3>2. width = w
      BY <1>1, <1>8, <3>1 DEF Wider, NothingCollated
    <3>3. \A j \in 1 .. w : s.collated.text[j] = Blank
      BY <1>1, <3>1 DEF NothingCollated, NoCells
    <3>4. \A j \in 1 .. w : Collated(body, w)[j] = Blank
      BY <1>4, <1>8, <2>1, CollatedMore
    <3> QED BY <3>2, <3>3, <3>4
  <2>2. CASE body # <<>>
    <3>1. Len(body) # 0
      BY <2>2 DEF CellRows
    <3>2. Len(body[1]) = w
      BY <1>5, <3>1 DEF w
    <3>3. s.collated.column_count = w /\ \A j \in 1 .. w : s.collated.text[j] = Collated(body, w)[j]
      BY <2>2, <3>2 DEF CollatedOf
    <3> QED BY <1>1, <1>8, <3>3 DEF Wider
  <2> QED BY <2>1, <2>2
<1>10. ASSUME NEW j \in 1 .. w PROVE saved.collated.text[j] = Collated(more, w)[j]
  <2>1. text[j] = s.collated.text[j] \o CellOf(r, j)
    <3>1. j \in Column /\ p.cells[j] = CellOf(r, j) /\ j <= p.used
      BY <1>1, <1>8
    <3> QED BY <1>1, <3>1
  <2>2. Collated(more, w)[j] = Collated(body, w)[j] \o CellOf(r, j)
    BY <1>4, <1>8, CollatedMore DEF more
  <2> QED BY <1>6, <1>9, <2>1, <2>2
<1>11. CollatedOf(saved.collated, more)
  BY <1>6, <1>7, <1>9, <1>10 DEF CollatedOf, w
<1> QED BY <1>6, <1>7, <1>8, <1>11 DEF saved, p, r, more, w

(* s2 has from s what is left to the chain but the length of the header and what
   is collated. *)
Steadier(s, s2) ==
  /\ s2.rows_to_ignore = s.rows_to_ignore
  /\ s2.keep_empty_header_rows = s.keep_empty_header_rows
  /\ s2.cum_row_count = s.cum_row_count /\ s2.buffer_exceeded = s.buffer_exceeded
  /\ s2.orig_cell_handler = s.orig_cell_handler /\ s2.cell_handler = s.cell_handler
  /\ s2.row_handler = s.row_handler /\ s2.orig_row_handler = s.orig_row_handler
  /\ s2.abort = s.abort /\ s2.freed = s.freed /\ s2.seen = s.seen
  /\ s2.called = s.called /\ s2.now = s.now

(* Padding changes nothing else. *)
LEMMA PadSteadier ==
  ASSUME NEW s \in Scanner
  PROVE  Steadier(s, PadToHeader(s)) /\ PadToHeader(s).header_span = s.header_span
PROOF
<1>1. CASE ~s.collated.have
  BY <1>1 DEF PadToHeader, Steadier
<1>2. CASE s.collated.have
  <2> DEFINE cells == [j \in Column |->
                         IF j > s.used /\ j <= s.collated.column_count THEN Blank ELSE s.cells[j]]
             p == PadToHeader(s)
  <2>1. p = [s EXCEPT !.cells = cells, !.used = s.collated.column_count]
    BY <1>2 DEF PadToHeader
  <2> HIDE DEF cells, p
  <2>2. Steadier(s, p) /\ p.header_span = s.header_span
    BY <2>1 DEF Steadier, Scanner
  <2> QED BY <2>2 DEF p
<1> QED BY <1>1, <1>2

(* Nor does collating, unless there is no memory for the header. *)
LEMMA AppendSteadier ==
  ASSUME NEW s \in Scanner
  PROVE  Steadier(s, CollateHeaderAppend(s)) /\ CollateHeaderAppend(s).header_span = s.header_span
BY DEF CollateHeaderAppend, Steadier, Scanner

-----------------------------------------------------------------------------
(* collate_header_row. *)

(* collate_header_row keeps the row until the header is complete, and then hands
   the header on. *)
LEMMA CollateTakes ==
  ASSUME OptionsOk, NEW s \in Scanner, ChainInv(s), ModeInv(s), s.row_handler = "collate",
         s.row_handler = Due(s), NEW body \in CellRows, BodyPhase(s, body)
  PROVE  LET s2    == CollateHeaderRow(s)
             after == Append(body, Row(s))
         IN
         \/ GivesUp(s, s2)
         \/ /\ BodyPhase(s2, after)
            /\ TakesRow(s, s2, Handed(body, Span), Handed(after, Span), Quiet(s))
            /\ CountedTo(s2, Len(Handed(after, Span)))
PROOF
<1> DEFINE hs == options.header_span
           span == s.header_span - 1
           d == [s EXCEPT !.header_span = span]
           padded == PadToHeader(d)
           saved  == CollateHeaderAppend(padded)
           installed == SetCallbacks(saved)
           shown  == [j \in Column |-> IF j <= saved.collated.column_count
                                       THEN saved.collated.text[j]
                                       ELSE installed.cells[j]]
           header == [installed EXCEPT !.cells = shown]
           given  == ApplyToCaller(header)
           s2 == CollateHeaderRow(s)
           more == Append(body, Row(s))
           before == Handed(body, Span)
           after == Handed(more, Span)
<1>1. hs \in Nat /\ hs > 1 /\ s.header_span \in Nat /\ s.header_span > 0
      /\ s.rows_to_ignore = 0 /\ s.keep_empty_header_rows /\ Span = hs
  <2>1. hs \in Nat /\ s.header_span \in Nat /\ s.orig_row_handler \in Caller
    BY DEF OptionsOk, Scanner
  <2>2. hs > 1 /\ s.header_span > 0
    BY <2>1 DEF Due, Caller
  <2> QED BY <2>1, <2>2, SpanFacts DEF BodyPhase
<1>2. /\ Len(body) \in Nat /\ Len(body) < hs /\ s.header_span = hs - Len(body)
      /\ CollatedOf(s.collated, body)
  <2>1. Len(body) \in Nat
    BY DEF CellRows
  <2> QED BY <1>1, <2>1 DEF BodyPhase, HeaderPhase
<1>3. /\ Row(s) \in Seq(Text) /\ more \in CellRows /\ Len(more) = Len(body) + 1
  BY RowType, RowAppended
<1>4. s2 = IF AppendFails(padded) THEN [padded EXCEPT !.abort = TRUE, !.freed = TRUE]
           ELSE IF saved.header_span > 0 THEN saved
           ELSE IF options.mode = "pull" THEN given
           ELSE [given EXCEPT !.collated = NothingCollated]
  BY DEF CollateHeaderRow
<1>5. /\ d \in Scanner /\ Steadier(s, d) /\ d.header_span = span
      /\ d.collated = s.collated /\ Row(d) = Row(s)
      /\ d.overwrite = s.overwrite /\ d.get_cell = s.get_cell
  <2>1. span \in Nat
    BY <1>1
  <2> HIDE DEF span
  <2>2. d \in Scanner
    BY <2>1 DEF Scanner
  <2>3. Steadier(s, d) /\ d.header_span = span
    BY DEF Steadier, Scanner
  <2>4. d.collated = s.collated /\ d.used = s.used /\ d.cells = s.cells
        /\ d.overwrite = s.overwrite /\ d.get_cell = s.get_cell
    BY DEF Scanner
  <2> QED BY <2>2, <2>3, <2>4 DEF Row
<1> HIDE DEF d
<1>6. padded \in Scanner /\ SameChain(d, padded) /\ Steadier(d, padded) /\ padded.header_span = span
  BY <1>5, PadToHeaderFacts, PadSteadier
<1>7. /\ CollatedOf(saved.collated, more) /\ more # <<>> /\ saved.used = Len(more[1])
      /\ Len(more[1]) \in Nat /\ Len(more[1]) <= MaxCols
  <2>1. LET x == CollateHeaderAppend(PadToHeader(d))
            m == Append(body, Row(d))
        IN  /\ CollatedOf(x.collated, m) /\ m # <<>> /\ x.used = Len(m[1])
            /\ Len(m[1]) \in Nat /\ Len(m[1]) <= MaxCols
    BY <1>2, <1>5, AppendDoes
  <2> QED BY <1>5, <2>1
<1> HIDE DEF padded
<1>8. saved \in Scanner /\ SameChain(padded, saved) /\ Steadier(padded, saved) /\ saved.header_span = span
  BY <1>6, CollateHeaderAppendFacts, AppendSteadier
<1> HIDE DEF saved, s2, more, before, after
<1>9. Steadier(s, saved)
  BY <1>5, <1>6, <1>8 DEF Steadier
<1>10. /\ before \in CellRows /\ before = <<>>
       /\ hs > Len(more) => after = <<>>
       /\ hs = Len(more) => after = <<HeaderOf(more, hs)>>
  <2>1. before \in CellRows /\ before = <<>>
    BY <1>1, <1>2, <1>3, HandedMore DEF before
  <2>2. hs > Len(more) => after = <<>>
    BY <1>1, <1>3, HandedMore DEF after
  <2>3. hs = Len(more) => after = <<HeaderOf(more, hs)>>
    <3>1. hs \in Nat /\ hs > 0 /\ (hs = Len(more) => Len(body) + 1 = hs)
      BY <1>1, <1>3
    <3> HIDE DEF hs
    <3>2. hs = Len(more) => Handed(more, hs) = <<HeaderOf(more, hs)>>
      BY <1>3, <3>1, HandedMore DEF more
    <3> QED BY <1>1, <3>2 DEF after
  <2> QED BY <2>1, <2>2, <2>3
<1>11. CASE AppendFails(padded)
  <2>1. s2 = [padded EXCEPT !.abort = TRUE, !.freed = TRUE]
    BY <1>4, <1>11
  <2>2. s2.freed /\ s2.abort /\ s2.called = padded.called /\ s2.now = padded.now
    BY <1>6, <2>1 DEF Scanner
  <2> QED BY <1>5, <1>6, <2>2 DEF GivesUp, Silent, Steadier, s2
<1>12. CASE ~AppendFails(padded) /\ saved.header_span > 0
  <2>1. s2 = saved
    BY <1>4, <1>12
  <2>2. Len(more) < hs /\ saved.header_span = hs - Len(more)
    BY <1>1, <1>2, <1>3, <1>8, <1>12
  <2>3. BodyPhase(s2, more)
    <3>1. saved.rows_to_ignore = 0 /\ saved.keep_empty_header_rows
      BY <1>1, <1>9 DEF Steadier
    <3>2. HeaderPhase(saved, more)
      BY <1>1, <1>7, <2>2 DEF HeaderPhase
    <3> QED BY <2>1, <3>1, <3>2 DEF BodyPhase
  <2>4. s2.row_handler = "collate" /\ Due(s2) = "collate"
    BY <1>1, <1>9, <1>12, <2>1 DEF Due, Steadier
  <2>5. Quiet(s) => Quiet(s2)
    BY <1>9, <2>1 DEF Quiet, CellsBy, Steadier
  <2>6. TakesRow(s, s2, before, after, Quiet(s))
    BY <1>9, <1>10, <2>1, <2>2, <2>4, <2>5 DEF TakesRow, Silent, Steadier
  <2>7. CountedTo(s2, Len(after))
    BY <2>4 DEF CountedTo, Caller
  <2> QED BY <2>3, <2>6, <2>7 DEF s2, more, before, after
<1>13. CASE ~AppendFails(padded) /\ ~(saved.header_span > 0)
  <2>1. saved.header_span = 0 /\ Len(more) = hs
    BY <1>1, <1>2, <1>3, <1>8, <1>13
  <2>2. /\ installed \in Scanner /\ ChainInv(installed) /\ ModeInv(installed)
        /\ installed.row_handler \in Caller
    <3>1. ModeInv(saved)
      BY <1>5, <1>6, <1>8, <1>9 DEF Steadier, SameChain, ModeInv
    <3>2. saved.rows_to_ignore = 0 /\ saved.keep_empty_header_rows
      BY <1>1, <1>9 DEF Steadier
    <3> QED BY <1>8, <2>1, <3>1, <3>2, SetCallbacksFacts, SetCallbacksMode, CallerInstalled
  <2>3. /\ Steady(saved, installed) /\ Silent(saved, installed)
        /\ installed.used = saved.used /\ installed.seen = saved.seen
        /\ installed.data_row_count = 0 /\ installed.cell_handler = saved.orig_cell_handler
    BY <1>8, <2>1, <2>2, SetCallbacksDoes
  <2>4. shown \in [Column -> Text]
    BY <1>8, <2>2 DEF Scanner
  <2> HIDE DEF installed, shown
  <2>5. /\ header \in Scanner /\ SameChain(installed, header) /\ Steady(installed, header)
        /\ header.used = installed.used /\ header.seen = installed.seen
        /\ header.data_row_count = 0 /\ header.cell_handler = installed.cell_handler
        /\ header.cells = shown
    <3>1. header \in Scanner
      BY <2>2, <2>4 DEF Scanner
    <3>2. SameChain(installed, header)
      BY <2>2 DEF Scanner, SameChain
    <3>3. Steady(installed, header)
      BY <2>2 DEF Scanner, Steady
    <3>4. /\ header.used = installed.used /\ header.seen = installed.seen
          /\ header.data_row_count = installed.data_row_count
          /\ header.cell_handler = installed.cell_handler /\ header.cells = shown
      BY <2>2 DEF Scanner
    <3> QED BY <2>3, <3>1, <3>2, <3>3, <3>4
  <2> HIDE DEF header
  <2>6. ChainInv(header) /\ ModeInv(header) /\ header.row_handler \in Caller
    BY <2>2, <2>5 DEF ChainInv, ModeInv, SameChain
  <2> DEFINE x == Row(header)
             v == IF header.cell_handler THEN header.seen \o x ELSE header.seen
  <2>7. /\ Steady(header, given)
        /\ given.cell_handler = header.cell_handler /\ given.data_row_count = 0
        /\ given.row_handler = given.orig_row_handler /\ given.row_handler \in Caller
        /\ Tells(header, given, x, v)
        /\ options.mode # "pull" => given.seen = <<>>
    BY <2>5, <2>6, ApplyToCallerDoes
  <2>8. x \in Seq(Text) /\ v \in Seq(Text)
    <3>1. x \in Seq(Text) /\ header.seen \in Seq(Text)
      BY <2>5, RowType DEF Scanner
    <3> HIDE DEF x
    <3> QED BY <3>1
  <2>9. x = HeaderOf(more, hs)
    <3> DEFINE w == Len(more[1])
    <3>1. /\ header.used = w /\ saved.collated.column_count = w
          /\ \A j \in 1 .. w : saved.collated.text[j] = Collated(more, w)[j]
      BY <1>7, <2>3, <2>5 DEF CollatedOf
    <3>2. w \in Nat /\ w <= MaxCols
      BY <1>7
    <3> HIDE DEF w
    <3>3. ASSUME NEW j \in 1 .. w PROVE header.cells[j] = Collated(more, w)[j]
      <4>1. j \in Column /\ j <= saved.collated.column_count
        BY <3>1, <3>2, OptionsAssumption DEF Column
      <4>2. header.cells[j] = saved.collated.text[j]
        BY <2>5, <4>1 DEF shown
      <4> QED BY <3>1, <4>2
    <3>4. x = [j \in 1 .. w |-> Collated(more, w)[j]]
      BY <3>1, <3>3 DEF Row
    <3>5. Collated(more, w) = [j \in 1 .. w |-> Collated(more, w)[j]]
      BY DEF Collated
    <3>6. HeaderOf(more, hs) = Collated(more, w)
      BY <1>1 DEF HeaderOf, w
    <3> QED BY <3>4, <3>5, <3>6
  <2>10. Quiet(s) => v = x
    <3>1. Quiet(s) => header.cell_handler /\ header.seen = <<>>
      BY <1>9, <2>3, <2>5 DEF Quiet, CellsBy, Steadier
    <3> HIDE DEF x
    <3> QED BY <2>8, <3>1
  <2> HIDE DEF x, v, given
  <2>11. /\ s2.rows_to_ignore = given.rows_to_ignore
         /\ s2.keep_empty_header_rows = given.keep_empty_header_rows
         /\ s2.header_span = given.header_span
         /\ s2.cum_row_count = given.cum_row_count /\ s2.buffer_exceeded = given.buffer_exceeded
         /\ s2.orig_cell_handler = given.orig_cell_handler /\ s2.abort = given.abort
         /\ s2.row_handler = given.row_handler
         /\ s2.orig_row_handler = given.orig_row_handler /\ s2.called = given.called
         /\ s2.now = given.now /\ s2.row_used = given.row_used /\ s2.cells = given.cells
         /\ s2.data_row_count = given.data_row_count /\ s2.cell_handler = given.cell_handler
         /\ s2.seen = given.seen
    <3>1. CASE s2 = given
      BY <3>1
    <3>2. CASE s2 = [given EXCEPT !.collated = NothingCollated]
      <4>1. given \in Scanner
        BY <2>5, <2>6, ApplyToCallerFacts DEF given, Handled
      <4> QED BY <3>2, <4>1 DEF Scanner
    <3> QED BY <1>4, <1>13, <3>1, <3>2
  <2>12. s2.rows_to_ignore = 0 /\ s2.keep_empty_header_rows /\ s2.header_span = 0
    BY <1>1, <1>9, <2>1, <2>3, <2>5, <2>7, <2>11 DEF Steady, Steadier
  <2>13. BodyPhase(s2, more)
    BY <1>1, <2>1, <2>12 DEF BodyPhase, HeaderPhase
  <2>14. s2.row_handler = Due(s2)
    BY <2>7, <2>11, <2>12 DEF Due
  <2>15. Tells(s, s2, x, v)
    <3>1. header.called = s.called
      BY <1>9, <2>3, <2>5 DEF Silent, SameChain, Steadier
    <3> QED BY <2>7, <2>11, <3>1 DEF Tells
  <2>16. after = Append(before, x)
    BY <1>10, <2>1, <2>9
  <2>17. Quiet(s) /\ options.mode = "push" => Quiet(s2)
    <3>1. s2.orig_cell_handler = s.orig_cell_handler /\ s2.cell_handler = s.orig_cell_handler
      BY <1>9, <2>3, <2>5, <2>7, <2>11 DEF Steady, Steadier
    <3>2. options.mode = "push" => s2.seen = <<>>
      BY <2>7, <2>11
    <3>3. s2.row_handler \in Caller
      BY <2>7, <2>11
    <3> QED BY <3>1, <3>2, <3>3 DEF Quiet, CellsBy
  <2>18. /\ s2.cum_row_count = s.cum_row_count /\ s2.buffer_exceeded = s.buffer_exceeded
         /\ s2.abort = s.abort
    BY <1>9, <2>3, <2>5, <2>7, <2>11 DEF Steady, Steadier
  <2>19. TakesRow(s, s2, before, after, Quiet(s))
    BY <2>7, <2>8, <2>10, <2>11, <2>14, <2>15, <2>16, <2>17, <2>18 DEF TakesRow
  <2>20. CountedTo(s2, Len(after))
    <3>1. HeaderNumber = 0
      BY <1>1 DEF HeaderNumber
    <3>2. Len(after) = 1
      BY <1>10, <2>1
    <3>3. s2.data_row_count = 0
      BY <2>7, <2>11
    <3> QED BY <3>1, <3>2, <3>3 DEF CountedTo
  <2> QED BY <2>13, <2>19, <2>20 DEF s2, more, before, after
<1> QED BY <1>11, <1>12, <1>13

-----------------------------------------------------------------------------
(* skip_to_first_row_w_data and ignore_header_rows. *)

(* From s to s2 the handlers have taken the row behind rows, and the caller has
   what it is promised of it. *)
Passes(s, s2, rows) ==
  LET more   == Append(rows, Row(s))
      before == RowsPromised(rows, options)
      after  == RowsPromised(more, options)
  IN  /\ Phase(s2, more)
      /\ TakesRow(s, s2, before, after, Attentive(s))
      /\ Counts(s, Len(before)) => CountedTo(s2, Len(after))

(* A sequence with a row behind it is not empty. *)
LEMMA NotEmpty ==
  ASSUME NEW s \in CellRows, NEW x \in Seq(Text)
  PROVE  Append(s, x) # <<>>
PROOF
<1>1. Len(Append(s, x)) = Len(s) + 1 /\ Len(s) \in Nat
  BY RowAppended
<1>2. SUFFICES ASSUME Append(s, x) = <<>> PROVE FALSE
  OBVIOUS
<1>3. Len(Append(s, x)) = 0
  BY <1>2
<1> QED BY <1>1, <1>3

(* What the promise comes to behind the rows to ignore or skip. *)
LEMMA PromisedInBody ==
  ASSUME OptionsOk, NEW rows \in CellRows, NEW r \in Seq(Text)
  PROVE  LET body == Body(rows, options)
             more == Append(rows, r)
         IN
         /\ body \in CellRows /\ more \in CellRows /\ Len(rows) \in Nat /\ Len(more) = Len(rows) + 1
         /\ RowsPromised(rows, options) = Handed(body, Span)
         /\ RowsPromised(more, options) = Handed(Body(more, options), Span)
         /\ Len(rows) <= options.rows_to_ignore => body = <<>>
         /\ Body(more, options) =
              IF \/ Len(rows) < options.rows_to_ignore
                 \/ ~options.keep_empty_header_rows /\ body = <<>> /\ ~HasText(r)
              THEN <<>> ELSE Append(body, r)
         /\ Handed(<<>>, Span) = <<>>
PROOF
<1>1. options.rows_to_ignore \in Nat
  BY DEF OptionsOk
<1>2. /\ Body(rows, options) \in CellRows
      /\ Len(rows) <= options.rows_to_ignore => Body(rows, options) = <<>>
      /\ Body(Append(rows, r), options) =
           IF \/ Len(rows) < options.rows_to_ignore
              \/ ~options.keep_empty_header_rows /\ Body(rows, options) = <<>> /\ ~HasText(r)
           THEN <<>> ELSE Append(Body(rows, options), r)
  BY <1>1, BodyMore
<1>3. Append(rows, r) \in CellRows /\ Len(rows) \in Nat /\ Len(Append(rows, r)) = Len(rows) + 1
  BY RowAppended
<1>4. /\ RowsPromised(rows, options) = Handed(Body(rows, options), Span)
      /\ RowsPromised(Append(rows, r), options) = Handed(Body(Append(rows, r), options), Span)
  BY PromisedIsHanded DEF Span
<1>5. Handed(<<>>, Span) = <<>>
  BY SpanFacts DEF Handed
<1> QED BY <1>2, <1>3, <1>4, <1>5

(* A row is blank if it has no text. *)
LEMMA BlankRow ==
  ASSUME NEW s \in Scanner
  PROVE  RowIsBlank(s) <=> ~HasText(Row(s))
PROOF
<1>1. DOMAIN Row(s) = 1 .. s.used /\ \A j \in 1 .. s.used : Row(s)[j] = s.cells[j]
  BY DEF Row
<1> QED BY <1>1 DEF RowIsBlank, HasText

(* Behind the rows to ignore the scanner is where its options put it. *)
LEMMA HeaderPhaseStart ==
  ASSUME OptionsOk, NEW s, HeaderPhase(s, <<>>)
  PROVE  s.header_span = options.header_span
BY DEF OptionsOk, HeaderPhase

(* HeaderPhase is about the header alone. *)
LEMMA HeaderPhaseSame ==
  ASSUME NEW s, NEW s2, NEW body, HeaderPhase(s, body),
         s2.header_span = s.header_span, s2.collated = s.collated
  PROVE  HeaderPhase(s2, body)
BY DEF HeaderPhase

(* skip_to_first_row_w_data passes the first row with text on. *)
LEMMA SkipTakes ==
  ASSUME OptionsOk, NEW s \in Scanner, ChainInv(s), ModeInv(s), s.row_handler = "skip",
         s.row_handler = Due(s), NEW rows \in CellRows, Phase(s, rows)
  PROVE  LET s2 == SkipToFirstRowWithData(s) IN
         GivesUp(s, s2) \/ Passes(s, s2, rows)
PROOF
<1> DEFINE r == Row(s)
           body == Body(rows, options)
           more == Append(rows, r)
           s2 == SkipToFirstRowWithData(s)
<1>1. r \in Seq(Text)
  BY RowType
<1>2. /\ s.rows_to_ignore = 0 /\ Len(rows) >= options.rows_to_ignore
      /\ ~s.keep_empty_header_rows /\ ~options.keep_empty_header_rows
      /\ body = <<>> /\ HeaderPhase(s, <<>>)
  <2>1. s.orig_row_handler # "skip" /\ s.rows_to_ignore = 0
    BY DEF Scanner, Caller, ChainInv
  <2>2. ~s.keep_empty_header_rows
    BY <2>1 DEF Due
  <2> QED BY <2>1, <2>2 DEF Phase, BodyPhase
<1>3. /\ more \in CellRows /\ Len(rows) \in Nat /\ Len(more) = Len(rows) + 1
      /\ RowsPromised(rows, options) = Handed(body, Span)
      /\ RowsPromised(more, options) = Handed(Body(more, options), Span)
      /\ Body(more, options) =
           IF \/ Len(rows) < options.rows_to_ignore
              \/ ~options.keep_empty_header_rows /\ body = <<>> /\ ~HasText(r)
           THEN <<>> ELSE Append(body, r)
      /\ body \in CellRows /\ Handed(<<>>, Span) = <<>>
  BY <1>1, PromisedInBody
<1>4. options.rows_to_ignore \in Nat
  BY DEF OptionsOk
<1>5. Len(more) >= options.rows_to_ignore
  BY <1>2, <1>3, <1>4
<1>6. RowIsBlank(s) <=> ~HasText(r)
  BY BlankRow
<1>7. Attentive(s) => Quiet(s)
  BY DEF Attentive, Quiet, CellsBy, Caller
<1> HIDE DEF r, more, body
<1>8. CASE RowIsBlank(s)
  <2>1. s2 = [s EXCEPT !.empty_header_rows = @ + 1]
    BY <1>8 DEF SkipToFirstRowWithData
  <2> HIDE DEF s2
  <2>2. Steady(s, s2) /\ Silent(s, s2)
    BY <2>1 DEF Scanner, Steady, Silent
  <2>3. /\ s2.row_handler = s.row_handler /\ s2.orig_row_handler = s.orig_row_handler
        /\ s2.cell_handler = s.cell_handler /\ s2.seen = s.seen
    BY <2>1 DEF Scanner
  <2>4. Body(more, options) = <<>>
    BY <1>2, <1>3, <1>6, <1>8
  <2>5. HeaderPhase(s2, <<>>)
    BY <1>2, <2>2, HeaderPhaseSame DEF Steady
  <2>6. Phase(s2, more)
    BY <1>2, <1>5, <2>2, <2>4, <2>5 DEF Phase, Steady
  <2>7. s2.row_handler = Due(s2)
    BY <2>2, <2>3 DEF Due, Steady
  <2>8. Attentive(s) => Quiet(s2)
    BY <1>7, <2>2, <2>3 DEF Quiet, CellsBy, Steady
  <2>9. RowsPromised(more, options) = RowsPromised(rows, options)
    BY <1>2, <1>3, <2>4
  <2>10. TakesRow(s, s2, RowsPromised(rows, options), RowsPromised(more, options), Attentive(s))
    BY <2>2, <2>7, <2>8, <2>9 DEF TakesRow, Steady
  <2>11. CountedTo(s2, Len(RowsPromised(more, options)))
    BY <2>3 DEF CountedTo, Caller
  <2> QED BY <2>6, <2>10, <2>11 DEF Passes, s2, more, r
<1>9. CASE ~RowIsBlank(s)
  <2> DEFINE k == [s EXCEPT !.keep_empty_header_rows = TRUE]
             x == SetCallbacks(k)
             y == ApplyCallbacks(x)
  <2>1. s2 = y
    BY <1>9 DEF SkipToFirstRowWithData
  <2>2. /\ k \in Scanner /\ k.keep_empty_header_rows /\ k.rows_to_ignore = 0
        /\ k.header_span = s.header_span /\ k.collated = s.collated
        /\ k.row_handler = s.row_handler /\ k.orig_row_handler = s.orig_row_handler
        /\ k.orig_cell_handler = s.orig_cell_handler /\ k.seen = s.seen
        /\ k.cells = s.cells /\ k.used = s.used /\ k.called = s.called /\ k.now = s.now
        /\ k.cum_row_count = s.cum_row_count /\ k.buffer_exceeded = s.buffer_exceeded
        /\ k.abort = s.abort /\ k.overwrite = s.overwrite /\ k.get_cell = s.get_cell
    <3>1. k \in Scanner
      BY DEF Scanner
    <3>2. k.keep_empty_header_rows
      BY DEF Scanner
    <3>3. /\ k.rows_to_ignore = s.rows_to_ignore
          /\ k.header_span = s.header_span /\ k.collated = s.collated
          /\ k.row_handler = s.row_handler /\ k.orig_row_handler = s.orig_row_handler
          /\ k.orig_cell_handler = s.orig_cell_handler /\ k.seen = s.seen
      BY DEF Scanner
    <3>4. /\ k.cells = s.cells /\ k.used = s.used /\ k.called = s.called /\ k.now = s.now
          /\ k.cum_row_count = s.cum_row_count /\ k.buffer_exceeded = s.buffer_exceeded
          /\ k.abort = s.abort /\ k.overwrite = s.overwrite /\ k.get_cell = s.get_cell
      BY DEF Scanner
    <3> HIDE DEF k
    <3> QED BY <1>2, <3>1, <3>2, <3>3, <3>4
  <2>3. ModeInv(k)
    BY <2>2 DEF ModeInv
  <2> HIDE DEF k
  <2>4. /\ x \in Scanner /\ ChainInv(x) /\ ModeInv(x)
        /\ x.row_handler # "throwaway" /\ x.row_handler # "ignore" /\ x.row_handler # "skip"
    BY <2>2, <2>3, SetCallbacksFacts, SetCallbacksMode
  <2>5. k.header_span = options.header_span
    BY <1>2, <2>2, HeaderPhaseStart
  <2>6. /\ Steady(k, x) /\ Silent(k, x) /\ x.cells = k.cells /\ x.used = k.used /\ x.seen = k.seen
        /\ x.row_handler = Due(k) /\ Due(x) = Due(k)
        /\ x.row_handler \in Caller => x.data_row_count = 0 /\ x.cell_handler = k.orig_cell_handler
        /\ x.row_handler \notin Caller => ~x.cell_handler
    BY <2>2, <2>5, SetCallbacksDoes
  <2> HIDE DEF x
  <2>7. x.row_handler = "collate" \/ x.row_handler \in Caller
    BY <2>4 DEF Scanner, Chain
  <2>8. BodyPhase(x, body)
    <3>1. HeaderPhase(x, <<>>)
      BY <1>2, <2>2, <2>6, HeaderPhaseSame DEF Steady
    <3> QED BY <1>2, <2>2, <2>6, <3>1 DEF BodyPhase, Steady
  <2>9. Row(x) = r
    BY <2>2, <2>6 DEF Row, r
  <2>10. Attentive(s) => Quiet(x)
    BY <1>7, <2>2, <2>6 DEF Quiet, CellsBy, Steady
  <2>11. Silent(s, x) /\ x.cum_row_count = s.cum_row_count
         /\ x.buffer_exceeded = s.buffer_exceeded /\ x.abort = s.abort
    BY <2>2, <2>6 DEF Silent, Steady
  <2> DEFINE before == Handed(body, Span)
             after  == Handed(Append(body, r), Span)
  <2>12. \/ GivesUp(x, y)
         \/ /\ BodyPhase(y, Append(body, r))
            /\ TakesRow(x, y, before, after, Quiet(x))
            /\ Counts(x, Len(before)) => CountedTo(y, Len(after))
    <3>1. CASE x.row_handler = "collate"
      <4>1. y = CollateHeaderRow(x)
        BY <3>1 DEF ApplyCallbacks
      <4> QED BY <1>3, <2>4, <2>6, <2>8, <2>9, <3>1, <4>1, CollateTakes
    <3>2. CASE x.row_handler # "collate"
      <4>1. y = ApplyToCaller(x)
        BY <3>2 DEF ApplyCallbacks
      <4> QED BY <1>3, <2>4, <2>6, <2>7, <2>8, <2>9, <3>2, <4>1, ApplyTakes
    <3> QED BY <3>1, <3>2
  <2> HIDE DEF y
  <2>13. CASE GivesUp(x, y)
    BY <2>1, <2>11, <2>13 DEF GivesUp, Silent
  <2>14. ASSUME BodyPhase(y, Append(body, r)), TakesRow(x, y, before, after, Quiet(x)),
                Counts(x, Len(before)) => CountedTo(y, Len(after))
         PROVE  Passes(s, y, rows)
    <3>1. Body(more, options) = Append(body, r)
      BY <1>2, <1>3, <1>4, <1>6, <1>9
    <3>2. RowsPromised(rows, options) = before /\ RowsPromised(more, options) = after
      BY <1>3, <3>1
    <3>3. Append(body, r) # <<>>
      BY <1>1, <1>3, NotEmpty
    <3>4. Phase(y, more)
      BY <1>5, <2>14, <3>1, <3>3 DEF Phase
    <3>5. CountedTo(y, Len(after))
      <4>1. HeaderNumber = 0
        BY <1>2 DEF HeaderNumber
      <4>2. before = <<>>
        BY <1>2, <1>3
      <4>3. Counts(x, Len(before))
        BY <2>6, <4>1, <4>2 DEF Counts
      <4> QED BY <2>14, <4>3
    <3> HIDE DEF before, after
    <3>6. TakesRow(s, y, before, after, Attentive(s))
      <4>1. ASSUME NEW a, NEW v, Tells(x, y, a, v) PROVE Tells(s, y, a, v)
        BY <2>11, <4>1 DEF Silent, Tells
      <4>2. Silent(x, y) => Silent(s, y)
        BY <2>11 DEF Silent
      <4> QED BY <2>10, <2>11, <2>14, <4>1, <4>2 DEF TakesRow
    <3> QED BY <3>2, <3>4, <3>5, <3>6 DEF Passes, more, r
  <2> QED BY <2>1, <2>12, <2>13, <2>14
<1> QED BY <1>8, <1>9

(* ignore_header_rows counts down, and gives its last row to nobody. *)
LEMMA IgnoreTakes ==
  ASSUME OptionsOk, NEW s \in Scanner, ChainInv(s), ModeInv(s), s.row_handler = "ignore",
         s.row_handler = Due(s), NEW rows \in CellRows, Phase(s, rows)
  PROVE  LET s2 == IgnoreHeaderRow(s) IN Passes(s, s2, rows)
PROOF
<1> DEFINE r == Row(s)
           body == Body(rows, options)
           more == Append(rows, r)
           s2 == IgnoreHeaderRow(s)
           k == [s EXCEPT !.rows_to_ignore = @ - 1]
<1>1. r \in Seq(Text)
  BY RowType
<1>2. /\ s.rows_to_ignore \in Nat /\ s.rows_to_ignore > 0
      /\ s.rows_to_ignore + Len(rows) = options.rows_to_ignore
      /\ s.keep_empty_header_rows = options.keep_empty_header_rows
      /\ HeaderPhase(s, <<>>)
  <2>1. s.rows_to_ignore \in Nat /\ s.rows_to_ignore > 0
    BY DEF Scanner, ChainInv
  <2> QED BY <2>1 DEF Phase, BodyPhase
<1>3. /\ more \in CellRows /\ Len(rows) \in Nat /\ Len(more) = Len(rows) + 1
      /\ RowsPromised(rows, options) = Handed(body, Span)
      /\ RowsPromised(more, options) = Handed(Body(more, options), Span)
      /\ Len(rows) <= options.rows_to_ignore => body = <<>>
      /\ Body(more, options) =
           IF \/ Len(rows) < options.rows_to_ignore
              \/ ~options.keep_empty_header_rows /\ body = <<>> /\ ~HasText(r)
           THEN <<>> ELSE Append(body, r)
      /\ Handed(<<>>, Span) = <<>>
  BY <1>1, PromisedInBody
<1> HIDE DEF r, more, body
<1>4. /\ Body(more, options) = <<>>
      /\ RowsPromised(rows, options) = <<>> /\ RowsPromised(more, options) = <<>>
  <2>1. Len(rows) < options.rows_to_ignore /\ Len(rows) <= options.rows_to_ignore
    BY <1>2, <1>3
  <2> QED BY <1>3, <2>1
<1>5. Attentive(s) => Quiet(s)
  BY DEF Attentive, Quiet, CellsBy, Caller
<1>6. /\ k \in Scanner /\ k.rows_to_ignore = s.rows_to_ignore - 1
      /\ k.keep_empty_header_rows = s.keep_empty_header_rows
      /\ k.header_span = s.header_span /\ k.collated = s.collated
      /\ k.row_handler = s.row_handler /\ k.orig_row_handler = s.orig_row_handler
      /\ k.orig_cell_handler = s.orig_cell_handler /\ k.cell_handler = s.cell_handler
      /\ k.seen = s.seen /\ k.called = s.called /\ k.now = s.now
      /\ k.cum_row_count = s.cum_row_count /\ k.buffer_exceeded = s.buffer_exceeded
      /\ k.abort = s.abort
  <2>1. s.rows_to_ignore - 1 \in Nat
    BY <1>2
  <2> QED BY <2>1 DEF Scanner
<1>7. s2 = IF k.rows_to_ignore > 0 THEN k ELSE SetCallbacks(k)
  BY DEF IgnoreHeaderRow
<1> HIDE DEF k
<1>8. /\ s2.rows_to_ignore = k.rows_to_ignore
      /\ s2.keep_empty_header_rows = k.keep_empty_header_rows
      /\ s2.header_span = k.header_span /\ s2.collated = k.collated
      /\ s2.cum_row_count = k.cum_row_count /\ s2.buffer_exceeded = k.buffer_exceeded
      /\ s2.orig_cell_handler = k.orig_cell_handler /\ s2.abort = k.abort
      /\ s2.called = k.called /\ s2.now = k.now /\ s2.seen = k.seen
      /\ s2.row_handler = Due(s2)
      /\ s2.row_handler \in Caller => s2.data_row_count = 0 /\ s2.cell_handler = k.orig_cell_handler
      /\ s2.row_handler \notin Caller => s2.cell_handler = FALSE \/ s2.cell_handler = s.cell_handler
  <2>1. CASE k.rows_to_ignore > 0
    <3>1. s2 = k
      BY <1>7, <2>1
    <3> HIDE DEF s2
    <3>2. Due(s2) = "ignore" /\ s2.row_handler = "ignore"
      BY <1>6, <2>1, <3>1 DEF Due
    <3> QED BY <1>6, <3>1, <3>2 DEF Caller
  <2>2. CASE ~(k.rows_to_ignore > 0)
    <3>1. s2 = SetCallbacks(k)
      BY <1>7, <2>2
    <3> HIDE DEF s2
    <3>2. k.header_span = options.header_span
      BY <1>2, <1>6, HeaderPhaseStart
    <3>3. /\ Steady(k, s2) /\ Silent(k, s2) /\ s2.seen = k.seen
          /\ s2.row_handler = Due(k) /\ Due(s2) = Due(k)
          /\ s2.row_handler \in Caller => s2.data_row_count = 0 /\ s2.cell_handler = k.orig_cell_handler
          /\ s2.row_handler \notin Caller => ~s2.cell_handler
      BY <1>6, <3>1, <3>2, SetCallbacksDoes
    <3>4. s2.cell_handler \in BOOLEAN
      BY <1>6, <3>1, SetCallbacksFacts DEF Scanner
    <3> QED BY <3>3, <3>4 DEF Steady, Silent
  <2> QED BY <2>1, <2>2
<1> HIDE DEF s2
<1>9. Phase(s2, more)
  <2>1. HeaderPhase(s2, <<>>)
    BY <1>2, <1>6, <1>8, HeaderPhaseSame
  <2>2. CASE s.rows_to_ignore - 1 > 0
    <3>1. s2.rows_to_ignore > 0 /\ s2.rows_to_ignore + Len(more) = options.rows_to_ignore
      BY <1>2, <1>3, <1>6, <1>8, <2>2
    <3> QED BY <1>2, <1>6, <1>8, <2>1, <3>1 DEF Phase
  <2>3. CASE ~(s.rows_to_ignore - 1 > 0)
    <3>1. s2.rows_to_ignore = 0 /\ Len(more) = options.rows_to_ignore
      BY <1>2, <1>3, <1>6, <1>8, <2>3
    <3>2. options.keep_empty_header_rows \in BOOLEAN /\ Len(more) >= options.rows_to_ignore
      BY <3>1 DEF OptionsOk
    <3>3. CASE options.keep_empty_header_rows
      <4>1. BodyPhase(s2, Body(more, options))
        BY <1>2, <1>4, <1>6, <1>8, <2>1, <3>1, <3>3 DEF BodyPhase
      <4> QED BY <3>2, <3>3, <4>1 DEF Phase
    <3>4. CASE ~options.keep_empty_header_rows
      BY <1>2, <1>4, <1>6, <1>8, <2>1, <3>1, <3>2, <3>4 DEF Phase
    <3> QED BY <3>3, <3>4
  <2> QED BY <2>2, <2>3
<1>10. Attentive(s) => Quiet(s2)
  <2>1. Attentive(s) => ~s.cell_handler
    BY DEF Attentive, CellsBy, Caller
  <2> QED BY <1>5, <1>6, <1>8, <2>1 DEF Quiet, CellsBy
<1>11. TakesRow(s, s2, RowsPromised(rows, options), RowsPromised(more, options), Attentive(s))
  BY <1>4, <1>6, <1>8, <1>10 DEF TakesRow, Silent
<1>12. CountedTo(s2, Len(RowsPromised(more, options)))
  <2>1. SUFFICES ASSUME s2.row_handler \in Caller
                 PROVE  s2.data_row_count + 1 = HeaderNumber + 0
    BY <1>4 DEF CountedTo
  <2>2. s2.row_handler = Due(s2)
    BY <1>8
  <2>3. ~(s2.rows_to_ignore > 0) /\ s2.keep_empty_header_rows
        /\ ~(options.header_span > 1 /\ s2.header_span > 0)
    BY <2>1, <2>2 DEF Due, Caller
  <2>4. s2.header_span = options.header_span /\ options.header_span \in Nat
    BY <1>2, <1>6, <1>8, HeaderPhaseStart DEF OptionsOk
  <2>5. HeaderNumber = 1
    <3>1. options.rows_to_ignore > 0 /\ options.header_span < 2 /\ options.keep_empty_header_rows
      BY <1>2, <1>3, <1>6, <1>8, <2>3, <2>4
    <3> QED BY <3>1 DEF HeaderNumber
  <2>6. s2.data_row_count = 0
    BY <1>8, <2>1
  <2> QED BY <2>5, <2>6
<1> QED BY <1>9, <1>11, <1>12 DEF Passes, s2, more, r

-----------------------------------------------------------------------------
(* row_dl, with whichever handler is installed. *)

(* z is y at the end of the row. *)
Ended(y, z) ==
  /\ z.rows_to_ignore = y.rows_to_ignore /\ z.keep_empty_header_rows = y.keep_empty_header_rows
  /\ z.header_span = y.header_span /\ z.collated = y.collated
  /\ z.row_handler = y.row_handler /\ z.orig_row_handler = y.orig_row_handler
  /\ z.cell_handler = y.cell_handler /\ z.orig_cell_handler = y.orig_cell_handler
  /\ z.cells = y.cells /\ z.seen = y.seen /\ z.called = y.called /\ z.now = y.now
  /\ z.row_used = y.row_used /\ z.data_row_count = y.data_row_count
  /\ z.buffer_exceeded = y.buffer_exceeded /\ z.freed = y.freed

(* Phase is about what set_callbacks looks at, and the header. *)
LEMMA PhaseSame ==
  ASSUME NEW s, NEW s2, NEW rows, Phase(s, rows),
         s2.rows_to_ignore = s.rows_to_ignore,
         s2.keep_empty_header_rows = s.keep_empty_header_rows,
         s2.header_span = s.header_span, s2.collated = s.collated
  PROVE  Phase(s2, rows)
BY DEF Phase, BodyPhase, HeaderPhase

(* What row_dl adds to the handler. *)
LEMMA RowDlDoes ==
  ASSUME NEW s \in Scanner, ChainInv(s), ModeInv(s), NEW stop \in BOOLEAN
  PROVE  LET z == RowDl(s, stop)
             y == CallRowHandler(s)
         IN
         /\ y \in Scanner /\ z \in Scanner /\ ModeInv(z) /\ Ended(y, z)
         /\ z.cum_row_count = y.cum_row_count + 1
         /\ y.abort => z.abort
         /\ ~z.abort => z.used = 0 /\ ~AtMaxRows(z)
PROOF
<1> DEFINE y == CallRowHandler(s)
           aborted == y.abort \/ (stop /\ y.called # s.called)
           counted == [y EXCEPT !.cum_row_count = @ + 1, !.abort = aborted]
           limit   == counted.abort \/ AtMaxRows(counted)
           limited == [counted EXCEPT !.abort = limit]
           z == [limited EXCEPT !.used = IF counted.abort /\ ~AtMaxRows(counted) THEN @ ELSE 0]
<1>1. RowDl(s, stop) = z
  BY DEF RowDl
<1>2. y \in Scanner /\ RowDl(s, stop) \in Scanner /\ ModeInv(RowDl(s, stop))
  BY CallRowHandlerFacts, RowDlFacts DEF Handled
<1> HIDE DEF y, aborted
<1>3. /\ Ended(y, counted) /\ counted.cum_row_count = y.cum_row_count + 1
      /\ DOMAIN counted = DOMAIN y /\ (y.abort => counted.abort)
  BY <1>2 DEF Scanner, Ended, aborted
<1> HIDE DEF counted, limit
<1>4. /\ Ended(counted, limited) /\ limited.cum_row_count = counted.cum_row_count
      /\ DOMAIN limited = DOMAIN y /\ limited.abort = limit
  BY <1>2, <1>3 DEF Scanner, Ended
<1> HIDE DEF limited
<1>5. /\ Ended(limited, z) /\ z.cum_row_count = limited.cum_row_count
      /\ z.abort = limit
      /\ z.used = 0 \/ counted.abort
  BY <1>2, <1>4 DEF Scanner, Ended
<1> HIDE DEF z
<1>6. Ended(y, z)
  BY <1>3, <1>4, <1>5 DEF Ended
<1>7. AtMaxRows(z) <=> AtMaxRows(counted)
  BY <1>4, <1>5 DEF AtMaxRows
<1>8. counted.abort => z.abort
  BY <1>5 DEF limit
<1>9. AtMaxRows(counted) => z.abort
  BY <1>5 DEF limit
<1> QED BY <1>1, <1>2, <1>3, <1>4, <1>5, <1>6, <1>7, <1>8, <1>9 DEF y

(* A piece in an empty row is the row in hand. *)
LEMMA AddCellsDoes ==
  ASSUME NEW s \in Scanner, s.used = 0, NEW cells \in Seq(Text), Len(cells) <= MaxCols
  PROVE  LET x == AddCells(s, cells) IN
         /\ Row(x) = cells /\ Steady(s, x)
         /\ x.cell_handler = s.cell_handler /\ x.data_row_count = s.data_row_count
         /\ x.seen = IF s.cell_handler THEN s.seen \o cells ELSE s.seen
PROOF
<1> DEFINE held == [j \in Column |-> IF j > s.used /\ j <= s.used + Len(cells)
                                     THEN cells[j - s.used] ELSE s.cells[j]]
           used == IF s.used + Len(cells) > MaxCols THEN MaxCols ELSE s.used + Len(cells)
           seen == IF s.cell_handler THEN s.seen \o cells ELSE s.seen
           x == AddCells(s, cells)
<1>1. used = Len(cells) /\ Len(cells) \in Nat
  BY OptionsAssumption
<1>2. \A j \in 1 .. used : held[j] = cells[j]
  <2>1. \A j \in 1 .. used : j \in Column /\ j - s.used = j /\ j > s.used /\ j <= s.used + Len(cells)
    BY <1>1, OptionsAssumption DEF Column
  <2> QED BY <2>1
<1>3. x = [s EXCEPT !.seen = seen, !.cells = held, !.used = used]
  BY DEF AddCells
<1> HIDE DEF held, used, seen, x
<1>4. /\ x.cells = held /\ x.used = used /\ x.seen = seen
      /\ x.cell_handler = s.cell_handler /\ x.data_row_count = s.data_row_count
  BY <1>3 DEF Scanner
<1>5. Steady(s, x)
  BY <1>3 DEF Scanner, Steady
<1>6. Row(x) = cells
  <2>1. Row(x) = [j \in 1 .. Len(cells) |-> cells[j]]
    BY <1>1, <1>2, <1>4 DEF Row
  <2> QED BY <2>1
<1> QED BY <1>4, <1>5, <1>6 DEF x, seen

(* Whichever handler is due takes the row. *)
LEMMA RowHandlerTakes ==
  ASSUME OptionsOk, NEW s \in Scanner, ChainInv(s), ModeInv(s), s.row_handler = Due(s),
         NEW rows \in CellRows, Phase(s, rows)
  PROVE  LET s2 == CallRowHandler(s) IN
         GivesUp(s, s2) \/ Passes(s, s2, rows)
PROOF
<1> DEFINE r == Row(s)
           body == Body(rows, options)
           more == Append(rows, r)
           s2 == CallRowHandler(s)
<1>1. s.row_handler \in Chain \cup Caller /\ s.orig_row_handler \in Caller
  BY DEF Scanner, Due, Chain
<1>2. CASE s.row_handler = "ignore"
  <2>1. s2 = IgnoreHeaderRow(s)
    BY <1>2 DEF CallRowHandler, Caller
  <2> QED BY <1>2, <2>1, IgnoreTakes
<1>3. CASE s.row_handler = "skip"
  <2>1. s2 = SkipToFirstRowWithData(s)
    BY <1>3 DEF CallRowHandler, Caller
  <2> QED BY <1>3, <2>1, SkipTakes
<1>4. CASE s.row_handler = "collate" \/ s.row_handler \in Caller
  <2>1. s2 = IF s.row_handler = "collate" THEN CollateHeaderRow(s) ELSE CallerRow(s)
    BY <1>4 DEF CallRowHandler, Caller
  <2> HIDE DEF s2
  <2>2. ~(s.rows_to_ignore > 0) /\ s.keep_empty_header_rows
    BY <1>4 DEF Due, Caller
  <2>3. /\ Len(rows) >= options.rows_to_ignore
        /\ options.keep_empty_header_rows \/ body # <<>>
        /\ BodyPhase(s, body)
    BY <2>2 DEF Phase
  <2>4. r \in Seq(Text)
    BY RowType
  <2>5. /\ body \in CellRows /\ more \in CellRows /\ Len(rows) \in Nat /\ Len(more) = Len(rows) + 1
        /\ RowsPromised(rows, options) = Handed(body, Span)
        /\ RowsPromised(more, options) = Handed(Body(more, options), Span)
        /\ Body(more, options) =
             IF \/ Len(rows) < options.rows_to_ignore
                \/ ~options.keep_empty_header_rows /\ body = <<>> /\ ~HasText(r)
             THEN <<>> ELSE Append(body, r)
    BY <2>4, PromisedInBody
  <2>6. options.rows_to_ignore \in Nat
    BY DEF OptionsOk
  <2> HIDE DEF r, more, body
  <2>7. Body(more, options) = Append(body, r) /\ Len(more) >= options.rows_to_ignore
    BY <2>3, <2>5, <2>6
  <2>8. Append(body, r) # <<>>
    BY <2>4, <2>5, NotEmpty
  <2> DEFINE before == Handed(body, Span)
             after  == Handed(Append(body, r), Span)
  <2>9. Attentive(s) /\ s.row_handler = "collate" => Quiet(s)
    BY DEF Attentive, Quiet, CellsBy, Caller
  <2>10. \/ GivesUp(s, s2)
         \/ /\ BodyPhase(s2, Append(body, r))
            /\ TakesRow(s, s2, before, after, Attentive(s))
            /\ Counts(s, Len(before)) => CountedTo(s2, Len(after))
    <3>1. CASE s.row_handler = "collate"
      <4>1. s2 = CollateHeaderRow(s)
        BY <2>1, <3>1
      <4>2. \/ GivesUp(s, s2)
            \/ /\ BodyPhase(s2, Append(body, r))
               /\ TakesRow(s, s2, before, after, Quiet(s))
               /\ CountedTo(s2, Len(after))
        BY <2>3, <2>5, <3>1, <4>1, CollateTakes DEF r
      <4> HIDE DEF before, after
      <4>3. TakesRow(s, s2, before, after, Quiet(s)) => TakesRow(s, s2, before, after, Attentive(s))
        BY <2>9, <3>1 DEF TakesRow
      <4> QED BY <4>2, <4>3
    <3>2. CASE s.row_handler \in Caller
      <4>1. s2 = CallerRow(s)
        BY <2>1, <3>2 DEF Caller
      <4> QED BY <2>3, <2>5, <3>2, <4>1, CallerTakes DEF r
    <3> QED BY <1>4, <3>1, <3>2
  <2>11. RowsPromised(rows, options) = before /\ RowsPromised(more, options) = after
    BY <2>5, <2>7
  <2> HIDE DEF before, after
  <2>12. BodyPhase(s2, Append(body, r)) => Phase(s2, more)
    BY <2>7, <2>8 DEF Phase
  <2> QED BY <2>10, <2>11, <2>12 DEF Passes, s2, more, r
<1> QED BY <1>1, <1>2, <1>3, <1>4 DEF Chain

(* zsv_throwaway_row gives the caller no row, and puts the chain back to work. *)
LEMMA ThrowawayDoes ==
  ASSUME NEW s \in Scanner, s.header_span = options.header_span \/ s.header_span = 0
  PROVE  LET s2 == ThrowawayRow(s) IN
         /\ s2.rows_to_ignore = s.rows_to_ignore
         /\ s2.keep_empty_header_rows = s.keep_empty_header_rows
         /\ s2.header_span = s.header_span /\ s2.collated = s.collated
         /\ s2.cum_row_count = s.cum_row_count /\ ~s2.buffer_exceeded
         /\ s2.now = s.now /\ s2.row_handler = Due(s2)
         /\ \/ s2.called = s.called
            \/ \E c \in Given : s2.called = Append(s.called, c) /\ ~IsRowCall(c)
PROOF
<1> DEFINE overflows == options.mode = "push" /\ s.used > 0
                        /\ (s.used > 1 \/ s.cells[1] # Blank)
           told == IF overflows THEN Called(s, "overflow") ELSE s
           x == [told EXCEPT !.buffer_exceeded = FALSE]
           c == Told(s, "overflow")
<1>1. /\ told \in Scanner /\ told.rows_to_ignore = s.rows_to_ignore
      /\ told.keep_empty_header_rows = s.keep_empty_header_rows
      /\ told.header_span = s.header_span /\ told.collated = s.collated
      /\ told.cum_row_count = s.cum_row_count /\ told.now = s.now
      /\ told.called = s.called \/ told.called = Append(s.called, c)
  <2> DEFINE y == Called(s, "overflow")
  <2>1. y \in Scanner /\ y.called = Append(s.called, c)
    BY CalledFacts
  <2>2. y = [s EXCEPT !.called = Append(s.called, c), !.seen = <<>>]
    BY DEF Called, Told
  <2>3. told = y \/ told = s
    OBVIOUS
  <2> HIDE DEF y, told, c
  <2>4. /\ y.rows_to_ignore = s.rows_to_ignore
        /\ y.keep_empty_header_rows = s.keep_empty_header_rows
        /\ y.header_span = s.header_span /\ y.collated = s.collated
        /\ y.cum_row_count = s.cum_row_count /\ y.now = s.now
    BY <2>2 DEF Scanner
  <2> QED BY <2>1, <2>3, <2>4
<1>2. ThrowawayRow(s) = SetCallbacks(x)
  BY DEF ThrowawayRow
<1>3. c \in Given /\ ~IsRowCall(c)
  BY CalledFacts DEF Told, IsRowCall
<1> HIDE DEF told, c
<1>4. /\ x \in Scanner /\ x.rows_to_ignore = told.rows_to_ignore
      /\ x.keep_empty_header_rows = told.keep_empty_header_rows
      /\ x.header_span = told.header_span /\ x.collated = told.collated
      /\ x.cum_row_count = told.cum_row_count /\ x.now = told.now
      /\ x.called = told.called /\ ~x.buffer_exceeded
  <2>1. told \in Scanner
    BY <1>1
  <2>2. x \in Scanner
    BY <2>1 DEF Scanner
  <2>3. /\ x.rows_to_ignore = told.rows_to_ignore
        /\ x.keep_empty_header_rows = told.keep_empty_header_rows
        /\ x.header_span = told.header_span /\ x.collated = told.collated
    BY <2>1 DEF Scanner
  <2>4. /\ x.cum_row_count = told.cum_row_count /\ x.now = told.now
        /\ x.called = told.called /\ ~x.buffer_exceeded
    BY <2>1 DEF Scanner
  <2> HIDE DEF x
  <2> QED BY <2>2, <2>3, <2>4
<1> HIDE DEF x
<1>5. /\ Steady(x, SetCallbacks(x)) /\ Silent(x, SetCallbacks(x))
      /\ SetCallbacks(x).row_handler = Due(SetCallbacks(x))
  BY <1>1, <1>4, SetCallbacksDoes
<1> QED BY <1>1, <1>2, <1>3, <1>4, <1>5 DEF Steady, Silent

-----------------------------------------------------------------------------
(* The histories: what the caller has been told, and the input so far. *)

(* The rows of a sequence of pieces or of calls. *)
CellsIn(q) == [k \in DOMAIN q |-> q[k].cells]

(* What cs, a sequence of calls, holds of rows. *)
RowCallsIn(cs) == Kept(cs, {k \in DOMAIN cs : IsRowCall(cs[k])})
RowsTold(cs) == CellsIn(RowCallsIn(cs))
NumbersRight(cs) ==
  \A k \in DOMAIN RowCallsIn(cs) : RowCallsIn(cs)[k].number = HeaderNumber + k - 1
SeenRight(cs) == \A k \in DOMAIN cs : cs[k].seen = cs[k].cells

(* And in, a sequence of pieces of the input. *)
PiecesIn(in) == Kept(in, {k \in DOMAIN in : ~in[k].tail})
RowsIn(in) == CellsIn(PiecesIn(in))

(* The cells of one member more. *)
LEMMA CellsAppended ==
  ASSUME NEW T, \A p \in T : p.cells \in Seq(Text), NEW s \in Seq(T), NEW x \in T
  PROVE  /\ CellsIn(s) \in CellRows /\ Len(CellsIn(s)) = Len(s)
         /\ CellsIn(Append(s, x)) = Append(CellsIn(s), x.cells)
PROOF
<1> DEFINE c == [k \in DOMAIN s |-> s[k].cells]
           d == [k \in DOMAIN Append(s, x) |-> Append(s, x)[k].cells]
<1>1. Len(s) \in Nat /\ DOMAIN s = 1 .. Len(s) /\ \A k \in 1 .. Len(s) : s[k] \in T
  OBVIOUS
<1>2. /\ DOMAIN Append(s, x) = 1 .. Len(s) + 1 /\ Append(s, x)[Len(s) + 1] = x
      /\ \A k \in 1 .. Len(s) : Append(s, x)[k] = s[k]
  OBVIOUS
<1>3. c \in [1 .. Len(s) -> Seq(Text)]
  BY <1>1
<1>4. c \in CellRows /\ Len(c) = Len(s)
  BY <1>1, <1>3 DEF CellRows
<1>5. DOMAIN d = 1 .. Len(s) + 1 /\ d[Len(s) + 1] = x.cells
      /\ \A k \in 1 .. Len(s) : d[k] = s[k].cells
  BY <1>1, <1>2
<1>6. \A k \in 1 .. Len(s) : c[k] = s[k].cells
  BY <1>1
<1>7. d = [k \in 1 .. Len(s) + 1 |-> d[k]]
  BY <1>1, <1>2
<1> HIDE DEF c, d
<1>8. x.cells \in Seq(Text)
  OBVIOUS
<1> DEFINE e == Append(c, x.cells)
<1>9. /\ Len(e) = Len(s) + 1 /\ e[Len(s) + 1] = x.cells /\ \A k \in 1 .. Len(s) : e[k] = c[k]
      /\ DOMAIN e = 1 .. Len(s) + 1 /\ e \in CellRows
  BY <1>4, <1>8, RowAppended
<1>10. e = [k \in 1 .. Len(s) + 1 |-> e[k]]
  BY <1>9 DEF CellRows
<1> HIDE DEF e
<1>11. \A k \in 1 .. Len(s) + 1 : d[k] = e[k]
  BY <1>1, <1>5, <1>6, <1>9
<1>12. d = e
  BY <1>7, <1>10, <1>11
<1> QED BY <1>4, <1>12 DEF c, d, e, CellsIn

(* They are rows. *)
LEMMA RowsToldType ==
  ASSUME NEW cs \in Seq(Given)
  PROVE  RowsTold(cs) \in CellRows
PROOF
<1>1. RowCallsIn(cs) \in Seq(Given)
  BY KeptType DEF RowCallsIn
<1> DEFINE r == RowCallsIn(cs)
<1> HIDE DEF r
<1>2. /\ r \in Seq(Given) /\ Len(r) \in Nat /\ DOMAIN r = 1 .. Len(r)
      /\ \A k \in 1 .. Len(r) : r[k] \in Given
  BY <1>1 DEF r
<1>3. CellsIn(r) \in [1 .. Len(r) -> Seq(Text)]
  BY <1>2 DEF CellsIn, Given
<1>4. CellsIn(r) \in CellRows
  BY <1>2, <1>3 DEF CellRows
<1> QED BY <1>4 DEF RowsTold, r

(* One call more. *)
LEMMA CallAppended ==
  ASSUME NEW cs \in Seq(Given), NEW c \in Given
  PROVE  LET more == Append(cs, c) IN
         /\ more \in Seq(Given) /\ cs \o <<c>> = more /\ RowsTold(cs) \in CellRows
         /\ RowsTold(more) = IF IsRowCall(c) THEN Append(RowsTold(cs), c.cells) ELSE RowsTold(cs)
         /\ /\ NumbersRight(cs)
            /\ IsRowCall(c) => c.number = HeaderNumber + Len(RowsTold(cs))
            => NumbersRight(more)
         /\ SeenRight(cs) /\ c.seen = c.cells => SeenRight(more)
PROOF
<1> DEFINE more == Append(cs, c)
           keep == {k \in DOMAIN cs : IsRowCall(cs[k])}
           keep2 == {k \in DOMAIN more : IsRowCall(more[k])}
           r == RowCallsIn(cs)
           r2 == RowCallsIn(more)
<1>1. /\ Len(cs) \in Nat /\ DOMAIN cs = 1 .. Len(cs) /\ DOMAIN more = 1 .. Len(cs) + 1
      /\ more[Len(cs) + 1] = c /\ \A k \in 1 .. Len(cs) : more[k] = cs[k]
  OBVIOUS
<1>2. more \in Seq(Given) /\ cs \o <<c>> = more
  OBVIOUS
<1> HIDE DEF more
<1>3. /\ \A k \in 1 .. Len(cs) : k \in keep <=> k \in keep2
      /\ Len(cs) + 1 \in keep2 <=> IsRowCall(c)
  BY <1>1
<1> HIDE DEF keep, keep2
<1>4. r \in Seq(Given)
  BY KeptType DEF RowCallsIn, keep
<1>5. r2 = IF IsRowCall(c) THEN Append(r, c) ELSE r
  <2>1. Kept(Append(cs, c), keep2) =
          IF Len(cs) + 1 \in keep2 THEN Append(Kept(cs, keep), c) ELSE Kept(cs, keep)
    BY <1>3, KeptMore
  <2>2. r = Kept(cs, keep) /\ r2 = Kept(Append(cs, c), keep2)
    BY DEF RowCallsIn, keep, keep2, more
  <2> QED BY <1>3, <2>1, <2>2
<1> HIDE DEF r, r2
<1>6. \A g \in Given : g.cells \in Seq(Text)
  BY DEF Given
<1>7. /\ CellsIn(r) \in CellRows /\ Len(CellsIn(r)) = Len(r)
      /\ CellsIn(Append(r, c)) = Append(CellsIn(r), c.cells)
  BY <1>4, <1>6, CellsAppended
<1>8. RowsTold(cs) = CellsIn(r) /\ RowsTold(more) = CellsIn(r2)
  BY DEF RowsTold, r, r2
<1>9. RowsTold(more) = IF IsRowCall(c) THEN Append(RowsTold(cs), c.cells) ELSE RowsTold(cs)
  BY <1>5, <1>7, <1>8
<1>10. ASSUME NumbersRight(cs), IsRowCall(c) => c.number = HeaderNumber + Len(RowsTold(cs))
       PROVE  NumbersRight(more)
  <2>1. \A k \in DOMAIN r : r[k].number = HeaderNumber + k - 1
    BY <1>10 DEF NumbersRight, r
  <2>2. ASSUME NEW k \in DOMAIN r2 PROVE r2[k].number = HeaderNumber + k - 1
    <3>1. CASE ~IsRowCall(c)
      BY <1>5, <2>1, <2>2, <3>1
    <3>2. CASE IsRowCall(c)
      <4>1. /\ r2 = Append(r, c) /\ c.number = HeaderNumber + Len(r)
        BY <1>5, <1>7, <1>8, <1>10, <3>2
      <4>2. /\ Len(r) \in Nat /\ DOMAIN r = 1 .. Len(r) /\ DOMAIN r2 = 1 .. Len(r) + 1
            /\ r2[Len(r) + 1] = c /\ \A j \in 1 .. Len(r) : r2[j] = r[j]
        BY <1>4, <4>1
      <4>3. HeaderNumber \in Nat
        BY DEF HeaderNumber
      <4>4. CASE k = Len(r) + 1
        BY <4>1, <4>2, <4>3, <4>4
      <4>5. CASE k \in 1 .. Len(r)
        BY <2>1, <4>2, <4>5
      <4> QED BY <2>2, <4>2, <4>4, <4>5
    <3> QED BY <3>1, <3>2
  <2> QED BY <2>2 DEF NumbersRight, r2
<1>11. SeenRight(cs) /\ c.seen = c.cells => SeenRight(more)
  <2>1. ASSUME SeenRight(cs), c.seen = c.cells, NEW k \in 1 .. Len(cs) + 1
        PROVE  more[k].seen = more[k].cells
    <3>1. CASE k = Len(cs) + 1
      BY <1>1, <2>1, <3>1
    <3>2. CASE k \in 1 .. Len(cs)
      BY <1>1, <2>1, <3>2 DEF SeenRight
    <3> QED BY <1>1, <2>1, <3>1, <3>2
  <2> QED BY <1>1, <2>1 DEF SeenRight
<1> QED BY <1>2, <1>7, <1>8, <1>9, <1>10, <1>11 DEF more

(* One piece of the input more. *)
LEMMA PieceAppended ==
  ASSUME NEW in \in Seq(InputPiece), NEW p \in InputPiece
  PROVE  LET more == Append(in, p) IN
         /\ more \in Seq(InputPiece) /\ Len(more) = Len(in) + 1 /\ Len(in) \in Nat
         /\ RowsIn(in) \in CellRows
         /\ RowsIn(more) = IF p.tail THEN RowsIn(in) ELSE Append(RowsIn(in), p.cells)
PROOF
<1> DEFINE more == Append(in, p)
           keep == {k \in DOMAIN in : ~in[k].tail}
           keep2 == {k \in DOMAIN more : ~more[k].tail}
           r == PiecesIn(in)
           r2 == PiecesIn(more)
<1>1. /\ Len(in) \in Nat /\ DOMAIN in = 1 .. Len(in) /\ DOMAIN more = 1 .. Len(in) + 1
      /\ more[Len(in) + 1] = p /\ \A k \in 1 .. Len(in) : more[k] = in[k]
  OBVIOUS
<1>2. more \in Seq(InputPiece) /\ Len(more) = Len(in) + 1
  OBVIOUS
<1> HIDE DEF more
<1>3. /\ \A k \in 1 .. Len(in) : k \in keep <=> k \in keep2
      /\ Len(in) + 1 \in keep2 <=> ~p.tail
  BY <1>1
<1> HIDE DEF keep, keep2
<1>4. r \in Seq(InputPiece)
  BY KeptType DEF PiecesIn, keep
<1>5. r2 = IF p.tail THEN r ELSE Append(r, p)
  <2>1. Kept(Append(in, p), keep2) =
          IF Len(in) + 1 \in keep2 THEN Append(Kept(in, keep), p) ELSE Kept(in, keep)
    BY <1>3, KeptMore
  <2>2. r = Kept(in, keep) /\ r2 = Kept(Append(in, p), keep2)
    BY DEF PiecesIn, keep, keep2, more
  <2> QED BY <1>3, <2>1, <2>2
<1> HIDE DEF r, r2
<1>6. \A g \in InputPiece : g.cells \in Seq(Text)
  BY DEF InputPiece
<1>7. /\ CellsIn(r) \in CellRows
      /\ CellsIn(Append(r, p)) = Append(CellsIn(r), p.cells)
  BY <1>4, <1>6, CellsAppended
<1>8. RowsIn(in) = CellsIn(r) /\ RowsIn(more) = CellsIn(r2)
  BY DEF RowsIn, r, r2
<1> QED BY <1>1, <1>2, <1>5, <1>7, <1>8 DEF more

(* At the start there is none. *)
LEMMA NothingYet == RowsTold(<<>>) = <<>> /\ RowsIn(<<>>) = <<>> /\ NumbersRight(<<>>) /\ SeenRight(<<>>)
PROOF
<1>1. RowCallsIn(<<>>) = <<>> /\ PiecesIn(<<>>) = <<>>
  BY KeptNone DEF RowCallsIn, PiecesIn
<1>2. DOMAIN <<>> = {}
  OBVIOUS
<1> QED BY <1>1, <1>2 DEF RowsTold, RowsIn, CellsIn, NumbersRight, SeenRight

(* The rows that row_dl counts, as long as max_rows allows. *)
LEMMA HistoryRows ==
  ASSUME TypeOK, options.max_rows > 0 => Len(input) <= options.max_rows
  PROVE  InputRows = RowsIn(input)
PROOF
<1>1. Counted = input
  <2>1. options.max_rows \in Nat /\ Len(input) \in Nat
    BY OptionsAssumption DEF TypeOK
  <2> QED BY <2>1 DEF Counted
<1> QED BY <1>1 DEF InputRows, RowsIn, PiecesIn, CellsIn

-----------------------------------------------------------------------------
(* The end of a row, and of a tail. *)

(* The row that zsv_pull_row was told of. *)
Held(s) == [j \in 1 .. s.row_used |-> s.cells[j]]

(* row_dl counts all of these pieces. *)
Within(in) == options.max_rows > 0 => Len(in) <= options.max_rows

(* s waits for the row behind in, and cs is all that the caller has of it. *)
Awaits(s, in, cs) ==
  /\ s.cum_row_count = Len(in)
  /\ options.max_rows > 0 => Len(in) < options.max_rows
  /\ (s.row_handler = "throwaway") <=> s.buffer_exceeded
  /\ Phase(s, RowsIn(in))
  /\ ~s.buffer_exceeded => s.row_handler = Due(s)
  /\ RowsTold(cs) = RowsPromised(RowsIn(in), options)
  /\ ~s.now

(* z is behind in, of whose last row the caller has been told, or is to be told
   by zsv_next_row. *)
Outcome(z, in, cs, numbered, heard) ==
  LET after == RowsPromised(RowsIn(in), options)
      cs2   == cs \o z.called
  IN
  /\ Phase(z, RowsIn(in)) /\ z.row_handler = Due(z) /\ ~z.buffer_exceeded
  /\ z.cum_row_count = Len(in) /\ Within(in)
  /\ ~z.abort => z.used = 0 /\ (options.max_rows > 0 => Len(in) < options.max_rows)
  /\ cs2 \in Seq(Given) /\ after \in CellRows
  /\ ~z.now => RowsTold(cs2) = after
  /\ z.now => /\ options.mode = "pull" /\ z.called = <<>>
              /\ z.row_handler \in Caller /\ after = Append(RowsTold(cs), Held(z))
              /\ IsPrefix(RowsTold(cs), after) /\ Len(after) = Len(RowsTold(cs)) + 1
  /\ numbered => NumbersRight(cs2) /\ CountedTo(z, Len(after))
  /\ heard => SeenRight(cs2) /\ Quiet(z)

(* The end of a row that is not a tail. *)
LEMMA RowDone ==
  ASSUME OptionsOk, NEW b \in Scanner, ChainInv(b), ModeInv(b), b.used = 0, b.called = <<>>,
         ~b.buffer_exceeded,
         NEW in \in Seq(InputPiece), NEW cs \in Seq(Given), Awaits(b, in, cs),
         NEW cells \in Seq(Text), Len(cells) <= MaxCols, NEW cut \in BOOLEAN, NEW stop \in BOOLEAN
  PROVE  LET z   == RowDl(AddCells(b, cells), stop)
             in2 == Append(in, [cells |-> cells, cut |-> cut, tail |-> FALSE])
         IN
         \/ z.freed /\ z.abort /\ z.called = <<>>
         \/ Outcome(z, in2, cs, NumbersRight(cs) /\ Counts(b, Len(RowsTold(cs))),
                    options.mode = "push" /\ SeenRight(cs) /\ Quiet(b))
PROOF
<1> DEFINE x == AddCells(b, cells)
           y == CallRowHandler(x)
           z == RowDl(x, stop)
           piece == [cells |-> cells, cut |-> cut, tail |-> FALSE]
           in2 == Append(in, piece)
           rows == RowsIn(in)
           more == RowsIn(in2)
           before == RowsPromised(rows, options)
           after == RowsPromised(more, options)
           numbered == NumbersRight(cs) /\ Counts(b, Len(RowsTold(cs)))
           heard == options.mode = "push" /\ SeenRight(cs) /\ Quiet(b)
<1>1. piece \in InputPiece /\ piece.tail = FALSE /\ piece.cells = cells
  BY DEF InputPiece
<1>2. /\ Len(in2) = Len(in) + 1 /\ Len(in) \in Nat
      /\ rows \in CellRows /\ more = Append(rows, cells)
  <2> HIDE DEF piece
  <2> QED BY <1>1, PieceAppended
<1>3. /\ x \in Scanner /\ SameChain(b, x) /\ Row(x) = cells /\ Steady(b, x)
      /\ x.cell_handler = b.cell_handler /\ x.data_row_count = b.data_row_count
      /\ x.seen = IF b.cell_handler THEN b.seen \o cells ELSE b.seen
  BY AddCellsFacts, AddCellsDoes
<1> HIDE DEF x, piece
<1>4. ChainInv(x) /\ ModeInv(x) /\ x.called = <<>> /\ ~x.now
  BY <1>3 DEF SameChain, ChainInv, ModeInv, Awaits
<1>5. /\ y \in Scanner /\ z \in Scanner /\ ModeInv(z) /\ Ended(y, z)
      /\ z.cum_row_count = y.cum_row_count + 1
      /\ y.abort => z.abort
      /\ ~z.abort => z.used = 0 /\ ~AtMaxRows(z)
  BY <1>3, <1>4, RowDlDoes
<1>6. x.row_handler = Due(x) /\ Phase(x, rows)
  <2>1. b.row_handler = Due(b) /\ Phase(b, rows)
    BY DEF Awaits
  <2>2. Phase(x, rows)
    BY <1>3, <2>1, PhaseSame DEF Steady
  <2> QED BY <1>3, <2>1, <2>2 DEF SameChain, Due
<1>7. GivesUp(x, y) \/ Passes(x, y, rows)
  BY <1>2, <1>3, <1>4, <1>6, RowHandlerTakes
<1> HIDE DEF y, z, in2, rows, more
<1>8. CASE GivesUp(x, y)
  <2>1. z.freed /\ z.abort /\ z.called = <<>>
    BY <1>4, <1>5, <1>8 DEF GivesUp, Silent, Ended
  <2> QED BY <2>1 DEF z, x
<1>9. CASE Passes(x, y, rows)
  <2>1. /\ Phase(y, more) /\ TakesRow(x, y, before, after, Attentive(x))
        /\ Counts(x, Len(before)) => CountedTo(y, Len(after))
    BY <1>2, <1>3, <1>9 DEF Passes
  <2>2. before \in CellRows /\ RowsTold(cs) = before
    <3>1. before \in CellRows
      BY <1>2, PromisedInBody, HandedMore, SpanFacts, <1>3, RowType
    <3> QED BY <3>1 DEF Awaits, rows
  <2>2a. after \in CellRows
    BY <1>2, <1>3, RowAppended, PromisedInBody, HandedMore, SpanFacts
  <2> HIDE DEF before, after
  <2>3. Phase(z, more) /\ z.row_handler = Due(z) /\ ~z.buffer_exceeded
    <3>1. Phase(z, more)
      BY <1>5, <2>1, PhaseSame DEF Ended
    <3>2. z.row_handler = Due(z)
      BY <1>5, <2>1 DEF TakesRow, Ended, Due
    <3> QED BY <1>3, <1>5, <2>1, <3>1, <3>2 DEF TakesRow, Ended, Steady
  <2>4. /\ z.cum_row_count = Len(in2) /\ Within(in2)
        /\ ~z.abort => z.used = 0 /\ (options.max_rows > 0 => Len(in2) < options.max_rows)
    <3>1. z.cum_row_count = Len(in2)
      BY <1>2, <1>3, <1>5, <2>1 DEF Awaits, TakesRow, Steady
    <3>2. options.max_rows \in Nat /\ (options.max_rows > 0 => Len(in) < options.max_rows)
      BY DEF Awaits, OptionsOk
    <3> QED BY <1>2, <1>5, <3>1, <3>2 DEF Within, AtMaxRows
  <2>5. numbered => CountedTo(z, Len(after))
    <3>1. numbered => Counts(x, Len(before))
      BY <1>3, <2>2 DEF Counts, SameChain
    <3> QED BY <1>5, <2>1, <3>1 DEF CountedTo, Ended
  <2>6. heard => Attentive(x)
    <3>1. Quiet(b) => (IF b.cell_handler THEN <<>> \o cells ELSE <<>>) = x.seen
      BY <1>3 DEF Quiet
    <3>2. <<>> \o cells = cells
      OBVIOUS
    <3>3. Quiet(b) => CellsBy(x)
      BY <1>3 DEF Quiet, CellsBy, Steady, SameChain
    <3> QED BY <1>3, <3>1, <3>2, <3>3 DEF Attentive
  <2>7. heard => Quiet(z)
    BY <1>5, <2>1, <2>6 DEF TakesRow, Quiet, CellsBy, Ended
  <2> HIDE DEF numbered, heard
  <2>8. SUFFICES
          /\ cs \o z.called \in Seq(Given)
          /\ ~z.now => RowsTold(cs \o z.called) = after
          /\ z.now => /\ options.mode = "pull" /\ z.called = <<>>
                      /\ z.row_handler \in Caller /\ after = Append(RowsTold(cs), Held(z))
                      /\ IsPrefix(RowsTold(cs), after) /\ Len(after) = Len(RowsTold(cs)) + 1
          /\ numbered => NumbersRight(cs \o z.called)
          /\ heard => SeenRight(cs \o z.called)
    BY <2>3, <2>4, <2>5, <2>7, <2>2a DEF Outcome, after, more, in2, piece, z, x, numbered, heard
  <2>9. cs \o <<>> = cs
    OBVIOUS
  <2>10. (numbered => NumbersRight(cs)) /\ (heard => SeenRight(cs))
    BY DEF numbered, heard
  <2>11. CASE Silent(x, y) /\ after = before
    <3>1. z.called = <<>> /\ ~z.now
      BY <1>4, <1>5, <2>11 DEF Silent, Ended
    <3> QED BY <2>2, <2>9, <2>10, <2>11, <3>1
  <2>12. ASSUME NEW a \in Seq(Text), NEW v \in Seq(Text), Tells(x, y, a, v), after = Append(before, a),
                y.row_handler \in Caller, Attentive(x) => v = a
         PROVE  /\ cs \o z.called \in Seq(Given)
                /\ ~z.now => RowsTold(cs \o z.called) = after
                /\ z.now => /\ options.mode = "pull" /\ z.called = <<>>
                            /\ z.row_handler \in Caller /\ after = Append(RowsTold(cs), Held(z))
                            /\ IsPrefix(RowsTold(cs), after) /\ Len(after) = Len(RowsTold(cs)) + 1
                /\ numbered => NumbersRight(cs \o z.called)
                /\ heard => SeenRight(cs \o z.called)
    <3>1. CASE options.mode = "pull"
      <4>1. z.called = <<>> /\ z.now /\ a = Held(z) /\ z.row_handler \in Caller
        BY <1>4, <1>5, <2>12, <3>1 DEF Tells, Ended, Held
      <4>2. Len(before) \in Nat /\ Len(after) = Len(before) + 1 /\ SubSeq(before, 1, Len(before)) = before
            /\ SubSeq(after, 1, Len(before)) = before
        <5>1. before \in CellRows /\ a \in Seq(Text) /\ after = Append(before, a)
          BY <2>2, <2>12
        <5> HIDE DEF before, after
        <5>2. Len(before) \in Nat /\ Len(after) = Len(before) + 1
          BY <5>1, RowAppended
        <5>3. Len(before) <= Len(before)
          BY <5>2
        <5> QED BY <5>1, <5>2, <5>3, FrontAppended
      <4>3. IsPrefix(before, after)
        BY <4>2 DEF IsPrefix
      <4> QED BY <2>2, <2>9, <2>10, <2>12, <3>1, <4>1, <4>2, <4>3
    <3>2. CASE options.mode # "pull"
      <4>1. PICK c \in Given : /\ y.called = Append(x.called, c) /\ IsRowCall(c)
                               /\ c.cells = a /\ c.number = y.data_row_count /\ c.seen = v
        BY <2>12, <3>2 DEF Tells
      <4>2. z.called = <<c>>
        BY <1>4, <1>5, <4>1 DEF Ended
      <4>3. ~z.now
        BY <1>5, <3>2 DEF ModeInv
      <4>4. numbered => c.number = HeaderNumber + Len(before)
        <5>1. Len(after) = Len(before) + 1 /\ Len(before) \in Nat
          BY <2>2, <2>12, RowAppended
        <5>2. HeaderNumber \in Nat /\ y.data_row_count \in Nat
          BY <1>5 DEF HeaderNumber, Scanner
        <5>3. numbered => z.data_row_count + 1 = HeaderNumber + Len(after)
          BY <1>5, <2>5, <2>12 DEF CountedTo, Ended
        <5> QED BY <1>5, <4>1, <5>1, <5>2, <5>3 DEF Ended
      <4>5. heard => c.seen = c.cells
        BY <2>6, <2>12, <4>1
      <4>6. /\ cs \o <<c>> \in Seq(Given) /\ RowsTold(cs \o <<c>>) = Append(RowsTold(cs), c.cells)
            /\ NumbersRight(cs) /\ c.number = HeaderNumber + Len(RowsTold(cs))
                 => NumbersRight(cs \o <<c>>)
            /\ SeenRight(cs) /\ c.seen = c.cells => SeenRight(cs \o <<c>>)
        BY <4>1, CallAppended
      <4> QED BY <2>2, <2>10, <2>12, <4>1, <4>2, <4>3, <4>4, <4>5, <4>6
    <3> QED BY <3>1, <3>2
  <2> QED BY <2>1, <2>11, <2>12 DEF TakesRow
<1> QED BY <1>7, <1>8, <1>9

(* The end of a tail. *)
LEMMA TailDone ==
  ASSUME OptionsOk, NEW b \in Scanner, ChainInv(b), ModeInv(b), b.called = <<>>,
         b.buffer_exceeded, options.header_span < 2,
         NEW in \in Seq(InputPiece), NEW cs \in Seq(Given), Awaits(b, in, cs),
         NEW cells \in Seq(Text), NEW cut \in BOOLEAN, NEW stop \in BOOLEAN
  PROVE  LET z   == RowDl(AddCells(b, cells), stop)
             in2 == Append(in, [cells |-> cells, cut |-> cut, tail |-> TRUE])
         IN  Outcome(z, in2, cs, FALSE, FALSE)
PROOF
<1> DEFINE x == AddCells(b, cells)
           y == CallRowHandler(x)
           z == RowDl(x, stop)
           piece == [cells |-> cells, cut |-> cut, tail |-> TRUE]
           in2 == Append(in, piece)
           rows == RowsIn(in)
<1>1. piece \in InputPiece /\ piece.tail = TRUE
  BY DEF InputPiece
<1>2. Len(in2) = Len(in) + 1 /\ Len(in) \in Nat /\ RowsIn(in2) = rows
  <2> HIDE DEF piece
  <2> QED BY <1>1, PieceAppended
<1>3. x \in Scanner /\ SameChain(b, x)
  BY AddCellsFacts
<1>4. x.collated = b.collated /\ x.cum_row_count = b.cum_row_count
  BY DEF AddCells, Scanner
<1> HIDE DEF x, piece
<1>5. ChainInv(x) /\ ModeInv(x) /\ x.called = <<>> /\ ~x.now
  BY <1>3 DEF SameChain, ChainInv, ModeInv, Awaits
<1>6. /\ y \in Scanner /\ z \in Scanner /\ Ended(y, z)
      /\ z.cum_row_count = y.cum_row_count + 1
      /\ ~z.abort => z.used = 0 /\ ~AtMaxRows(z)
  BY <1>3, <1>5, RowDlDoes
<1>7. Phase(x, rows)
  BY <1>3, <1>4, PhaseSame DEF Awaits, SameChain
<1>8. x.header_span = options.header_span
  BY <1>7 DEF Phase, BodyPhase, HeaderPhase
<1>9. y = ThrowawayRow(x)
  <2>1. x.row_handler = "throwaway"
    BY <1>3 DEF Awaits, SameChain
  <2> QED BY <2>1 DEF CallRowHandler, Caller
<1> HIDE DEF y, z, in2, rows
<1>10. /\ y.rows_to_ignore = x.rows_to_ignore
       /\ y.keep_empty_header_rows = x.keep_empty_header_rows
       /\ y.header_span = x.header_span /\ y.collated = x.collated
       /\ y.cum_row_count = x.cum_row_count /\ ~y.buffer_exceeded
       /\ y.now = x.now /\ y.row_handler = Due(y)
       /\ \/ y.called = x.called
          \/ \E c \in Given : y.called = Append(x.called, c) /\ ~IsRowCall(c)
  BY <1>3, <1>8, <1>9, ThrowawayDoes
<1>11. Phase(z, rows) /\ z.row_handler = Due(z) /\ ~z.buffer_exceeded /\ ~z.now
  <2>1. Phase(z, rows)
    BY <1>6, <1>7, <1>10, PhaseSame DEF Ended
  <2>2. z.row_handler = Due(z)
    BY <1>6, <1>10 DEF Ended, Due
  <2> QED BY <1>5, <1>6, <1>10, <2>1, <2>2 DEF Ended
<1>12. /\ z.cum_row_count = Len(in2) /\ Within(in2)
       /\ ~z.abort => z.used = 0 /\ (options.max_rows > 0 => Len(in2) < options.max_rows)
  <2>1. z.cum_row_count = Len(in2)
    BY <1>2, <1>4, <1>6, <1>10 DEF Awaits
  <2>2. options.max_rows \in Nat /\ (options.max_rows > 0 => Len(in) < options.max_rows)
    BY DEF Awaits, OptionsOk
  <2> QED BY <1>2, <1>6, <2>1, <2>2 DEF Within, AtMaxRows
<1>13. cs \o z.called \in Seq(Given) /\ RowsTold(cs \o z.called) = RowsTold(cs)
  <2>1. CASE y.called = x.called
    <3>1. z.called = <<>> /\ cs \o <<>> = cs
      BY <1>5, <1>6, <2>1 DEF Ended
    <3> QED BY <3>1
  <2>2. ASSUME NEW c \in Given, y.called = Append(x.called, c), ~IsRowCall(c)
        PROVE  cs \o z.called \in Seq(Given) /\ RowsTold(cs \o z.called) = RowsTold(cs)
    <3>1. z.called = <<c>>
      BY <1>5, <1>6, <2>2 DEF Ended
    <3>2. cs \o <<c>> \in Seq(Given) /\ RowsTold(cs \o <<c>>) = RowsTold(cs)
      BY <2>2, CallAppended
    <3> QED BY <3>1, <3>2
  <2> QED BY <1>10, <2>1, <2>2
<1>14. RowsTold(cs) = RowsPromised(RowsIn(in2), options) /\ RowsTold(cs) \in CellRows
  <2>1. rows \in CellRows
    BY <1>1, PieceAppended DEF rows
  <2>2. RowsPromised(rows, options) \in CellRows
    BY <1>3, <2>1, RowType, PromisedInBody, HandedMore, SpanFacts
  <2> QED BY <1>2, <2>2 DEF Awaits, rows
<1> QED BY <1>2, <1>11, <1>12, <1>13, <1>14 DEF Outcome, z, x, in2, piece

-----------------------------------------------------------------------------
(* The inductive invariant: what the caller has is what is promised of the
   input so far, and as long as more may come the chain is where those rows
   leave it. *)

(* One of the rows was cut at the end of the buffer. *)
CutIn(in) == \E k \in DOMAIN in : in[k].cut

(* Nothing is promised of these rows. *)
Excused(in) == CutIn(in) /\ (options.mode = "pull" \/ options.header_span > 1)

(* zsv_next_row has returned a row. *)
HasRow(p, st) == p = "idle" /\ options.mode = "pull" /\ st = "row"

(* RowsAsPromised, of such a state. *)
Fulfilled(s, p, in, cs) ==
  /\ p # "undefined" =>
       LET promised == RowsPromised(RowsIn(in), options) IN
       /\ Within(in)
       /\ IF options.mode = "pull" /\ s.abort
          THEN IsPrefix(RowsTold(cs), promised) /\ Len(promised) <= Len(RowsTold(cs)) + 1
          ELSE RowsTold(cs) = promised
  /\ ~CutIn(in) => NumbersRight(cs) /\ (options.mode = "push" => SeenRight(cs))

(* As long as there may be rows, the scanner waits for the next one in order,
   and counts the one that it has returned when it resumes. *)
Working(s, p, st, in, cs) ==
  p = "scan" \/ HasRow(p, st) =>
    /\ Awaits(s, in, cs)
    /\ p = "scan" => s.used = 0
    /\ ~CutIn(in) =>
         /\ ~s.buffer_exceeded
         /\ IF p = "scan" THEN Counts(s, Len(RowsTold(cs))) ELSE CountedTo(s, Len(RowsTold(cs)))
         /\ options.mode = "push" => Quiet(s)

(* The invariant, of such a state ... *)
Promises(s, p, st, in, cs) ==
  ~Excused(in) => Fulfilled(s, p, in, cs) /\ Working(s, p, st, in, cs)

(* ... and of this one. *)
PromiseInv == Promises(scanner, pc, stat, input, calls)

(* What the invariant says of the next state, which has the same options. *)
LEMMA PromisesNext ==
  ASSUME options' = options, Promises(scanner', pc', stat', input', calls')
  PROVE  PromiseInv'
BY DEF PromiseInv, Promises, Excused, CutIn, HasRow, Fulfilled, Within, RowsIn, CellsIn, PiecesIn,
       RowsTold, RowCallsIn, IsRowCall, NumbersRight, HeaderNumber, SeenRight, Working, Awaits,
       Phase, BodyPhase, HeaderPhase, CollatedOf, Due, Counts, CountedTo, Quiet, CellsBy

(* The invariant is about what the caller is promised. *)
LEMMA PromisesKept == TypeOK /\ PromiseInv => RowsAsPromised
PROOF
<1> SUFFICES ASSUME TypeOK, PromiseInv PROVE RowsAsPromised
  OBVIOUS
<1>1. RowsGiven = RowsTold(calls) /\ RowCalls = RowCallsIn(calls)
  BY DEF RowsGiven, RowCalls, RowsTold, RowCallsIn, CellsIn
<1>2. Truncated <=> CutIn(input)
  BY DEF Truncated, CutIn
<1>3. ~Excused(input) => Fulfilled(scanner, pc, input, calls)
  BY DEF PromiseInv, Promises
<1>4. RowsOfInput
  <2>1. SUFFICES ASSUME ~Excused(input), pc # "undefined" PROVE RowsOfInput
    BY <1>2 DEF RowsOfInput, Excused
  <2>2. Fulfilled(scanner, pc, input, calls)
    BY <1>3, <2>1
  <2>3. Within(input)
    BY <2>1, <2>2 DEF Fulfilled
  <2>4. InputRows = RowsIn(input)
    BY <2>3, HistoryRows DEF Within
  <2> QED BY <1>1, <2>1, <2>2, <2>4 DEF Fulfilled, RowsOfInput
<1>5. ~CutIn(input) => NumbersRight(calls) /\ (options.mode = "push" => SeenRight(calls))
  BY <1>3 DEF Excused, Fulfilled
<1>6. NumberedFromHeader /\ CellsThenRow
  BY <1>1, <1>2, <1>5 DEF NumberedFromHeader, CellsThenRow, NumbersRight, SeenRight
<1> QED BY <1>4, <1>6 DEF RowsAsPromised

(* Whatever the caller is told in full is as promised. *)
LEMMA FulfilledWhen ==
  ASSUME NEW s, NEW p, NEW in, NEW cs,
         RowsTold(cs) = RowsPromised(RowsIn(in), options), RowsTold(cs) \in CellRows, Within(in),
         ~CutIn(in) => NumbersRight(cs) /\ (options.mode = "push" => SeenRight(cs))
  PROVE  Fulfilled(s, p, in, cs)
PROOF
<1>1. Len(RowsTold(cs)) \in Nat
  BY DEF CellRows
<1>2. IsPrefix(RowsTold(cs), RowsTold(cs))
  BY <1>1 DEF IsPrefix
<1>3. Len(RowsTold(cs)) <= Len(RowsTold(cs)) + 1
  BY <1>1
<1> QED BY <1>2, <1>3 DEF Fulfilled

(* Every parser has such options. *)
LEMMA OptionsAreOk == TypeOK => OptionsOk
BY OptionsAssumption DEF TypeOK, OptionsOk

(* A cut row stays in the input. *)
LEMMA StaysCut ==
  ASSUME NEW in \in Seq(InputPiece), NEW p \in InputPiece
  PROVE  CutIn(Append(in, p)) <=> CutIn(in) \/ p.cut
PROOF
<1>1. /\ Len(in) \in Nat /\ DOMAIN in = 1 .. Len(in) /\ DOMAIN Append(in, p) = 1 .. Len(in) + 1
      /\ Append(in, p)[Len(in) + 1] = p /\ \A k \in 1 .. Len(in) : Append(in, p)[k] = in[k]
  OBVIOUS
<1>2. CutIn(in) => CutIn(Append(in, p))
  BY <1>1 DEF CutIn
<1>3. p.cut => CutIn(Append(in, p))
  BY <1>1 DEF CutIn
<1>4. ASSUME NEW k \in DOMAIN Append(in, p), Append(in, p)[k].cut, ~p.cut PROVE CutIn(in)
  <2>1. k # Len(in) + 1
    BY <1>1, <1>4
  <2>2. k \in 1 .. Len(in)
    BY <1>1, <1>4, <2>1
  <2> QED BY <1>1, <1>4, <2>2 DEF CutIn
<1> QED BY <1>2, <1>3, <1>4 DEF CutIn

(* A row has no more cells than row.cells. *)
LEMMA PieceLength ==
  ASSUME NEW n \in Nat, NEW shape \in Shapes \cup {<<>>, <<FALSE>>}
  PROVE  Len(RowOf(n, shape)) <= MaxCols
PROOF
<1>1. PICK m \in 0 .. MaxCols : DOMAIN shape = 1 .. m
  <2>1. CASE shape \in Shapes
    BY <2>1, OptionsAssumption
  <2>2. CASE shape = <<>>
    <3>1. DOMAIN shape = 1 .. 0
      BY <2>2
    <3> QED BY <3>1, OptionsAssumption
  <2>3. CASE shape = <<FALSE>>
    <3>1. DOMAIN shape = 1 .. 1
      BY <2>3
    <3> QED BY <3>1, OptionsAssumption
  <2> QED BY <2>1, <2>2, <2>3
<1>2. DOMAIN RowOf(n, shape) = 1 .. m /\ m \in Nat
  BY <1>1, OptionsAssumption DEF RowOf
<1>3. RowOf(n, shape) \in Seq(Text)
  BY RowOfType
<1>4. Len(RowOf(n, shape)) = m
  BY <1>2, <1>3
<1> QED BY <1>1, <1>4, OptionsAssumption

(* The end of a row in the scan loop. *)
LEMMA RowTaken ==
  ASSUME IInv, PromiseInv, pc = "scan",
         NEW shape \in Shapes \cup {<<>>, <<FALSE>>}, NEW stop \in BOOLEAN, NEW cut \in BOOLEAN,
         AddPiece(RowOf(Len(input) + 1, shape), cut), ~Excused(input')
  PROVE  LET z == RowDl(AddCells(scanner, RowOf(Len(input) + 1, shape)), stop) IN
         /\ z \in Scanner /\ ModeInv(z) /\ Awaits(scanner, input, calls)
         /\ ~Excused(input) /\ (CutIn(input') <=> CutIn(input) \/ cut)
         /\ ~CutIn(input) => NumbersRight(calls) /\ (options.mode = "push" => SeenRight(calls))
         /\ \/ z.freed /\ z.abort /\ z.called = <<>>
            \/ Outcome(z, input', calls, ~CutIn(input), ~CutIn(input) /\ options.mode = "push")
PROOF
<1> DEFINE cells == RowOf(Len(input) + 1, shape)
           z == RowDl(AddCells(scanner, cells), stop)
           piece == [cells |-> cells, cut |-> cut, tail |-> scanner.buffer_exceeded]
<1>1. /\ TypeOK /\ scanner \in Scanner /\ ChainInv(scanner) /\ ModeInv(scanner)
      /\ scanner.called = <<>> /\ input \in Seq(InputPiece) /\ calls \in Seq(Given) /\ OptionsOk
  BY OptionsAreOk DEF IInv, TypeOK
<1>2. cells \in Seq(Text) /\ Len(cells) <= MaxCols
  <2>1. Len(input) + 1 \in Nat
    BY <1>1
  <2> QED BY <2>1, RowOfType, PieceLength
<1> HIDE DEF cells
<1>3. piece \in InputPiece /\ piece.cut = cut /\ piece.tail = scanner.buffer_exceeded
  BY <1>1, <1>2 DEF InputPiece, Scanner
<1>4. input' = Append(input, piece)
  BY DEF AddPiece, cells
<1> HIDE DEF piece
<1>5. CutIn(input') <=> CutIn(input) \/ cut
  BY <1>1, <1>3, <1>4, StaysCut
<1>6. ~Excused(input)
  BY <1>5 DEF Excused
<1>7. /\ Awaits(scanner, input, calls) /\ scanner.used = 0
      /\ ~CutIn(input) =>
           /\ ~scanner.buffer_exceeded /\ Counts(scanner, Len(RowsTold(calls)))
           /\ options.mode = "push" => Quiet(scanner)
           /\ NumbersRight(calls) /\ (options.mode = "push" => SeenRight(calls))
  BY <1>6 DEF PromiseInv, Promises, Working, Fulfilled
<1>8. z \in Scanner /\ ModeInv(z)
  BY <1>1, <1>2, RowEnds DEF Handled
<1> DEFINE numbered == NumbersRight(calls) /\ Counts(scanner, Len(RowsTold(calls)))
           heard == options.mode = "push" /\ SeenRight(calls) /\ Quiet(scanner)
<1>9. CASE ~scanner.buffer_exceeded
  <2>1. piece = [cells |-> cells, cut |-> cut, tail |-> FALSE]
    BY <1>1, <1>9 DEF piece, Scanner
  <2>2. \/ z.freed /\ z.abort /\ z.called = <<>>
        \/ Outcome(z, input', calls, numbered, heard)
    BY <1>1, <1>2, <1>4, <1>7, <1>9, <2>1, RowDone
  <2>3. /\ ~CutIn(input) => numbered
        /\ ~CutIn(input) /\ options.mode = "push" => heard
    BY <1>7
  <2> HIDE DEF z, numbered, heard
  <2>4. Outcome(z, input', calls, numbered, heard) =>
          Outcome(z, input', calls, ~CutIn(input), ~CutIn(input) /\ options.mode = "push")
    BY <2>3 DEF Outcome
  <2> QED BY <1>5, <1>6, <1>7, <1>8, <2>2, <2>4 DEF z, cells
<1>10. CASE scanner.buffer_exceeded
  <2>1. piece = [cells |-> cells, cut |-> cut, tail |-> TRUE]
    BY <1>1, <1>10 DEF piece, Scanner
  <2>2. CutIn(input) /\ options.header_span < 2
    BY <1>1, <1>6, <1>7, <1>10 DEF Excused, OptionsOk
  <2>3. Outcome(z, input', calls, FALSE, FALSE)
    BY <1>1, <1>2, <1>4, <1>7, <1>10, <2>1, <2>2, TailDone
  <2> HIDE DEF z
  <2>4. Outcome(z, input', calls, ~CutIn(input), ~CutIn(input) /\ options.mode = "push")
    BY <2>2, <2>3 DEF Outcome
  <2> QED BY <1>5, <1>6, <1>7, <1>8, <2>4 DEF z, cells
<1> QED BY <1>9, <1>10

-----------------------------------------------------------------------------
(* What becomes of a row: it is returned, or the scan stops. *)

(* s2 waits for what s waits for. *)
LEMMA AwaitsSame ==
  ASSUME NEW s, NEW in, NEW cs, Phase(s, RowsIn(in)), s.row_handler = Due(s), ~s.buffer_exceeded,
         s \in Scanner, s.cum_row_count = Len(in),
         options.max_rows > 0 => Len(in) < options.max_rows,
         RowsTold(cs) = RowsPromised(RowsIn(in), options),
         NEW s2, Steady(s, s2), s2.row_handler = s.row_handler,
         s2.orig_row_handler = s.orig_row_handler, ~s2.now
  PROVE  Awaits(s2, in, cs)
PROOF
<1>1. s.row_handler # "throwaway"
  BY DEF Scanner, Due, Caller
<1>2. Phase(s2, RowsIn(in))
  BY PhaseSame DEF Steady
<1>3. s2.row_handler = Due(s2)
  BY DEF Due, Steady
<1> QED BY <1>1, <1>2, <1>3 DEF Awaits, Steady

(* zsv_next_row returns the row it was told of. *)
LEMMA ReturnedDoes ==
  ASSUME NEW s \in Scanner, s.now, NEW in, NEW cs \in Seq(Given), NEW numbered, NEW heard,
         Outcome(s, in, cs, numbered, heard)
  PROVE  LET w == Returned(s) IN
         /\ Steady(s, w) /\ w.row_handler = s.row_handler
         /\ w.orig_row_handler = s.orig_row_handler /\ w.data_row_count = s.data_row_count
         /\ ~w.now /\ w \in Scanner
         /\ RowsTold(cs \o w.called) = RowsPromised(RowsIn(in), options)
         /\ numbered => NumbersRight(cs \o w.called)
PROOF
<1> DEFINE x == [s EXCEPT !.now = FALSE, !.used = s.row_used]
           w == Returned(s)
           c == Told(x, "next_row")
           after == RowsPromised(RowsIn(in), options)
<1>1. /\ options.mode = "pull" /\ s.called = <<>> /\ s.row_handler \in Caller
      /\ after = Append(RowsTold(cs), Held(s)) /\ Len(after) = Len(RowsTold(cs)) + 1
      /\ numbered => NumbersRight(cs \o s.called) /\ CountedTo(s, Len(after))
  BY DEF Outcome
<1>2. w = [x EXCEPT !.called = Append(x.called, c), !.seen = <<>>]
  BY DEF Returned, Called, Told
<1>3. x \in Scanner
  <2>1. s.row_used \in 0 .. MaxCols
    BY DEF Scanner
  <2> QED BY <2>1, ZenonT(60) DEF Scanner
<1>4. /\ Steady(s, x) /\ x.row_handler = s.row_handler
      /\ x.orig_row_handler = s.orig_row_handler /\ x.data_row_count = s.data_row_count
      /\ ~x.now /\ x.called = s.called /\ x.used = s.row_used /\ x.cells = s.cells
  BY DEF Scanner, Steady
<1>5. c \in Given /\ IsRowCall(c) /\ c.cells = Row(x) /\ c.number = x.data_row_count
      /\ w \in Scanner
  <2>1. c \in Given /\ Called(x, "next_row") \in Scanner
    <3> HIDE DEF x
    <3> QED BY <1>3, CalledFacts
  <2> QED BY <2>1 DEF Told, IsRowCall, Returned
<1> HIDE DEF x, c, w
<1>6. /\ Steady(x, w) /\ w.row_handler = x.row_handler
      /\ w.orig_row_handler = x.orig_row_handler /\ w.data_row_count = x.data_row_count
      /\ w.now = x.now /\ w.called = Append(x.called, c)
  BY <1>2, <1>3 DEF Scanner, Steady
<1>7. w.called = <<c>> /\ c.cells = Held(s)
  BY <1>1, <1>4, <1>5, <1>6 DEF Row, Held
<1>8. Steady(s, w)
  BY <1>4, <1>6 DEF Steady
<1>9. /\ RowsTold(cs \o <<c>>) = Append(RowsTold(cs), c.cells) /\ RowsTold(cs) \in CellRows
      /\ NumbersRight(cs) /\ c.number = HeaderNumber + Len(RowsTold(cs))
           => NumbersRight(cs \o <<c>>)
  BY <1>5, CallAppended
<1>10. numbered => c.number = HeaderNumber + Len(RowsTold(cs))
  <2>1. Len(RowsTold(cs)) \in Nat /\ HeaderNumber \in Nat /\ s.data_row_count \in Nat
    BY <1>9 DEF CellRows, HeaderNumber, Scanner
  <2>2. numbered => s.data_row_count + 1 = HeaderNumber + Len(after)
    BY <1>1 DEF CountedTo
  <2>3. c.number = s.data_row_count /\ Len(after) = Len(RowsTold(cs)) + 1
    BY <1>1, <1>4, <1>5
  <2> HIDE DEF after
  <2> QED BY <2>1, <2>2, <2>3
<1>11. cs \o s.called = cs
  BY <1>1
<1> QED BY <1>1, <1>4, <1>5, <1>6, <1>7, <1>8, <1>9, <1>10, <1>11 DEF w

(* Give hands over the calls, and leaves all else. *)
LEMMA GiveDoes ==
  ASSUME NEW s \in Scanner, Give(s)
  PROVE  /\ scanner' \in Scanner /\ Steady(s, scanner')
         /\ scanner'.row_handler = s.row_handler /\ scanner'.orig_row_handler = s.orig_row_handler
         /\ scanner'.data_row_count = s.data_row_count /\ scanner'.now = s.now
         /\ scanner'.used = s.used /\ scanner'.seen = s.seen
         /\ scanner'.cell_handler = s.cell_handler
         /\ calls' = calls \o s.called
PROOF
<1> DEFINE x == [s EXCEPT !.called = <<>>]
<1>1. scanner' = x /\ calls' = calls \o s.called
  BY DEF Give
<1>2. <<>> \in Seq(Given)
  OBVIOUS
<1>3. x \in Scanner
  BY <1>2, ZenonT(60) DEF Scanner
<1>4. Steady(s, x)
  BY DEF Steady, Scanner
<1>5. /\ x.row_handler = s.row_handler /\ x.orig_row_handler = s.orig_row_handler
      /\ x.data_row_count = s.data_row_count /\ x.now = s.now
      /\ x.used = s.used /\ x.seen = s.seen /\ x.cell_handler = s.cell_handler
  BY DEF Scanner
<1> HIDE DEF x
<1> QED BY <1>1, <1>3, <1>4, <1>5

(* No row is read behind this step. *)
LEMMA NoRowBehind ==
  ASSUME NEW s, NEW p, p # "scan", NEW st, ~HasRow(p, st), NEW in, NEW cs
  PROVE  Fulfilled(s, p, in, cs) => Promises(s, p, st, in, cs)
BY DEF Promises, Working

(* What becomes of a row when the scan loop stops for good. *)
LEMMA RowStops ==
  ASSUME NEW z \in Scanner, Give(z), calls \in Seq(Given), NEW in, NEW whole, NEW p,
         ~CutIn(in) => whole,
         ~CutIn(in) => NumbersRight(calls) /\ (options.mode = "push" => SeenRight(calls)),
         \/ z.called = <<>> /\ p = "undefined"
         \/ /\ Outcome(z, in, calls, whole, whole /\ options.mode = "push")
            /\ p = "undefined" \/ ~z.now \/ z.abort
  PROVE  Fulfilled(scanner', p, in, calls')
PROOF
<1>1. calls' = calls \o z.called /\ scanner'.abort = z.abort
  BY GiveDoes DEF Steady
<1>2. CASE z.called = <<>> /\ p = "undefined"
  <2>1. calls' = calls
    BY <1>1, <1>2
  <2> QED BY <1>2, <2>1 DEF Fulfilled
<1>3. CASE /\ Outcome(z, in, calls, whole, whole /\ options.mode = "push")
           /\ p = "undefined" \/ ~z.now \/ z.abort
  <2> DEFINE after == RowsPromised(RowsIn(in), options)
  <2>1. ~CutIn(in) => NumbersRight(calls') /\ (options.mode = "push" => SeenRight(calls'))
    BY <1>1, <1>3 DEF Outcome
  <2>2. CASE p = "undefined"
    BY <2>1, <2>2 DEF Fulfilled
  <2>3. CASE ~z.now
    <3>1. RowsTold(calls') = after /\ after \in CellRows /\ Within(in)
      BY <1>1, <1>3, <2>3 DEF Outcome
    <3> QED BY <2>1, <3>1, FulfilledWhen
  <2>4. CASE z.now /\ z.abort
    <3>1. /\ options.mode = "pull" /\ z.called = <<>> /\ Within(in) /\ after \in CellRows
          /\ IsPrefix(RowsTold(calls), after) /\ Len(after) = Len(RowsTold(calls)) + 1
      BY <1>3, <2>4 DEF Outcome
    <3>2. calls' = calls
      BY <1>1, <3>1
    <3>3. Len(after) <= Len(RowsTold(calls)) + 1
      <4>1. Len(after) \in Nat
        BY <3>1 DEF CellRows
      <4> QED BY <3>1, <4>1
    <3> QED BY <1>1, <2>1, <2>4, <3>1, <3>2, <3>3 DEF Fulfilled
  <2> QED BY <1>3, <2>2, <2>3, <2>4
<1> QED BY <1>2, <1>3

(* And when it is returned by zsv_next_row. *)
LEMMA RowReturned ==
  ASSUME NEW z \in Scanner, z.now, Give(Returned(z)), calls \in Seq(Given), NEW in, NEW whole,
         ~CutIn(in) => whole, Outcome(z, in, calls, whole, whole /\ options.mode = "push"), NEW p
  PROVE  Fulfilled(scanner', p, in, calls')
PROOF
<1> DEFINE w == Returned(z)
           after == RowsPromised(RowsIn(in), options)
<1>1. RowsTold(calls \o w.called) = after /\ (whole => NumbersRight(calls \o w.called)) /\ w \in Scanner
  BY ReturnedDoes
<1>2. after \in CellRows /\ Within(in) /\ options.mode # "push"
  BY DEF Outcome
<1> HIDE DEF w, after
<1>3. calls' = calls \o w.called
  BY <1>1, GiveDoes DEF w
<1> QED BY <1>1, <1>2, <1>3, FulfilledWhen DEF after

-----------------------------------------------------------------------------
(* Every action keeps the invariant. *)

(* row_dl at the end of a row: the caller is told of it as promised, now or,
   in pull mode, when zsv_next_row returns. *)
LEMMA EndRowPromise == IInv /\ PromiseInv /\ EndRow => PromiseInv'
PROOF
<1> SUFFICES ASSUME IInv, PromiseInv, EndRow PROVE PromiseInv'
  OBVIOUS
<1>1. /\ pc = "scan" /\ options' = options /\ calls \in Seq(Given)
      /\ scanner \in Scanner /\ ChainInv(scanner)
  BY DEF IInv, TypeOK, EndRow
<1>2. SUFFICES ASSUME ~Excused(input')
               PROVE  Promises(scanner', pc', stat', input', calls')
  BY <1>1, PromisesNext DEF Promises
<1>3. PICK shape \in NextShapes, stop \in Stops :
        LET cells == RowOf(Len(input) + 1, shape)
            s     == RowDl(AddCells(scanner, cells), stop)
        IN
        /\ AddPiece(cells, FALSE)
        /\ \/ /\ Undefined(s)
              /\ Give(s) /\ pc' = "undefined" /\ UNCHANGED stat
           \/ /\ ~Undefined(s) /\ s.abort
              /\ Give(s) /\ pc' = "idle" /\ stat' = RowStat(s)
           \/ /\ ~Undefined(s) /\ ~s.abort /\ ~s.now
              /\ Give(PastLineEnd(s)) /\ UNCHANGED <<pc, stat>>
           \/ /\ ~Undefined(s) /\ ~s.abort /\ s.now
              /\ Give(Returned(s)) /\ pc' = "idle" /\ stat' = "row"
  BY DEF EndRow
<1> DEFINE cells == RowOf(Len(input) + 1, shape)
           s     == RowDl(AddCells(scanner, cells), stop)
           whole == ~CutIn(input)
<1>4. shape \in Shapes \cup {<<>>, <<FALSE>>} /\ stop \in BOOLEAN
  BY DEF NextShapes, Stops
<1>5. /\ s \in Scanner /\ ModeInv(s) /\ (CutIn(input') <=> CutIn(input))
      /\ ~CutIn(input') => NumbersRight(calls) /\ (options.mode = "push" => SeenRight(calls))
      /\ \/ s.freed /\ s.called = <<>>
         \/ Outcome(s, input', calls, whole, whole /\ options.mode = "push")
  <2>1. AddPiece(cells, FALSE)
    BY <1>3
  <2> QED BY <1>1, <1>2, <1>4, <2>1, RowTaken
<1>6. \/ Undefined(s) /\ Give(s) /\ pc' = "undefined" /\ stat' = stat
      \/ ~Undefined(s) /\ s.abort /\ Give(s) /\ pc' = "idle" /\ stat' = RowStat(s)
      \/ ~Undefined(s) /\ ~s.abort /\ ~s.now /\ Give(PastLineEnd(s)) /\ pc' = pc /\ stat' = stat
      \/ ~Undefined(s) /\ ~s.abort /\ s.now /\ Give(Returned(s)) /\ pc' = "idle" /\ stat' = "row"
  BY <1>3
<1> HIDE DEF s
<1>7. ~CutIn(input') => whole
  BY <1>5
<1>8. ~Undefined(s) => Outcome(s, input', calls, whole, whole /\ options.mode = "push")
  BY <1>5 DEF Undefined
<1> HIDE DEF whole
<1>9. CASE Undefined(s) /\ Give(s) /\ pc' = "undefined" /\ stat' = stat
  <2>1. Fulfilled(scanner', pc', input', calls')
    BY <1>1, <1>5, <1>7, <1>9, RowStops
  <2> QED BY <1>9, <2>1, NoRowBehind DEF HasRow
<1>10. CASE ~Undefined(s) /\ s.abort /\ Give(s) /\ pc' = "idle" /\ stat' = RowStat(s)
  <2>1. Fulfilled(scanner', pc', input', calls')
    BY <1>1, <1>5, <1>7, <1>8, <1>10, RowStops
  <2>2. stat' # "row"
    BY <1>10 DEF RowStat
  <2> QED BY <1>10, <2>1, <2>2, NoRowBehind DEF HasRow
<1>11. CASE ~Undefined(s) /\ ~s.abort /\ ~s.now /\ Give(PastLineEnd(s)) /\ pc' = pc /\ stat' = stat
  <2> DEFINE x == PastLineEnd(s)
             after == RowsPromised(RowsIn(input'), options)
  <2>1. /\ x \in Scanner /\ Steady(s, x) /\ x.row_handler = s.row_handler
        /\ x.orig_row_handler = s.orig_row_handler /\ x.now = s.now /\ x.called = s.called
        /\ x.cell_handler = s.cell_handler /\ x.seen = s.seen
        /\ x.used = 0 /\ x.data_row_count = s.data_row_count + 1
    <3>1. x \in Scanner
      BY <1>5, PastLineEndFacts
    <3>2. Steady(s, x)
      BY <1>5 DEF PastLineEnd, Steady, Scanner
    <3> QED BY <1>5, <3>1, <3>2 DEF PastLineEnd, Scanner
  <2>2. Give(x)
    BY <1>11
  <2> HIDE DEF x
  <2>3. /\ Steady(x, scanner') /\ scanner'.row_handler = x.row_handler
        /\ scanner'.orig_row_handler = x.orig_row_handler
        /\ scanner'.data_row_count = x.data_row_count /\ scanner'.now = x.now
        /\ scanner'.used = x.used /\ scanner'.seen = x.seen
        /\ scanner'.cell_handler = x.cell_handler /\ calls' = calls \o x.called
    BY <2>1, <2>2, GiveDoes
  <2>4. Steady(s, scanner')
    BY <2>1, <2>3 DEF Steady
  <2>5. /\ Phase(s, RowsIn(input')) /\ s.row_handler = Due(s) /\ ~s.buffer_exceeded
        /\ s.cum_row_count = Len(input') /\ Within(input')
        /\ options.max_rows > 0 => Len(input') < options.max_rows
        /\ RowsTold(calls') = after /\ after \in CellRows
        /\ whole => NumbersRight(calls') /\ CountedTo(s, Len(after))
        /\ whole /\ options.mode = "push" => SeenRight(calls') /\ Quiet(s)
    BY <1>8, <1>11, <2>1, <2>3 DEF Outcome
  <2> HIDE DEF after
  <2>6. Awaits(scanner', input', calls')
    BY <1>5, <1>11, <2>1, <2>3, <2>4, <2>5, AwaitsSame DEF after
  <2>7. whole => Counts(scanner', Len(RowsTold(calls')))
    BY <2>1, <2>3, <2>5 DEF Counts, CountedTo
  <2>8. Quiet(s) => Quiet(scanner')
    BY <2>1, <2>3, <2>4 DEF Quiet, CellsBy, Steady
  <2>9. ~scanner'.buffer_exceeded
    BY <2>4, <2>5 DEF Steady
  <2>10. Fulfilled(scanner', pc', input', calls')
    BY <1>7, <2>5, FulfilledWhen DEF after
  <2>11. Working(scanner', pc', stat', input', calls')
    BY <1>1, <1>7, <1>11, <2>1, <2>3, <2>5, <2>6, <2>7, <2>8, <2>9 DEF Working
  <2> QED BY <2>10, <2>11 DEF Promises
<1>12. CASE ~Undefined(s) /\ ~s.abort /\ s.now /\ Give(Returned(s)) /\ pc' = "idle" /\ stat' = "row"
  <2> DEFINE w == Returned(s)
             after == RowsPromised(RowsIn(input'), options)
  <2>1. Fulfilled(scanner', pc', input', calls')
    BY <1>1, <1>5, <1>7, <1>8, <1>12, RowReturned
  <2>2. /\ Steady(s, w) /\ w.row_handler = s.row_handler
        /\ w.orig_row_handler = s.orig_row_handler /\ w.data_row_count = s.data_row_count
        /\ ~w.now /\ w \in Scanner /\ RowsTold(calls \o w.called) = after
    BY <1>1, <1>5, <1>8, <1>12, ReturnedDoes
  <2>3. Give(w)
    BY <1>12
  <2> HIDE DEF w
  <2>4. /\ Steady(w, scanner') /\ scanner'.row_handler = w.row_handler
        /\ scanner'.orig_row_handler = w.orig_row_handler
        /\ scanner'.data_row_count = w.data_row_count /\ scanner'.now = w.now
        /\ calls' = calls \o w.called
    BY <2>2, <2>3, GiveDoes
  <2>5. Steady(s, scanner')
    BY <2>2, <2>4 DEF Steady
  <2>6. /\ Phase(s, RowsIn(input')) /\ s.row_handler = Due(s) /\ ~s.buffer_exceeded
        /\ s.cum_row_count = Len(input') /\ options.mode # "push"
        /\ options.max_rows > 0 => Len(input') < options.max_rows
        /\ whole => CountedTo(s, Len(after))
    BY <1>8, <1>12 DEF Outcome
  <2> HIDE DEF after
  <2>7. Awaits(scanner', input', calls')
    BY <1>5, <2>2, <2>4, <2>5, <2>6, AwaitsSame DEF after
  <2>8. whole => CountedTo(scanner', Len(RowsTold(calls')))
    BY <2>2, <2>4, <2>6 DEF CountedTo
  <2>9. ~scanner'.buffer_exceeded
    BY <2>5, <2>6 DEF Steady
  <2>10. Working(scanner', pc', stat', input', calls')
    BY <1>7, <1>12, <2>6, <2>7, <2>8, <2>9 DEF Working
  <2> QED BY <2>1, <2>10 DEF Promises
<1> QED BY <1>6, <1>9, <1>10, <1>11, <1>12

(* A row that is longer than the buffer: its cells are the row, and its tail
   is thrown away. *)
LEMMA CutRowPromise == IInv /\ PromiseInv /\ CutRow => PromiseInv'
PROOF
<1> SUFFICES ASSUME IInv, PromiseInv, CutRow PROVE PromiseInv'
  OBVIOUS
<1>1. /\ pc = "scan" /\ options' = options /\ stat' = stat /\ calls \in Seq(Given)
      /\ scanner \in Scanner /\ ChainInv(scanner)
  BY DEF IInv, TypeOK, CutRow
<1>2. SUFFICES ASSUME ~Excused(input')
               PROVE  Promises(scanner', pc', stat', input', calls')
  BY <1>1, PromisesNext DEF Promises
<1>3. PICK shape \in Shapes \cup {<<>>}, stop \in Stops :
        LET cells == RowOf(Len(input) + 1, shape)
            s     == RowDl(AddCells(scanner, cells), stop)
        IN
        /\ AddPiece(cells, TRUE)
        /\ IF s.abort THEN Give(s) /\ pc' = "undefined"
           ELSE /\ Give([s EXCEPT !.buffer_exceeded = TRUE, !.row_handler = "throwaway",
                                  !.ctx = "scanner"])
                /\ UNCHANGED pc
  BY DEF CutRow
<1> DEFINE cells == RowOf(Len(input) + 1, shape)
           s     == RowDl(AddCells(scanner, cells), stop)
           x     == [s EXCEPT !.buffer_exceeded = TRUE, !.row_handler = "throwaway",
                              !.ctx = "scanner"]
           whole == ~CutIn(input)
<1>4. shape \in Shapes \cup {<<>>, <<FALSE>>} /\ stop \in BOOLEAN
  BY DEF Stops
<1>5. /\ s \in Scanner /\ ModeInv(s) /\ CutIn(input')
      /\ \/ s.freed /\ s.abort /\ s.called = <<>>
         \/ Outcome(s, input', calls, whole, whole /\ options.mode = "push")
  <2>1. AddPiece(cells, TRUE)
    BY <1>3
  <2> QED BY <1>1, <1>2, <1>4, <2>1, RowTaken
<1>6. \/ Give(s) /\ pc' = "undefined"
      \/ ~s.abort /\ Give(x) /\ pc' = pc
  BY <1>3
<1>7. options.mode # "pull"
  BY <1>2, <1>5 DEF Excused
<1> HIDE DEF s, whole
<1>8. CASE Give(s) /\ pc' = "undefined"
  <2>1. Fulfilled(scanner', pc', input', calls')
    BY <1>5, <1>8 DEF Fulfilled
  <2> QED BY <1>8, <2>1, NoRowBehind DEF HasRow
<1>9. CASE ~s.abort /\ Give(x) /\ pc' = pc
  <2>1. Outcome(s, input', calls, whole, whole /\ options.mode = "push")
    BY <1>5, <1>9
  <2>2. /\ x \in Scanner /\ x.row_handler = "throwaway" /\ x.buffer_exceeded
        /\ x.rows_to_ignore = s.rows_to_ignore
        /\ x.keep_empty_header_rows = s.keep_empty_header_rows
        /\ x.header_span = s.header_span /\ x.collated = s.collated
        /\ x.cum_row_count = s.cum_row_count /\ x.now = s.now
        /\ x.used = s.used /\ x.called = s.called
    BY <1>5 DEF Scanner
  <2> HIDE DEF x
  <2>3. /\ Steady(x, scanner') /\ scanner'.row_handler = x.row_handler
        /\ scanner'.now = x.now /\ scanner'.used = x.used /\ calls' = calls \o x.called
    BY <1>9, <2>2, GiveDoes
  <2>4. ~s.now
    BY <1>5, <1>7 DEF ModeInv
  <2>5. /\ Phase(s, RowsIn(input')) /\ s.cum_row_count = Len(input') /\ Within(input')
        /\ s.used = 0 /\ (options.max_rows > 0 => Len(input') < options.max_rows)
        /\ RowsTold(calls') = RowsPromised(RowsIn(input'), options)
        /\ RowsTold(calls') \in CellRows
    BY <1>9, <2>1, <2>2, <2>3, <2>4 DEF Outcome
  <2>6. Phase(scanner', RowsIn(input'))
    BY <2>2, <2>3, <2>5, PhaseSame DEF Steady
  <2>7. Awaits(scanner', input', calls')
    BY <2>2, <2>3, <2>4, <2>5, <2>6 DEF Awaits, Steady
  <2>8. Fulfilled(scanner', pc', input', calls')
    BY <1>5, <2>5, FulfilledWhen
  <2>9. Working(scanner', pc', stat', input', calls')
    BY <1>5, <2>2, <2>3, <2>5, <2>7 DEF Working
  <2> QED BY <2>8, <2>9 DEF Promises
<1> QED BY <1>6, <1>8, <1>9

(* zsv_finish: the last row without its line end, and the end of what is
   promised. *)
LEMMA FinishPromise == IInv /\ PromiseInv /\ Finish => PromiseInv'
PROOF
<1> SUFFICES ASSUME IInv, PromiseInv, Finish PROVE PromiseInv'
  OBVIOUS
<1>1. /\ pc # "undefined" /\ options' = options /\ calls \in Seq(Given)
      /\ scanner \in Scanner /\ scanner.called = <<>> /\ ChainInv(scanner)
  BY DEF IInv, TypeOK, Finish
<1>2. SUFFICES ASSUME ~Excused(input')
               PROVE  Promises(scanner', pc', stat', input', calls')
  BY <1>1, PromisesNext DEF Promises
<1> DEFINE begun == [scanner EXCEPT !.now = FALSE]
<1>3. ASSUME Give(begun), pc' = "done", input' = input
      PROVE  Promises(scanner', pc', stat', input', calls')
  <2>1. begun \in Scanner /\ begun.called = <<>> /\ begun.abort = scanner.abort
    BY <1>1 DEF Scanner
  <2> HIDE DEF begun
  <2>2. calls' = calls /\ scanner'.abort = scanner.abort
    <3>1. calls \o <<>> = calls
      BY <1>1
    <3> QED BY <1>3, <2>1, <3>1, GiveDoes DEF Steady
  <2>3. Fulfilled(scanner, pc, input, calls)
    BY <1>2, <1>3 DEF PromiseInv, Promises
  <2>4. Fulfilled(scanner', pc', input', calls')
    BY <1>1, <1>3, <2>2, <2>3 DEF Fulfilled
  <2> QED BY <1>3, <2>4, NoRowBehind DEF HasRow
<1>4. CASE FinishWith(<<>>, FALSE)
  <2>1. Give(begun) /\ pc' = "done" /\ input' = input
    BY <1>4 DEF FinishWith
  <2> QED BY <1>3, <2>1
<1>5. ASSUME NEW shape \in Shapes, NEW stop \in Stops, pc = "scan",
             FinishWith(RowOf(Len(input) + 1, shape), stop)
      PROVE  Promises(scanner', pc', stat', input', calls')
  <2> DEFINE last == RowOf(Len(input) + 1, shape)
             s == RowDl(AddCells(begun, last), stop)
             whole == ~CutIn(input)
  <2>1. \/ Give(begun) /\ pc' = "done" /\ input' = input
        \/ /\ AddPiece(last, FALSE)
           /\ \/ s.freed /\ Give(s) /\ pc' = "undefined"
              \/ ~s.freed /\ s.now /\ Give(Returned(s)) /\ pc' = "idle" /\ stat' = "done"
              \/ ~s.freed /\ ~s.now /\ Give(s) /\ pc' = "done"
    BY <1>5 DEF FinishWith
  <2>2. shape \in Shapes \cup {<<>>, <<FALSE>>} /\ stop \in BOOLEAN
    BY DEF Stops
  <2>3. SUFFICES ASSUME AddPiece(last, FALSE)
                 PROVE  (\/ s.freed /\ Give(s) /\ pc' = "undefined"
                         \/ ~s.freed /\ s.now /\ Give(Returned(s)) /\ pc' = "idle" /\ stat' = "done"
                         \/ ~s.freed /\ ~s.now /\ Give(s) /\ pc' = "done")
                        => Promises(scanner', pc', stat', input', calls')
    BY <1>3, <2>1
  <2>4. LET z == RowDl(AddCells(scanner, last), stop) IN
        /\ z \in Scanner /\ ModeInv(z) /\ Awaits(scanner, input, calls)
        /\ CutIn(input') <=> CutIn(input)
        /\ ~CutIn(input) => NumbersRight(calls) /\ (options.mode = "push" => SeenRight(calls))
        /\ \/ z.freed /\ z.called = <<>>
           \/ Outcome(z, input', calls, whole, whole /\ options.mode = "push")
    BY <1>2, <1>5, <2>2, <2>3, RowTaken
  <2>5. begun = scanner
    <3>1. scanner.now = FALSE
      BY <1>1, <2>4 DEF Awaits, Scanner
    <3> QED BY <1>1, <3>1 DEF Scanner
  <2>6. /\ s \in Scanner
        /\ CutIn(input') <=> CutIn(input)
        /\ ~CutIn(input') => NumbersRight(calls) /\ (options.mode = "push" => SeenRight(calls))
        /\ \/ s.freed /\ s.called = <<>>
           \/ Outcome(s, input', calls, whole, whole /\ options.mode = "push")
    BY <2>4, <2>5
  <2>7. ~CutIn(input') => whole
    BY <2>6
  <2> HIDE DEF s, whole
  <2>8. ASSUME s.freed, Give(s), pc' = "undefined"
        PROVE  Promises(scanner', pc', stat', input', calls')
    <3>1. Fulfilled(scanner', pc', input', calls')
      BY <1>1, <2>6, <2>7, <2>8, RowStops
    <3> QED BY <2>8, <3>1, NoRowBehind DEF HasRow
  <2>9. ASSUME ~s.freed, s.now, Give(Returned(s)), pc' = "idle", stat' = "done"
        PROVE  Promises(scanner', pc', stat', input', calls')
    <3>1. Fulfilled(scanner', pc', input', calls')
      BY <1>1, <2>6, <2>7, <2>9, RowReturned
    <3> QED BY <2>9, <3>1, NoRowBehind DEF HasRow
  <2>10. ASSUME ~s.freed, ~s.now, Give(s), pc' = "done"
         PROVE  Promises(scanner', pc', stat', input', calls')
    <3>1. Fulfilled(scanner', pc', input', calls')
      BY <1>1, <2>6, <2>7, <2>10, RowStops
    <3> QED BY <2>10, <3>1, NoRowBehind DEF HasRow
  <2> QED BY <2>8, <2>9, <2>10
<1> QED BY <1>4, <1>5 DEF Finish

(* zsv_parse_more and zsv_next_row go on: a row that was returned is now
   counted. *)
LEMMA ResumeScanPromise == IInv /\ PromiseInv /\ ResumeScan => PromiseInv'
PROOF
<1> SUFFICES ASSUME IInv, PromiseInv, ResumeScan PROVE PromiseInv'
  OBVIOUS
<1> DEFINE x == PastLineEnd(scanner)
<1>1. /\ pc = "idle" /\ options.mode = "pull" /\ stat = "row" /\ Give(x) /\ pc' = "scan"
      /\ options' = options /\ input' = input /\ calls \in Seq(Given)
      /\ scanner \in Scanner /\ scanner.called = <<>>
  BY DEF IInv, TypeOK, ResumeScan
<1>2. SUFFICES ASSUME ~Excused(input)
               PROVE  Promises(scanner', pc', stat', input', calls')
  BY <1>1, PromisesNext DEF Promises
<1>3. /\ x \in Scanner /\ Steady(scanner, x) /\ x.row_handler = scanner.row_handler
      /\ x.orig_row_handler = scanner.orig_row_handler /\ x.now = scanner.now
      /\ x.called = scanner.called /\ x.used = 0
      /\ x.data_row_count = scanner.data_row_count + 1
  <2>1. x \in Scanner
    BY <1>1, PastLineEndFacts
  <2>2. Steady(scanner, x)
    BY <1>1 DEF PastLineEnd, Steady, Scanner
  <2> QED BY <1>1, <2>1, <2>2 DEF PastLineEnd, Scanner
<1> HIDE DEF x
<1>4. /\ Steady(x, scanner') /\ scanner'.row_handler = x.row_handler
      /\ scanner'.orig_row_handler = x.orig_row_handler
      /\ scanner'.data_row_count = x.data_row_count /\ scanner'.now = x.now
      /\ scanner'.used = x.used /\ calls' = calls
  <2>1. calls \o <<>> = calls
    BY <1>1
  <2> QED BY <1>1, <1>3, <2>1, GiveDoes
<1>5. Steady(scanner, scanner') /\ scanner'.row_handler = scanner.row_handler
      /\ scanner'.orig_row_handler = scanner.orig_row_handler /\ scanner'.now = scanner.now
  BY <1>3, <1>4 DEF Steady
<1>6. Fulfilled(scanner, pc, input, calls) /\ Working(scanner, pc, stat, input, calls)
  BY <1>2 DEF PromiseInv, Promises
<1>7. /\ Awaits(scanner, input, calls)
      /\ ~CutIn(input) => ~scanner.buffer_exceeded /\ CountedTo(scanner, Len(RowsTold(calls)))
  BY <1>1, <1>6 DEF Working, HasRow
<1>8. Awaits(scanner', input, calls)
  <2>1. Phase(scanner', RowsIn(input))
    BY <1>5, <1>7, PhaseSame DEF Awaits, Steady
  <2>2. Due(scanner') = Due(scanner)
    BY <1>5 DEF Due, Steady
  <2> QED BY <1>5, <1>7, <2>1, <2>2 DEF Awaits, Steady
<1>9. ~CutIn(input) => Counts(scanner', Len(RowsTold(calls)))
  BY <1>3, <1>4, <1>7 DEF Counts, CountedTo
<1>10. Working(scanner', pc', stat', input', calls')
  BY <1>1, <1>3, <1>4, <1>5, <1>7, <1>8, <1>9 DEF Working, Steady
<1>11. Fulfilled(scanner', pc', input', calls')
  BY <1>1, <1>4, <1>5, <1>6 DEF Fulfilled, Steady
<1> QED BY <1>10, <1>11 DEF Promises

(* zsv_next_row behind the last row. *)
LEMMA NoMoreRowsPromise == IInv /\ PromiseInv /\ NoMoreRows => PromiseInv'
PROOF
<1> SUFFICES ASSUME IInv, PromiseInv, NoMoreRows PROVE PromiseInv'
  OBVIOUS
<1>1. /\ pc = "idle" /\ pc' = "done" /\ options' = options /\ scanner' = scanner
      /\ input' = input /\ calls' = calls
  BY DEF NoMoreRows
<1>2. Promises(scanner', pc', stat', input', calls')
  BY <1>1 DEF PromiseInv, Promises, Working, HasRow, Fulfilled
<1> QED BY <1>1, <1>2, PromisesNext

(* zsv_abort between two calls. *)
LEMMA AbortPromise == IInv /\ PromiseInv /\ AbortBetweenCalls => PromiseInv'
PROOF
<1> SUFFICES ASSUME IInv, PromiseInv, AbortBetweenCalls PROVE PromiseInv'
  OBVIOUS
<1> DEFINE x == [scanner EXCEPT !.abort = TRUE]
<1>1. /\ scanner' = x /\ pc' = pc /\ stat' = stat /\ options' = options
      /\ input' = input /\ calls' = calls /\ scanner \in Scanner
      /\ pc = "scan" \/ HasRow(pc, stat)
  BY DEF IInv, TypeOK, AbortBetweenCalls, HasRow
<1>2. SUFFICES ASSUME ~Excused(input)
               PROVE  Promises(scanner', pc', stat', input', calls')
  BY <1>1, PromisesNext DEF Promises
<1>3. /\ x.rows_to_ignore = scanner.rows_to_ignore
      /\ x.keep_empty_header_rows = scanner.keep_empty_header_rows
      /\ x.header_span = scanner.header_span /\ x.collated = scanner.collated
      /\ x.cum_row_count = scanner.cum_row_count /\ x.buffer_exceeded = scanner.buffer_exceeded
      /\ x.row_handler = scanner.row_handler /\ x.orig_row_handler = scanner.orig_row_handler
      /\ x.cell_handler = scanner.cell_handler
      /\ x.orig_cell_handler = scanner.orig_cell_handler
      /\ x.now = scanner.now /\ x.used = scanner.used /\ x.seen = scanner.seen
      /\ x.data_row_count = scanner.data_row_count
  BY <1>1 DEF Scanner
<1> HIDE DEF x
<1>4. Fulfilled(scanner, pc, input, calls) /\ Working(scanner, pc, stat, input, calls)
  BY <1>2 DEF PromiseInv, Promises
<1>5. Awaits(scanner, input, calls)
  BY <1>1, <1>4 DEF Working
<1>6. Awaits(x, input, calls)
  <2>1. Phase(x, RowsIn(input))
    BY <1>3, <1>5, PhaseSame DEF Awaits
  <2>2. Due(x) = Due(scanner)
    BY <1>3 DEF Due
  <2> QED BY <1>3, <1>5, <2>1, <2>2 DEF Awaits
<1>7. Working(x, pc, stat, input, calls)
  <2>1. Quiet(scanner) => Quiet(x)
    BY <1>3 DEF Quiet, CellsBy
  <2> QED BY <1>1, <1>3, <1>4, <1>6, <2>1 DEF Working, Counts, CountedTo
<1>8. Fulfilled(x, pc, input, calls)
  <2>1. /\ RowsTold(calls) = RowsPromised(RowsIn(input), options) /\ pc # "undefined"
        /\ RowsTold(calls) \in CellRows
    <3>1. TypeOK /\ calls \in Seq(Given)
      BY DEF IInv, TypeOK
    <3> QED BY <1>1, <1>5, <3>1, RowsToldType DEF Awaits, HasRow
  <2> QED BY <1>4, <2>1, FulfilledWhen DEF Fulfilled
<1> QED BY <1>1, <1>7, <1>8 DEF Promises

(* A new parser waits for its first row, and nobody has been told of any. *)
LEMMA InitPromise == Init => PromiseInv
PROOF
<1> SUFFICES ASSUME Init PROVE PromiseInv
  OBVIOUS
<1> DEFINE n == NewScanner(options)
           x == SetCallbacks(n)
           y == [x EXCEPT !.overwrite = options.overwrite]
<1>1. /\ scanner = y /\ pc = "scan" /\ stat = "ok" /\ input = <<>> /\ calls = <<>>
  BY DEF Init
<1>2. IInv /\ OptionsOk
  BY InitIInv, OptionsAreOk DEF IInv
<1>3. n \in Scanner
  BY NewScannerType
<1>4. /\ n.rows_to_ignore = options.rows_to_ignore /\ n.header_span = options.header_span
      /\ n.keep_empty_header_rows = options.keep_empty_header_rows
      /\ n.collated = NothingCollated /\ n.cum_row_count = 0 /\ ~n.buffer_exceeded /\ ~n.now
      /\ n.used = 0 /\ n.seen = <<>>
      /\ n.orig_cell_handler <=> options.mode = "push"
  BY DEF NewScanner
<1> HIDE DEF n
<1>5. /\ Steady(n, x) /\ Silent(n, x) /\ x.used = n.used /\ x.seen = n.seen
      /\ x.row_handler = Due(n) /\ Due(x) = Due(n)
      /\ x.row_handler \in Caller => x.data_row_count = 0 /\ x.cell_handler = n.orig_cell_handler
      /\ x.row_handler \notin Caller => ~x.cell_handler
      /\ x \in Scanner /\ x.row_handler # "throwaway"
  BY <1>3, <1>4, SetCallbacksDoes, SetCallbacksFacts
<1> HIDE DEF x
<1>6. /\ Steady(x, y) /\ y.row_handler = x.row_handler /\ y.orig_row_handler = x.orig_row_handler
      /\ y.used = x.used /\ y.seen = x.seen /\ y.now = x.now
      /\ y.data_row_count = x.data_row_count /\ y.cell_handler = x.cell_handler
  <2>1. Steady(x, y)
    BY <1>5 DEF Steady, Scanner
  <2> QED BY <1>5, <2>1 DEF Scanner
<1> HIDE DEF y
<1>7. RowsIn(input) = <<>> /\ RowsTold(calls) = <<>> /\ NumbersRight(calls) /\ SeenRight(calls)
  BY <1>1, NothingYet
<1>8. /\ <<>> \in CellRows /\ Len(<<>>) = 0
      /\ Body(<<>>, options) = <<>> /\ RowsPromised(<<>>, options) = <<>>
  <2>1. <<>> \in CellRows /\ <<>> \in Seq(Text) /\ Len(<<>>) = 0
    BY DEF CellRows
  <2>2. Len(<<>>) <= options.rows_to_ignore
    BY <1>2, <2>1 DEF OptionsOk
  <2> QED BY <1>2, <2>1, <2>2, PromisedInBody
<1>9. Phase(y, <<>>)
  <2>1. y.header_span = options.header_span /\ y.collated = NothingCollated
        /\ y.rows_to_ignore = options.rows_to_ignore
        /\ y.keep_empty_header_rows = options.keep_empty_header_rows
    BY <1>4, <1>5, <1>6 DEF Steady
  <2>2. HeaderPhase(y, <<>>)
    BY <1>2, <1>8, <2>1 DEF HeaderPhase, CollatedOf, OptionsOk
  <2>3. options.rows_to_ignore \in Nat /\ options.keep_empty_header_rows \in BOOLEAN
    BY <1>2 DEF OptionsOk
  <2> QED BY <1>8, <2>1, <2>2, <2>3 DEF Phase, BodyPhase
<1>10. Awaits(y, input, calls)
  <2>1. Due(y) = Due(x)
    BY <1>6 DEF Due, Steady
  <2>2. y.cum_row_count = 0 /\ ~y.buffer_exceeded /\ ~y.now
    BY <1>4, <1>5, <1>6 DEF Steady, Silent
  <2>3. options.max_rows > 0 => 0 < options.max_rows
    OBVIOUS
  <2> QED BY <1>1, <1>5, <1>6, <1>7, <1>8, <1>9, <2>1, <2>2, <2>3 DEF Awaits
<1>11. Counts(y, 0)
  <2>1. SUFFICES ASSUME y.row_handler \in Caller PROVE y.data_row_count = HeaderNumber + 0
    BY DEF Counts
  <2>2. ~(options.rows_to_ignore > 0)
    BY <1>4, <1>5, <1>6, <2>1 DEF Due, Caller
  <2>3. HeaderNumber = 0
    BY <2>2 DEF HeaderNumber
  <2> QED BY <1>5, <1>6, <2>1, <2>3
<1>12. options.mode = "push" => Quiet(y)
  BY <1>4, <1>5, <1>6 DEF Quiet, CellsBy, Steady
<1>13. ~y.buffer_exceeded /\ y.used = 0
  BY <1>4, <1>5, <1>6 DEF Steady
<1>14. Working(scanner, pc, stat, input, calls)
  BY <1>1, <1>7, <1>8, <1>10, <1>11, <1>12, <1>13 DEF Working
<1>15. Fulfilled(scanner, pc, input, calls)
  <2>1. Within(input)
    BY <1>1, <1>2, <1>8 DEF Within, OptionsOk
  <2> QED BY <1>7, <1>8, <2>1, FulfilledWhen
<1> QED BY <1>14, <1>15 DEF PromiseInv, Promises

(* So it holds at all times. *)
LEMMA PromiseInvariance == Spec => []PromiseInv
PROOF
<1>1. IInv /\ PromiseInv /\ [Next]_vars => PromiseInv'
  <2> SUFFICES ASSUME IInv, PromiseInv, [Next]_vars PROVE PromiseInv'
    OBVIOUS
  <2>1. CASE UNCHANGED vars
    <3>1. /\ options' = options /\ scanner' = scanner /\ pc' = pc /\ stat' = stat
          /\ input' = input /\ calls' = calls
      BY <2>1 DEF vars
    <3>2. Promises(scanner', pc', stat', input', calls')
      BY <3>1 DEF PromiseInv
    <3> QED BY <3>1, <3>2, PromisesNext
  <2> QED BY <2>1, EndRowPromise, CutRowPromise, FinishPromise, ResumeScanPromise,
             NoMoreRowsPromise, AbortPromise DEF Next
<1> QED BY <1>1, InitIInv, Inductive, InitPromise, PTL DEF Spec

(* The caller of the library is given what it was promised, whatever the
   options, the rows and the pauses: set_callbacks of zsv_internal.c
   installs ignore_header_rows, skip_to_first_row_w_data, collate_header_row
   and the caller's handler so that every row of the input goes to the
   caller once and in order, without those to ignore or skip and with the
   rows of the header made one; its number, from data_row_count in
   zsv_internal.c, is that of its place behind the header; and in push mode
   the cell handler has seen its cells and no other. The exemptions are
   those of RowsOfInput, NumberedFromHeader and CellsThenRow. *)
THEOREM RowsReachCaller == Spec => []RowsAsPromised
PROOF
<1>1. IInv /\ PromiseInv => RowsAsPromised
  BY PromisesKept DEF IInv
<1> QED BY <1>1, InitIInv, Inductive, PromiseInvariance, PTL DEF Spec

=============================================================================
