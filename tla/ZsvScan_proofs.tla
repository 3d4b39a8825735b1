--------------------------- MODULE ZsvScan_proofs ---------------------------
(***************************************************************************)
(* The push parser, proved for every buffer size, every alphabet, every    *)
(* input, and every way of splitting it into reads:                        *)
(*   - TypeCorrect, Safety: its state is well typed, and until a row       *)
(*     overflows the buffer every index stays where the scanner and        *)
(*     cell_dl rely on it to be; CancelsForGood: nothing is delivered      *)
(*     after an abort;                                                     *)
(*   - RowsAreTraced: the row in the buffer is what CsvRows makes of its   *)
(*     bytes (RowSoFar);                                                   *)
(*   - ImplementsTheRows: over one stream, the parser implements CsvRows;  *)
(*   - QuotesWhenNeeded: a cell delivered without flags holds no special   *)
(*     byte, truncated rows and further streams included;                  *)
(*   - CallsOncePerRow: over one stream, no row of an input without quotes *)
(*     makes two calls, and max_rows bounds them (OneCallPerPlainRow).     *)
(* IInv, the invariant of the first two, is strengthened by what relates   *)
(* the buffer to the bytes read: FeedInv (the buffer holds the tail of the *)
(* input), TraceInv (the cells and flags of the row are those of the       *)
(* specification, byte by byte), and, for the refinement, OneStreamInv,    *)
(* LastInv and WholeInv (the rows delivered so far are those of all the    *)
(* bytes scanned); and, for QuotedWhenNeeded alone, by FlagsInv (what a    *)
(* cell without flags is made of, while it is scanned and while it waits   *)
(* in the row). CountInv counts the calls against the rows that are due,   *)
(* truncated rows included.                                                *)
(***************************************************************************)
EXTENDS ZsvScanProps, FiniteSetTheorems, TLAPS, WellFoundedInduction


----
(* Arithmetic of size_t.                                                    *)

(* Whatever a computation gives, what is stored of it is a size_t. *)
LEMMA WrapType == ASSUME NEW n \in Int PROVE Wrap(n) \in SizeT
BY SizeAssumption DEF Wrap, SizeT

(* A number that is a size_t is stored as it is. *)
LEMMA WrapSmall == ASSUME NEW n \in SizeT PROVE Wrap(n) = n
BY SizeAssumption DEF Wrap, SizeT

----
(* Cells.                                                                   *)

(* The quotes that unescaping removes are finitely many, and fewer than the
   bytes it looks at: the first quote of a run stays. *)
LEMMA DroppedType ==
  ASSUME NEW b, NEW s \in Int, NEW n \in Int
  PROVE  /\ IsFiniteSet(DoubledQuotes(b, s, n))
         /\ Cardinality(DoubledQuotes(b, s, n)) \in Nat
         /\ n >= 0 => Cardinality(DoubledQuotes(b, s, n)) <= n
         /\ n >= 1 => Cardinality(DoubledQuotes(b, s, n)) <= n - 1
<1> DEFINE D == DoubledQuotes(b, s, n)
<1>1. IsFiniteSet(s .. s + n - 1) /\ IsFiniteSet(s + 1 .. s + n - 1)
  BY FS_Interval
<1>2. D \subseteq s .. s + n - 1
  BY DEF DoubledQuotes
<1>3. IsFiniteSet(D)
  BY <1>1, <1>2, FS_Subset
<1>4. Cardinality(D) \in Nat
  BY <1>3, FS_CardinalityType
<1>5. ASSUME n >= 0 PROVE Cardinality(D) <= n
  <2>1. Cardinality(s .. s + n - 1) = n
    BY <1>5, FS_Interval
  <2> QED BY <2>1, <1>1, <1>2, FS_Subset
<1>6. s \notin D
  <2>1. SUFFICES ASSUME s \in D PROVE FALSE
    OBVIOUS
  <2>2. b[s] = Quote /\ Cardinality(RunOfQuotes(b, s, s)) % 2 = 0
    BY <2>1 DEF DoubledQuotes
  <2>3. RunOfQuotes(b, s, s) = {s}
    BY <2>2 DEF RunOfQuotes
  <2>4. Cardinality({s}) = 1
    BY FS_Singleton
  <2> QED BY <2>2, <2>3, <2>4
<1>7. ASSUME n >= 1 PROVE Cardinality(D) <= n - 1
  <2>1. D \subseteq s + 1 .. s + n - 1
    BY <1>2, <1>6
  <2>2. Cardinality(s + 1 .. s + n - 1) = n - 1
    BY <1>7, FS_Interval
  <2> QED BY <2>1, <2>2, <1>1, FS_Subset
<1> QED BY <1>3, <1>4, <1>5, <1>7

(* The loop that removes doubled quotes shortens a cell, never to nothing,
   and leaves the bytes around it alone. *)
LEMMA RemoveDoubledFacts ==
  ASSUME NEW b \in Buffer, NEW s \in Nat, NEW n \in Int, s + n <= Size
  PROVE  LET r == RemoveDoubled(b, s, n) IN
         /\ r.buff \in Buffer
         /\ r.len \in Int /\ r.len <= n
         /\ n >= 0 => r.len >= 0
         /\ n >= 1 => r.len >= 1
         /\ \A k \in 0 .. Size - 1 : k >= s + n => r.buff[k] = b[k]
<1> DEFINE D == DoubledQuotes(b, s, n)
           kept == (s .. s + n - 1) \ D
           NewPlace(m) == m - Cardinality({d \in D : d < m})
           From(k) == {m \in kept : NewPlace(m) = k}
           r == RemoveDoubled(b, s, n)
<1>1. IsFiniteSet(D) /\ Cardinality(D) \in Nat
  BY DroppedType
<1>2. r.len = n - Cardinality(D)
  BY DEF RemoveDoubled
<1>3. r.buff = [k \in 0 .. Size - 1 |->
                  IF From(k) = {} THEN b[k] ELSE b[CHOOSE m \in From(k) : TRUE]]
  BY DEF RemoveDoubled, Buffer
<1>4. r.buff \in Buffer
  <2>1. ASSUME NEW k \in 0 .. Size - 1, From(k) # {}
        PROVE  (CHOOSE m \in From(k) : TRUE) \in 0 .. Size - 1
    <3>1. (CHOOSE m \in From(k) : TRUE) \in From(k)
      BY <2>1
    <3>2. From(k) \subseteq s .. s + n - 1
      OBVIOUS
    <3> QED BY <3>1, <3>2, SizeAssumption
  <2> QED BY <1>3, <2>1 DEF Buffer
<1>5. ASSUME NEW k \in 0 .. Size - 1, k >= s + n PROVE r.buff[k] = b[k]
  <2>1. ASSUME NEW m \in kept PROVE NewPlace(m) < s + n
    <3>1. {d \in D : d < m} \subseteq D
      OBVIOUS
    <3>2. IsFiniteSet({d \in D : d < m})
      BY <3>1, <1>1, FS_Subset
    <3>3. Cardinality({d \in D : d < m}) \in Nat
      BY <3>2, FS_CardinalityType
    <3> QED BY <3>3
  <2>2. From(k) = {}
    BY <2>1, <1>5
  <2> QED BY <2>2, <1>3
<1> QED BY <1>1, <1>2, <1>4, <1>5, DroppedType

(* What cell_dl makes of any cell is a slice with offsets of type size_t, in
   a buffer that is still one. *)
LEMMA UnquoteType ==
  ASSUME buff \in Buffer, NEW q, NEW close \in SizeT,
         NEW s \in 0 .. Size, NEW n \in SizeT
  PROVE  LET u == Unquote(q, close, s, n) IN
         /\ u.str \in SizeT /\ u.len \in SizeT /\ u.buff \in Buffer
<1> DEFINE u == Unquote(q, close, s, n)
<1>0. s \in SizeT /\ s + 1 \in SizeT /\ s + 2 \in SizeT
  BY SizeAssumption DEF SizeT
<1>1. CASE q = {}
  BY <1>0, <1>1 DEF Unquote
<1>2. CASE q # {} /\ Wrap(close + 1) = n /\ "EMBEDDED" \notin q
  BY <1>0, <1>2, WrapType, SizeAssumption DEF Unquote, SizeT
<1>3. CASE q # {} /\ Wrap(close + 1) = n /\ "EMBEDDED" \in q
  <2>1. CASE s + 1 + Wrap(n - 1) > Size
    BY <1>0, <1>3, <2>1 DEF Unquote
  <2>2. CASE ~(s + 1 + Wrap(n - 1) > Size)
    <3> DEFINE r == RemoveDoubled(buff, s + 1, n - 1)
    <3>1. s + 1 + (n - 1) <= Size
      BY <2>2, WrapSmall, SizeAssumption DEF SizeT
    <3>2. r.buff \in Buffer /\ r.len \in Int
      BY <3>1, RemoveDoubledFacts, SizeAssumption DEF SizeT
    <3>3. u = [str |-> s + 1, len |-> Wrap(r.len - 1), buff |-> r.buff, fault |-> FALSE]
      BY <1>3, <2>2 DEF Unquote
    <3> QED BY <1>0, <3>2, <3>3, WrapType
  <2> QED BY <2>1, <2>2
<1>4. CASE q # {} /\ Wrap(close + 1) # n /\ close = 0
  BY <1>0, <1>4 DEF Unquote
<1>5. CASE q # {} /\ Wrap(close + 1) # n /\ close # 0
  <2> DEFINE shifted == ShiftRight(buff, s, close)
             rest == Wrap(n - 2)
             r == RemoveDoubled(shifted, s + 2, rest)
  <2>1. shifted \in Buffer
    BY SizeAssumption DEF ShiftRight, Buffer
  <2>2. rest \in SizeT
    BY WrapType, SizeAssumption DEF SizeT
  <2>3. CASE s + 1 + close > Size
    BY <1>0, <1>5, <2>3 DEF Unquote
  <2>4. CASE ~(s + 1 + close > Size) /\ "EMBEDDED" \notin q
    BY <1>0, <1>5, <2>1, <2>2, <2>4 DEF Unquote
  <2>5. CASE ~(s + 1 + close > Size) /\ "EMBEDDED" \in q /\ s + 2 + rest > Size
    BY <1>0, <1>5, <2>5 DEF Unquote
  <2>6. CASE ~(s + 1 + close > Size) /\ "EMBEDDED" \in q /\ ~(s + 2 + rest > Size)
    <3>1. s + 2 + rest <= Size
      BY <2>2, <2>6, SizeAssumption DEF SizeT
    <3>2. r.buff \in Buffer /\ r.len \in Int /\ r.len <= rest /\ r.len >= 0
      BY <2>1, <2>2, <3>1, RemoveDoubledFacts, SizeAssumption DEF SizeT
    <3>3. u = [str |-> s + 2, len |-> r.len, buff |-> r.buff, fault |-> FALSE]
      BY <1>5, <2>6 DEF Unquote
    <3> QED BY <1>0, <2>2, <3>2, <3>3, SizeAssumption DEF SizeT
  <2> QED BY <2>3, <2>4, <2>5, <2>6
<1> QED BY <1>1, <1>2, <1>3, <1>4, <1>5

(* When the closing quote lies in the cell, nothing cell_dl does leaves the
   cell: there is no fault, and the result is a slice of it. *)
LEMMA UnquoteFacts ==
  ASSUME buff \in Buffer, NEW q, NEW close \in SizeT,
         NEW s \in 0 .. Size, NEW n \in SizeT, s + n <= Size,
         q = {} \/ (close = 0 /\ n # 1) \/ (close > 0 /\ close < n)
  PROVE  LET u == Unquote(q, close, s, n) IN
         /\ u.fault = FALSE
         /\ s <= u.str /\ u.str + u.len <= s + n
         /\ \A k \in 0 .. Size - 1 : k >= s + n => u.buff[k] = buff[k]
<1> DEFINE u == Unquote(q, close, s, n)
<1>1. CASE q = {}
  BY <1>1, SizeAssumption DEF Unquote, SizeT
<1>2. CASE q # {} /\ close = 0 /\ n # 1
  <2>1. Wrap(close + 1) = 1
    BY <1>2, WrapSmall, SizeAssumption DEF SizeT
  <2> QED BY <1>2, <2>1, SizeAssumption DEF Unquote, SizeT
<1>3. CASE q # {} /\ close > 0 /\ close + 1 = n
  <2>1. Wrap(close + 1) = n /\ Wrap(n - 1) = n - 1 /\ Wrap(n - 2) = n - 2
    BY <1>3, WrapSmall, SizeAssumption DEF SizeT
  <2>2. CASE "EMBEDDED" \notin q
    BY <1>3, <2>1, <2>2, SizeAssumption DEF Unquote, SizeT
  <2>3. CASE "EMBEDDED" \in q
    <3> DEFINE r == RemoveDoubled(buff, s + 1, n - 1)
    <3>1. /\ r.len \in Int /\ r.len <= n - 1 /\ r.len >= 1
          /\ \A k \in 0 .. Size - 1 : k >= s + n => r.buff[k] = buff[k]
      <4>1. n \in Nat /\ n - 1 >= 1
        BY <1>3, SizeAssumption DEF SizeT
      <4>2. s + 1 \in Nat /\ n - 1 \in Nat /\ (s + 1) + (n - 1) <= Size
        BY <4>1
      <4> QED BY <4>1, <4>2, RemoveDoubledFacts
    <3>2. Wrap(r.len - 1) = r.len - 1
      BY <3>1, WrapSmall, SizeAssumption DEF SizeT
    <3>3. ~(s + 1 + (n - 1) > Size)
      BY SizeAssumption DEF SizeT
    <3>4. u = [str |-> s + 1, len |-> r.len - 1, buff |-> r.buff, fault |-> FALSE]
      BY <1>3, <2>1, <2>3, <3>2, <3>3 DEF Unquote
    <3> QED BY <3>1, <3>4, SizeAssumption DEF SizeT
  <2> QED BY <2>2, <2>3
<1>4. CASE q # {} /\ close > 0 /\ close + 1 < n
  <2> DEFINE shifted == ShiftRight(buff, s, close)
             r == RemoveDoubled(shifted, s + 2, n - 2)
  <2>1. Wrap(close + 1) # n /\ Wrap(n - 2) = n - 2
    BY <1>4, WrapSmall, SizeAssumption DEF SizeT
  <2>2. ~(s + 1 + close > Size) /\ ~(s + 2 + (n - 2) > Size) /\ close # 0
    BY <1>4, SizeAssumption DEF SizeT
  <2>3. /\ shifted \in Buffer
        /\ \A k \in 0 .. Size - 1 : k >= s + n => shifted[k] = buff[k]
    BY <1>4, SizeAssumption DEF ShiftRight, Buffer, SizeT
  <2>4. CASE "EMBEDDED" \notin q
    <3>1. u = [str |-> s + 2, len |-> n - 2, buff |-> shifted, fault |-> FALSE]
      BY <1>4, <2>1, <2>2, <2>4 DEF Unquote
    <3> QED BY <2>3, <3>1, SizeAssumption DEF SizeT
  <2>5. CASE "EMBEDDED" \in q
    <3>1. /\ r.len \in Int /\ r.len <= n - 2
          /\ \A k \in 0 .. Size - 1 : k >= s + n => r.buff[k] = shifted[k]
      <4>1. n - 2 \in Int /\ s + 2 \in Nat /\ (s + 2) + (n - 2) <= Size
        BY SizeAssumption DEF SizeT
      <4> HIDE DEF shifted
      <4>2. r.len \in Int /\ r.len <= n - 2
        BY <2>3, <4>1, RemoveDoubledFacts
      <4>3. \A k \in 0 .. Size - 1 :
              k >= (s + 2) + (n - 2) => r.buff[k] = shifted[k]
        BY <2>3, <4>1, RemoveDoubledFacts
      <4>4. (s + 2) + (n - 2) = s + n
        BY SizeAssumption DEF SizeT
      <4> QED BY <4>2, <4>3, <4>4
    <3>2. u = [str |-> s + 2, len |-> r.len, buff |-> r.buff, fault |-> FALSE]
      BY <1>4, <2>1, <2>2, <2>5 DEF Unquote
    <3> QED BY <2>3, <3>1, <3>2, SizeAssumption DEF SizeT
  <2> QED BY <2>4, <2>5
<1>5. close > 0 /\ close < n => close + 1 = n \/ close + 1 < n
  BY SizeAssumption DEF SizeT
<1> QED BY <1>1, <1>2, <1>3, <1>4, <1>5

(* Unquoting a cell changes no byte after it. *)
LEMMA UnquoteKeeps ==
  ASSUME buff \in Buffer, NEW q, NEW close \in SizeT,
         NEW s \in 0 .. Size, NEW n \in SizeT, s + n <= Size,
         q = {} \/ (close = 0 /\ n # 1) \/ (close > 0 /\ close < n),
         NEW k \in 0 .. Size - 1, k >= s + n
  PROVE  Unquote(q, close, s, n).buff[k] = buff[k]
BY UnquoteFacts

----
(* Types.                                                                   *)

(* What a handler sees of a row is a sequence of values with flags. *)
LEMMA DeliveredType ==
  ASSUME NEW b \in Buffer, NEW cs \in Seq(Cell)
  PROVE  Delivered(b, cs) \in Seq(DeliveredCell)
<1>1. ASSUME NEW c \in Cell PROVE Contents(b, c) \in Value
  <2>1. CASE InBuffer(c)
    <3>1. ASSUME NEW k \in 1 .. c.len
          PROVE  b[c.str + k - 1] \in Byte \cup {Junk}
      BY <2>1, SizeAssumption DEF Cell, SizeT, InBuffer, Buffer
    <3>2. c.len \in Nat
      BY SizeAssumption DEF Cell, SizeT
    <3> QED BY <2>1, <3>1, <3>2 DEF Contents, Value
  <2>2. CASE ~InBuffer(c)
    BY <2>2 DEF Contents, Value
  <2> QED BY <2>1, <2>2
<1>2. \A k \in 1 .. Len(cs) : cs[k] \in Cell
  OBVIOUS
<1>3. \A k \in 1 .. Len(cs) :
        [value |-> Contents(b, cs[k]), quoted |-> cs[k].quoted] \in DeliveredCell
  BY <1>1, <1>2 DEF Cell, DeliveredCell
<1> QED BY <1>3 DEF Delivered

(* A row stays a row of at most max_columns cells when a cell is added. *)
LEMMA AddCellType ==
  ASSUME TypeOK, NEW u, u.str \in SizeT, u.len \in SizeT,
         NEW q \in SUBSET Flags
  PROVE  AddCell(u, q) \in Seq(Cell) /\ Len(AddCell(u, q)) <= MaxCols
<1>1. [str |-> u.str, len |-> u.len, quoted |-> q] \in Cell
  BY DEF Cell
<1>2. cells \in Seq(Cell) /\ Len(cells) <= MaxCols
  BY DEF TypeOK
<1> QED BY <1>1, <1>2, SizeAssumption DEF AddCell

(* row_dl keeps the types of all it assigns, whether or not it cancels. *)
LEMMA RowDlType ==
  ASSUME TypeOK, NEW b \in Buffer, NEW cs \in Seq(Cell), Len(cs) <= MaxCols,
         NEW points, RowDl(b, cs, points)
  PROVE  /\ calls' \in Seq(HandlerCall)
         /\ cum_row_count' \in Nat
         /\ abort' \in BOOLEAN
         /\ have_cell' \in BOOLEAN
         /\ cells' \in Seq(Cell) /\ Len(cells') <= MaxCols
<1>1. calls' \in Seq(HandlerCall)
  <2>1. \A h \in {"row", "overflow"} :
          [handler |-> h, number |-> data_row_count, cells |-> Delivered(b, cs)]
            \in HandlerCall
    BY DeliveredType DEF HandlerCall, TypeOK
  <2>2. calls \in Seq(HandlerCall)
    BY DEF TypeOK
  <2> QED BY <2>1, <2>2 DEF RowDl, CallRowHandler
<1>2. cum_row_count' \in Nat
  BY DEF RowDl, TypeOK
<1>3. abort' \in BOOLEAN
  BY DEF RowDl, TypeOK
<1>4. have_cell' \in BOOLEAN
  BY DEF RowDl
<1>5. cells' \in Seq(Cell) /\ Len(cells') <= MaxCols
  <2>1. cells' = cs \/ cells' = << >>
    BY DEF RowDl
  <2>2. << >> \in Seq(Cell) /\ Len(<< >>) <= MaxCols
    BY SizeAssumption
  <2> QED BY <2>1, <2>2
<1> QED BY <1>1, <1>2, <1>3, <1>4, <1>5

(* The cell that ends at the scanned byte has the type of a cell. *)
LEMMA CellHereType ==
  ASSUME TypeOK
  PROVE  CellHere.str \in SizeT /\ CellHere.len \in SizeT /\ CellHere.buff \in Buffer
<1>1. Wrap(i - cell_start) \in SizeT
  BY SizeAssumption, WrapType DEF TypeOK
<1>2. cell_start \in 0 .. Size
  BY SizeAssumption DEF TypeOK
<1> QED BY <1>1, <1>2, UnquoteType DEF CellHere, TypeOK

(* The cell that zsv_finish ends has the type of a cell. *)
LEMMA FinalCellType ==
  ASSUME TypeOK, ~finished, HasFinalCell
  PROVE  /\ FinalCell.str \in SizeT /\ FinalCell.len \in SizeT
         /\ FinalCell.buff \in Buffer
<1>1. FinalLength \in 0 .. Size + 1
  BY SizeAssumption DEF TypeOK, FinalLength
<1>2. cell_start \in 0 .. Size /\ FinalLength - cell_start \in SizeT
  BY <1>1, SizeAssumption DEF TypeOK, HasFinalCell, SizeT
<1>3. FinalClosePosition \in SizeT
  BY SizeAssumption DEF TypeOK, FinalClosePosition, ClosesOpenQuote, SizeT
<1> QED BY <1>2, <1>3, UnquoteType DEF FinalCell, TypeOK

(* The partial row and the free space it leaves both fit the buffer. *)
LEMMA EnterParseType ==
  ASSUME TypeOK, NEW partial \in 0 .. Size, EnterParse(partial)
  PROVE  /\ partial_row_length' \in 0 .. Size
         /\ cum_scanned_length' \in SizeT
         /\ capacity' \in 0 .. Size
         /\ pc' \in {"truncate", "read"}
         /\ old_bytes_read' = 0
         /\ UNCHANGED <<scanned_length, have_cell, buffer_exceeded, data_row_count,
                        cum_row_count, i, bytes_read, skip_next_delim, fed, inputs,
                        checked_bom, had_bom, truncated, abort, finished, status,
                        calls, quote_close_position>>
<1>1. cum_scanned_length + scanned_length - partial \in Int
  BY SizeAssumption DEF TypeOK, SizeT
<1>2. LengthBefore(partial) \in SizeT
  BY <1>1, WrapType DEF LengthBefore
<1> QED BY <1>2, SizeAssumption DEF EnterParse, scanVars, envVars, onceVars

(* A new parser is well typed. *)
LEMMA TypeInit == ASSUME Init PROVE TypeOK
<1>1. << >> \in Seq(Cell) /\ Len(<< >>) = 0 /\ << >> \in Seq(Byte)
      /\ << >> \in Seq(HandlerCall)
  OBVIOUS
<1>2. [k \in 0 .. Size - 1 |-> Junk] \in Buffer
  BY DEF Buffer
<1> QED BY <1>1, <1>2, SizeAssumption DEF Init, TypeOK, SizeT

(* Every step keeps the types; that the cell being ended begins after its row
   does is the stage invariant's. *)
LEMMA TypeStep == ASSUME TypeOK, StageInv, [Next]_vars PROVE TypeOK'
<1> USE SizeAssumption
<1>1. CASE MovePartialRow
  <2> DEFINE moved == old_bytes_read - row_start
  <2>1. moved \in 1 .. Size
    BY <1>1 DEF MovePartialRow, TypeOK
  <2>2. last' \in Byte \cup {Junk}
    BY <1>1 DEF MovePartialRow, TypeOK, Buffer
  <2>3. buff' \in Buffer
    BY <1>1 DEF MovePartialRow, TypeOK, Buffer
  <2>4. row_start' = 0 /\ cell_start' \in 0 .. Size
    <3>1. cell_start - row_start \in 0 .. Size
      BY DEF TypeOK
    <3> QED BY <3>1, <1>1, WrapSmall DEF MovePartialRow, SizeT
  <2>5. cells' \in Seq(Cell) /\ Len(cells') <= MaxCols
    <3>1. \A k \in DOMAIN cells :
            [cells[k] EXCEPT !.str = Wrap(cells[k].str - row_start)] \in Cell
      <4>1. ASSUME NEW k \in DOMAIN cells
            PROVE  [cells[k] EXCEPT !.str = Wrap(cells[k].str - row_start)] \in Cell
        <5>1. cells[k] \in Cell /\ row_start \in Int
          BY DEF TypeOK
        <5>2. Wrap(cells[k].str - row_start) \in SizeT
          BY <5>1, WrapType DEF Cell, SizeT
        <5> QED BY <5>1, <5>2 DEF Cell
      <4> QED BY <4>1
    <3>2. cells \in Seq(Cell) /\ Len(cells) <= MaxCols
      BY DEF TypeOK
    <3>3. cells' = RebasedCells
      BY <1>1 DEF MovePartialRow
    <3>4. RebasedCells \in [1 .. Len(cells) -> Cell]
      BY <3>1, <3>2 DEF RebasedCells
    <3>5. RebasedCells \in Seq(Cell)
      BY <3>2, <3>4
    <3>6. Len(RebasedCells) = Len(cells)
      BY <3>2, <3>4, <3>5
    <3> QED BY <3>2, <3>3, <3>5, <3>6
  <2>6. EnterParse(moved) /\ UNCHANGED quoted
    BY <1>1 DEF MovePartialRow
  <2> QED BY <2>1, <2>2, <2>3, <2>4, <2>5, <2>6, EnterParseType, SMTT(60) DEF TypeOK
<1>2. CASE StartFreshRow
  <2>1. EnterParse(partial_row_length) /\ UNCHANGED <<buff, cells>>
    BY <1>2 DEF StartFreshRow
  <2>2. last' \in Byte \cup {Junk}
    BY <1>2 DEF StartFreshRow, TypeOK, Buffer
  <2>3. cell_start' = 0 /\ row_start' = 0 /\ quoted' = {}
    BY <1>2 DEF StartFreshRow
  <2>4. partial_row_length \in 0 .. Size
    BY DEF TypeOK
  <2> QED BY <2>1, <2>2, <2>3, <2>4, EnterParseType, SMTT(60) DEF TypeOK
<1>3. CASE StartEmpty
  <2>1. EnterParse(partial_row_length) /\ UNCHANGED <<buff, posVars, cells, quoted>>
        /\ last' = Junk
    BY <1>3 DEF StartEmpty
  <2>2. partial_row_length \in 0 .. Size
    BY DEF TypeOK
  <2> QED BY <2>1, <2>2, EnterParseType, SMTT(60) DEF TypeOK, posVars
<1>4. CASE TruncateRow
  <2>1. RowDl(buff, cells, {"row"})
    BY <1>4 DEF TruncateRow
  <2>2. /\ calls' \in Seq(HandlerCall) /\ cum_row_count' \in Nat
        /\ abort' \in BOOLEAN /\ have_cell' \in BOOLEAN
        /\ cells' \in Seq(Cell) /\ Len(cells') <= MaxCols
    BY <2>1, RowDlType DEF TypeOK
  <2>3. RowsBefore \in Nat
    BY DEF TypeOK, RowsBefore
  <2> QED BY <1>4, <2>2, <2>3
          DEF TruncateRow, TypeOK, posVars, lengthVars, quoteVars, scanVars, envVars
<1>5. CASE SkipBom
  BY <1>5 DEF TypeOK, SkipBom, bufVars, posVars, lengthVars, quoteVars, rowVars, scanVars, envVars
<1>6. CASE ReadNothing
  BY <1>6 DEF TypeOK, ReadNothing, bufVars, posVars, quoteVars, rowVars, scanVars
<1>7. CASE Read
  <2>1. PICK n \in 1 .. Smaller(capacity, MaxInput - Len(fed)) :
          \E bytes \in [1 .. n -> Byte] :
            /\ fed' = fed \o bytes
            /\ IF partial_row_length + n > Size
               THEN pc' = "fault" /\ UNCHANGED <<buff, partial_row_length, scanVars, quoteVars>>
               ELSE /\ buff' = [ k \in DOMAIN buff |->
                                  IF k >= partial_row_length /\ k < partial_row_length + n
                                  THEN bytes[k - partial_row_length + 1] ELSE buff[k] ]
                    /\ BeginScan(bytes)
                    /\ pc' = "scan"
    BY <1>7 DEF Read
  <2>2. PICK bytes \in [1 .. n -> Byte] :
            /\ fed' = fed \o bytes
            /\ IF partial_row_length + n > Size
               THEN pc' = "fault" /\ UNCHANGED <<buff, partial_row_length, scanVars, quoteVars>>
               ELSE /\ buff' = [ k \in DOMAIN buff |->
                                  IF k >= partial_row_length /\ k < partial_row_length + n
                                  THEN bytes[k - partial_row_length + 1] ELSE buff[k] ]
                    /\ BeginScan(bytes)
                    /\ pc' = "scan"
    BY <2>1
  <2>3. n \in Nat /\ n >= 1
    BY DEF TypeOK, Smaller
  <2>4. bytes \in Seq(Byte) /\ Len(bytes) = n
    BY <2>3
  <2>5. fed' \in Seq(Byte)
    BY <2>2, <2>4 DEF TypeOK
  <2>6. UNCHANGED <<last, old_bytes_read, capacity, posVars, lengthVars, rowVars,
                    inputs, had_bom, truncated, abort, finished, status, calls>>
        /\ checked_bom' = TRUE
    BY <1>7 DEF Read
  <2>7. CASE partial_row_length + n > Size
    BY <2>2, <2>5, <2>6, <2>7
       DEF TypeOK, posVars, lengthVars, rowVars, quoteVars, scanVars
  <2>8. CASE ~(partial_row_length + n > Size)
    <3>1. pc' = "scan" /\ BeginScan(bytes)
      BY <2>2, <2>8
    <3>2. buff' \in Buffer
      BY <2>2, <2>3, <2>8 DEF TypeOK, Buffer
    <3>3. /\ partial_row_length' = 0 /\ skip_next_delim' = FALSE
          /\ i' \in 0 .. Size /\ bytes_read' \in 0 .. Size
      BY <2>3, <2>4, <2>8, <3>1 DEF BeginScan, TypeOK
    <3>4. quoted' \subseteq Flags
      BY <3>1 DEF BeginScan, TypeOK, Flags
    <3>5. Wrap(partial_row_length - cell_start - 1) \in SizeT
      BY WrapType DEF TypeOK
    <3>6. quote_close_position' \in SizeT
      BY <3>1, <3>5 DEF BeginScan, TypeOK
    <3>7. UNCHANGED <<last, old_bytes_read, capacity, cell_start, row_start,
                      scanned_length, cum_scanned_length, cells, have_cell,
                      buffer_exceeded, data_row_count, cum_row_count, inputs,
                      had_bom, truncated, abort, finished, status, calls>>
      BY <2>6 DEF posVars, lengthVars, rowVars
    <3>8. checked_bom' \in BOOLEAN
      BY <2>6
    <3>9. skip_next_delim' \in BOOLEAN
      BY <3>3
    <3>10. partial_row_length' \in 0 .. Size
      BY <3>3
    <3> QED BY <2>5, <3>1, <3>2, <3>3, <3>4, <3>6, <3>7, <3>8, <3>9, <3>10 DEF TypeOK
  <2> QED BY <2>7, <2>8
<1>8. CASE SkipDoubledQuote
  <2>1. i' \in 0 .. Size
    BY <1>8 DEF SkipDoubledQuote, Scanning, NextByte, TypeOK
  <2>3. skip_next_delim' \in BOOLEAN
    BY <1>8 DEF SkipDoubledQuote
  <2>2. UNCHANGED <<bufVars, posVars, lengthVars, quoteVars, rowVars, envVars,
                    onceVars, abort, finished, pc, status, calls, bytes_read>>
    BY <1>8 DEF SkipDoubledQuote, NextByte
  <2> QED BY <2>1, <2>2, <2>3
          DEF TypeOK, bufVars, posVars, lengthVars, quoteVars, rowVars, envVars, onceVars
<1>9. CASE Plain
  BY <1>9 DEF TypeOK, Plain, Scanning, NextByte, bufVars, posVars, lengthVars,
              quoteVars, rowVars, envVars, onceVars
<1>10. CASE EscapedSpecial
  BY <1>10 DEF TypeOK, EscapedSpecial, Scanning, Visit, NextByte, bufVars, posVars,
               lengthVars, rowVars, envVars, onceVars, Flags
<1>11. CASE EndCell
  <2>1. /\ i \in 0 .. Size /\ i < bytes_read /\ bytes_read \in 0 .. Size
        /\ scanned_length' = i /\ i' = i + 1 /\ cell_start' = i + 1
    BY <1>11 DEF EndCell, Visit, Scanning, NextByte, TypeOK
  <2>2. CellHere.str \in SizeT /\ CellHere.len \in SizeT /\ CellHere.buff \in Buffer
    BY CellHereType
  <2>3. AddCell(CellHere, quoted) \in Seq(Cell) /\ Len(AddCell(CellHere, quoted)) <= MaxCols
    BY <2>2, AddCellType DEF TypeOK
  <2>4. buff' \in Buffer /\ cells' \in Seq(Cell) /\ Len(cells') <= MaxCols
    BY <1>11, <2>2, <2>3 DEF EndCell
  <2>5. abort' \in BOOLEAN /\ have_cell' \in BOOLEAN /\ quoted' = {}
    BY <1>11 DEF EndCell, MayAbortIn, TypeOK
  <2>6. UNCHANGED <<last, old_bytes_read, partial_row_length, capacity, row_start,
                    cum_scanned_length, quote_close_position, buffer_exceeded,
                    data_row_count, cum_row_count, envVars, skip_next_delim,
                    onceVars, finished, pc, status, calls, bytes_read>>
    BY <1>11 DEF EndCell, NextByte
  <2>7. row_start' \in 0 .. Size /\ cell_start' \in row_start' .. Size
    <3>1. row_start <= i + 1
      BY <1>11 DEF EndCell, Visit, Scanning, StageInv, TypeOK
    <3> QED BY <2>1, <2>6, <3>1 DEF TypeOK
  <2> QED BY <2>1, <2>4, <2>5, <2>6, <2>7 DEF TypeOK, envVars, onceVars
<1>12. CASE IgnoreLf
  BY <1>12 DEF TypeOK, IgnoreLf, Scanning, Visit, NextByte, bufVars, lengthVars,
               quoteVars, rowVars, envVars, onceVars
<1>13. CASE EndRow
  <2>1. CellHere.str \in SizeT /\ CellHere.len \in SizeT /\ CellHere.buff \in Buffer
    BY CellHereType
  <2>2. AddCell(CellHere, quoted) \in Seq(Cell) /\ Len(AddCell(CellHere, quoted)) <= MaxCols
    BY <2>1, AddCellType DEF TypeOK
  <2>3. RowDl(CellHere.buff, AddCell(CellHere, quoted), {"cell", "row"})
    BY <1>13 DEF EndRow
  <2>4. /\ calls' \in Seq(HandlerCall) /\ cum_row_count' \in Nat
        /\ abort' \in BOOLEAN /\ have_cell' \in BOOLEAN
        /\ cells' \in Seq(Cell) /\ Len(cells') <= MaxCols
    BY <2>1, <2>2, <2>3, RowDlType
  <2>5. i \in 0 .. Size /\ i < bytes_read /\ bytes_read \in 0 .. Size
    BY <1>13 DEF EndRow, AtRowEnd, Visit, Scanning, TypeOK
  <2>6. scanned_length' = i /\ buff' \in Buffer /\ quoted' = {}
    BY <1>13, <2>1 DEF EndRow
  <2>11. buffer_exceeded' \in BOOLEAN
    BY <1>13 DEF EndRow
  <2>7. RowsBefore \in Nat
    BY DEF TypeOK, RowsBefore
  <2>8. UNCHANGED <<last, old_bytes_read, partial_row_length, capacity,
                    cum_scanned_length, quote_close_position, envVars, onceVars,
                    finished>>
    BY <1>13 DEF EndRow
  <2>9. CASE abort'
    <3>1. data_row_count' = RowsBefore /\ pc' = "idle" /\ status' = "cancelled"
          /\ UNCHANGED <<posVars, scanVars>>
      BY <1>13, <2>9 DEF EndRow
    <3> QED BY <2>4, <2>5, <2>6, <2>7, <2>8, <2>11, <3>1
            DEF TypeOK, envVars, onceVars, posVars, scanVars
  <2>10. CASE ~abort'
    <3>1. /\ data_row_count' = RowsBefore + 1
          /\ cell_start' = i + 1 /\ row_start' = i + 1 /\ i' = i + 1
          /\ UNCHANGED <<bytes_read, skip_next_delim, pc, status>>
      BY <1>13, <2>10 DEF EndRow, NextByte
    <3> QED BY <2>4, <2>5, <2>6, <2>7, <2>8, <2>11, <3>1
            DEF TypeOK, envVars, onceVars
  <2> QED BY <2>9, <2>10
<1>14. CASE FaultInCell
  BY <1>14 DEF TypeOK, FaultInCell, bufVars, posVars, lengthVars, quoteVars, rowVars,
               scanVars, envVars, onceVars
<1>15. CASE VisitQuote
  <2>1. i' \in 0 .. Size
    BY <1>15 DEF VisitQuote, Visit, Scanning, NextByte, TypeOK
  <2>2. UNCHANGED <<bufVars, posVars, lengthVars, rowVars, envVars, onceVars, abort,
                    finished, pc, status, calls, bytes_read>>
    BY <1>15 DEF VisitQuote, NextByte
  <2>3. Wrap(i - cell_start) \in SizeT
    BY WrapType DEF TypeOK
  <2>4. 0 \in SizeT
    BY DEF SizeT
  <2>5. quoted' \subseteq Flags
    BY <1>15 DEF VisitQuote, TypeOK, Flags
  <2>6. quote_close_position' \in SizeT
    BY <1>15, <2>3, <2>4 DEF VisitQuote, TypeOK
  <2>7. skip_next_delim' \in BOOLEAN
    BY <1>15 DEF VisitQuote, TypeOK
  <2> QED BY <2>1, <2>2, <2>5, <2>6, <2>7
          DEF TypeOK, bufVars, posVars, lengthVars, rowVars, envVars, onceVars
<1>16. CASE EndScan
  BY <1>16 DEF TypeOK, EndScan, posVars, quoteVars, rowVars, scanVars, envVars, onceVars
<1>17. CASE AbortBetweenCalls
  BY <1>17 DEF TypeOK, AbortBetweenCalls, bufVars, posVars, lengthVars, quoteVars,
               rowVars, scanVars, envVars, onceVars
<1>18. CASE Finish
  <2>1. ~finished /\ finished' = TRUE /\ pc' = "done" /\ scanned_length' = FinalLength
    BY <1>18 DEF Finish, MayFinish
  <2>2. FinalLength \in 0 .. Size + 1
    BY <2>1 DEF TypeOK, FinalLength
  <2>3. quote_close_position' \in SizeT
    BY <1>18 DEF Finish, FinalClosePosition, ClosesOpenQuote, TypeOK, SizeT
  <2>4. FinalQuoted \in SUBSET Flags
    BY DEF FinalQuoted, TypeOK, Flags
  <2>5. quoted' \subseteq Flags
    BY <1>18, <2>4 DEF Finish
  <2>6. buff' \in Buffer
    BY <1>18, <2>1, FinalCellType DEF Finish, TypeOK
  <2>7. UNCHANGED <<last, old_bytes_read, partial_row_length, capacity, posVars,
                    cum_scanned_length, scanVars, envVars, onceVars>>
    BY <1>18 DEF Finish
  <2>8. CASE DeliversFinalRow
    <3> DEFINE cs == IF HasFinalCell THEN AddCell(FinalCell, FinalQuoted) ELSE cells
    <3>1. cs \in Seq(Cell) /\ Len(cs) <= MaxCols
      BY <2>1, <2>4, FinalCellType, AddCellType DEF TypeOK
    <3>2. RowDl(buff', cs, {"cell", "row"})
      BY <1>18, <2>8 DEF Finish
    <3>3. /\ calls' \in Seq(HandlerCall) /\ cum_row_count' \in Nat
          /\ abort' \in BOOLEAN /\ have_cell' \in BOOLEAN
          /\ cells' \in Seq(Cell) /\ Len(cells') <= MaxCols
      BY <2>6, <3>1, <3>2, RowDlType
    <3>4. data_row_count' \in Nat /\ buffer_exceeded' = FALSE
      BY <1>18, <2>8 DEF Finish, RowsBefore, TypeOK
    <3>5. status' \in {"ok", "cancelled"}
      BY <1>18, <2>8 DEF Finish
    <3> QED BY <2>1, <2>2, <2>3, <2>5, <2>6, <2>7, <3>3, <3>4, <3>5
            DEF TypeOK, posVars, scanVars, envVars, onceVars
  <2>9. CASE ~DeliversFinalRow
    <3>1. status' \in {"ok", "cancelled"} /\ UNCHANGED <<rowVars, abort, calls>>
      BY <1>18, <2>9 DEF Finish
    <3> QED BY <2>1, <2>2, <2>3, <2>5, <2>6, <2>7, <3>1
            DEF TypeOK, posVars, scanVars, envVars, onceVars, rowVars
  <2> QED BY <2>8, <2>9
<1>19. CASE FaultInFinish
  BY <1>19 DEF TypeOK, FaultInFinish, bufVars, posVars, lengthVars, quoteVars, rowVars,
               scanVars, envVars, onceVars
<1>20. CASE UNCHANGED vars
  BY <1>20 DEF TypeOK, vars, bufVars, posVars, lengthVars, quoteVars, rowVars,
               scanVars, envVars, onceVars
<1> QED BY <1>1, <1>2, <1>3, <1>4, <1>5, <1>6, <1>7, <1>8, <1>9, <1>10, <1>11,
           <1>12, <1>13, <1>14, <1>15, <1>16, <1>17, <1>18, <1>19, <1>20
        DEF Next, PreParse, Scan

----
(* Safety.                                                                  *)

(* A new parser is idle, with nothing in its buffer. *)
LEMMA StageInit == ASSUME Init PROVE StageInv /\ ReadHasRoom
BY SizeAssumption DEF Init, StageInv, ReadHasRoom, CutShort, Cursor

(* Every step leaves the next stage of the call what it relies on. *)
LEMMA StageStep ==
  ASSUME TypeOK, TypeOK', StageInv, ReadHasRoom, [Next]_vars
  PROVE  StageInv' /\ ReadHasRoom'
<1> USE SizeAssumption
<1>0. ASSUME NEW partial \in 0 .. Size, EnterParse(partial), MayParse, row_start' = 0
      PROVE  StageInv' /\ ReadHasRoom'
  <2>1. /\ old_bytes_read' = 0 /\ partial_row_length' = partial
        /\ capacity' = Size - partial
        /\ pc' = IF partial = Size THEN "truncate" ELSE "read"
        /\ UNCHANGED <<status, buffer_exceeded, truncated, abort>>
    BY <1>0 DEF EnterParse, onceVars
  <2>2. status # "cancelled"
    BY <1>0 DEF MayParse
  <2> QED BY <1>0, <2>1, <2>2 DEF StageInv, ReadHasRoom, CutShort, Cursor
<1>1. CASE MovePartialRow
  <2>1. row_start < old_bytes_read
    BY <1>1 DEF MovePartialRow
  <2>2. row_start \in 0 .. Size /\ old_bytes_read \in 0 .. Size
    BY DEF TypeOK
  <2>3. old_bytes_read - row_start \in 0 .. Size
    BY <2>1, <2>2
  <2> QED BY <1>0, <1>1, <2>3 DEF MovePartialRow
<1>2. CASE StartFreshRow
  BY <1>0, <1>2 DEF StartFreshRow, TypeOK
<1>3. CASE StartEmpty
  <2>2. pc = "idle" /\ status # "cancelled" /\ old_bytes_read = 0
    BY <1>3 DEF StartEmpty, MayParse
  <2>3. row_start <= 0 /\ row_start \in 0 .. Size
    BY <2>2 DEF StageInv, TypeOK
  <2>1. row_start' = 0
    BY <1>3, <2>3 DEF StartEmpty, posVars
  <2> QED BY <1>0, <1>3, <2>1 DEF StartEmpty, TypeOK
<1>4. CASE TruncateRow
  BY <1>4 DEF TruncateRow, StageInv, ReadHasRoom, CutShort, Cursor, TypeOK, posVars
<1>5. CASE SkipBom
  BY <1>5 DEF SkipBom, StageInv, ReadHasRoom, CutShort, Cursor, TypeOK, bufVars, posVars,
              lengthVars, rowVars
<1>6. CASE ReadNothing
  BY <1>6 DEF ReadNothing, StageInv, ReadHasRoom, CutShort, Cursor, TypeOK, bufVars, posVars, rowVars
<1>7. CASE Read
  <2>1. PICK n \in 1 .. Smaller(capacity, MaxInput - Len(fed)) :
          \E bytes \in [1 .. n -> Byte] :
            IF partial_row_length + n > Size
            THEN pc' = "fault" /\ UNCHANGED <<partial_row_length, scanVars>>
            ELSE BeginScan(bytes) /\ pc' = "scan"
    BY <1>7 DEF Read
  <2>2. PICK bytes \in [1 .. n -> Byte] :
            IF partial_row_length + n > Size
            THEN pc' = "fault" /\ UNCHANGED <<partial_row_length, scanVars>>
            ELSE BeginScan(bytes) /\ pc' = "scan"
    BY <2>1
  <2>3. n \in Nat /\ n >= 1 /\ Len(bytes) = n
    BY DEF TypeOK, Smaller
  <2>4. /\ pc = "read"
        /\ UNCHANGED <<old_bytes_read, row_start, buffer_exceeded, truncated, abort, status>>
    BY <1>7 DEF Read, posVars, rowVars
  <2>5. old_bytes_read = 0 /\ row_start = 0 /\ status # "cancelled"
    BY <2>4 DEF StageInv
  <2>6. CASE partial_row_length + n > Size
    BY <2>2, <2>4, <2>5, <2>6 DEF StageInv, ReadHasRoom, CutShort
  <2>7. CASE ~(partial_row_length + n > Size)
    <3>1. /\ pc' = "scan" /\ partial_row_length' = 0 /\ ~skip_next_delim'
          /\ bytes_read' = partial_row_length + n
          /\ i' \in {partial_row_length, partial_row_length + 1}
      BY <2>2, <2>3, <2>7 DEF BeginScan
    <3>2. partial_row_length \in Nat /\ old_bytes_read' = 0 /\ row_start' = 0
      BY <2>4, <2>5 DEF TypeOK
    <3>3. /\ row_start' <= i' /\ i' <= bytes_read' /\ bytes_read' > 0
      BY <2>3, <3>1, <3>2
    <3>4. status' # "cancelled" /\ (buffer_exceeded' => truncated')
      BY <2>4, <2>5 DEF StageInv
    <3> QED BY <3>1, <3>2, <3>3, <3>4 DEF StageInv, ReadHasRoom, CutShort
  <2> QED BY <2>6, <2>7
<1>8. CASE SkipDoubledQuote
  BY <1>8 DEF SkipDoubledQuote, Scanning, NextByte, StageInv, ReadHasRoom, CutShort, TypeOK,
              bufVars, posVars, rowVars, onceVars
<1>9. CASE Plain
  BY <1>9 DEF Plain, Scanning, NextByte, StageInv, ReadHasRoom, CutShort, TypeOK,
              bufVars, posVars, rowVars, onceVars
<1>10. CASE EscapedSpecial
  BY <1>10 DEF EscapedSpecial, Visit, Scanning, NextByte, StageInv, ReadHasRoom, CutShort, TypeOK,
               bufVars, posVars, rowVars, onceVars
<1>11. CASE EndCell
  BY <1>11 DEF EndCell, Visit, Scanning, NextByte, StageInv, ReadHasRoom, CutShort, TypeOK, onceVars
<1>12. CASE IgnoreLf
  BY <1>12 DEF IgnoreLf, Visit, Scanning, NextByte, StageInv, ReadHasRoom, CutShort, TypeOK,
               bufVars, rowVars, onceVars
<1>13. CASE EndRow
  <2>1. pc = "scan" /\ i < bytes_read /\ ~skip_next_delim
    BY <1>13 DEF EndRow, AtRowEnd, Visit, Scanning
  <2>2. CASE abort'
    BY <1>13, <2>1, <2>2 DEF EndRow, StageInv, ReadHasRoom, CutShort, TypeOK, posVars, onceVars
  <2>3. CASE ~abort'
    BY <1>13, <2>1, <2>3 DEF EndRow, NextByte, StageInv, ReadHasRoom, CutShort, TypeOK, onceVars
  <2> QED BY <2>2, <2>3
<1>14. CASE FaultInCell
  BY <1>14 DEF FaultInCell, AtRowEnd, Visit, Scanning, StageInv, ReadHasRoom, CutShort, TypeOK,
               bufVars, posVars, rowVars, scanVars, onceVars
<1>15. CASE VisitQuote
  <2>1. /\ pc = "scan" /\ i < bytes_read /\ i' = i + 1
        /\ UNCHANGED <<buff, old_bytes_read, partial_row_length, row_start, bytes_read,
                       buffer_exceeded, truncated, abort, pc, status>>
    BY <1>15 DEF VisitQuote, Visit, Scanning, NextByte, bufVars, posVars, rowVars, onceVars
  <2>3. i \in 0 .. Size /\ bytes_read \in 0 .. Size
    BY DEF TypeOK
  <2>4. ~skip_next_delim
    BY <1>15 DEF VisitQuote, Visit
  <2>5. skip_next_delim' => i + 1 # bytes_read /\ buff[i + 1] = Quote
    BY <1>15, <2>4 DEF VisitQuote
  <2>2. skip_next_delim' => i + 1 < bytes_read /\ buff[i + 1] = Quote
    BY <2>1, <2>3, <2>5
  <2> QED BY <2>1, <2>2 DEF StageInv, ReadHasRoom, CutShort, TypeOK
<1>16. CASE EndScan
  BY <1>16 DEF EndScan, StageInv, ReadHasRoom, CutShort, Cursor, TypeOK, posVars, rowVars, onceVars
<1>17. CASE AbortBetweenCalls
  BY <1>17 DEF AbortBetweenCalls, StageInv, ReadHasRoom, CutShort, Cursor, TypeOK, bufVars, posVars,
               lengthVars, rowVars, scanVars, onceVars
<1>18. CASE Finish
  <2>1. pc' = "done" /\ UNCHANGED <<old_bytes_read, partial_row_length, truncated>>
    BY <1>18 DEF Finish, onceVars
  <2>2. status' = "cancelled" => abort'
    BY <1>18 DEF Finish
  <2>3. buffer_exceeded' => buffer_exceeded
    BY <1>18 DEF Finish, rowVars
  <2> QED BY <2>1, <2>2, <2>3 DEF StageInv, ReadHasRoom, CutShort
<1>19. CASE FaultInFinish
  BY <1>19 DEF FaultInFinish, MayFinish, StageInv, ReadHasRoom, CutShort, bufVars, posVars, rowVars,
               onceVars
<1>20. CASE UNCHANGED vars
  BY <1>20 DEF vars, StageInv, ReadHasRoom, CutShort, Cursor, bufVars, posVars, lengthVars, rowVars,
               scanVars, onceVars
<1> QED BY <1>1, <1>2, <1>3, <1>4, <1>5, <1>6, <1>7, <1>8, <1>9, <1>10, <1>11,
           <1>12, <1>13, <1>14, <1>15, <1>16, <1>17, <1>18, <1>19, <1>20
        DEF Next, PreParse, Scan

(* A new parser is at the start of a row. *)
LEMMA RowInit == ASSUME Init PROVE RowInv
<1>1. DOMAIN cells = {} /\ Cursor = 0 /\ cell_start = 0 /\ row_start = 0 /\ quoted = {}
  BY DEF Init, Cursor
<1> QED BY <1>1 DEF RowInv, OrderInv, CellsInRow, QuoteInv, CrInv, Open

(* Inside a row, a cell that ends at byte i is a slice of the bytes from
   cell_start to i, found without touching any byte from i on. *)
LEMMA CellSound ==
  ASSUME TypeOK, RowInv, InRow, pc = "scan", i < bytes_read, ~Open
  PROVE  /\ CellHere.fault = FALSE
         /\ cell_start <= CellHere.str /\ CellHere.str + CellHere.len <= i
         /\ \A k \in 0 .. Size - 1 : k >= i => CellHere.buff[k] = buff[k]
<1> USE SizeAssumption
<1>1. OrderInv /\ QuoteInv /\ Cursor = i
  BY DEF RowInv, Cursor
<1>2. /\ cell_start \in 0 .. Size /\ i \in 0 .. Size /\ cell_start <= i
      /\ quote_close_position \in SizeT /\ buff \in Buffer
  BY <1>1 DEF TypeOK, OrderInv
<1> DEFINE n == i - cell_start
<1>3. n \in SizeT /\ cell_start + n = i
  BY <1>2 DEF SizeT
<1>4. Wrap(i - cell_start) = n
  BY <1>3, WrapSmall
<1>5. \/ quoted = {}
      \/ quote_close_position = 0 /\ n # 1
      \/ quote_close_position > 0 /\ quote_close_position < n
  BY <1>1, <1>2 DEF QuoteInv, SizeT
<1>6. CellHere = Unquote(quoted, quote_close_position, cell_start, n)
  BY <1>4 DEF CellHere
<1>7. cell_start + n <= Size
  BY <1>2
<1>8. /\ buff \in Buffer /\ quote_close_position \in SizeT /\ cell_start \in 0 .. Size
      /\ n \in SizeT /\ cell_start + n <= Size
  BY <1>2, <1>3, <1>7
<1>9. LET u == Unquote(quoted, quote_close_position, cell_start, n) IN
        /\ u.fault = FALSE
        /\ cell_start <= u.str /\ u.str + u.len <= cell_start + n
  <2> HIDE DEF n
  <2> QED BY ONLY <1>8, <1>5, UnquoteFacts
<1>10. ASSUME NEW k \in 0 .. Size - 1, k >= cell_start + n
       PROVE  Unquote(quoted, quote_close_position, cell_start, n).buff[k] = buff[k]
  <2> HIDE DEF n
  <2> QED BY ONLY <1>8, <1>5, <1>10, UnquoteKeeps
<1> QED BY <1>3, <1>6, <1>9, <1>10

(* The same of the last cell, which zsv_finish ends. *)
LEMMA FinalCellSound ==
  ASSUME TypeOK, StageInv, RowInv, MayFinish, HasFinalCell, ~buffer_exceeded
  PROVE  FinalCell.fault = FALSE
<1> USE SizeAssumption
<1>1. pc = "idle" /\ ~abort /\ status # "cancelled"
  BY DEF MayFinish, HasFinalCell, StageInv
<1>2. OrderInv /\ QuoteInv
  BY <1>1 DEF RowInv, InRow, CutShort
<1>3. scanned_length = Cursor /\ partial_row_length < Size
  BY <1>1 DEF StageInv, CutShort
<1>4. /\ cell_start \in 0 .. Size /\ Cursor \in 0 .. Size /\ cell_start <= Cursor
      /\ quote_close_position \in SizeT /\ buff \in Buffer
      /\ partial_row_length \in 0 .. Size
  BY <1>1, <1>2, <1>3 DEF TypeOK, OrderInv, Cursor
<1>5. CASE ~ClosesOpenQuote
  <2> DEFINE n == Cursor - cell_start
  <2>1. FinalCell = Unquote(quoted, quote_close_position, cell_start, n)
    BY <1>3, <1>5 DEF FinalCell, FinalQuoted, FinalClosePosition, FinalLength
  <2>2. n \in SizeT /\ cell_start + n <= Size
    BY <1>4 DEF SizeT
  <2>3. CASE ~Open
    <3>1. \/ quoted = {}
          \/ quote_close_position = 0 /\ n # 1
          \/ quote_close_position > 0 /\ quote_close_position < n
      BY <1>2, <1>4, <2>3 DEF QuoteInv, SizeT
    <3>2. Unquote(quoted, quote_close_position, cell_start, n).fault = FALSE
      <4> HIDE DEF n
      <4> QED BY <1>4, <2>2, <3>1, UnquoteFacts
    <3> QED BY <2>1, <3>2
  <2>4. CASE Open
    <3>1. quote_close_position = 0 /\ ("EMBEDDED" \in quoted => n # 1)
      BY <1>2, <1>4, <2>4 DEF QuoteInv
    <3>2. Wrap(1) = 1
      BY WrapSmall DEF SizeT
    <3>3. CASE n # 1
      BY <2>1, <3>1, <3>2, <3>3 DEF Unquote
    <3>4. CASE n = 1
      BY <2>1, <3>1, <3>2, <3>4 DEF Unquote
    <3> QED BY <3>3, <3>4
  <2> QED BY <2>3, <2>4
<1>6. CASE ClosesOpenQuote
  <2> DEFINE close == partial_row_length - cell_start
             q == FinalQuoted
             n == FinalLength - cell_start
  <2>1. Open /\ cell_start < partial_row_length /\ FinalClosePosition = close
    BY <1>6 DEF ClosesOpenQuote, FinalClosePosition
  <2>2. Cursor = partial_row_length
    BY <1>1, <1>4, <2>1 DEF Cursor, StageInv
  <2>3. FinalCell = Unquote(q, close, cell_start, n)
    BY <2>1 DEF FinalCell
  <2>4. close \in 1 .. Size - 1 /\ cell_start + close + 1 <= Size
    BY <1>3, <1>4, <2>1
  <2>5. Wrap(close + 1) = close + 1 /\ q # {}
    BY <1>6, <2>4, WrapSmall DEF SizeT, FinalQuoted
  <2>6. CASE last # Quote
    <3>1. n = close + 1
      BY <1>3, <1>4, <1>6, <2>2, <2>6 DEF FinalLength
    <3>2. close < n /\ close > 0 /\ n \in SizeT /\ close \in SizeT /\ cell_start + n <= Size
      BY <1>4, <2>4, <3>1 DEF SizeT
    <3> HIDE DEF close, n
    <3> QED BY <1>4, <2>3, <3>2, UnquoteFacts
  <2>7. CASE last = Quote
    <3>1. n = close
      BY <1>3, <1>4, <1>6, <2>2, <2>7 DEF FinalLength
    <3>2. Wrap(close + 1) # n /\ ~(cell_start + 1 + close > Size) /\ close # 0
      BY <1>4, <2>4, <2>5, <3>1
    <3>3. CASE "EMBEDDED" \notin q
      BY <2>3, <2>5, <3>2, <3>3 DEF Unquote
    <3>4. CASE "EMBEDDED" \in q
      <4>1. "EMBEDDED" \in quoted
        BY <1>6, <3>4 DEF FinalQuoted
      <4>2. n >= 2
        BY <1>2, <1>4, <2>1, <2>2, <3>1, <4>1 DEF QuoteInv
      <4>3. Wrap(n - 2) = n - 2
        BY <2>4, <3>1, <4>2, WrapSmall DEF SizeT
      <4>4. ~(cell_start + 2 + Wrap(n - 2) > Size)
        BY <1>4, <2>4, <3>1, <4>3
      <4> QED BY <2>3, <2>5, <3>2, <3>4, <4>4 DEF Unquote
    <3> QED BY <3>3, <3>4
  <2> QED BY <2>6, <2>7
<1> QED BY <1>5, <1>6

(* Outside a truncated row, each step of a call keeps the order of the indices,
   the cells in their places, and the quote flags true of the bytes read. *)
LEMMA RowStep ==
  ASSUME TypeOK, TypeOK', StageInv, StageInv', RowInv, [Next]_vars
  PROVE  RowInv'
<1> USE SizeAssumption
<1> SUFFICES ASSUME InRow'
             PROVE  OrderInv' /\ CellsInRow' /\ QuoteInv' /\ CrInv'
  BY DEF RowInv
<1>0. /\ i \in 0 .. Size /\ bytes_read \in 0 .. Size
      /\ old_bytes_read \in 0 .. Size /\ partial_row_length \in 0 .. Size
      /\ row_start \in 0 .. Size /\ cell_start \in row_start .. Size
      /\ buff \in Buffer /\ DOMAIN buff = 0 .. Size - 1
      /\ cells \in Seq(Cell)
  BY DEF TypeOK, Buffer
<1>00. Cr # Lf /\ Cr # Quote /\ Cr # Delim
  BY SpecialsAssumption
\* A row that has just begun has no cells.
<1>d. ASSUME CellsInRow, row_start = cell_start PROVE DOMAIN cells = {}
  <2>1. ASSUME NEW k \in DOMAIN cells PROVE FALSE
    <3>1. cells[k] \in Cell
      BY <1>0
    <3>2. row_start <= cells[k].str /\ cells[k].str + cells[k].len < cell_start
      BY <1>d DEF CellsInRow
    <3>3. cells[k].str \in Nat /\ cells[k].len \in Nat
      BY <3>1 DEF Cell, SizeT
    <3> QED BY <1>0, <1>d, <3>2, <3>3
  <2> QED BY <2>1
\* Nothing that the invariant speaks of changes.
<1>a. ASSUME InRow, UNCHANGED <<Cursor, buff, cell_start, row_start, quoted,
                                quote_close_position, cells>>,
             pc' # "scan" \/ (pc = "scan" /\ UNCHANGED <<i, bytes_read>>)
      PROVE  OrderInv' /\ CellsInRow' /\ QuoteInv' /\ CrInv'
  <2>1. OrderInv /\ CellsInRow /\ QuoteInv /\ CrInv
    BY <1>a DEF RowInv
  <2>2. OrderInv' /\ CrInv' /\ CellsInRow'
    BY <1>a, <2>1 DEF OrderInv, CrInv, CellsInRow, Open
  <2>3. QuoteInv'
    BY <1>a, <2>1 DEF QuoteInv, Open
  <2> QED BY <2>2, <2>3
<1>1. CASE MovePartialRow
  <2> DEFINE d == row_start
             partial == old_bytes_read - d
  <2>1. /\ pc = "idle" /\ status # "cancelled" /\ d < old_bytes_read
        /\ old_bytes_read' = 0 /\ partial_row_length' = partial
        /\ pc' \in {"read", "truncate"} /\ row_start' = 0
        /\ UNCHANGED <<quoted, quote_close_position, buffer_exceeded, truncated, abort>>
    BY <1>1 DEF MovePartialRow, MayParse, EnterParse, onceVars
  <2>2. InRow
    BY <2>1, <1>0 DEF InRow, CutShort, StageInv
  <2>3. Cursor = old_bytes_read /\ Cursor' = partial
    BY <2>1, <1>0 DEF Cursor
  <2>4. OrderInv /\ CellsInRow /\ QuoteInv /\ CrInv
    BY <2>2 DEF RowInv
  <2>5. cell_start' = cell_start - d
    <3>1. cell_start - d \in SizeT
      BY <1>0 DEF SizeT
    <3> QED BY <1>1, <3>1, WrapSmall DEF MovePartialRow
  <2>6. buff'[partial - 1] = buff[old_bytes_read - 1]
    BY <1>0, <1>1, <2>1 DEF MovePartialRow
  <2>7. OrderInv'
    BY <1>0, <2>1, <2>3, <2>4, <2>5 DEF OrderInv
  <2>8. CellsInRow'
    <3>1. DOMAIN cells' = DOMAIN cells
      BY <1>1 DEF MovePartialRow, RebasedCells
    <3>2. ASSUME NEW k \in DOMAIN cells
          PROVE  /\ cells[k].str \in Nat /\ cells[k].len \in Nat
                 /\ cells'[k].str = cells[k].str - d /\ cells'[k].len = cells[k].len
      <4>1. cells[k] \in Cell
        BY <1>0
      <4>2. d <= cells[k].str
        BY <2>4 DEF CellsInRow
      <4>3. cells[k].str - d \in SizeT
        BY <1>0, <4>1, <4>2 DEF Cell, SizeT
      <4>4. cells'[k] = [cells[k] EXCEPT !.str = Wrap(cells[k].str - d)]
        BY <1>1 DEF MovePartialRow, RebasedCells
      <4> QED BY <4>1, <4>3, <4>4, WrapSmall DEF Cell, SizeT
    <3>3. \A k \in DOMAIN cells : \A j \in 1 .. k - 1 : j \in DOMAIN cells
      BY <1>0
    <3>4. ASSUME NEW k \in DOMAIN cells
          PROVE  /\ 0 <= cells'[k].str
                 /\ cells'[k].str + cells'[k].len < cell_start'
                 /\ \A j \in 1 .. k - 1 : cells'[j].str + cells'[j].len < cells'[k].str
      <4>1. /\ d <= cells[k].str /\ cells[k].str + cells[k].len < cell_start
            /\ \A j \in 1 .. k - 1 : cells[j].str + cells[j].len < cells[k].str
        BY <2>4 DEF CellsInRow
      <4>2. ASSUME NEW j \in 1 .. k - 1
            PROVE  cells'[j].str + cells'[j].len < cells'[k].str
        <5>1. j \in DOMAIN cells
          BY <3>3
        <5>2. /\ cells[j].str \in Nat /\ cells[j].len \in Nat
              /\ cells'[j].str = cells[j].str - d /\ cells'[j].len = cells[j].len
          BY <3>2, <5>1
        <5>3. cells[j].str + cells[j].len < cells[k].str
          BY <4>1
        <5>4. cells[k].str \in Nat /\ cells'[k].str = cells[k].str - d
          BY <3>2
        <5>5. d \in Nat
          BY <1>0
        <5> HIDE DEF d
        <5> QED BY <5>2, <5>3, <5>4, <5>5
      <4>3. 0 <= cells'[k].str /\ cells'[k].str + cells'[k].len < cell_start'
        <5>1. /\ cells[k].str \in Nat /\ cells[k].len \in Nat
              /\ cells'[k].str = cells[k].str - d /\ cells'[k].len = cells[k].len
          BY <3>2
        <5>2. d \in Nat /\ cell_start \in Nat
          BY <1>0
        <5> HIDE DEF d
        <5> QED BY <2>5, <4>1, <5>1, <5>2
      <4> QED BY <4>2, <4>3
    <3> QED BY <2>1, <3>1, <3>4 DEF CellsInRow
  <2>9. QuoteInv'
    <3>1. quote_close_position \in Nat
      BY DEF TypeOK, SizeT
    <3>2. /\ d \in Nat /\ cell_start \in Nat /\ old_bytes_read \in Nat
          /\ quoted' = quoted /\ quote_close_position' = quote_close_position
      BY <1>0, <2>1
    <3>3. Open' = Open
      BY <3>2 DEF Open
    <3>4. pc' # "scan"
      BY <2>1
    <3>5. Cursor' = Cursor - d /\ Cursor \in Nat /\ cell_start' = cell_start - d
      BY <2>3, <2>5, <3>2
    <3>6. buff'[Cursor' - 1] = buff[Cursor - 1]
      BY <2>3, <2>6
    <3>7. QuoteInv
      BY <2>4
    <3> HIDE DEF d
    <3>8. "PENDING" \in quoted' => /\ Open' /\ cell_start' + 2 <= Cursor'
                                   /\ buff'[Cursor' - 1] = Quote
      BY <3>2, <3>3, <3>5, <3>6, <3>7 DEF QuoteInv
    <3>9. quoted' # {} /\ ~Open' =>
            IF quote_close_position' = 0 THEN cell_start' + 2 <= Cursor'
            ELSE cell_start' + quote_close_position' < Cursor'
      BY <3>1, <3>2, <3>3, <3>5, <3>7 DEF QuoteInv
    <3>10. /\ Open' => quote_close_position' = 0 /\ cell_start' < Cursor'
           /\ Open' /\ "EMBEDDED" \in quoted' => cell_start' + 2 <= Cursor'
      BY <3>2, <3>3, <3>5, <3>7 DEF QuoteInv
    <3> QED BY <3>4, <3>8, <3>9, <3>10 DEF QuoteInv
  <2>10. CrInv'
    <3>1. cells = << >> => cells' = << >>
      BY <1>1 DEF MovePartialRow, RebasedCells
    <3> QED BY <1>0, <2>1, <2>3, <2>4, <2>5, <2>6, <3>1 DEF CrInv, Open
  <2> QED BY <2>7, <2>8, <2>9, <2>10
<1>2. CASE StartFreshRow
  <2>1. /\ pc = "idle" /\ status # "cancelled"
        /\ old_bytes_read > 0 /\ row_start >= old_bytes_read
        /\ old_bytes_read' = 0 /\ partial_row_length' = partial_row_length
        /\ pc' \in {"read", "truncate"} /\ cell_start' = 0 /\ row_start' = 0
        /\ quoted' = {} /\ UNCHANGED <<buff, cells, buffer_exceeded, truncated, abort>>
    BY <1>2 DEF StartFreshRow, MayParse, EnterParse, onceVars
  <2>2. InRow /\ Cursor = old_bytes_read
    BY <2>1 DEF InRow, CutShort, Cursor
  <2>3. OrderInv /\ CellsInRow
    BY <2>2 DEF RowInv
  <2>4. Cursor' = 0
    BY <2>1 DEF Cursor, StageInv
  <2>5. row_start = cell_start
    BY <1>0, <2>1, <2>2, <2>3 DEF OrderInv
  <2>6. DOMAIN cells = {}
    BY <1>d, <2>3, <2>5
  <2> QED BY <2>1, <2>4, <2>6 DEF OrderInv, CellsInRow, QuoteInv, CrInv, Open
<1>3. CASE StartEmpty
  <2>1. /\ InRow /\ old_bytes_read = 0 /\ Cursor' = Cursor /\ pc' # "scan"
    BY <1>3 DEF StartEmpty, MayParse, EnterParse, InRow, CutShort, Cursor, onceVars
  <2>2. UNCHANGED <<buff, cell_start, row_start, quoted, quote_close_position, cells>>
    BY <1>3 DEF StartEmpty, EnterParse, posVars
  <2> QED BY <1>a, <2>1, <2>2
<1>4. CASE TruncateRow
  BY <1>4 DEF TruncateRow, InRow, CutShort, StageInv
<1>5. CASE SkipBom
  BY <1>5, <1>a DEF SkipBom, InRow, CutShort, Cursor, bufVars, posVars, quoteVars, rowVars, scanVars
<1>6. CASE ReadNothing
  BY <1>6, <1>a DEF ReadNothing, InRow, CutShort, Cursor, bufVars, posVars, quoteVars, rowVars,
                    scanVars, StageInv
<1>7. CASE Read
  <2>1. PICK n \in 1 .. Smaller(capacity, MaxInput - Len(fed)) :
          \E bytes \in [1 .. n -> Byte] :
            IF partial_row_length + n > Size
            THEN pc' = "fault"
            ELSE /\ buff' = [ k \in DOMAIN buff |->
                               IF k >= partial_row_length /\ k < partial_row_length + n
                               THEN bytes[k - partial_row_length + 1] ELSE buff[k] ]
                 /\ BeginScan(bytes) /\ pc' = "scan"
    BY <1>7 DEF Read
  <2>2. PICK bytes \in [1 .. n -> Byte] :
            /\ ~(partial_row_length + n > Size)
            /\ buff' = [ k \in DOMAIN buff |->
                               IF k >= partial_row_length /\ k < partial_row_length + n
                               THEN bytes[k - partial_row_length + 1] ELSE buff[k] ]
            /\ BeginScan(bytes) /\ pc' = "scan"
    BY <2>1 DEF InRow
  <2>3. n \in Nat /\ n >= 1 /\ Len(bytes) = n
    BY DEF TypeOK, Smaller
  <2>4. /\ pc = "read"
        /\ UNCHANGED <<row_start, cell_start, cells, buffer_exceeded, truncated, abort, status>>
    BY <1>7 DEF Read, posVars, rowVars
  <2> DEFINE m == partial_row_length
             pending == "PENDING" \in quoted
             doubled == bytes[1] = Quote
  <2>5. InRow /\ Cursor = m /\ Cursor' = i'
    BY <2>2, <2>4 DEF InRow, CutShort, StageInv, Cursor
  <2>6. OrderInv /\ CellsInRow /\ QuoteInv /\ CrInv
    BY <2>5 DEF RowInv
  <2>7. buff'[m] = bytes[1] /\ (m > 0 => buff'[m - 1] = buff[m - 1])
    BY <1>0, <2>2, <2>3
  <2>8. i' = IF pending /\ doubled THEN m + 1 ELSE m
    BY <2>2 DEF BeginScan
  <2>9. OrderInv' /\ CellsInRow'
    BY <1>0, <2>4, <2>5, <2>6, <2>8 DEF OrderInv, CellsInRow
  <2>10. CASE ~pending
    <3>1. i' = m /\ quoted' = quoted /\ quote_close_position' = quote_close_position
      BY <2>2, <2>8, <2>10 DEF BeginScan
    <3>2. QuoteInv'
      BY <2>4, <2>5, <2>6, <2>10, <3>1 DEF QuoteInv, Open
    <3>3. CrInv'
      BY <1>0, <2>4, <2>5, <2>6, <2>7, <3>1 DEF CrInv, Open
    <3> QED BY <2>9, <3>2, <3>3
  <2>11. CASE pending /\ doubled
    <3>1. /\ i' = m + 1 /\ quote_close_position' = quote_close_position
          /\ quoted' = (quoted \ {"PENDING"}) \cup {"NEEDED", "EMBEDDED"}
      BY <2>2, <2>8, <2>11 DEF BeginScan
    <3>2. Open /\ cell_start + 2 <= m /\ quote_close_position = 0
      BY <2>5, <2>6, <2>11 DEF QuoteInv
    <3>3. "UNCLOSED" \in quoted' /\ "PENDING" \notin quoted'
      BY <3>1, <3>2 DEF Open
    <3>4. QuoteInv'
      BY <1>0, <2>4, <2>5, <3>1, <3>2, <3>3 DEF QuoteInv, Open
    <3>5. CrInv'
      BY <3>3 DEF CrInv, Open
    <3> QED BY <2>9, <3>4, <3>5
  <2>12. CASE pending /\ ~doubled
    <3>1. /\ i' = m /\ quote_close_position' = Wrap(m - cell_start - 1)
          /\ quoted' = ((quoted \ {"PENDING"}) \ {"UNCLOSED"}) \cup {"CLOSED"}
      BY <2>2, <2>8, <2>12 DEF BeginScan
    <3>2. cell_start + 2 <= m /\ buff[m - 1] = Quote
      BY <2>5, <2>6, <2>12 DEF QuoteInv
    <3>3. m - cell_start - 1 \in SizeT /\ m - cell_start - 1 > 0
      BY <1>0, <3>2 DEF SizeT
    <3>4. quote_close_position' = m - cell_start - 1
      BY <3>1, <3>3, WrapSmall
    <3>5. "UNCLOSED" \notin quoted' /\ "PENDING" \notin quoted'
      BY <3>1
    <3>6. QuoteInv'
      BY <1>0, <2>4, <2>5, <3>1, <3>2, <3>3, <3>4, <3>5 DEF QuoteInv, Open
    <3>7. CrInv'
      BY <1>0, <1>00, <2>4, <2>5, <2>7, <3>1, <3>2 DEF CrInv
    <3> QED BY <2>9, <3>6, <3>7
  <2> QED BY <2>10, <2>11, <2>12
\* A byte of the cell's content goes by.
<1>b. ASSUME Scanning, NextByte, buff[i] = Cr => Open,
             UNCHANGED <<pc, status, buffer_exceeded, truncated, abort, bufVars, posVars,
                         cells, quote_close_position>>,
             quoted' = quoted \/ (Open /\ quoted' = quoted \cup {"NEEDED"})
      PROVE  OrderInv' /\ CellsInRow' /\ QuoteInv' /\ CrInv'
  <2>1. /\ InRow /\ Cursor = i /\ Cursor' = i + 1 /\ i < bytes_read
        /\ i' = i + 1 /\ UNCHANGED <<buff, row_start, cell_start>>
    BY <1>b DEF InRow, CutShort, Scanning, NextByte, Cursor, bufVars, posVars
  <2>2. OrderInv /\ CellsInRow /\ QuoteInv /\ CrInv
    BY <2>1 DEF RowInv
  <2>3. OrderInv' /\ CellsInRow'
    BY <1>0, <1>b, <2>1, <2>2 DEF OrderInv, CellsInRow
  <2>4. /\ Open' = Open /\ "PENDING" \notin quoted'
        /\ (~Open => quoted' = quoted)
        /\ ("EMBEDDED" \in quoted' => "EMBEDDED" \in quoted)
    <3>1. "PENDING" \notin quoted
      BY <1>0, <1>b, <2>1, <2>2 DEF QuoteInv, Scanning
    <3> QED BY <1>b, <3>1 DEF Open
  <2>5. QuoteInv'
    <3>1. quote_close_position \in Nat
      BY DEF TypeOK, SizeT
    <3> QED BY <1>0, <1>b, <2>1, <2>2, <2>4, <3>1 DEF QuoteInv
  <2>6. CrInv'
    BY <1>0, <1>b, <2>1, <2>4 DEF CrInv
  <2> QED BY <2>3, <2>5, <2>6
<1>8. CASE SkipDoubledQuote
  BY <1>00, <1>8, <1>b DEF SkipDoubledQuote, Scanning, StageInv, quoteVars, rowVars, onceVars
<1>9. CASE Plain
  BY <1>9, <1>b DEF Plain, quoteVars, rowVars, onceVars
<1>10. CASE EscapedSpecial
  BY <1>10, <1>b DEF EscapedSpecial, Visit, rowVars, onceVars
<1>11. CASE EndCell
  <2>1. /\ pc = "scan" /\ pc' = "scan" /\ i < bytes_read /\ i' = i + 1 /\ buff[i] = Delim
        /\ ~Open /\ quoted' = {} /\ cell_start' = i + 1
        /\ buff' = CellHere.buff /\ cells' = AddCell(CellHere, quoted)
        /\ UNCHANGED <<row_start, status, buffer_exceeded, truncated>>
        /\ (abort => abort')
    BY <1>11 DEF EndCell, Visit, Scanning, NextByte, onceVars, MayAbortIn
  <2>2. InRow
    BY <2>1 DEF InRow, CutShort
  <2>3. OrderInv /\ CellsInRow /\ Cursor = i /\ Cursor' = i + 1
    BY <2>1, <2>2 DEF RowInv, Cursor
  <2>4. /\ cell_start <= CellHere.str /\ CellHere.str + CellHere.len <= i
        /\ CellHere.buff[i] = buff[i]
    BY <1>0, <2>1, <2>2, CellSound
  <2>5. CellHere.str \in Nat /\ CellHere.len \in Nat
    BY CellHereType DEF SizeT
  <2>6. OrderInv'
    BY <1>0, <2>1, <2>3 DEF OrderInv
  <2>7. CellsInRow'
    <3>1. ASSUME NEW k \in DOMAIN cells
          PROVE  /\ row_start <= cells[k].str
                 /\ cells[k].str + cells[k].len < cell_start
                 /\ cells[k].str + cells[k].len < i + 1
                 /\ cells[k].str + cells[k].len < CellHere.str
      <4>1. cells[k] \in Cell
        BY <1>0
      <4>2. cells[k].str \in Nat /\ cells[k].len \in Nat
        BY <4>1 DEF Cell, SizeT
      <4>3. row_start <= cells[k].str /\ cells[k].str + cells[k].len < cell_start
        BY <2>3 DEF CellsInRow
      <4> QED BY <1>0, <2>3, <2>4, <2>5, <4>2, <4>3 DEF OrderInv
    <3>2. CASE Len(cells) < MaxCols
      <4> DEFINE c == [str |-> CellHere.str, len |-> CellHere.len, quoted |-> quoted]
      <4>1. cells' = Append(cells, c)
        BY <2>1, <3>2 DEF AddCell
      <4>2. /\ DOMAIN cells' = 1 .. Len(cells) + 1
            /\ \A k \in 1 .. Len(cells) : cells'[k] = cells[k]
            /\ cells'[Len(cells) + 1] = c
        BY <1>0, <4>1
      <4>3. ASSUME NEW k \in 1 .. Len(cells) + 1
            PROVE  /\ row_start' <= cells'[k].str
                   /\ cells'[k].str + cells'[k].len < cell_start'
                   /\ \A j \in 1 .. k - 1 : cells'[j].str + cells'[j].len < cells'[k].str
        <5>1. CASE k \in 1 .. Len(cells)
          <6>1. \A j \in 1 .. k - 1 : cells'[j] = cells[j]
            BY <1>0, <4>2, <5>1
          <6>2. k \in DOMAIN cells /\ cells'[k] = cells[k]
            BY <1>0, <4>2, <5>1
          <6>3. \A j \in 1 .. k - 1 : cells[j].str + cells[j].len < cells[k].str
            BY <2>3, <6>2 DEF CellsInRow
          <6>4. \A j \in 1 .. k - 1 : cells'[j].str + cells'[j].len < cells'[k].str
            BY <6>1, <6>2, <6>3
          <6> QED BY <2>1, <3>1, <6>2, <6>4
        <5>2. CASE k = Len(cells) + 1
          <6>1. \A j \in 1 .. k - 1 : j \in DOMAIN cells /\ cells'[j] = cells[j]
            BY <1>0, <4>2, <5>2
          <6>2. row_start <= CellHere.str /\ CellHere.str + CellHere.len < i + 1
            BY <1>0, <2>3, <2>4, <2>5 DEF OrderInv
          <6> QED BY <2>1, <3>1, <4>2, <5>2, <6>1, <6>2
        <5> QED BY <1>0, <5>1, <5>2
      <4> QED BY <4>2, <4>3 DEF CellsInRow
    <3>3. CASE ~(Len(cells) < MaxCols)
      <4>1. cells' = cells
        BY <2>1, <3>3 DEF AddCell
      <4> QED BY <2>1, <2>3, <3>1, <4>1 DEF CellsInRow
    <3> QED BY <3>2, <3>3
  <2>8. QuoteInv'
    BY <2>1 DEF QuoteInv, Open
  <2>9. CrInv'
    BY <1>0, <1>00, <2>1, <2>3, <2>4 DEF CrInv
  <2> QED BY <2>6, <2>7, <2>8, <2>9
<1>12. CASE IgnoreLf
  <2>1. /\ pc = "scan" /\ pc' = "scan" /\ i < bytes_read /\ i' = i + 1 /\ buff[i] = Lf
        /\ ~Open /\ cell_start' = i + 1 /\ row_start' = i + 1
        /\ ScannerLast = Cr
        /\ UNCHANGED <<buff, quoted, cells, status, buffer_exceeded, truncated, abort>>
    BY <1>12 DEF IgnoreLf, Visit, Scanning, NextByte, bufVars, quoteVars, rowVars, onceVars
  <2>2. InRow
    BY <2>1 DEF InRow, CutShort
  <2>3. OrderInv /\ CellsInRow /\ QuoteInv /\ CrInv /\ Cursor = i /\ Cursor' = i + 1
    BY <2>1, <2>2 DEF RowInv, Cursor
  <2>4. cell_start = i /\ DOMAIN cells = {}
    <3>1. CASE i > 0
      BY <2>1, <2>3, <3>1 DEF CrInv, ScannerLast
    <3>2. CASE i = 0
      <4>1. cell_start = 0 /\ row_start = cell_start
        BY <1>0, <2>3, <3>2 DEF OrderInv
      <4> QED BY <1>d, <2>3, <3>2, <4>1
    <3> QED BY <1>0, <3>1, <3>2
  <2>5. quoted = {}
    <3>1. quote_close_position \in Nat
      BY DEF TypeOK, SizeT
    <3> QED BY <1>0, <2>1, <2>3, <2>4, <3>1 DEF QuoteInv
  <2>6. OrderInv' /\ CellsInRow'
    BY <1>0, <2>1, <2>3, <2>4 DEF OrderInv, CellsInRow
  <2>7. QuoteInv' /\ CrInv'
    BY <1>0, <1>00, <2>1, <2>3, <2>5 DEF QuoteInv, CrInv, Open
  <2> QED BY <2>6, <2>7
<1>13. CASE EndRow
  <2>1. ~abort'
    BY <1>13 DEF EndRow, InRow
  <2>2. /\ pc = "scan" /\ pc' = "scan" /\ i' = i + 1 /\ quoted' = {} /\ cells' = << >>
        /\ cell_start' = i + 1 /\ row_start' = i + 1
    BY <1>13, <2>1 DEF EndRow, RowDl, AtRowEnd, Visit, Scanning, NextByte
  <2>3. Cursor' = i + 1 /\ DOMAIN cells' = {}
    BY <2>2 DEF Cursor
  <2> QED BY <1>0, <2>2, <2>3 DEF OrderInv, CellsInRow, QuoteInv, CrInv, Open
<1>14. CASE FaultInCell
  BY <1>14 DEF FaultInCell, InRow
<1>15. CASE VisitQuote
  <2>1. /\ pc = "scan" /\ i < bytes_read /\ buff[i] = Quote /\ i' = i + 1
        /\ UNCHANGED <<pc, buff, row_start, cell_start, cells, status, buffer_exceeded,
                       truncated, abort, bytes_read>>
    BY <1>15 DEF VisitQuote, Visit, Scanning, NextByte, bufVars, posVars, rowVars, onceVars
  <2>2. InRow /\ ~buffer_exceeded
    BY <2>1 DEF InRow, CutShort
  <2>3. OrderInv /\ CellsInRow /\ QuoteInv /\ Cursor = i /\ Cursor' = i + 1
    BY <2>1, <2>2 DEF RowInv, Cursor
  <2>4. OrderInv' /\ CellsInRow'
    BY <1>0, <2>1, <2>3 DEF OrderInv, CellsInRow
  <2>5. CrInv'
    BY <1>0, <1>00, <2>1, <2>3 DEF CrInv
  <2>6. "PENDING" \notin quoted /\ cell_start <= i
    BY <1>0, <2>1, <2>3 DEF QuoteInv, OrderInv
  <2>7. CASE i = cell_start
    <3>1. quoted' = {"UNCLOSED"} /\ quote_close_position' = 0
      BY <1>15, <2>2, <2>7 DEF VisitQuote
    <3> QED BY <1>0, <2>1, <2>3, <2>4, <2>5, <2>7, <3>1 DEF QuoteInv, Open
  <2>8. CASE i # cell_start /\ Open /\ i + 1 = bytes_read
    <3>1. quoted' = quoted \cup {"PENDING"} /\ UNCHANGED quote_close_position
      BY <1>15, <2>2, <2>8 DEF VisitQuote
    <3> QED BY <1>0, <2>1, <2>3, <2>4, <2>5, <2>6, <2>8, <3>1 DEF QuoteInv, Open
  <2>9. CASE i # cell_start /\ Open /\ i + 1 # bytes_read /\ buff[i + 1] = Quote
    <3>1. quoted' = quoted \cup {"NEEDED", "EMBEDDED"} /\ UNCHANGED quote_close_position
      BY <1>15, <2>2, <2>9 DEF VisitQuote
    <3> QED BY <1>0, <2>1, <2>3, <2>4, <2>5, <2>6, <2>9, <3>1 DEF QuoteInv, Open
  <2>10. CASE i # cell_start /\ Open /\ i + 1 # bytes_read /\ buff[i + 1] # Quote
    <3>1. /\ quoted' = (quoted \ {"UNCLOSED"}) \cup {"CLOSED"}
          /\ quote_close_position' = Wrap(i - cell_start)
      BY <1>15, <2>2, <2>3, <2>10 DEF VisitQuote, QuoteInv
    <3>2. i - cell_start \in SizeT /\ i - cell_start > 0
      BY <1>0, <2>6, <2>10 DEF SizeT
    <3>3. quote_close_position' = i - cell_start
      BY <3>1, <3>2, WrapSmall
    <3> QED BY <1>0, <2>1, <2>3, <2>4, <2>5, <2>6, <3>1, <3>2, <3>3 DEF QuoteInv, Open
  <2>11. CASE i # cell_start /\ ~Open
    <3>1. quoted' = quoted \cup {"EMBEDDED"} /\ quote_close_position' = 0
      BY <1>15, <2>2, <2>11 DEF VisitQuote
    <3> QED BY <1>0, <2>1, <2>3, <2>4, <2>5, <2>6, <2>11, <3>1 DEF QuoteInv, Open
  <2> QED BY <2>7, <2>8, <2>9, <2>10, <2>11
<1>16. CASE EndScan
  <2>1. InRow /\ Cursor' = Cursor /\ pc' # "scan"
    BY <1>16, <1>0 DEF EndScan, InRow, CutShort, StageInv, Cursor, rowVars, onceVars
  <2>2. UNCHANGED <<buff, cell_start, row_start, quoted, quote_close_position, cells>>
    BY <1>16 DEF EndScan, posVars, quoteVars, rowVars
  <2> QED BY <1>a, <2>1, <2>2
<1>17. CASE AbortBetweenCalls
  BY <1>17, <1>a DEF AbortBetweenCalls, InRow, CutShort, Cursor, bufVars, posVars,
                     quoteVars, rowVars, scanVars, onceVars
<1>18. CASE Finish
  BY <1>18 DEF Finish, InRow
<1>19. CASE FaultInFinish
  BY <1>19 DEF FaultInFinish, InRow
<1>20. CASE UNCHANGED vars
  BY <1>20, <1>a DEF vars, InRow, CutShort, Cursor, bufVars, posVars, quoteVars, rowVars,
                     scanVars, onceVars
<1> QED BY <1>1, <1>2, <1>3, <1>4, <1>5, <1>6, <1>7, <1>8, <1>9, <1>10, <1>11,
           <1>12, <1>13, <1>14, <1>15, <1>16, <1>17, <1>18, <1>19, <1>20
        DEF Next, PreParse, Scan

----
(* Undefined behaviour.                                                     *)

(* No step of an untruncated parse faults: the cell it ends is sound. *)
LEMMA NoFaultStep ==
  ASSUME TypeOK, StageInv, ReadHasRoom, RowInv, NoFault, [Next]_vars
  PROVE  NoFault'
<1> USE SizeAssumption
<1> SUFFICES ASSUME pc # "fault", pc' = "fault", ~truncated PROVE FALSE
  <2>1. truncated => truncated'
    BY DEF Next, PreParse, Scan, MovePartialRow, StartFreshRow, StartEmpty, EnterParse,
           TruncateRow, SkipBom, ReadNothing, Read, SkipDoubledQuote, Plain,
           EscapedSpecial, EndCell, IgnoreLf, EndRow, FaultInCell, VisitQuote, EndScan,
           AbortBetweenCalls, Finish, FaultInFinish, vars, onceVars, TypeOK
  <2>2. pc = "fault" => truncated
    BY DEF NoFault
  <2> QED BY <2>1, <2>2 DEF NoFault
<1>1. ~buffer_exceeded
  BY DEF StageInv
<1>2. CASE Read
  <2>1. pc = "read" /\ partial_row_length + capacity = Size
    BY <1>2 DEF Read, ReadHasRoom, CutShort
  <2>2. PICK n \in 1 .. Smaller(capacity, MaxInput - Len(fed)) : partial_row_length + n > Size
    BY <1>2 DEF Read
  <2>3. n <= capacity
    BY <2>2 DEF TypeOK, Smaller
  <2> QED BY <2>1, <2>2, <2>3 DEF TypeOK
<1>3. CASE FaultInCell
  <2>1. pc = "scan" /\ i < bytes_read /\ ~Open /\ CellHere.fault
    BY <1>3 DEF FaultInCell, AtRowEnd, Visit, Scanning
  <2>2. InRow
    BY <1>1, <2>1 DEF InRow, CutShort, StageInv
  <2>3. CellHere.fault = FALSE
    BY <2>1, <2>2, CellSound
  <2> QED BY <2>1, <2>3
<1>4. CASE FaultInFinish
  <2>1. MayFinish /\ HasFinalCell /\ FinalCell.fault
    BY <1>4 DEF FaultInFinish
  <2>2. FinalCell.fault = FALSE
    BY <1>1, <2>1, FinalCellSound
  <2> QED BY <2>1, <2>2
<1>5. CASE EndRow
  BY <1>5 DEF EndRow
<1>6. ASSUME ~Read, ~FaultInCell, ~FaultInFinish, ~EndRow PROVE FALSE
  BY <1>6 DEF Next, PreParse, Scan, MovePartialRow, StartFreshRow, StartEmpty, EnterParse,
              TruncateRow, SkipBom, ReadNothing, SkipDoubledQuote, Plain,
              EscapedSpecial, EndCell, IgnoreLf, VisitQuote, EndScan,
              AbortBetweenCalls, Finish, vars
<1> QED BY <1>2, <1>3, <1>4, <1>5, <1>6

----
(* The theorems.                                                            *)

(* IInv, types and all parts of SafetyInv together, is inductive: the stage
   of the call bounds the indices, which bound the cells. *)
LEMMA Inductive == Spec => []IInv
<1>1. Init => IInv
  BY TypeInit, StageInit, RowInit DEF IInv, SafetyInv, NoFault, Init
<1>2. IInv /\ [Next]_vars => IInv'
  <2> SUFFICES ASSUME IInv, [Next]_vars PROVE IInv'
    OBVIOUS
  <2>1. TypeOK /\ StageInv /\ ReadHasRoom /\ RowInv /\ NoFault
    BY DEF IInv, SafetyInv
  <2>2. TypeOK'
    BY <2>1, TypeStep
  <2>3. StageInv' /\ ReadHasRoom'
    BY <2>1, <2>2, StageStep
  <2>4. RowInv'
    BY <2>1, <2>2, <2>3, RowStep
  <2>5. NoFault'
    BY <2>1, NoFaultStep
  <2> QED BY <2>2, <2>3, <2>4, <2>5 DEF IInv, SafetyInv
<1> QED BY <1>1, <1>2, PTL DEF Spec

(* Whatever the input, the chunks and the aborts, every offset of the scanner
   stays inside the buffer and every count and length inside its type, and the
   handlers are given cells of the declared type (scanner_pre_parse,
   zsv_scan_delim, cell_dl, row_dl, zsv_finish). *)
THEOREM TypeCorrect == Spec => []TypeOK
<1>1. IInv => TypeOK
  BY DEF IInv
<1> QED BY <1>1, Inductive, PTL

(* Until a row overflows the buffer no memmove of cell_dl and no read leaves
   it; the finished cells of a row lie in it one after the other, and the quote
   flags say what the bytes say, also across chunks (SafetyInv). *)
THEOREM Safety == Spec => []SafetyInv
<1>1. IInv => SafetyInv
  BY DEF IInv
<1> QED BY <1>1, Inductive, PTL

----
(* Cancelling.                                                              *)

(* After a call that returned cancelled there are only zsv_abort and zsv_finish, and
   zsv_finish delivers nothing. *)
LEMMA CancelledStep ==
  ASSUME TypeOK, StageInv, [Next]_vars, status = "cancelled"
  PROVE  UNCHANGED <<calls, cells>>
<1>1. abort /\ pc \in {"idle", "done", "fault"}
  BY DEF StageInv
<1>2. CASE Finish
  <2>1. ~DeliversFinalRow
    BY <1>1 DEF DeliversFinalRow
  <2> QED BY <1>2, <2>1 DEF Finish, rowVars
<1>3. CASE AbortBetweenCalls \/ FaultInFinish
  BY <1>3 DEF AbortBetweenCalls, FaultInFinish, rowVars
<1>4. CASE UNCHANGED vars
  BY <1>4 DEF vars, rowVars
<1>5. ~PreParse
  BY DEF PreParse, MovePartialRow, StartFreshRow, StartEmpty, MayParse
<1>6. ~TruncateRow /\ ~SkipBom /\ ~ReadNothing /\ ~Read
  BY <1>1 DEF TruncateRow, SkipBom, ReadNothing, Read
<1>7. ~Scan
  BY <1>1 DEF Scan, SkipDoubledQuote, Plain, EscapedSpecial, EndCell, IgnoreLf, EndRow,
              FaultInCell, VisitQuote, EndScan, AtRowEnd, Visit, Scanning
<1> QED BY <1>2, <1>3, <1>4, <1>5, <1>6, <1>7 DEF Next

(* A status of cancelled is the last word: no handler is called after it, whoever
   aborted, and no cell is added (zsv_parse_more, zsv_finish). *)
THEOREM CancelsForGood == Spec => CancelledIsFinal
<1>1. IInv /\ [Next]_vars => [status = "cancelled" => UNCHANGED <<calls, cells>>]_vars
  BY CancelledStep DEF IInv, SafetyInv
<1> QED BY <1>1, Inductive, PTL DEF Spec, CancelledIsFinal

----
(* What CsvRows makes of a sequence of bytes, one byte at a time.           *)

(* A set of numbers that is not empty has a least one. *)
LEMMA LeastNumber ==
  ASSUME NEW S, S \subseteq Nat, S # {}
  PROVE  \E m \in S : \A k \in S : m <= k
<1> DEFINE less == {p \in Nat \X Nat : p[1] < p[2]}
<1>1. less = OpToRel(<, Nat)
  BY Zenon DEF OpToRel
<1>2. IsWellFoundedOn(less, Nat)
  BY <1>1, NatLessThanWellFounded
<1> HIDE DEF less
<1>3. PICK m \in S : \A k \in S : ~(<<k, m>> \in less)
  BY <1>2, WFMin
<1>4. \A j, k \in Nat : j < k => <<j, k>> \in less
  BY DEF less
<1>5. ASSUME NEW k \in S  PROVE  m <= k
  <2>1. k \in Nat /\ m \in Nat
    OBVIOUS
  <2>2. ~(k < m)
    BY <1>3, <1>4, <2>1, Zenon
  <2> QED BY <2>1, <2>2
<1> QED BY <1>5

(* Those states exist for every number of bytes. *)
LEMMA RunExists ==
  ASSUME NEW bytes, NEW m \in Nat
  PROVE  \E f : Runs(f, bytes, m)
<1> DEFINE Without == {n \in Nat : ~\E f : Runs(f, bytes, n)}
<1>1. SUFFICES ASSUME Without # {}
               PROVE  FALSE
  OBVIOUS
<1>2. PICK n \in Without : \A k \in Without : n <= k
  BY <1>1, LeastNumber
<1>3. n # 0
  <2> DEFINE f == [j \in 0 .. 0 |-> Promise!Start]
  <2>1. Runs(f, bytes, 0)
    BY DEF Runs
  <2> QED BY <2>1
<1>4. n - 1 \in Nat /\ n - 1 \notin Without
  BY <1>2, <1>3
<1>5. PICK g : Runs(g, bytes, n - 1)
  BY <1>4
<1> DEFINE f == [j \in 0 .. n |-> IF j < n THEN g[j] ELSE Promise!AddToRow(g[n - 1], bytes[n])]
<1>6. ASSUME NEW j \in 0 .. n
      PROVE  f[j] = IF j = 0 THEN Promise!Start ELSE Promise!AddToRow(f[j - 1], bytes[j])
  <2>1. CASE j = n
    BY <1>3, <1>4, <2>1
  <2>2. CASE j < n
    <3>1. j \in 0 .. n - 1
      BY <2>2
    <3>2. g[j] = IF j = 0 THEN Promise!Start ELSE Promise!AddToRow(g[j - 1], bytes[j])
      BY <1>5, <3>1 DEF Runs
    <3>3. f[j] = g[j] /\ (j # 0 => f[j - 1] = g[j - 1])
      BY <2>2, <3>1
    <3> QED BY <3>2, <3>3
  <2> QED BY <2>1, <2>2
<1>7. Runs(f, bytes, n)
  <2>1. f = [j \in 0 .. n |-> f[j]]
    OBVIOUS
  <2> HIDE DEF f
  <2> QED BY <1>6, <2>1 DEF Runs
<1> QED BY <1>2, <1>7

(* ... and depend on those bytes only: two runs over the same bytes agree. *)
LEMMA RunUnique ==
  ASSUME NEW b, NEW c, NEW f, NEW g, NEW m \in Nat, NEW n \in Nat, m <= n,
         Runs(f, b, m), Runs(g, c, n), \A j \in 1 .. m : b[j] = c[j]
  PROVE  \A j \in 0 .. m : f[j] = g[j]
<1> DEFINE Apart == {j \in 0 .. m : f[j] # g[j]}
<1>1. SUFFICES ASSUME Apart # {}
               PROVE  FALSE
  OBVIOUS
<1>a. Apart \subseteq Nat
  OBVIOUS
<1>2. PICK j \in Apart : \A k \in Apart : j <= k
  <2> HIDE DEF Apart
  <2> QED BY <1>1, <1>a, LeastNumber
<1>3. /\ f[j] = IF j = 0 THEN Promise!Start ELSE Promise!AddToRow(f[j - 1], b[j])
      /\ g[j] = IF j = 0 THEN Promise!Start ELSE Promise!AddToRow(g[j - 1], c[j])
  <2>1. j \in 0 .. m /\ j \in 0 .. n
    OBVIOUS
  <2> QED BY <2>1 DEF Runs
<1>4. j # 0
  BY <1>3
<1>5. j - 1 \in 0 .. m /\ j - 1 \notin Apart /\ b[j] = c[j]
  BY <1>2, <1>4
<1> QED BY <1>3, <1>4, <1>5

(* Parse ends in the last of those states. *)
LEMMA ParseIsRun ==
  ASSUME NEW bytes, Len(bytes) \in Nat, NEW f, Runs(f, bytes, Len(bytes))
  PROVE  Promise!Parse(bytes) = f[Len(bytes)]
<1> DEFINE g == CHOOSE g : Runs(g, bytes, Len(bytes))
<1>1. Runs(g, bytes, Len(bytes))
  OBVIOUS
<1>2. Promise!Parse(bytes) = g[Len(bytes)]
  BY DEF Promise!Parse, Runs
<1> HIDE DEF g
<1>3. \A j \in 0 .. Len(bytes) : g[j] = f[j]
  BY <1>1, RunUnique
<1> QED BY <1>2, <1>3

(* Parse reads the bytes from left to right. *)
LEMMA ParseNothing == Promise!Parse(<<>>) = Promise!Start
<1>1. PICK f : Runs(f, <<>>, Len(<<>>))
  BY RunExists
<1> QED BY <1>1, ParseIsRun DEF Runs

(* One more byte is one more step: the recursion, unfolded at its end. *)
LEMMA ParseOneMore ==
  ASSUME NEW T, NEW bytes \in Seq(T), NEW c
  PROVE  Promise!Parse(Append(bytes, c)) = Promise!AddToRow(Promise!Parse(bytes), c)
<1> DEFINE more == Append(bytes, c)
           m    == Len(bytes)
<1>1. /\ m \in Nat /\ Len(more) = m + 1 /\ more[m + 1] = c
      /\ \A j \in 1 .. m : bytes[j] = more[j]
  OBVIOUS
<1> HIDE DEF more, m
<1>2. PICK f : Runs(f, bytes, m)
  BY <1>1, RunExists
<1>3. PICK g : Runs(g, more, m + 1)
  <2>1. m + 1 \in Nat
    BY <1>1
  <2> QED BY <2>1, RunExists
<1>4. f[m] = g[m]
  BY <1>1, <1>2, <1>3, RunUnique
<1>5. g[m + 1] = Promise!AddToRow(g[m], c)
  BY <1>1, <1>3 DEF Runs
<1>6. Promise!Parse(bytes) = f[m] /\ Promise!Parse(more) = g[m + 1]
  BY <1>1, <1>2, <1>3, ParseIsRun DEF m
<1> QED BY <1>4, <1>5, <1>6 DEF more

----
(* The doubled quotes that cell_dl takes out of a cell.                      *)

(* Every other quote of a run is removed. *)
LEMMA DroppedStep ==
  ASSUME NEW b, NEW s \in Int, NEW k \in Int, k >= s, b[k] = Quote
  PROVE  Dropped(b, s, k) <=> (k > s /\ b[k - 1] = Quote /\ ~Dropped(b, s, k - 1))
<1> DEFINE Run(j) == RunOfQuotes(b, s, j)
<1>1. IsFiniteSet(Run(k - 1)) /\ k \notin Run(k - 1)
  <2>1. Run(k - 1) \subseteq s .. k - 1 /\ IsFiniteSet(s .. k - 1)
    BY FS_Interval DEF RunOfQuotes
  <2> QED BY <2>1, FS_Subset
<1>2. CASE k > s /\ b[k - 1] = Quote
  <2>1. Run(k) = Run(k - 1) \cup {k}
    BY <1>2 DEF RunOfQuotes
  <2>2. Cardinality(Run(k)) = Cardinality(Run(k - 1)) + 1 /\ Cardinality(Run(k - 1)) \in Nat
    BY <1>1, <2>1, FS_AddElement, FS_CardinalityType
  <2>3. \A n \in Nat : (n + 1) % 2 = 0 <=> ~(n % 2 = 0)
    OBVIOUS
  <2> HIDE DEF Run
  <2>4. Cardinality(Run(k)) % 2 = 0 <=> ~(Cardinality(Run(k - 1)) % 2 = 0)
    BY <2>2, <2>3
  <2> QED BY <1>2, <2>4 DEF Dropped, Run
<1>3. CASE ~(k > s /\ b[k - 1] = Quote)
  <2>1. ASSUME NEW m \in Run(k)
        PROVE  m = k
    <3>1. m \in s .. k /\ \A j \in m .. k : b[j] = Quote
      BY <2>1 DEF RunOfQuotes
    <3>2. ASSUME m # k
          PROVE  FALSE
      <4>1. k - 1 \in m .. k
        BY <3>1, <3>2
      <4>2. k > s
        BY <3>1, <3>2
      <4> QED BY <1>3, <3>1, <4>1, <4>2
    <3> QED BY <3>2
  <2>2. k \in Run(k)
    <3>1. k \in s .. k /\ \A j \in k .. k : b[j] = Quote
      OBVIOUS
    <3> QED BY <3>1 DEF RunOfQuotes
  <2>3. Run(k) = {k}
    BY <2>1, <2>2
  <2>4. Cardinality(Run(k)) = 1
    BY <2>3, FS_Singleton
  <2> QED BY <1>3, <2>4 DEF Dropped
<1> QED BY <1>2, <1>3

(* The count of dropped quotes, from one position to the next. *)
LEMMA BeforeStep ==
  ASSUME NEW b, NEW s \in Int, NEW k \in Int, k >= s
  PROVE  /\ Before(b, s, s) = 0
         /\ Before(b, s, k) \in Nat
         /\ Before(b, s, k + 1) = Before(b, s, k) + (IF Dropped(b, s, k) THEN 1 ELSE 0)
<1> DEFINE S(j) == {d \in s .. j - 1 : Dropped(b, s, d)}
<1>1. S(s) = {} /\ Before(b, s, s) = 0
  BY FS_EmptySet DEF Before
<1>2. IsFiniteSet(S(k)) /\ k \notin S(k)
  <2>1. S(k) \subseteq s .. k - 1 /\ IsFiniteSet(s .. k - 1)
    BY FS_Interval
  <2> QED BY <2>1, FS_Subset
<1>3. S(k + 1) = IF Dropped(b, s, k) THEN S(k) \cup {k} ELSE S(k)
  <2>1. s .. (k + 1) - 1 = (s .. k - 1) \cup {k}
    OBVIOUS
  <2> QED BY <2>1
<1> HIDE DEF S
<1>4. Before(b, s, k) = Cardinality(S(k)) /\ Before(b, s, k + 1) = Cardinality(S(k + 1))
  BY DEF Before, S
<1> QED BY <1>1, <1>2, <1>3, <1>4, FS_AddElement, FS_CardinalityType

(* Where the bytes are in memory does not matter. *)
LEMMA DroppedMoved ==
  ASSUME NEW b, NEW c, NEW s \in Int, NEW e \in Int, NEW d \in Int,
         \A m \in s .. e - 1 : c[m + d] = b[m]
  PROVE  \A k \in s .. e - 1 : Dropped(c, s + d, k + d) <=> Dropped(b, s, k)
<1> DEFINE Off == {n \in Nat : s + n < e /\ ~(Dropped(c, s + d, s + n + d) <=> Dropped(b, s, s + n))}
<1>1. Off = {}
  <2> SUFFICES ASSUME Off # {}
               PROVE  FALSE
    OBVIOUS
  <2>a. Off \subseteq Nat
    OBVIOUS
  <2>1. PICK n \in Off : \A j \in Off : n <= j
    <3> HIDE DEF Off
    <3> QED BY <2>a, LeastNumber
  <2> DEFINE k == s + n
  <2>2. k \in s .. e - 1 /\ c[k + d] = b[k] /\ k + d >= s + d
    OBVIOUS
  <2>3. CASE b[k] # Quote
    BY <2>2, <2>3 DEF Dropped
  <2>4. CASE b[k] = Quote
    <3>1. /\ Dropped(b, s, k) <=> (k > s /\ b[k - 1] = Quote /\ ~Dropped(b, s, k - 1))
          /\ Dropped(c, s + d, k + d) <=>
               (k + d > s + d /\ c[k + d - 1] = Quote /\ ~Dropped(c, s + d, k + d - 1))
      BY <2>2, <2>4, DroppedStep
    <3>2. CASE k = s
      BY <3>1, <3>2
    <3>3. CASE k > s
      <4>1. n - 1 \in Nat /\ s + (n - 1) < e /\ n - 1 \notin Off
        BY <2>1, <3>3
      <4>2. s + (n - 1) = k - 1 /\ s + (n - 1) + d = k + d - 1 /\ k - 1 \in s .. e - 1
        BY <4>1
      <4>3. Dropped(c, s + d, k + d - 1) <=> Dropped(b, s, k - 1)
        BY <4>1, <4>2
      <4>4. c[k + d - 1] = b[k - 1]
        <5>1. (k - 1) + d = k + d - 1
          OBVIOUS
        <5> QED BY <4>2, <5>1
      <4>5. k + d > s + d
        BY <3>3
      <4> QED BY <3>1, <3>3, <4>3, <4>4, <4>5
    <3> QED BY <2>2, <3>2, <3>3
  <2> QED BY <2>3, <2>4
<1>2. ASSUME NEW k \in s .. e - 1
      PROVE  Dropped(c, s + d, k + d) <=> Dropped(b, s, k)
  <2>1. k - s \in Nat /\ s + (k - s) = k /\ s + (k - s) < e /\ s + (k - s) + d = k + d
    OBVIOUS
  <2>2. k - s \notin Off
    BY <1>1
  <2> QED BY <2>1, <2>2
<1> QED BY <1>2

(* ... and after the bytes have been moved within the buffer. *)
LEMMA BeforeMoved ==
  ASSUME NEW b, NEW c, NEW s \in Int, NEW e \in Int, NEW d \in Int,
         \A m \in s .. e - 1 : c[m + d] = b[m]
  PROVE  \A k \in s .. e : Before(c, s + d, k + d) = Before(b, s, k)
<1> DEFINE Off == {n \in Nat : s + n <= e /\ Before(c, s + d, s + n + d) # Before(b, s, s + n)}
<1>1. Off = {}
  <2> SUFFICES ASSUME Off # {}
               PROVE  FALSE
    OBVIOUS
  <2>a. Off \subseteq Nat
    OBVIOUS
  <2>1. PICK n \in Off : \A j \in Off : n <= j
    <3> HIDE DEF Off
    <3> QED BY <2>a, LeastNumber
  <2>2. n # 0
    <3>1. Before(b, s, s) = 0 /\ Before(c, s + d, s + d) = 0
      BY BeforeStep
    <3>2. s + 0 = s /\ s + 0 + d = s + d
      OBVIOUS
    <3> QED BY <3>1, <3>2
  <2> DEFINE k == s + (n - 1)
  <2>3. n - 1 \in Nat /\ k \in s .. e - 1 /\ n - 1 \notin Off
    BY <2>1, <2>2
  <2>4. Before(c, s + d, k + d) = Before(b, s, k)
    BY <2>3
  <2>5. Dropped(c, s + d, k + d) <=> Dropped(b, s, k)
    <3>1. \A j \in s .. e - 1 : Dropped(c, s + d, j + d) <=> Dropped(b, s, j)
      BY DroppedMoved
    <3> QED BY <2>3, <3>1
  <2>6. /\ Before(b, s, k + 1) = Before(b, s, k) + (IF Dropped(b, s, k) THEN 1 ELSE 0)
        /\ Before(c, s + d, (k + d) + 1)
             = Before(c, s + d, k + d) + (IF Dropped(c, s + d, k + d) THEN 1 ELSE 0)
    <3>1. k \in Int /\ k >= s /\ k + d \in Int /\ k + d >= s + d /\ s + d \in Int
      BY <2>3
    <3> HIDE DEF k
    <3> QED BY <3>1, BeforeStep
  <2>7. k + 1 = s + n /\ (k + d) + 1 = s + n + d
    BY <2>3
  <2> QED BY <2>4, <2>5, <2>6, <2>7
<1>2. ASSUME NEW k \in s .. e
      PROVE  Before(c, s + d, k + d) = Before(b, s, k)
  <2>1. k - s \in Nat /\ s + (k - s) = k /\ s + (k - s) <= e /\ s + (k - s) + d = k + d
    OBVIOUS
  <2>2. k - s \notin Off
    BY <1>1
  <2> QED BY <2>1, <2>2
<1> QED BY <1>2

----
(* A cell with its doubled quotes taken out, and remove_doubled_quotes. *)

(* No bytes are left of none, *)
LEMMA SqueezeNothing ==
  ASSUME NEW b, NEW s \in Int
  PROVE  Squeezed(b, s, s, <<>>)
<1>1. Before(b, s, s) = 0
  BY BeforeStep
<1> QED BY <1>1 DEF Squeezed

(* one more byte that is kept is appended, *)
LEMMA SqueezeKeep ==
  ASSUME NEW b, NEW s \in Int, NEW e \in Int, s <= e, NEW v,
         Squeezed(b, s, e, v), ~Dropped(b, s, e), b[e] \in Byte \cup {Junk}
  PROVE  Squeezed(b, s, e + 1, Append(v, b[e]))
<1> DEFINE w == Append(v, b[e])
<1>1. /\ v \in Seq(Byte \cup {Junk}) /\ w \in Seq(Byte \cup {Junk}) /\ Len(w) = Len(v) + 1
      /\ \A j \in 1 .. Len(v) : w[j] = v[j]
      /\ w[Len(v) + 1] = b[e]
      /\ Len(v) \in Nat
  BY DEF Squeezed
<1>2. /\ Before(b, s, e) \in Nat
      /\ Before(b, s, e + 1) = Before(b, s, e)
  BY BeforeStep
<1>3. Len(v) = e - s - Before(b, s, e)
  BY DEF Squeezed
<1>4. e - Before(b, s, e) - s + 1 = Len(w) /\ Len(w) = (e + 1) - s - Before(b, s, e + 1)
  BY <1>1, <1>2, <1>3
<1>5. ASSUME NEW m \in s .. (e + 1) - 1, ~Dropped(b, s, m)
      PROVE  /\ m - Before(b, s, m) - s + 1 \in 1 .. Len(w)
             /\ w[m - Before(b, s, m) - s + 1] = b[m]
  <2>1. CASE m = e
    BY <1>1, <1>4, <2>1
  <2>2. CASE m # e
    <3>1. m \in s .. e - 1
      BY <2>2
    <3>2. /\ m - Before(b, s, m) - s + 1 \in 1 .. Len(v)
          /\ v[m - Before(b, s, m) - s + 1] = b[m]
      BY <1>5, <3>1 DEF Squeezed
    <3> DEFINE p == m - Before(b, s, m) - s + 1
    <3> HIDE DEF p, w
    <3>3. p \in 1 .. Len(v) /\ v[p] = b[m]
      BY <3>2 DEF p
    <3>4. p \in 1 .. Len(w) /\ w[p] = b[m]
      BY <1>1, <3>3
    <3> QED BY <3>4 DEF p
  <2> QED BY <2>1, <2>2
<1>6. ASSUME NEW j \in 1 .. Len(w)
      PROVE  \E m \in s .. (e + 1) - 1 : ~Dropped(b, s, m) /\ m - Before(b, s, m) - s + 1 = j
  <2>1. CASE j = Len(w)
    <3>1. e \in s .. (e + 1) - 1
      OBVIOUS
    <3> QED BY <1>4, <2>1, <3>1
  <2>2. CASE j # Len(w)
    <3>1. j \in 1 .. Len(v)
      BY <1>1, <2>2
    <3>2. PICK m \in s .. e - 1 : ~Dropped(b, s, m) /\ m - Before(b, s, m) - s + 1 = j
      BY <3>1 DEF Squeezed
    <3>3. m \in s .. (e + 1) - 1
      OBVIOUS
    <3> QED BY <3>2, <3>3
  <2> QED BY <2>1, <2>2
<1> HIDE DEF w
<1>7. Squeezed(b, s, e + 1, w)
  BY <1>1, <1>4, <1>5, <1>6 DEF Squeezed
<1> QED BY <1>7 DEF w

(* one more byte that is dropped changes nothing, *)
LEMMA SqueezeDrop ==
  ASSUME NEW b, NEW s \in Int, NEW e \in Int, s <= e, NEW v, Dropped(b, s, e)
  PROVE  Squeezed(b, s, e + 1, v) <=> Squeezed(b, s, e, v)
<1>1. Before(b, s, e + 1) = Before(b, s, e) + 1 /\ Before(b, s, e) \in Nat
  BY BeforeStep
<1>2. (e + 1) - s - Before(b, s, e + 1) = e - s - Before(b, s, e)
  BY <1>1
<1>3. \A m : m \in s .. (e + 1) - 1 /\ ~Dropped(b, s, m) <=> m \in s .. e - 1 /\ ~Dropped(b, s, m)
  OBVIOUS
<1> QED BY <1>2, <1>3 DEF Squeezed

(* and where the bytes lie in the buffer does not matter. *)
LEMMA SqueezeMoved ==
  ASSUME NEW b, NEW c, NEW s \in Int, NEW e \in Int, s <= e, NEW d \in Int, NEW v,
         Squeezed(b, s, e, v), \A m \in s .. e - 1 : c[m + d] = b[m]
  PROVE  Squeezed(c, s + d, e + d, v)
<1>1. \A k \in s .. e : Before(c, s + d, k + d) = Before(b, s, k) /\ Before(b, s, k) \in Nat
  <2>1. \A k \in s .. e : Before(c, s + d, k + d) = Before(b, s, k)
    BY BeforeMoved
  <2> QED BY <2>1, BeforeStep
<1>2. \A k \in s .. e - 1 : Dropped(c, s + d, k + d) <=> Dropped(b, s, k)
  BY DroppedMoved
<1>3. Len(v) = (e + d) - (s + d) - Before(c, s + d, e + d)
  <2>1. Before(c, s + d, e + d) = Before(b, s, e) /\ Before(b, s, e) \in Nat
    BY <1>1
  <2> QED BY <2>1 DEF Squeezed
<1>4. ASSUME NEW m \in s + d .. (e + d) - 1, ~Dropped(c, s + d, m)
      PROVE  /\ m - Before(c, s + d, m) - (s + d) + 1 \in 1 .. Len(v)
             /\ v[m - Before(c, s + d, m) - (s + d) + 1] = c[m]
  <2> DEFINE k == m - d
  <2>1. k \in s .. e - 1 /\ k \in s .. e /\ k + d = m
    OBVIOUS
  <2> HIDE DEF k
  <2>2. ~Dropped(b, s, k) /\ Before(c, s + d, m) = Before(b, s, k) /\ c[m] = b[k]
        /\ Before(b, s, k) \in Nat
    BY <1>1, <1>2, <1>4, <2>1
  <2>3. k - Before(b, s, k) - s + 1 \in 1 .. Len(v) /\ v[k - Before(b, s, k) - s + 1] = b[k]
    BY <2>1, <2>2 DEF Squeezed
  <2>4. k - Before(b, s, k) - s + 1 = m - Before(c, s + d, m) - (s + d) + 1
    BY <2>1, <2>2
  <2> QED BY <2>2, <2>3, <2>4
<1>5. ASSUME NEW j \in 1 .. Len(v)
      PROVE  \E m \in s + d .. (e + d) - 1 :
               ~Dropped(c, s + d, m) /\ m - Before(c, s + d, m) - (s + d) + 1 = j
  <2>1. PICK k \in s .. e - 1 : ~Dropped(b, s, k) /\ k - Before(b, s, k) - s + 1 = j
    BY DEF Squeezed
  <2>2. k + d \in s + d .. (e + d) - 1 /\ ~Dropped(c, s + d, k + d)
    BY <1>2, <2>1
  <2>3. Before(c, s + d, k + d) = Before(b, s, k) /\ Before(b, s, k) \in Nat
    BY <1>1
  <2>4. (k + d) - Before(c, s + d, k + d) - (s + d) + 1 = j
    BY <2>1, <2>3
  <2> QED BY <2>2, <2>4
<1>6. v \in Seq(Byte \cup {Junk})
  BY DEF Squeezed
<1> QED BY <1>3, <1>4, <1>5, <1>6 DEF Squeezed

(* Nothing is left out where there is no quote. *)
LEMMA SqueezePlain ==
  ASSUME NEW b, NEW s \in Int, NEW e \in Int, s <= e, NEW v,
         Squeezed(b, s, e, v), \A m \in s .. e - 1 : b[m] # Quote
  PROVE  v = [j \in 1 .. e - s |-> b[s + j - 1]]
<1>1. \A k \in s .. e - 1 : ~Dropped(b, s, k)
  BY DEF Dropped
<1>2. \A k \in s .. e : Before(b, s, k) = 0
  <2>. SUFFICES ASSUME NEW k \in s .. e
                PROVE  {d \in s .. k - 1 : Dropped(b, s, d)} = {}
    BY FS_EmptySet DEF Before
  <2>1. \A d \in s .. k - 1 : d \in s .. e - 1
    OBVIOUS
  <2> QED BY <1>1, <2>1
<1>3. Len(v) = e - s /\ v \in Seq(Byte \cup {Junk})
  BY <1>2 DEF Squeezed
<1>4. ASSUME NEW j \in 1 .. e - s
      PROVE  v[j] = b[s + j - 1]
  <2>1. s + j - 1 \in s .. e - 1 /\ Before(b, s, s + j - 1) = 0
    BY <1>2
  <2>2. (s + j - 1) - Before(b, s, s + j - 1) - s + 1 = j
    BY <2>1
  <2> QED BY <1>1, <2>1, <2>2 DEF Squeezed
<1> QED BY <1>3, <1>4

(* cell_dl's loop leaves what unescaping leaves. *)
LEMMA RemoveDoubledSqueezes ==
  ASSUME NEW b \in Buffer, NEW s \in Nat, NEW n \in Nat, s + n <= Size, NEW v,
         Squeezed(b, s, s + n, v)
  PROVE  LET r == RemoveDoubled(b, s, n) IN
         /\ r.len = Len(v)
         /\ \A j \in 1 .. Len(v) : r.buff[s + j - 1] = v[j]
         /\ \A k \in 0 .. s - 1 : r.buff[k] = b[k]
<1> DEFINE D == DoubledQuotes(b, s, n)
           kept == (s .. s + n - 1) \ D
           NewPlace(m) == m - Cardinality({d \in D : d < m})
           From(k) == {m \in kept : NewPlace(m) = k}
           r == RemoveDoubled(b, s, n)
<1>0. s \in Int /\ n \in Int /\ s + n \in Int /\ Size \in Nat
  BY SizeAssumption
<1>1. \A m \in s .. s + n - 1 : m \in D <=> Dropped(b, s, m)
  BY DEF DoubledQuotes, Dropped
<1>2. \A m \in s .. s + n : {d \in D : d < m} = {d \in s .. m - 1 : Dropped(b, s, d)}
  <2>. SUFFICES ASSUME NEW m \in s .. s + n, NEW d
                PROVE  (d \in D /\ d < m) <=> (d \in s .. m - 1 /\ Dropped(b, s, d))
    OBVIOUS
  <2>1. d \in D => d \in s .. s + n - 1
    BY DEF DoubledQuotes
  <2>2. d \in s .. m - 1 => d \in s .. s + n - 1
    OBVIOUS
  <2>3. d \in s .. s + n - 1 => (d < m <=> d \in s .. m - 1)
    OBVIOUS
  <2> HIDE DEF D
  <2> QED BY <1>1, <2>1, <2>2, <2>3
<1>3. \A m \in s .. s + n : NewPlace(m) = m - Before(b, s, m)
  BY <1>2 DEF Before
<1>4. Cardinality(D) = Before(b, s, s + n)
  <2>1. D = {d \in D : d < s + n}
    BY DEF DoubledQuotes
  <2>2. s + n \in s .. s + n
    BY <1>0
  <2>3. {d \in D : d < s + n} = {d \in s .. (s + n) - 1 : Dropped(b, s, d)}
    BY <1>2, <2>2
  <2> HIDE DEF D
  <2> QED BY <2>1, <2>3 DEF Before
<1>5. r.len = n - Cardinality(D)
  BY DEF RemoveDoubled
<1>6. r.buff = [k \in 0 .. Size - 1 |->
                  IF From(k) = {} THEN b[k] ELSE b[CHOOSE m \in From(k) : TRUE]]
  BY DEF RemoveDoubled, Buffer
<1> HIDE DEF D, r
<1>7. r.len = Len(v)
  <2>1. Before(b, s, s + n) \in Nat
    BY <1>0, BeforeStep
  <2> QED BY <1>0, <1>4, <1>5, <2>1 DEF Squeezed
<1>8. ASSUME NEW m \in kept
      PROVE  /\ m \in s .. s + n - 1 /\ ~Dropped(b, s, m)
             /\ NewPlace(m) - s + 1 \in 1 .. Len(v)
             /\ v[NewPlace(m) - s + 1] = b[m]
             /\ NewPlace(m) \in Int
  <2>1. m \in s .. s + n - 1 /\ ~Dropped(b, s, m) /\ m \in s .. s + n
    BY <1>1
  <2>2. NewPlace(m) = m - Before(b, s, m)
    BY <1>3, <2>1
  <2>3. Before(b, s, m) \in Nat
    BY <2>1, BeforeStep
  <2> HIDE DEF NewPlace
  <2> QED BY <2>1, <2>2, <2>3 DEF Squeezed
<1>9. ASSUME NEW j \in 1 .. Len(v)
      PROVE  r.buff[s + j - 1] = v[j]
  <2>1. PICK m \in s .. (s + n) - 1 : ~Dropped(b, s, m) /\ m - Before(b, s, m) - s + 1 = j
    BY DEF Squeezed
  <2>2. m \in kept /\ m \in s .. s + n
    BY <1>1, <2>1
  <2>3. NewPlace(m) = s + j - 1 /\ s + j - 1 \in 0 .. Size - 1
    <3>1. NewPlace(m) = m - Before(b, s, m)
      BY <1>3, <2>2
    <3>2. Before(b, s, m) \in Nat
      BY <2>1, BeforeStep
    <3> HIDE DEF NewPlace
    <3> QED BY <1>0, <2>1, <3>1, <3>2
  <2> DEFINE x == CHOOSE x \in From(s + j - 1) : TRUE
  <2>4. From(s + j - 1) # {}
    BY <2>2, <2>3
  <2>5. x \in kept /\ NewPlace(x) = s + j - 1
    <3>1. x \in From(s + j - 1)
      BY <2>4
    <3> QED BY <3>1
  <2>6. r.buff[s + j - 1] = b[x]
    BY <1>6, <2>3, <2>4
  <2> HIDE DEF x, NewPlace, kept
  <2>7. v[NewPlace(x) - s + 1] = b[x]
    BY <1>8, <2>5
  <2>8. NewPlace(x) - s + 1 = j
    BY <2>5
  <2> QED BY <2>6, <2>7, <2>8
<1>10. ASSUME NEW k \in 0 .. s - 1
       PROVE  r.buff[k] = b[k]
  <2>1. ASSUME NEW m \in From(k)
        PROVE  FALSE
    <3>1. m \in kept /\ NewPlace(m) = k
      OBVIOUS
    <3> HIDE DEF NewPlace, kept
    <3>2. NewPlace(m) - s + 1 >= 1
      <4>1. NewPlace(m) - s + 1 \in 1 .. Len(v)
        BY <1>8, <3>1
      <4> QED BY <4>1
    <3> QED BY <3>1, <3>2
  <2>2. From(k) = {} /\ k \in 0 .. Size - 1
    BY <1>0, <2>1
  <2> HIDE DEF From
  <2> QED BY <1>6, <2>2
<1> QED BY <1>7, <1>9, <1>10 DEF r

----
(* The states that CsvRows reads a byte from, and what AddToRow does. *)

(* Parse starts in a state of its type. *)
LEMMA StartType ==
  /\ Promise!Start \in ReadState
  /\ Promise!EmptyCell \in ReadCell
<1>1. <<>> \in Content /\ <<>> \in Seq(Content) /\ <<>> \in Seq(Seq(Content))
  BY DEF Content
<1> QED BY <1>1 DEF Promise!Start, Promise!EmptyCell, ReadState, ReadCell, Mode

(* One more byte of content. *)
LEMMA AddByteFacts ==
  ASSUME NEW cell \in ReadCell, NEW c \in Byte \cup {Junk}
  PROVE  LET q == Promise!AddByte(cell, c) IN
         /\ q \in ReadCell
         /\ q.mode = Promise!NextMode(cell.mode, c)
         /\ q.value = IF c = Quote /\ cell.mode \in {"start", "open"} THEN cell.value
                      ELSE Append(cell.value, c)
         /\ q.raw = Append(cell.raw, c)
<1> DEFINE q == Promise!AddByte(cell, c)
<1>1. cell.mode \in Mode /\ cell.value \in Content /\ cell.raw \in Content
  BY DEF ReadCell
<1>2. Append(cell.value, c) \in Content /\ Append(cell.raw, c) \in Content
  BY <1>1 DEF Content
<1>3. Promise!NextMode(cell.mode, c) \in Mode
  BY <1>1, Zenon DEF Promise!NextMode, Mode
<1>4. q = [mode |-> Promise!NextMode(cell.mode, c),
           value |-> IF c = Quote /\ cell.mode \in {"start", "open"} THEN cell.value
                     ELSE Append(cell.value, c),
           raw |-> Append(cell.raw, c)]
  BY DEF Promise!AddByte
<1> DEFINE value == IF c = Quote /\ cell.mode \in {"start", "open"} THEN cell.value
                    ELSE Append(cell.value, c)
<1>5. value \in Content
  BY <1>1, <1>2
<1>6. q = [mode |-> Promise!NextMode(cell.mode, c), value |-> value, raw |-> Append(cell.raw, c)]
  BY <1>4
<1> HIDE DEF q, value
<1>7. /\ q \in ReadCell /\ q.mode = Promise!NextMode(cell.mode, c) /\ q.value = value
      /\ q.raw = Append(cell.raw, c)
  BY <1>2, <1>3, <1>5, <1>6 DEF ReadCell
<1> QED BY <1>7 DEF q, value

(* A byte is content, ends a cell, ends a row or belongs to the line end before
   it. *)
LEMMA AddContent ==
  ASSUME NEW p \in ReadState, NEW c \in Byte \cup {Junk},
         p.cell.mode = "open" \/ c \notin {Delim, Cr, Lf},
         p.afterCr => c # Lf
  PROVE  LET q == Promise!AddToRow(p, c) IN
         /\ q \in ReadState
         /\ q.rows = p.rows /\ q.cells = p.cells
         /\ q.cell = Promise!AddByte(p.cell, c)
         /\ q.length = p.length + 1 /\ q.begun = TRUE /\ q.afterCr = FALSE
<1> DEFINE q == Promise!AddToRow(p, c)
<1>1. q = [p EXCEPT !.cell = Promise!AddByte(p.cell, c), !.length = p.length + 1,
                    !.begun = TRUE, !.afterCr = FALSE]
  BY SpecialsAssumption DEF Promise!AddToRow
<1>2. Promise!AddByte(p.cell, c) \in ReadCell
  BY AddByteFacts DEF ReadState
<1> DEFINE cell == Promise!AddByte(p.cell, c)
<1> HIDE DEF q, cell
<1>3. cell \in ReadCell /\ p.length + 1 \in Nat
  BY <1>2 DEF cell, ReadState
<1>4. q = [p EXCEPT !.cell = cell, !.length = p.length + 1, !.begun = TRUE, !.afterCr = FALSE]
  BY <1>1 DEF cell
<1>5. /\ q \in ReadState /\ q.rows = p.rows /\ q.cells = p.cells /\ q.cell = cell
      /\ q.length = p.length + 1 /\ q.begun = TRUE /\ q.afterCr = FALSE
  BY <1>3, <1>4 DEF ReadState
<1> QED BY <1>5 DEF q, cell

(* What closing a cell does, field by field. *)
LEMMA CloseCellFacts ==
  ASSUME NEW p \in ReadState
  PROVE  LET q == Promise!CloseCell(p) IN
         /\ q \in ReadState
         /\ q.rows = p.rows
         /\ q.cells = IF Len(p.cells) < MaxCols THEN Append(p.cells, Promise!ValueOf(p.cell))
                      ELSE p.cells
         /\ q.cell = Promise!EmptyCell
         /\ q.length = p.length + 1 /\ q.begun = TRUE /\ q.afterCr = FALSE
         /\ Promise!ValueOf(p.cell) \in Content
<1> DEFINE q == Promise!CloseCell(p)
           more == IF Len(p.cells) < MaxCols THEN Append(p.cells, Promise!ValueOf(p.cell))
                   ELSE p.cells
<1>1. q = [p EXCEPT !.cells = more, !.cell = Promise!EmptyCell, !.length = p.length + 1,
                    !.begun = TRUE, !.afterCr = FALSE]
  BY DEF Promise!CloseCell
<1>2. Promise!ValueOf(p.cell) \in Content
  BY DEF Promise!ValueOf, ReadState, ReadCell
<1>3. more \in Seq(Content)
  BY <1>2 DEF ReadState
<1> DEFINE empty == Promise!EmptyCell
<1> HIDE DEF q, more, empty
<1>a. empty \in ReadCell /\ p.length + 1 \in Nat
  BY StartType DEF empty, ReadState
<1>b. q = [p EXCEPT !.cells = more, !.cell = empty, !.length = p.length + 1,
                    !.begun = TRUE, !.afterCr = FALSE]
  BY <1>1 DEF empty
<1>4. /\ q \in ReadState /\ q.rows = p.rows /\ q.cells = more /\ q.cell = empty
      /\ q.length = p.length + 1 /\ q.begun = TRUE /\ q.afterCr = FALSE
  BY <1>3, <1>a, <1>b DEF ReadState
<1> QED BY <1>2, <1>4 DEF q, more, empty

(* A delimiter outside of quotes closes the cell, *)
LEMMA AddDelim ==
  ASSUME NEW p \in ReadState, p.cell.mode # "open"
  PROVE  Promise!AddToRow(p, Delim) = Promise!CloseCell(p)
BY DEF Promise!AddToRow

(* a line end outside of quotes closes the row, *)
LEMMA AddRowEnd ==
  ASSUME NEW p \in ReadState, p.cell.mode # "open", NEW c \in {Cr, Lf}, ~(c = Lf /\ p.afterCr)
  PROVE  LET q == Promise!AddToRow(p, c) IN
         /\ q \in ReadState
         /\ q.rows = Append(p.rows, Promise!CloseCell(p).cells)
         /\ q.cells = <<>> /\ q.cell = Promise!EmptyCell
         /\ q.length = 0 /\ q.begun = FALSE /\ (q.afterCr <=> c = Cr)
<1> DEFINE q == Promise!AddToRow(p, c)
           rows == Append(p.rows, Promise!CloseCell(p).cells)
<1>1. q = [Promise!Start EXCEPT !.rows = rows, !.afterCr = (c = Cr)]
  <2>1. c # Delim
    BY SpecialsAssumption
  <2>2. q = Promise!CloseRow(p, c)
    BY <2>1 DEF Promise!AddToRow
  <2> QED BY <2>2, CloseCellFacts DEF Promise!CloseRow
<1>2. rows \in Seq(Seq(Content))
  <2> DEFINE end == Promise!CloseCell(p)
  <2>1. end \in ReadState
    BY CloseCellFacts
  <2> HIDE DEF end
  <2>2. p.rows \in Seq(Seq(Content)) /\ end.cells \in Seq(Content)
    BY <2>1 DEF ReadState
  <2>3. Append(p.rows, end.cells) \in Seq(Seq(Content))
    BY <2>2
  <2> QED BY <2>3 DEF end
<1> HIDE DEF q, rows
<1>3. /\ q \in ReadState /\ q.rows = rows /\ q.cells = <<>> /\ q.cell = Promise!EmptyCell
      /\ q.length = 0 /\ q.begun = FALSE /\ q.afterCr = (c = Cr)
  BY <1>1, <1>2, StartType DEF ReadState, Promise!Start
<1> QED BY <1>3 DEF q, rows

(* and the line feed of a CR LF pair adds nothing. *)
LEMMA AddLf ==
  ASSUME NEW p \in ReadState, p.afterCr
  PROVE  LET q == Promise!AddToRow(p, Lf) IN
         /\ q \in ReadState
         /\ q.rows = p.rows /\ q.cells = p.cells /\ q.cell = p.cell
         /\ q.length = p.length /\ q.begun = p.begun /\ q.afterCr = FALSE
<1>1. Promise!AddToRow(p, Lf) = [p EXCEPT !.afterCr = FALSE]
  BY SpecialsAssumption DEF Promise!AddToRow
<1> QED BY <1>1 DEF ReadState

----
(* What the parser keeps of a cell, and what CsvRows does: the relation. *)

(* A cell without bytes agrees with the specification's empty cell. *)
LEMMA CellRelStart ==
  ASSUME NEW b, NEW cs \in Nat, NEW close, NEW more
  PROVE  CellRel(Promise!EmptyCell, b, cs, cs, {}, close, FALSE, more)
<1>1. [j \in 1 .. cs - cs |-> b[cs + j - 1]] = <<>>
  OBVIOUS
<1> QED BY <1>1 DEF CellRel, Promise!EmptyCell

(* Bytes without a quote are without one wherever they are moved. *)
LEMMA NoQuoteMoved ==
  ASSUME NEW b, NEW c, NEW s \in Int, NEW e \in Int, NEW d \in Int,
         \A m \in s .. e - 1 : c[m + d] = b[m], NoQuote(b, s, e)
  PROVE  NoQuote(c, s + d, e + d)
<1>1. ASSUME NEW m \in s + d .. (e + d) - 1
      PROVE  c[m] # Quote
  <2>1. m - d \in s .. e - 1 /\ (m - d) + d = m
    OBVIOUS
  <2> QED BY <2>1 DEF NoQuote
<1> QED BY <1>1 DEF NoQuote

(* What was read does not depend on where it is. *)
LEMMA CellRelMoved ==
  ASSUME NEW b \in Buffer, NEW c \in Buffer, NEW cs \in Nat, NEW k \in Nat, NEW d \in Int,
         k <= Size, cs + d >= 0, k + d <= Size,
         \A m \in cs .. k - 1 : c[m + d] = b[m],
         NEW cell, NEW q, NEW close \in Nat, NEW more,
         CellRel(cell, b, cs, k, q, close, FALSE, FALSE)
  PROVE  CellRel(cell, c, cs + d, k + d, q, close, FALSE, more)
<1> DEFINE sb == ShiftRight(b, cs, close)
           sc == ShiftRight(c, cs + d, close)
<1>0. cs <= k /\ Size \in Nat
  BY SizeAssumption DEF CellRel
<1>1. cell.raw = [j \in 1 .. (k + d) - (cs + d) |-> c[(cs + d) + j - 1]]
  <2>1. \A j \in 1 .. k - cs : c[(cs + d) + j - 1] = b[cs + j - 1]
    <3>1. \A j \in 1 .. k - cs : cs + j - 1 \in cs .. k - 1 /\ (cs + j - 1) + d = (cs + d) + j - 1
      OBVIOUS
    <3> QED BY <3>1
  <2>2. (k + d) - (cs + d) = k - cs
    OBVIOUS
  <2> QED BY <2>1, <2>2 DEF CellRel
<1>2. CASE cell.mode = "start"
  BY <1>0, <1>1, <1>2 DEF CellRel
<1>3. CASE cell.mode = "bare"
  BY <1>0, <1>1, <1>3 DEF CellRel
<1>4. CASE cell.mode = "open"
  <2>1. /\ k > cs /\ "UNCLOSED" \in q /\ "PENDING" \notin q /\ close = 0
        /\ Squeezed(b, cs + 1, k, cell.value)
        /\ k > cs + 1 /\ b[k - 1] = Quote => Dropped(b, cs + 1, k - 1)
        /\ "EMBEDDED" \notin q => NoQuote(b, cs + 1, k)
    BY <1>4 DEF CellRel
  <2>2. \A m \in cs + 1 .. k - 1 : c[m + d] = b[m]
    OBVIOUS
  <2>3. Squeezed(c, (cs + 1) + d, k + d, cell.value)
    <3>1. cs + 1 \in Int /\ cs + 1 <= k
      BY <2>1
    <3> DEFINE s == cs + 1
               e == k
    <3> HIDE DEF s, e
    <3>2. s \in Int /\ e \in Int /\ s <= e /\ Squeezed(b, s, e, cell.value)
          /\ \A m \in s .. e - 1 : c[m + d] = b[m]
      BY <2>1, <2>2, <3>1 DEF s, e
    <3>3. Squeezed(c, s + d, e + d, cell.value)
      BY <3>2, SqueezeMoved
    <3> QED BY <3>3 DEF s, e
  <2>4. ASSUME k > cs + 1, c[(k - 1) + d] = Quote
        PROVE  Dropped(c, (cs + 1) + d, (k - 1) + d)
    <3>1. k - 1 \in cs + 1 .. k - 1
      BY <2>4
    <3>2. Dropped(b, cs + 1, k - 1)
      BY <2>1, <2>2, <2>4, <3>1
    <3> DEFINE s == cs + 1
               j == k - 1
    <3> HIDE DEF s, j
    <3>3. s \in Int /\ j \in s .. k - 1 /\ Dropped(b, s, j) /\ \A m \in s .. k - 1 : c[m + d] = b[m]
      BY <2>2, <3>1, <3>2 DEF s, j
    <3>4. Dropped(c, s + d, j + d)
      BY <3>3, DroppedMoved
    <3> QED BY <3>4 DEF s, j
  <2>5. ASSUME "EMBEDDED" \notin q
        PROVE  NoQuote(c, (cs + 1) + d, k + d)
    BY <2>1, <2>2, <2>5, NoQuoteMoved
  <2>6. (cs + 1) + d = (cs + d) + 1 /\ (k - 1) + d = (k + d) - 1
    OBVIOUS
  <2>7. /\ Squeezed(c, (cs + d) + 1, k + d, cell.value)
        /\ k + d > (cs + d) + 1 /\ c[(k + d) - 1] = Quote => Dropped(c, (cs + d) + 1, (k + d) - 1)
        /\ "EMBEDDED" \notin q => NoQuote(c, (cs + d) + 1, k + d)
    BY <2>3, <2>4, <2>5, <2>6
  <2> QED BY <1>0, <1>1, <1>4, <2>1, <2>7 DEF CellRel
<1>5. CASE cell.mode = "quote"
  <2>1. /\ k >= cs + 2 /\ b[k - 1] = Quote /\ ~Dropped(b, cs + 1, k - 1)
        /\ Squeezed(b, cs + 1, k - 1, cell.value)
        /\ "EMBEDDED" \notin q => NoQuote(b, cs + 1, k - 1)
        /\ "UNCLOSED" \in q /\ close = 0 /\ "PENDING" \in q
    BY <1>5 DEF CellRel
  <2>2. \A m \in cs + 1 .. (k - 1) - 1 : c[m + d] = b[m]
    OBVIOUS
  <2>3. Squeezed(c, (cs + 1) + d, (k - 1) + d, cell.value)
    <3>1. k - 1 \in Int /\ cs + 1 \in Int /\ cs + 1 <= k - 1
      BY <2>1
    <3> DEFINE s == cs + 1
               e == k - 1
    <3> HIDE DEF s, e
    <3>2. s \in Int /\ e \in Int /\ s <= e /\ Squeezed(b, s, e, cell.value)
          /\ \A m \in s .. e - 1 : c[m + d] = b[m]
      BY <2>1, <2>2, <3>1 DEF s, e
    <3>3. Squeezed(c, s + d, e + d, cell.value)
      BY <3>2, SqueezeMoved
    <3> QED BY <3>3 DEF s, e
  <2>4. c[(k - 1) + d] = Quote /\ ~Dropped(c, (cs + 1) + d, (k - 1) + d)
    <3>1. k - 1 \in cs + 1 .. k - 1 /\ \A m \in cs + 1 .. k - 1 : c[m + d] = b[m]
      BY <2>1
    <3> DEFINE s == cs + 1
               j == k - 1
    <3> HIDE DEF s, j
    <3>2. s \in Int /\ j \in s .. k - 1 /\ ~Dropped(b, s, j) /\ b[j] = Quote
          /\ \A m \in s .. k - 1 : c[m + d] = b[m]
      BY <2>1, <3>1 DEF s, j
    <3>3. ~Dropped(c, s + d, j + d) /\ c[j + d] = Quote
      BY <3>2, DroppedMoved
    <3> QED BY <3>3 DEF s, j
  <2>5. ASSUME "EMBEDDED" \notin q
        PROVE  NoQuote(c, (cs + 1) + d, (k - 1) + d)
    <3> DEFINE s == cs + 1
               e == k - 1
    <3> HIDE DEF s, e
    <3>1. s \in Int /\ e \in Int /\ NoQuote(b, s, e) /\ \A m \in s .. e - 1 : c[m + d] = b[m]
      BY <2>1, <2>2, <2>5 DEF s, e
    <3>2. NoQuote(c, s + d, e + d)
      BY <3>1, NoQuoteMoved
    <3> QED BY <3>2 DEF s, e
  <2>6. (cs + 1) + d = (cs + d) + 1 /\ (k - 1) + d = (k + d) - 1
    OBVIOUS
  <2>7. /\ Squeezed(c, (cs + d) + 1, (k + d) - 1, cell.value)
        /\ c[(k + d) - 1] = Quote /\ ~Dropped(c, (cs + d) + 1, (k + d) - 1)
        /\ "EMBEDDED" \notin q => NoQuote(c, (cs + d) + 1, (k + d) - 1)
        /\ k + d >= (cs + d) + 2
    BY <2>1, <2>3, <2>4, <2>5, <2>6
  <2> QED BY <1>0, <1>1, <1>5, <2>1, <2>7 DEF CellRel
<1>6. CASE cell.mode = "after"
  <2>1. /\ "UNCLOSED" \notin q /\ q # {} /\ 0 < close /\ cs + close + 1 < k
        /\ Squeezed(sb, cs + 2, k, cell.value)
        /\ "EMBEDDED" \notin q => NoQuote(sb, cs + 2, k)
    BY <1>6 DEF CellRel
  <2>2. ASSUME NEW m \in cs + 2 .. k - 1
        PROVE  sc[m + d] = sb[m]
    <3>1. m \in 0 .. Size - 1 /\ m + d \in 0 .. Size - 1
      BY <1>0
    <3>2. /\ sb[m] = IF m > cs /\ m <= cs + close THEN b[m - 1] ELSE b[m]
          /\ sc[m + d] = IF m + d > cs + d /\ m + d <= (cs + d) + close
                         THEN c[(m + d) - 1] ELSE c[m + d]
      BY <3>1 DEF ShiftRight, Buffer
    <3>3. m - 1 \in cs .. k - 1 /\ m \in cs .. k - 1 /\ (m - 1) + d = (m + d) - 1
      OBVIOUS
    <3>4. c[(m + d) - 1] = b[m - 1] /\ c[m + d] = b[m]
      BY <3>3
    <3>5. m + d > cs + d /\ m > cs /\ (m + d <= (cs + d) + close <=> m <= cs + close)
      OBVIOUS
    <3> HIDE DEF sb, sc
    <3> QED BY <3>2, <3>4, <3>5
  <2> HIDE DEF sb, sc
  <2>3. Squeezed(sc, (cs + 2) + d, k + d, cell.value)
    <3>1. cs + 2 <= k
      BY <2>1
    <3> DEFINE s == cs + 2
    <3> HIDE DEF s
    <3>2. s \in Int /\ s <= k /\ Squeezed(sb, s, k, cell.value) /\ \A m \in s .. k - 1 : sc[m + d] = sb[m]
      BY <2>1, <2>2, <3>1 DEF s
    <3>3. Squeezed(sc, s + d, k + d, cell.value)
      BY <3>2, SqueezeMoved
    <3> QED BY <3>3 DEF s
  <2>4. ASSUME "EMBEDDED" \notin q
        PROVE  NoQuote(sc, (cs + 2) + d, k + d)
    BY <2>1, <2>2, <2>4, NoQuoteMoved
  <2>5. (cs + 2) + d = (cs + d) + 2 /\ (cs + d) + close + 1 < k + d
    BY <2>1
  <2>6. /\ Squeezed(sc, (cs + d) + 2, k + d, cell.value)
        /\ "EMBEDDED" \notin q => NoQuote(sc, (cs + d) + 2, k + d)
    BY <2>3, <2>4, <2>5
  <2> QED BY <1>0, <1>1, <1>6, <2>1, <2>5, <2>6 DEF CellRel, sc
<1>7. CASE cell.mode = "raw"
  BY <1>0, <1>1, <1>7 DEF CellRel
<1> QED BY <1>2, <1>3, <1>4, <1>5, <1>6, <1>7 DEF CellRel

----
(* Each kind of byte keeps the relation. *)

(* The raw text of a cell is the buffer from its start, one byte longer. *)
LEMMA RawStep ==
  ASSUME NEW b, NEW cs \in Nat, NEW k \in Nat, cs <= k
  PROVE  Append([j \in 1 .. k - cs |-> b[cs + j - 1]], b[k])
           = [j \in 1 .. (k + 1) - cs |-> b[cs + j - 1]]
<1> DEFINE s == [j \in 1 .. k - cs |-> b[cs + j - 1]]
           t == [j \in 1 .. (k + 1) - cs |-> b[cs + j - 1]]
<1>1. s \in Seq({b[m] : m \in Int}) /\ t \in Seq({b[m] : m \in Int}) /\ Len(s) = k - cs
      /\ Len(t) = k - cs + 1
  <2> DEFINE T == {b[m] : m \in Int}
  <2>1. k - cs \in Nat /\ (k + 1) - cs \in Nat /\ (k + 1) - cs = k - cs + 1
    OBVIOUS
  <2>2. \A j \in 1 .. (k + 1) - cs : b[cs + j - 1] \in T
    OBVIOUS
  <2> HIDE DEF T
  <2>3. s \in Seq(T) /\ Len(s) = k - cs
    <3>1. \A j \in 1 .. k - cs : b[cs + j - 1] \in T
      BY <2>1, <2>2
    <3> QED BY <2>1, <3>1
  <2>4. t \in Seq(T) /\ Len(t) = (k + 1) - cs
    BY <2>1, <2>2
  <2> QED BY <2>1, <2>3, <2>4 DEF T
<1>2. \A j \in 1 .. k - cs : s[j] = t[j]
  OBVIOUS
<1>3. t[k - cs + 1] = b[k]
  OBVIOUS
<1> HIDE DEF s, t
<1> QED
  <2>1. Append(s, b[k]) = t
    BY <1>1, <1>2, <1>3
  <2> QED BY <2>1 DEF s, t

(* A byte of content that is no quote. *)
LEMMA CellPlain ==
  ASSUME NEW b \in Buffer, NEW cs \in Nat, NEW k \in Nat, k < Size,
         NEW cell \in ReadCell, NEW q, NEW close \in Nat, NEW more,
         CellRel(cell, b, cs, k, q, close, FALSE, more),
         "PENDING" \notin q, b[k] # Quote,
         NEW r, r = q \/ ("UNCLOSED" \in q /\ r = q \cup {"NEEDED"}), NEW more2
  PROVE  CellRel(Promise!AddByte(cell, b[k]), b, cs, k + 1, r, close, FALSE, more2)
<1> DEFINE next == Promise!AddByte(cell, b[k])
<1>1. /\ cs <= k /\ Size \in Nat
      /\ ("UNCLOSED" \in r <=> "UNCLOSED" \in q) /\ ("EMBEDDED" \in r <=> "EMBEDDED" \in q)
      /\ "PENDING" \notin r /\ (r = {} <=> q = {}) /\ ("UNCLOSED" \notin q => r = q)
  BY SizeAssumption DEF CellRel
<1>2. b[k] \in Byte \cup {Junk}
  BY <1>1 DEF Buffer
<1>3. /\ next.mode = Promise!NextMode(cell.mode, b[k])
      /\ next.value = Append(cell.value, b[k])
      /\ next.raw = Append(cell.raw, b[k])
  BY <1>2, AddByteFacts
<1>4. next.raw = [j \in 1 .. (k + 1) - cs |-> b[cs + j - 1]]
  <2>1. cell.raw = [j \in 1 .. k - cs |-> b[cs + j - 1]]
    BY DEF CellRel
  <2>2. Append([j \in 1 .. k - cs |-> b[cs + j - 1]], b[k])
          = [j \in 1 .. (k + 1) - cs |-> b[cs + j - 1]]
    BY <1>1, RawStep
  <2>3. next.raw = Append(cell.raw, b[k])
    BY <1>3
  <2> HIDE DEF next
  <2> QED BY <2>1, <2>2, <2>3
<1> HIDE DEF next
<1>5. SUFFICES CellRel(next, b, cs, k + 1, r, close, FALSE, more2)
  BY DEF next
<1>6. CASE cell.mode = "start"
  <2>1. k = cs /\ q = {} /\ cell.value = <<>> /\ cell.raw = <<>>
    BY <1>6 DEF CellRel
  <2>2. next.mode = "bare"
    BY <1>3, <1>6 DEF Promise!NextMode
  <2>3. next.value = next.raw
    BY <1>3, <2>1
  <2> QED BY <1>1, <1>4, <2>1, <2>2, <2>3 DEF CellRel
<1>7. CASE cell.mode = "bare"
  <2>1. next.mode = "bare"
    BY <1>3, <1>7 DEF Promise!NextMode
  <2>2. /\ k > cs /\ "UNCLOSED" \notin q /\ (q # {} => close = 0 /\ k >= cs + 2)
        /\ cell.value = cell.raw
    BY <1>7 DEF CellRel
  <2> QED BY <1>1, <1>3, <1>4, <2>1, <2>2 DEF CellRel
<1>8. CASE cell.mode = "open"
  <2>1. next.mode = "open"
    BY <1>3, <1>8 DEF Promise!NextMode
  <2>2. /\ k > cs /\ "UNCLOSED" \in q /\ close = 0
        /\ Squeezed(b, cs + 1, k, cell.value)
        /\ "EMBEDDED" \notin q => NoQuote(b, cs + 1, k)
    BY <1>8 DEF CellRel
  <2>3. Squeezed(b, cs + 1, k + 1, next.value)
    <3>1. ~Dropped(b, cs + 1, k)
      BY DEF Dropped
    <3>2. cs + 1 \in Int /\ cs + 1 <= k /\ k \in Int
      BY <2>2
    <3> QED BY <1>2, <1>3, <2>2, <3>1, <3>2, SqueezeKeep
  <2>4. "EMBEDDED" \notin r => NoQuote(b, cs + 1, k + 1)
    BY <1>1, <2>2 DEF NoQuote
  <2> QED BY <1>1, <1>4, <2>1, <2>2, <2>3, <2>4 DEF CellRel
<1>9. CASE cell.mode = "quote"
  <2> DEFINE sh == ShiftRight(b, cs, close)
  <2>1. next.mode = "after"
    BY <1>3, <1>9 DEF Promise!NextMode
  <2>2. /\ k >= cs + 2 /\ Squeezed(b, cs + 1, k - 1, cell.value)
        /\ "EMBEDDED" \notin q => NoQuote(b, cs + 1, k - 1)
        /\ "UNCLOSED" \notin q /\ q # {} /\ close = k - 1 - cs
    BY <1>9 DEF CellRel
  <2>3. 0 < close /\ cs + close + 1 < k + 1
    BY <2>2
  <2>4. \A m \in 0 .. Size - 1 : sh[m] = IF m > cs /\ m <= cs + close THEN b[m - 1] ELSE b[m]
    BY DEF ShiftRight, Buffer
  <2> HIDE DEF sh
  <2>5. \A m \in cs + 1 .. (k - 1) - 1 : sh[m + 1] = b[m]
    <3>. TAKE m \in cs + 1 .. (k - 1) - 1
    <3>1. m + 1 \in 0 .. Size - 1 /\ m + 1 > cs /\ m + 1 <= cs + close /\ (m + 1) - 1 = m
      BY <1>1, <2>2
    <3> QED BY <2>4, <3>1
  <2>6. sh[k] = b[k]
    <3>1. k \in 0 .. Size - 1 /\ ~(k <= cs + close)
      BY <1>1, <2>2
    <3> QED BY <2>4, <3>1
  <2>7. Squeezed(sh, cs + 2, k, cell.value)
    <3> DEFINE s == cs + 1
               e == k - 1
    <3> HIDE DEF s, e
    <3>1. /\ s \in Int /\ e \in Int /\ s <= e /\ Squeezed(b, s, e, cell.value)
          /\ \A m \in s .. e - 1 : sh[m + 1] = b[m]
      BY <2>2, <2>5 DEF s, e
    <3>2. Squeezed(sh, s + 1, e + 1, cell.value)
      <4>1. 1 \in Int
        OBVIOUS
      <4> QED BY <3>1, <4>1, SqueezeMoved
    <3>3. s + 1 = cs + 2 /\ e + 1 = k
      BY DEF s, e
    <3> QED BY <3>2, <3>3
  <2>8. Squeezed(sh, cs + 2, k + 1, next.value)
    <3>1. ~Dropped(sh, cs + 2, k)
      BY <2>6 DEF Dropped
    <3>2. cs + 2 \in Int /\ cs + 2 <= k /\ k \in Int
      BY <2>2
    <3> QED BY <1>2, <1>3, <2>6, <2>7, <3>1, <3>2, SqueezeKeep
  <2>9. "EMBEDDED" \notin r => NoQuote(sh, cs + 2, k + 1)
    <3>. HAVE "EMBEDDED" \notin r
    <3>1. NoQuote(b, cs + 1, k - 1)
      BY <1>1, <2>2
    <3>. SUFFICES ASSUME NEW m \in cs + 2 .. (k + 1) - 1
                  PROVE  sh[m] # Quote
      BY DEF NoQuote
    <3>2. CASE m = k
      BY <2>6, <3>2
    <3>3. CASE m < k
      <4>1. m - 1 \in cs + 1 .. (k - 1) - 1 /\ (m - 1) + 1 = m
        BY <3>3
      <4>2. sh[m] = b[m - 1]
        BY <2>5, <4>1
      <4> QED BY <3>1, <4>1, <4>2 DEF NoQuote
    <3> QED BY <3>2, <3>3
  <2>10. cs <= k + 1 /\ "UNCLOSED" \notin r /\ r # {}
    BY <1>1, <2>2
  <2> QED BY <1>4, <2>1, <2>3, <2>8, <2>9, <2>10, Zenon DEF CellRel, sh
<1>10. CASE cell.mode = "after"
  <2> DEFINE sh == ShiftRight(b, cs, close)
  <2>1. next.mode = "after"
    BY <1>3, <1>10 DEF Promise!NextMode
  <2>2. /\ "UNCLOSED" \notin q /\ q # {} /\ 0 < close /\ cs + close + 1 < k
        /\ Squeezed(sh, cs + 2, k, cell.value)
        /\ "EMBEDDED" \notin q => NoQuote(sh, cs + 2, k)
    BY <1>10 DEF CellRel
  <2>3. sh[k] = b[k]
    BY <1>1, <2>2 DEF ShiftRight, Buffer
  <2> HIDE DEF sh
  <2>4. Squeezed(sh, cs + 2, k + 1, next.value)
    <3>1. ~Dropped(sh, cs + 2, k)
      BY <2>3 DEF Dropped
    <3>2. cs + 2 \in Int /\ cs + 2 <= k /\ k \in Int
      BY <2>2
    <3> QED BY <1>2, <1>3, <2>2, <2>3, <3>1, <3>2, SqueezeKeep
  <2>5. "EMBEDDED" \notin r => NoQuote(sh, cs + 2, k + 1)
    BY <1>1, <2>2, <2>3 DEF NoQuote
  <2> QED BY <1>1, <1>4, <2>1, <2>2, <2>4, <2>5 DEF CellRel, sh
<1>11. CASE cell.mode = "raw"
  <2>1. next.mode = "raw"
    BY <1>3, <1>11 DEF Promise!NextMode
  <2>2. "UNCLOSED" \notin q /\ q # {} /\ close = 0 /\ k >= cs + 3
    BY <1>11 DEF CellRel
  <2> QED BY <1>1, <1>4, <2>1, <2>2 DEF CellRel
<1> QED BY <1>6, <1>7, <1>8, <1>9, <1>10, <1>11 DEF CellRel

(* The second quote of a pair. *)
LEMMA CellSkip ==
  ASSUME NEW b \in Buffer, NEW cs \in Nat, NEW k \in Nat, k < Size,
         NEW cell \in ReadCell, NEW q, NEW close, NEW skips, NEW more,
         CellRel(cell, b, cs, k, q, close, skips, more),
         "UNCLOSED" \in q, skips \/ "PENDING" \in q, b[k] = Quote,
         NEW r, "UNCLOSED" \in r, "EMBEDDED" \in r, "PENDING" \notin r, NEW more2
  PROVE  CellRel(Promise!AddByte(cell, b[k]), b, cs, k + 1, r, close, FALSE, more2)
<1> DEFINE next == Promise!AddByte(cell, b[k])
<1>1. /\ cs <= k /\ cell.mode = "quote" /\ close = 0
      /\ k >= cs + 2 /\ b[k - 1] = Quote /\ ~Dropped(b, cs + 1, k - 1)
      /\ Squeezed(b, cs + 1, k - 1, cell.value)
  BY DEF CellRel
<1>2. b[k] \in Byte \cup {Junk} /\ b[k - 1] \in Byte \cup {Junk}
  BY <1>1, SizeAssumption DEF Buffer
<1>3. /\ next.mode = "open"
      /\ next.value = Append(cell.value, b[k])
      /\ next.raw = Append(cell.raw, b[k])
  BY <1>1, <1>2, AddByteFacts DEF Promise!NextMode
<1>4. next.raw = [j \in 1 .. (k + 1) - cs |-> b[cs + j - 1]]
  <2>1. cell.raw = [j \in 1 .. k - cs |-> b[cs + j - 1]]
    BY DEF CellRel
  <2>2. Append([j \in 1 .. k - cs |-> b[cs + j - 1]], b[k])
          = [j \in 1 .. (k + 1) - cs |-> b[cs + j - 1]]
    BY <1>1, RawStep
  <2>3. next.raw = Append(cell.raw, b[k])
    BY <1>3
  <2> HIDE DEF next
  <2> QED BY <2>1, <2>2, <2>3
<1>5. Squeezed(b, cs + 1, k, next.value)
  <2>1. cs + 1 \in Int /\ k - 1 \in Int /\ cs + 1 <= k - 1 /\ (k - 1) + 1 = k
    BY <1>1
  <2>2. Squeezed(b, cs + 1, (k - 1) + 1, Append(cell.value, b[k - 1]))
    BY <1>1, <1>2, <2>1, SqueezeKeep
  <2> QED BY <1>1, <1>3, <2>1, <2>2
<1>6. Dropped(b, cs + 1, k)
  <2>1. cs + 1 \in Int /\ k >= cs + 1 /\ k > cs + 1
    BY <1>1
  <2> QED BY <1>1, <2>1, DroppedStep
<1>7. Squeezed(b, cs + 1, k + 1, next.value)
  <2>1. cs + 1 \in Int /\ k \in Int /\ cs + 1 <= k
    BY <1>1
  <2> QED BY <1>5, <1>6, <2>1, SqueezeDrop
<1> HIDE DEF next
<1>8. k + 1 > cs /\ cs <= k + 1 /\ (k + 1) - 1 = k
  BY <1>1
<1>9. CellRel(next, b, cs, k + 1, r, close, FALSE, more2)
  BY <1>1, <1>3, <1>4, <1>6, <1>7, <1>8 DEF CellRel
<1> QED BY <1>9 DEF next

(* The quote that opens the cell. *)
LEMMA CellOpens ==
  ASSUME NEW b \in Buffer, NEW cs \in Nat, cs < Size,
         NEW cell \in ReadCell, NEW q, NEW close \in Nat, NEW skips, NEW more,
         CellRel(cell, b, cs, cs, q, close, skips, more), b[cs] = Quote, NEW more2
  PROVE  CellRel(Promise!AddByte(cell, b[cs]), b, cs, cs + 1, {"UNCLOSED"}, 0, FALSE, more2)
<1> DEFINE next == Promise!AddByte(cell, b[cs])
<1>1. cell.mode = "start" /\ cell.value = <<>>
  BY DEF CellRel
<1>2. b[cs] \in Byte \cup {Junk}
  BY SizeAssumption DEF Buffer
<1>3. next.mode = "open" /\ next.value = <<>> /\ next.raw = Append(cell.raw, b[cs])
  BY <1>1, <1>2, AddByteFacts DEF Promise!NextMode
<1>4. next.raw = [j \in 1 .. (cs + 1) - cs |-> b[cs + j - 1]]
  <2>1. cs \in Nat /\ cs <= cs /\ cell.raw = [j \in 1 .. cs - cs |-> b[cs + j - 1]]
    BY DEF CellRel
  <2> QED BY <1>3, <2>1, RawStep
<1>5. Squeezed(b, cs + 1, cs + 1, <<>>)
  <2>1. cs + 1 \in Int
    OBVIOUS
  <2> QED BY <2>1, SqueezeNothing
<1>6. NoQuote(b, cs + 1, cs + 1)
  BY DEF NoQuote
<1> HIDE DEF next
<1>7. CellRel(next, b, cs, cs + 1, {"UNCLOSED"}, 0, FALSE, more2)
  BY <1>3, <1>4, <1>5, <1>6 DEF CellRel
<1> QED BY <1>7 DEF next

(* A quote inside an open cell, which waits for the next byte, begins a pair or
   closes the cell. *)
LEMMA CellQuote ==
  ASSUME NEW b \in Buffer, NEW cs \in Nat, NEW k \in Nat, k < Size, k # cs,
         NEW cell \in ReadCell, NEW q, NEW close, NEW more,
         CellRel(cell, b, cs, k, q, close, FALSE, more),
         "UNCLOSED" \in q, "PENDING" \notin q, b[k] = Quote,
         NEW r, NEW close2, NEW skips2, NEW more2,
         "EMBEDDED" \notin r => "EMBEDDED" \notin q,
         \/ /\ "UNCLOSED" \in r /\ close2 = 0 /\ (skips2 \/ "PENDING" \in r)
            /\ skips2 => "EMBEDDED" \in r
         \/ /\ "UNCLOSED" \notin r /\ ~skips2 /\ r # {} /\ close2 = k - cs
            /\ more2 /\ b[k + 1] # Quote
  PROVE  CellRel(Promise!AddByte(cell, b[k]), b, cs, k + 1, r, close2, skips2, more2)
<1> DEFINE next == Promise!AddByte(cell, b[k])
<1>1. /\ cs <= k /\ cell.mode = "open" /\ k > cs
      /\ Squeezed(b, cs + 1, k, cell.value)
      /\ k > cs + 1 /\ b[k - 1] = Quote => Dropped(b, cs + 1, k - 1)
      /\ "EMBEDDED" \notin q => NoQuote(b, cs + 1, k)
  BY DEF CellRel
<1>2. b[k] \in Byte \cup {Junk}
  BY SizeAssumption DEF Buffer
<1>3. next.mode = "quote" /\ next.value = cell.value /\ next.raw = Append(cell.raw, b[k])
  BY <1>1, <1>2, AddByteFacts DEF Promise!NextMode
<1>4. next.raw = [j \in 1 .. (k + 1) - cs |-> b[cs + j - 1]]
  <2>1. cell.raw = [j \in 1 .. k - cs |-> b[cs + j - 1]]
    BY DEF CellRel
  <2>2. Append([j \in 1 .. k - cs |-> b[cs + j - 1]], b[k])
          = [j \in 1 .. (k + 1) - cs |-> b[cs + j - 1]]
    BY <1>1, RawStep
  <2>3. next.raw = Append(cell.raw, b[k])
    BY <1>3
  <2> HIDE DEF next
  <2> QED BY <2>1, <2>2, <2>3
<1>5. ~Dropped(b, cs + 1, k)
  <2>1. cs + 1 \in Int /\ k >= cs + 1
    BY <1>1
  <2> QED BY <1>1, <2>1, DroppedStep
<1> HIDE DEF next
<1>6. k + 1 >= cs + 2 /\ cs <= k + 1 /\ (k + 1) - 1 = k /\ (k + 1) - 1 - cs = k - cs
  BY <1>1
<1>7. CellRel(next, b, cs, k + 1, r, close2, skips2, more2)
  BY <1>1, <1>3, <1>4, <1>5, <1>6 DEF CellRel
<1> QED BY <1>7 DEF next

(* A quote in a cell that is not quoted, or after its closing quote. *)
LEMMA CellStray ==
  ASSUME NEW b \in Buffer, NEW cs \in Nat, NEW k \in Nat, k < Size, k # cs,
         NEW cell \in ReadCell, NEW q, NEW close \in Nat, NEW more,
         CellRel(cell, b, cs, k, q, close, FALSE, more),
         "UNCLOSED" \notin q, b[k] = Quote, NEW more2
  PROVE  CellRel(Promise!AddByte(cell, b[k]), b, cs, k + 1, q \cup {"EMBEDDED"}, 0, FALSE, more2)
<1> DEFINE next == Promise!AddByte(cell, b[k])
<1>1. cs <= k /\ k > cs /\ cell.mode \in {"bare", "after", "raw"}
  BY DEF CellRel
<1>2. b[k] \in Byte \cup {Junk}
  BY SizeAssumption DEF Buffer
<1>3. next.value = Append(cell.value, b[k]) /\ next.raw = Append(cell.raw, b[k])
      /\ next.mode = Promise!NextMode(cell.mode, b[k])
  BY <1>1, <1>2, AddByteFacts
<1>4. next.raw = [j \in 1 .. (k + 1) - cs |-> b[cs + j - 1]]
  <2>1. cell.raw = [j \in 1 .. k - cs |-> b[cs + j - 1]]
    BY DEF CellRel
  <2>2. Append([j \in 1 .. k - cs |-> b[cs + j - 1]], b[k])
          = [j \in 1 .. (k + 1) - cs |-> b[cs + j - 1]]
    BY <1>1, RawStep
  <2>3. next.raw = Append(cell.raw, b[k])
    BY <1>3
  <2> HIDE DEF next
  <2> QED BY <2>1, <2>2, <2>3
<1> HIDE DEF next
<1>5. CASE cell.mode = "bare"
  <2>1. cell.value = cell.raw
    BY <1>5 DEF CellRel
  <2>2. next.mode = "bare" /\ next.value = next.raw
    BY <1>3, <1>5, <2>1 DEF Promise!NextMode
  <2>3. CellRel(next, b, cs, k + 1, q \cup {"EMBEDDED"}, 0, FALSE, more2)
    BY <1>1, <1>4, <2>2 DEF CellRel
  <2> QED BY <2>3 DEF next
<1>6. CASE cell.mode \in {"after", "raw"}
  <2>1. k >= cs + 2
    BY <1>6 DEF CellRel
  <2>2. next.mode = "raw"
    BY <1>3, <1>6 DEF Promise!NextMode
  <2>3. CellRel(next, b, cs, k + 1, q \cup {"EMBEDDED"}, 0, FALSE, more2)
    BY <1>1, <1>4, <2>1, <2>2 DEF CellRel
  <2> QED BY <2>3 DEF next
<1> QED BY <1>1, <1>5, <1>6

(* The first byte of the next chunk is no quote: the pending one closed the cell. *)
LEMMA CellClosed ==
  ASSUME NEW b \in Buffer, NEW cs \in Nat, NEW k \in Nat,
         NEW cell, NEW q, NEW close, NEW skips, NEW more,
         CellRel(cell, b, cs, k, q, close, skips, more),
         "PENDING" \in q, "UNCLOSED" \in q, b[k] # Quote
  PROVE  CellRel(cell, b, cs, k, ((q \ {"PENDING"}) \ {"UNCLOSED"}) \cup {"CLOSED"},
                 k - 1 - cs, FALSE, TRUE)
<1>1. /\ cs <= k /\ cell.mode = "quote"
      /\ k >= cs + 2 /\ b[k - 1] = Quote /\ ~Dropped(b, cs + 1, k - 1)
      /\ Squeezed(b, cs + 1, k - 1, cell.value)
      /\ "EMBEDDED" \notin q => NoQuote(b, cs + 1, k - 1)
  BY DEF CellRel
<1> QED BY <1>1 DEF CellRel

----
(* What cell_dl makes of a cell in that relation: its value. *)

(* The closing quote is the cell's last byte. *)
LEMMA UnquoteClosed ==
  ASSUME buff \in Buffer, NEW q, q # {}, NEW s \in Nat, NEW n \in Nat, n >= 2, s + n <= Size,
         NEW v, Squeezed(buff, s + 1, s + n - 1, v), ~Dropped(buff, s + 1, s + n - 1),
         "EMBEDDED" \notin q => NoQuote(buff, s + 1, s + n - 1)
  PROVE  Shows(Unquote(q, n - 1, s, n), s, v)
<1> DEFINE u == Unquote(q, n - 1, s, n)
<1>0. Size \in Nat /\ n \in SizeT /\ n - 1 \in SizeT /\ n - 2 \in SizeT
  BY SizeAssumption DEF SizeT
<1>1. Wrap((n - 1) + 1) = n /\ Wrap(n - 1) = n - 1 /\ Wrap(n - 2) = n - 2
  BY <1>0, WrapSmall
<1>2. v \in Seq(Byte \cup {Junk})
  BY DEF Squeezed
<1>3. CASE "EMBEDDED" \notin q
  <2>1. u = [str |-> s + 1, len |-> n - 2, buff |-> buff, fault |-> FALSE]
    BY <1>1, <1>3 DEF Unquote
  <2>2. v = [j \in 1 .. n - 2 |-> buff[(s + 1) + j - 1]]
    <3> DEFINE t == s + 1
               e == s + n - 1
    <3>1. t \in Int /\ e \in Int /\ t <= e /\ e - t = n - 2
      OBVIOUS
    <3> HIDE DEF t, e
    <3>2. Squeezed(buff, t, e, v) /\ \A m \in t .. e - 1 : buff[m] # Quote
      BY <1>3 DEF t, e, NoQuote
    <3>3. v = [j \in 1 .. e - t |-> buff[t + j - 1]]
      BY <3>1, <3>2, SqueezePlain
    <3> QED BY <3>1, <3>3 DEF t
  <2>3. Len(v) = n - 2 /\ \A j \in 1 .. Len(v) : v[j] = buff[(s + 1) + j - 1]
    BY <2>2
  <2> HIDE DEF u
  <2>4. Shows(u, s, v)
    BY <1>0, <2>1, <2>3 DEF Shows
  <2> QED BY <2>4 DEF u
<1>4. CASE "EMBEDDED" \in q
  <2> DEFINE r == RemoveDoubled(buff, s + 1, n - 1)
             w == Append(v, buff[s + n - 1])
             t == s + 1
             e == s + n - 1
  <2>1. t \in Nat /\ e \in Int /\ t <= e /\ n - 1 \in Nat /\ e + 1 = t + (n - 1) /\ t + (n - 1) <= Size
        /\ e \in 0 .. Size - 1
    BY <1>0
  <2>2. buff[e] \in Byte \cup {Junk}
    BY <2>1 DEF Buffer
  <2>3. Squeezed(buff, t, t + (n - 1), w)
    <3> HIDE DEF t, e
    <3>1. Squeezed(buff, t, e, v) /\ ~Dropped(buff, t, e) /\ w = Append(v, buff[e]) /\ t \in Int
      BY <2>1 DEF t, e
    <3>2. Squeezed(buff, t, e + 1, Append(v, buff[e]))
      BY <2>1, <2>2, <3>1, SqueezeKeep
    <3> QED BY <2>1, <3>1, <3>2
  <2>4. /\ r.len = Len(w)
        /\ \A j \in 1 .. Len(w) : r.buff[t + j - 1] = w[j]
        /\ \A k \in 0 .. t - 1 : r.buff[k] = buff[k]
    <3> HIDE DEF t, e, w
    <3> QED BY <2>1, <2>3, RemoveDoubledSqueezes DEF t
  <2>5. /\ Len(w) = Len(v) + 1 /\ Len(v) \in Nat /\ w \in Seq(Byte \cup {Junk})
        /\ \A j \in 1 .. Len(v) : w[j] = v[j]
    BY <1>2, <2>2
  <2>6. Len(w) <= n - 1
    <3>1. r.len \in Int /\ r.len <= n - 1
      BY <2>1, RemoveDoubledFacts
    <3> HIDE DEF r, w
    <3> QED BY <2>4, <3>1
  <2> HIDE DEF r, w, t, e
  <2>7. Wrap(r.len - 1) = Len(v)
    <3>1. Len(v) \in SizeT /\ r.len - 1 = Len(v)
      BY <1>0, <2>4, <2>5, <2>6, SizeAssumption DEF SizeT
    <3> QED BY <3>1, WrapSmall
  <2>8. u = [str |-> s + 1, len |-> Len(v), buff |-> r.buff, fault |-> FALSE]
    <3>1. ~(s + 1 + Wrap(n - 1) > Size)
      BY <1>0, <1>1
    <3> QED BY <1>1, <1>4, <2>7, <3>1 DEF Unquote, r
  <2> HIDE DEF u
  <2>9. Shows(u, s, v)
    BY <1>0, <2>4, <2>5, <2>6, <2>8 DEF Shows, t
  <2> QED BY <2>9 DEF u
<1> QED BY <1>3, <1>4

(* Bytes follow the closing quote: the opening quote and what it encloses are
   moved over the closing one. *)
LEMMA UnquoteShifted ==
  ASSUME buff \in Buffer, NEW q, q # {}, NEW s \in Nat, NEW n \in Nat, n >= 2, s + n <= Size,
         NEW close \in Nat, 0 < close, close + 1 # n, s + 1 + close <= Size,
         NEW v, Squeezed(ShiftRight(buff, s, close), s + 2, s + n, v),
         "EMBEDDED" \notin q => NoQuote(ShiftRight(buff, s, close), s + 2, s + n)
  PROVE  Shows(Unquote(q, close, s, n), s, v)
<1> DEFINE u == Unquote(q, close, s, n)
           sh == ShiftRight(buff, s, close)
<1>0. Size \in Nat /\ n \in SizeT /\ close + 1 \in SizeT /\ n - 2 \in SizeT /\ n - 2 \in Nat
  BY SizeAssumption DEF SizeT
<1>1. Wrap(close + 1) = close + 1 /\ Wrap(n - 2) = n - 2
  BY <1>0, WrapSmall
<1>2. v \in Seq(Byte \cup {Junk})
  BY DEF Squeezed
<1>3. /\ sh \in Buffer
      /\ \A m \in 0 .. s - 1 : sh[m] = buff[m]
      /\ sh[s] = buff[s]
  BY <1>0 DEF ShiftRight, Buffer
<1>4. (close = 0) = FALSE /\ ~(s + 1 + close > Size) /\ ~(s + 2 + (n - 2) > Size)
  BY <1>0
<1>5. CASE "EMBEDDED" \notin q
  <2>1. u = [str |-> s + 2, len |-> n - 2, buff |-> sh, fault |-> FALSE]
    BY <1>1, <1>4, <1>5 DEF Unquote
  <2>2. v = [j \in 1 .. n - 2 |-> sh[(s + 2) + j - 1]]
    <3> DEFINE t == s + 2
               e == s + n
    <3>1. t \in Int /\ e \in Int /\ t <= e /\ e - t = n - 2
      OBVIOUS
    <3> HIDE DEF t, e, sh
    <3>2. Squeezed(sh, t, e, v) /\ \A m \in t .. e - 1 : sh[m] # Quote
      BY <1>5 DEF t, e, NoQuote, sh
    <3>3. v = [j \in 1 .. e - t |-> sh[t + j - 1]]
      BY <3>1, <3>2, SqueezePlain
    <3> QED BY <3>1, <3>3 DEF t
  <2> HIDE DEF u, sh
  <2>3. Len(v) = n - 2 /\ \A j \in 1 .. Len(v) : v[j] = sh[(s + 2) + j - 1]
    BY <1>0, <2>2
  <2>4. Shows(u, s, v)
    BY <1>0, <1>3, <2>1, <2>3 DEF Shows
  <2> QED BY <2>4 DEF u
<1>6. CASE "EMBEDDED" \in q
  <2> DEFINE r == RemoveDoubled(sh, s + 2, n - 2)
             t == s + 2
             j == n - 2
  <2>1. t \in Nat /\ j \in Nat /\ t + j = s + n /\ t + j <= Size
    BY <1>0
  <2> HIDE DEF sh
  <2>2. /\ r.len = Len(v)
        /\ \A m \in 1 .. Len(v) : r.buff[t + m - 1] = v[m]
        /\ \A k \in 0 .. t - 1 : r.buff[k] = sh[k]
    <3>1. Squeezed(sh, t, t + j, v)
      BY <2>1 DEF sh
    <3> HIDE DEF t, j
    <3> QED BY <1>3, <2>1, <3>1, RemoveDoubledSqueezes DEF t, j
  <2>3. Len(v) <= n - 2 /\ Len(v) \in Nat
    <3>1. r.len \in Int /\ r.len <= j
      BY <1>3, <2>1, RemoveDoubledFacts
    <3> QED BY <1>2, <2>2, <3>1
  <2>4. u = [str |-> s + 2, len |-> r.len, buff |-> r.buff, fault |-> FALSE]
    BY <1>1, <1>4, <1>6 DEF Unquote, sh
  <2> HIDE DEF u, r
  <2>5. Shows(u, s, v)
    BY <1>0, <1>3, <2>2, <2>3, <2>4 DEF Shows
  <2> QED BY <2>5 DEF u
<1> QED BY <1>5, <1>6

(* A cell with no quotes to remove is delivered as it is. *)
LEMMA UnquoteAsIs ==
  ASSUME buff \in Buffer, NEW q, NEW close \in Nat, NEW s \in Nat, NEW n \in Nat, s + n <= Size,
         q = {} \/ (close = 0 /\ n # 1)
  PROVE  Shows(Unquote(q, close, s, n), s, [j \in 1 .. n |-> buff[s + j - 1]])
<1> DEFINE u == Unquote(q, close, s, n)
           v == [j \in 1 .. n |-> buff[s + j - 1]]
<1>1. close = 0 => Wrap(close + 1) = 1
  BY WrapSmall, SizeAssumption DEF SizeT
<1>2. u = [str |-> s, len |-> n, buff |-> buff, fault |-> FALSE]
  BY <1>1 DEF Unquote
<1>3. Len(v) = n /\ \A j \in 1 .. n : v[j] = buff[s + j - 1]
  OBVIOUS
<1> HIDE DEF u, v
<1>4. Shows(u, s, v)
  BY <1>2, <1>3 DEF Shows
<1> QED BY <1>4 DEF u, v

(* What cell_dl makes of a cell that has ended is its value. *)
LEMMA UnquoteShows ==
  ASSUME buff \in Buffer, NEW q, NEW close \in SizeT, NEW s \in Nat, NEW k \in Nat, k <= Size,
         NEW cell \in ReadCell, NEW more, CellRel(cell, buff, s, k, q, close, FALSE, more),
         "UNCLOSED" \notin q
  PROVE  /\ Shows(Unquote(q, close, s, k - s), s, Promise!ValueOf(cell))
         /\ q = {} \/ (close = 0 /\ k - s # 1) \/ (close > 0 /\ close < k - s)
<1>0. s <= k /\ k - s \in Nat /\ s + (k - s) = k /\ close \in Nat /\ Size \in Nat
  BY SizeAssumption DEF CellRel, SizeT
<1>1. cell.raw = [j \in 1 .. k - s |-> buff[s + j - 1]]
  BY DEF CellRel
<1>2. CASE cell.mode = "start"
  <2>1. k = s /\ q = {} /\ cell.value = <<>> /\ Promise!ValueOf(cell) = cell.value
    BY <1>2 DEF CellRel, Promise!ValueOf
  <2>2. [j \in 1 .. k - s |-> buff[s + j - 1]] = <<>>
    BY <2>1
  <2> DEFINE n == k - s
  <2>3. n \in Nat /\ s + n <= Size /\ n = k - s
    BY <1>0
  <2> HIDE DEF n
  <2>4. Shows(Unquote(q, close, s, n), s, [j \in 1 .. n |-> buff[s + j - 1]])
    BY <1>0, <2>1, <2>3, UnquoteAsIs
  <2> QED BY <2>1, <2>2, <2>3, <2>4
<1>3. CASE cell.mode \in {"bare", "raw"}
  <2>1. Promise!ValueOf(cell) = cell.raw
    BY <1>3 DEF CellRel, Promise!ValueOf
  <2>2. q = {} \/ (close = 0 /\ k - s # 1)
    <3>1. q # {} => close = 0 /\ k >= s + 2
      BY <1>0, <1>3 DEF CellRel
    <3> QED BY <3>1
  <2>3. Shows(Unquote(q, close, s, k - s), s, [j \in 1 .. k - s |-> buff[s + j - 1]])
    BY <1>0, <2>2, UnquoteAsIs
  <2> QED BY <1>1, <2>1, <2>2, <2>3
<1>4. CASE cell.mode = "quote"
  <2>1. /\ k >= s + 2 /\ ~Dropped(buff, s + 1, k - 1) /\ Squeezed(buff, s + 1, k - 1, cell.value)
        /\ "EMBEDDED" \notin q => NoQuote(buff, s + 1, k - 1)
        /\ q # {} /\ close = k - 1 - s
        /\ Promise!ValueOf(cell) = cell.value
    BY <1>4 DEF CellRel, Promise!ValueOf
  <2> DEFINE n == k - s
  <2>2. n \in Nat /\ n >= 2 /\ s + n = k /\ s + n - 1 = k - 1 /\ close = n - 1
    BY <1>0, <2>1
  <2> HIDE DEF n
  <2>3. Shows(Unquote(q, n - 1, s, n), s, cell.value)
    BY <2>1, <2>2, UnquoteClosed
  <2> QED BY <2>1, <2>2, <2>3 DEF n
<1>5. CASE cell.mode = "after"
  <2>1. /\ q # {} /\ 0 < close /\ s + close + 1 < k
        /\ Squeezed(ShiftRight(buff, s, close), s + 2, k, cell.value)
        /\ "EMBEDDED" \notin q => NoQuote(ShiftRight(buff, s, close), s + 2, k)
        /\ Promise!ValueOf(cell) = cell.value
    BY <1>5 DEF CellRel, Promise!ValueOf
  <2> DEFINE n == k - s
  <2>2. n \in Nat /\ n >= 2 /\ s + n = k /\ close + 1 # n /\ s + 1 + close <= Size /\ close < n
    BY <1>0, <2>1
  <2> HIDE DEF n
  <2>3. Shows(Unquote(q, close, s, n), s, cell.value)
    BY <1>0, <2>1, <2>2, UnquoteShifted
  <2> QED BY <2>1, <2>2, <2>3 DEF n
<1>6. cell.mode # "open"
  BY DEF CellRel
<1> QED BY <1>2, <1>3, <1>4, <1>5, <1>6 DEF CellRel

----
(* The same relation for a row: its cells and the one that is open. *)

(* The part of a sequence between two positions, and its next element. *)
LEMMA SubSeqFacts ==
  ASSUME NEW T, NEW s \in Seq(T), NEW lo \in Nat, NEW hi \in Nat, lo <= hi, hi <= Len(s)
  PROVE  /\ SubSeq(s, lo + 1, hi) \in Seq(T)
         /\ SubSeq(s, hi + 1, hi) = <<>>
         /\ hi < Len(s) => SubSeq(s, lo + 1, hi + 1) = Append(SubSeq(s, lo + 1, hi), s[hi + 1])
         /\ \A t \in Seq(T) : SubSeq(s \o t, lo + 1, hi) = SubSeq(s, lo + 1, hi)
<1>1. SubSeq(s, lo + 1, hi) \in Seq(T)
  OBVIOUS
<1>2. SubSeq(s, hi + 1, hi) = <<>>
  OBVIOUS
<1>3. ASSUME hi < Len(s)
      PROVE  SubSeq(s, lo + 1, hi + 1) = Append(SubSeq(s, lo + 1, hi), s[hi + 1])
  <2> DEFINE u == SubSeq(s, lo + 1, hi)
             v == SubSeq(s, lo + 1, hi + 1)
  <2>1. u \in Seq(T) /\ v \in Seq(T) /\ Len(u) = hi - lo /\ Len(v) = hi - lo + 1
    BY <1>3
  <2>2. \A j \in 1 .. hi - lo : u[j] = s[lo + j] /\ v[j] = s[lo + j]
    BY <1>3
  <2>3. v[hi - lo + 1] = s[hi + 1]
    BY <1>3
  <2> HIDE DEF u, v
  <2>4. v = Append(u, s[hi + 1])
    BY <2>1, <2>2, <2>3
  <2> QED BY <2>4 DEF u, v
<1>4. ASSUME NEW t \in Seq(T)
      PROVE  SubSeq(s \o t, lo + 1, hi) = SubSeq(s, lo + 1, hi)
  <2> DEFINE u == SubSeq(s, lo + 1, hi)
             v == SubSeq(s \o t, lo + 1, hi)
  <2>1. s \o t \in Seq(T) /\ Len(s \o t) = Len(s) + Len(t) /\ \A j \in 1 .. Len(s) : (s \o t)[j] = s[j]
    OBVIOUS
  <2>2. u \in Seq(T) /\ v \in Seq(T) /\ Len(u) = hi - lo /\ Len(v) = hi - lo
    BY <2>1
  <2>3. \A j \in 1 .. hi - lo : u[j] = s[lo + j] /\ v[j] = s[lo + j]
    BY <2>1
  <2> HIDE DEF u, v
  <2>4. v = u
    BY <2>2, <2>3
  <2> QED BY <2>4 DEF u, v
<1> QED BY <1>1, <1>2, <1>3, <1>4

(* The values of the cells of a row, as the handler receives them. *)
LEMMA ValuesOfDelivered ==
  ASSUME NEW b, NEW cs
  PROVE  Values(Delivered(b, cs)) = [k \in 1 .. Len(cs) |-> Contents(b, cs[k])]
BY DEF Values, Delivered

(* A row without bytes agrees with where Parse starts. *)
LEMMA RowRelStart ==
  ASSUME NEW b, NEW rs \in Nat, NEW close, NEW more
  PROVE  RowRel(Promise!Start, b, <<>>, rs, rs, rs, {}, close, FALSE, more)
<1>1. Values(Delivered(b, <<>>)) = <<>>
  BY ValuesOfDelivered
<1>2. CellRel(Promise!EmptyCell, b, rs, rs, {}, close, FALSE, more)
  BY CellRelStart
<1>3. Promise!Start \in ReadState
  BY StartType
<1>4. /\ Promise!Start.rows = <<>> /\ Promise!Start.afterCr = FALSE /\ Promise!Start.cells = <<>>
      /\ Promise!Start.length = 0 /\ Promise!Start.begun = FALSE
      /\ Promise!Start.cell = Promise!EmptyCell
  BY Zenon DEF Promise!Start
<1> DEFINE p == Promise!Start
<1>5. /\ p \in ReadState /\ p.rows = <<>> /\ p.afterCr = FALSE
      /\ p.cells = Values(Delivered(b, <<>>)) /\ p.length = 0 /\ p.begun = FALSE
      /\ CellRel(p.cell, b, rs, rs, {}, close, FALSE, more)
  BY <1>1, <1>2, <1>3, <1>4
<1> HIDE DEF p
<1>6. RowRel(p, b, <<>>, rs, rs, rs, {}, close, FALSE, more)
  <2>1. rs <= rs /\ rs - rs = 0 /\ ~(rs > rs)
    OBVIOUS
  <2>2. p.length = rs - rs /\ (p.begun <=> rs > rs)
    BY <1>5, <2>1
  <2> QED BY <1>5, <2>1, <2>2, Zenon DEF RowRel
<1> QED BY <1>6 DEF p

(* Inside an open cell every byte is content, elsewhere all but delimiters and
   line ends. *)
LEMMA RowContent ==
  ASSUME NEW p, NEW b \in Buffer, NEW cs, NEW rs \in Nat, NEW s, NEW k \in Nat, k < Size,
         NEW q, NEW close, NEW skips, NEW more, RowRel(p, b, cs, rs, s, k, q, close, skips, more),
         p.cell.mode = "open" \/ b[k] \notin {Delim, Cr, Lf},
         NEW q2, NEW close2, NEW skips2, NEW more2,
         CellRel(Promise!AddByte(p.cell, b[k]), b, s, k + 1, q2, close2, skips2, more2)
  PROVE  RowRel(Promise!AddToRow(p, b[k]), b, cs, rs, s, k + 1, q2, close2, skips2, more2)
<1>1. b[k] \in Byte \cup {Junk}
  BY SizeAssumption DEF Buffer
<1>2. p \in ReadState /\ p.afterCr = FALSE
  BY DEF RowRel
<1> DEFINE r == Promise!AddToRow(p, b[k])
<1>3. /\ r \in ReadState /\ r.rows = p.rows /\ r.cells = p.cells
      /\ r.cell = Promise!AddByte(p.cell, b[k])
      /\ r.length = p.length + 1 /\ r.begun = TRUE /\ r.afterCr = FALSE
  BY <1>1, <1>2, AddContent
<1> HIDE DEF r
<1>4. RowRel(r, b, cs, rs, s, k + 1, q2, close2, skips2, more2)
  BY <1>3 DEF RowRel
<1> QED BY <1>4 DEF r

(* The mode of the cell and the flag of an open quote agree. *)
LEMMA ModeOpen ==
  ASSUME NEW cell, NEW b, NEW s, NEW k, NEW q, NEW close, NEW skips, NEW more,
         CellRel(cell, b, s, k, q, close, skips, more), ~skips, "PENDING" \notin q
  PROVE  cell.mode = "open" <=> "UNCLOSED" \in q
BY DEF CellRel

(* Append, as the function it is. *)
LEMMA AppendAsFunction ==
  ASSUME NEW T, NEW s \in Seq(T), NEW v \in T
  PROVE  Append(s, v) = [j \in 1 .. Len(s) + 1 |-> IF j = Len(s) + 1 THEN v ELSE s[j]]
<1> DEFINE w == Append(s, v)
<1>1. w \in Seq(T) /\ Len(w) = Len(s) + 1 /\ Len(s) \in Nat
      /\ \A j \in 1 .. Len(s) + 1 : w[j] = IF j = Len(s) + 1 THEN v ELSE s[j]
  OBVIOUS
<1> HIDE DEF w
<1>2. w = [j \in 1 .. Len(w) |-> w[j]]
  BY <1>1
<1>3. w = [j \in 1 .. Len(s) + 1 |-> w[j]]
  BY <1>1, <1>2
<1> QED BY <1>1, <1>3 DEF w

(* A cell that shows the value v adds it to the row, and leaves the cells before
   it alone. *)
LEMMA CellAdded ==
  ASSUME buff \in Buffer, cells \in Seq(Cell),
         NEW s \in Nat, s <= Size, \A j \in 1 .. Len(cells) : cells[j].str + cells[j].len < s,
         NEW u, NEW v \in Content, Shows(u, s, v), NEW q,
         NEW vals \in Seq(Content), vals = Values(Delivered(buff, cells))
  PROVE  Values(Delivered(u.buff, AddCell(u, q)))
           = IF Len(vals) < MaxCols THEN Append(vals, v) ELSE vals
<1> DEFINE more2 == AddCell(u, q)
<1>1. vals = [j \in 1 .. Len(cells) |-> Contents(buff, cells[j])]
  BY ValuesOfDelivered
<1>4. ASSUME NEW j \in 1 .. Len(cells)
      PROVE  Contents(u.buff, cells[j]) = Contents(buff, cells[j])
  <2>1. cells[j].str \in Nat /\ cells[j].len \in Nat /\ cells[j].str + cells[j].len < s
    <3>1. cells[j] \in Cell
      OBVIOUS
    <3> QED BY <3>1, SizeAssumption DEF Cell, SizeT
  <2>2. \A m \in 1 .. cells[j].len : u.buff[cells[j].str + m - 1] = buff[cells[j].str + m - 1]
    <3>1. \A x, y, e \in Nat : x + y < e => \A m \in 1 .. y : x + m - 1 \in 0 .. e - 1
      OBVIOUS
    <3>2. \A m \in 1 .. cells[j].len : cells[j].str + m - 1 \in 0 .. s - 1
      BY <2>1, <3>1
    <3> QED BY <3>2 DEF Shows
  <2> QED BY <2>2 DEF Contents
<1>5. ASSUME NEW flags
      PROVE  Contents(u.buff, [str |-> u.str, len |-> u.len, quoted |-> flags]) = v
  <2>1. Len(v) \in Nat /\ v = [m \in 1 .. Len(v) |-> v[m]]
    BY DEF Content
  <2>2. u.str + u.len <= Size /\ u.len = Len(v)
    BY DEF Shows
  <2>3. Contents(u.buff, [str |-> u.str, len |-> u.len, quoted |-> flags])
          = [m \in 1 .. Len(v) |-> u.buff[u.str + m - 1]]
    BY <2>2 DEF Contents, InBuffer
  <2>4. \A m \in 1 .. Len(v) : u.buff[u.str + m - 1] = v[m]
    BY DEF Shows
  <2> QED BY <2>1, <2>3, <2>4
<1>6. Values(Delivered(u.buff, more2)) = [j \in 1 .. Len(more2) |-> Contents(u.buff, more2[j])]
  BY ValuesOfDelivered
<1>7. Len(vals) = Len(cells) /\ Len(cells) \in Nat
  BY <1>1
<1>8. CASE Len(cells) < MaxCols
  <2> DEFINE c == [str |-> u.str, len |-> u.len, quoted |-> q]
  <2>1. more2 = Append(cells, c)
    BY <1>8 DEF AddCell
  <2> HIDE DEF c
  <2>2. Len(more2) = Len(cells) + 1 /\ more2[Len(cells) + 1] = c
        /\ \A j \in 1 .. Len(cells) : more2[j] = cells[j]
    BY <2>1
  <2> HIDE DEF more2
  <2> DEFINE w == [j \in 1 .. Len(more2) |-> Contents(u.buff, more2[j])]
  <2>3. w[Len(cells) + 1] = v
    BY <1>5, <1>7, <2>2 DEF c
  <2>4. \A j \in 1 .. Len(cells) : w[j] = vals[j]
    BY <1>1, <1>4, <1>7, <2>2
  <2>5. Append(vals, v) = [j \in 1 .. Len(cells) + 1 |-> IF j = Len(cells) + 1 THEN v ELSE vals[j]]
    <3>1. Append(vals, v) = [j \in 1 .. Len(vals) + 1 |-> IF j = Len(vals) + 1 THEN v ELSE vals[j]]
      BY AppendAsFunction
    <3> QED BY <1>7, <3>1
  <2>6. w = Append(vals, v)
    <3>1. w = [j \in 1 .. Len(cells) + 1 |-> w[j]]
      BY <2>2
    <3> HIDE DEF w
    <3>2. \A j \in 1 .. Len(cells) + 1 :
            w[j] = IF j = Len(cells) + 1 THEN v ELSE vals[j]
      BY <1>7, <2>3, <2>4
    <3> QED BY <2>5, <3>1, <3>2
  <2> QED BY <1>6, <1>7, <1>8, <2>6 DEF more2
<1>9. CASE ~(Len(cells) < MaxCols)
  <2>1. more2 = cells
    BY <1>9 DEF AddCell
  <2>2. [j \in 1 .. Len(cells) |-> Contents(u.buff, cells[j])] = vals
    BY <1>1, <1>4
  <2> QED BY <1>6, <1>7, <1>9, <2>1, <2>2
<1> QED BY <1>8, <1>9

(* cell_dl adds the value of the cell that has ended, and leaves the cells before
   it alone. *)
LEMMA RowDelim ==
  ASSUME buff \in Buffer, cells \in Seq(Cell),
         NEW p, NEW rs \in Nat, NEW s \in Nat, NEW k \in Nat, k <= Size, s <= k,
         NEW q \in SUBSET Flags, NEW close \in SizeT, NEW more,
         RowRel(p, buff, cells, rs, s, k, q, close, FALSE, more),
         "UNCLOSED" \notin q,
         \A j \in 1 .. Len(cells) : cells[j].str + cells[j].len < s
  PROVE  LET u == Unquote(q, close, s, k - s) IN
         Promise!CloseCell(p).cells = Values(Delivered(u.buff, AddCell(u, q)))
<1> DEFINE u == Unquote(q, close, s, k - s)
           v == Promise!ValueOf(p.cell)
<1>1. /\ p \in ReadState /\ p.cell \in ReadCell /\ p.cells \in Seq(Content)
      /\ CellRel(p.cell, buff, s, k, q, close, FALSE, more)
      /\ p.cells = Values(Delivered(buff, cells))
  BY DEF RowRel, ReadState
<1>2. Shows(u, s, v)
  BY <1>1, UnquoteShows
<1>3. /\ v \in Content
      /\ Promise!CloseCell(p).cells = IF Len(p.cells) < MaxCols THEN Append(p.cells, v) ELSE p.cells
  BY <1>1, CloseCellFacts
<1>4. s <= Size
  BY SizeAssumption
<1> HIDE DEF u, v
<1>5. Values(Delivered(u.buff, AddCell(u, q)))
        = IF Len(p.cells) < MaxCols THEN Append(p.cells, v) ELSE p.cells
  BY <1>1, <1>2, <1>3, <1>4, CellAdded
<1> QED BY <1>3, <1>5 DEF u

----
(* What the buffer says of the input. *)

(* The input grows, and a truncated row is not forgotten. *)
LEMMA SoundKept ==
  ASSUME TypeOK, [Next]_vars
  PROVE  /\ Sound' => Sound
         /\ fed' = fed \/ (Read /\ \E bytes \in Seq(Byte) : fed' = fed \o bytes)
         /\ Quote \notin Range(fed') => Quote \notin Range(fed)
         /\ truncated => truncated'
<1>1. fed' = fed \/ (Read /\ \E bytes \in Seq(Byte) : fed' = fed \o bytes)
  <2>1. ASSUME Read
        PROVE  \E bytes \in Seq(Byte) : fed' = fed \o bytes
    <3>1. PICK n \in 1 .. Smaller(capacity, MaxInput - Len(fed)) :
            \E bytes \in [1 .. n -> Byte] : fed' = fed \o bytes
      BY <2>1 DEF Read
    <3>2. PICK bytes \in [1 .. n -> Byte] : fed' = fed \o bytes
      BY <3>1
    <3>3. n \in Nat
      OBVIOUS
    <3>4. bytes \in Seq(Byte)
      BY <3>3
    <3> QED BY <3>2, <3>4
  <2>2. ASSUME ~Read
        PROVE  fed' = fed
    BY <2>2, Zenon DEF Next, PreParse, Scan, MovePartialRow, StartFreshRow, StartEmpty, EnterParse,
                TruncateRow, SkipBom, ReadNothing, SkipDoubledQuote, Plain, EscapedSpecial,
                EndCell, IgnoreLf, EndRow, FaultInCell, VisitQuote, EndScan, AbortBetweenCalls,
                Finish, FaultInFinish, vars, envVars
  <2> QED BY <2>1, <2>2
<1>2. Range(fed) \subseteq Range(fed')
  <2>1. ASSUME NEW bytes \in Seq(Byte), fed' = fed \o bytes
        PROVE  Range(fed) \subseteq Range(fed')
    <3>1. fed \in Seq(Byte)
      BY DEF TypeOK
    <3> QED BY <2>1, <3>1 DEF Range
  <2> QED BY <1>1, <2>1
<1>3. truncated => truncated'
  BY DEF Next, PreParse, Scan, MovePartialRow, StartFreshRow, StartEmpty, EnterParse,
         TruncateRow, SkipBom, ReadNothing, Read, SkipDoubledQuote, Plain,
         EscapedSpecial, EndCell, IgnoreLf, EndRow, FaultInCell, VisitQuote, EndScan,
         AbortBetweenCalls, Finish, FaultInFinish, vars, onceVars, TypeOK
<1> QED BY <1>1, <1>2, <1>3 DEF Sound

(* What a read does when it does not leave the buffer. *)
LEMMA ReadFacts ==
  ASSUME TypeOK, Read, pc' # "fault"
  PROVE  \E n \in Nat \ {0} : \E bytes \in Seq(Byte) :
           /\ Len(bytes) = n /\ fed' = fed \o bytes
           /\ partial_row_length + n <= Size
           /\ \A k \in 0 .. Size - 1 :
                buff'[k] = IF k >= partial_row_length /\ k < partial_row_length + n
                           THEN bytes[k - partial_row_length + 1] ELSE buff[k]
           /\ BeginScan(bytes) /\ pc' = "scan" /\ pc = "read"
           /\ UNCHANGED <<last, old_bytes_read, capacity, posVars, lengthVars, rowVars,
                          api, inputs, had_bom, truncated, abort, finished, status, calls>>
<1>1. PICK n \in 1 .. Smaller(capacity, MaxInput - Len(fed)) :
        \E bytes \in [1 .. n -> Byte] :
          /\ fed' = fed \o bytes
          /\ IF partial_row_length + n > Size
             THEN pc' = "fault" /\ UNCHANGED <<buff, partial_row_length, scanVars, quoteVars>>
             ELSE /\ buff' = [ k \in DOMAIN buff |->
                                IF k >= partial_row_length /\ k < partial_row_length + n
                                THEN bytes[k - partial_row_length + 1] ELSE buff[k] ]
                  /\ BeginScan(bytes)
                  /\ pc' = "scan"
  BY DEF Read
<1>2. PICK bytes \in [1 .. n -> Byte] :
        /\ fed' = fed \o bytes
        /\ ~(partial_row_length + n > Size)
        /\ buff' = [ k \in DOMAIN buff |->
                       IF k >= partial_row_length /\ k < partial_row_length + n
                       THEN bytes[k - partial_row_length + 1] ELSE buff[k] ]
        /\ BeginScan(bytes)
        /\ pc' = "scan"
  BY <1>1
<1>3. n \in Nat \ {0} /\ bytes \in Seq(Byte) /\ Len(bytes) = n /\ DOMAIN buff = 0 .. Size - 1
  BY <1>1, <1>2 DEF TypeOK, Buffer
<1>4. partial_row_length + n <= Size
  BY <1>2, <1>3, SizeAssumption DEF TypeOK
<1>5. pc = "read" /\ UNCHANGED <<last, old_bytes_read, capacity, posVars, lengthVars, rowVars,
                          api, inputs, had_bom, truncated, abort, finished, status, calls>>
  BY DEF Read
<1> QED BY <1>2, <1>3, <1>4, <1>5

(* What a concatenation holds, element by element. *)
LEMMA CatFacts ==
  ASSUME NEW T, NEW s \in Seq(T), NEW t \in Seq(T)
  PROVE  /\ s \o t \in Seq(T) /\ Len(s \o t) = Len(s) + Len(t)
         /\ \A j \in 1 .. Len(s) : (s \o t)[j] = s[j]
         /\ \A j \in 1 .. Len(t) : (s \o t)[Len(s) + j] = t[j]
<1>1. ASSUME NEW j \in 1 .. Len(t)
      PROVE  (s \o t)[Len(s) + j] = t[j]
  <2>1. Len(s) + j \in 1 .. Len(s) + Len(t) /\ Len(s) + j > Len(s) /\ (Len(s) + j) - Len(s) = j
    OBVIOUS
  <2> QED BY <2>1
<1> QED BY <1>1

(* Nothing is read at first. *)
LEMMA FeedInit == Init => FeedInv
BY DEF Init, FeedInv

(* cell_dl leaves the bytes that are still to be scanned alone. *)
LEMMA BytesAheadKept ==
  ASSUME TypeOK, StageInv, RowInv, FeedInv, Sound, Scanning, ~Open
  PROVE  \A m \in i .. bytes_read - 1 : CellHere.buff[m] = buff[m]
<1>1. pc = "scan" /\ i < bytes_read /\ i \in 0 .. Size /\ bytes_read \in 0 .. Size
  BY DEF Scanning, TypeOK
<1>2. CASE InRow
  <2>1. \A k \in 0 .. Size - 1 : k >= i => CellHere.buff[k] = buff[k]
    BY <1>1, <1>2, CellSound
  <2> QED BY <1>1, <2>1, SizeAssumption
<1>3. CASE ~InRow
  <2>1. buffer_exceeded
    BY <1>1, <1>3 DEF InRow, CutShort, StageInv
  <2>2. quoted = {}
    BY <2>1 DEF StageInv, Sound, FeedInv
  <2>3. CellHere.buff = buff
    BY <2>2 DEF CellHere, Unquote
  <2> QED BY <2>3
<1> QED BY <1>2, <1>3

(* Every step of the parser keeps what the buffer says of the input. *)
LEMMA FeedStep ==
  ASSUME TypeOK, StageInv, RowInv, FeedInv, [Next]_vars
  PROVE  FeedInv'
<1> USE SizeAssumption
<1>0. /\ buff \in Buffer /\ fed \in Seq(Byte) /\ Len(fed) \in Nat
      /\ i \in 0 .. Size /\ bytes_read \in 0 .. Size /\ partial_row_length \in 0 .. Size
  BY DEF TypeOK
<1>1. /\ Sound' => Sound
      /\ Quote \notin Range(fed') => Quote \notin Range(fed)
  BY SoundKept
<1>2. ASSUME UNCHANGED <<quoted, fed>>, pc' # "scan"
      PROVE  FeedInv'
  BY <1>2 DEF FeedInv
<1>3. ASSUME pc = "scan", pc' = "scan", i < bytes_read, i' = i + 1, UNCHANGED <<bytes_read, fed>>,
             Sound' => \A m \in i + 1 .. bytes_read - 1 : buff'[m] = buff[m],
             Quote \notin Range(fed) => quoted' = {}
      PROVE  FeedInv'
  <2>1. Sound' => \A m \in i' .. bytes_read' - 1 : buff'[m] = fed'[Len(fed') - bytes_read' + m + 1]
    BY <1>0, <1>1, <1>3 DEF FeedInv
  <2> QED BY <1>0, <1>1, <1>3, <2>1 DEF FeedInv
<1>4. CASE MovePartialRow \/ StartFreshRow \/ StartEmpty \/ TruncateRow \/ SkipBom \/ ReadNothing
           \/ FaultInCell \/ EndScan \/ AbortBetweenCalls \/ FaultInFinish
  <2>1. pc' # "scan" /\ fed' = fed /\ (quoted' = {} \/ quoted' = quoted)
    BY <1>4 DEF MovePartialRow, StartFreshRow, StartEmpty, EnterParse, TruncateRow, SkipBom,
                ReadNothing, FaultInCell, EndScan, AbortBetweenCalls, FaultInFinish, envVars, quoteVars
  <2> QED BY <1>1, <2>1 DEF FeedInv
<1>5. CASE Finish
  <2>1. pc' = "done" /\ fed' = fed
    BY <1>5 DEF Finish, envVars
  <2>2. quoted = {} => quoted' = {}
    BY <1>5 DEF Finish, FinalQuoted, ClosesOpenQuote, Open
  <2> QED BY <1>1, <2>1, <2>2 DEF FeedInv
<1>6. CASE Read /\ pc' = "fault"
  <2>1. UNCHANGED quoted
    <3>1. PICK n \in 1 .. Smaller(capacity, MaxInput - Len(fed)) :
        \E bytes \in [1 .. n -> Byte] :
             IF partial_row_length + n > Size
             THEN pc' = "fault" /\ UNCHANGED <<buff, partial_row_length, scanVars, quoteVars>>
             ELSE pc' = "scan"
      BY <1>6 DEF Read
    <3> QED BY <1>6, <3>1 DEF quoteVars
  <2> QED BY <1>1, <1>6, <2>1 DEF FeedInv
<1>7. CASE Read /\ pc' # "fault"
  <2>1. PICK n \in Nat \ {0} : \E bytes \in Seq(Byte) :
           /\ Len(bytes) = n /\ fed' = fed \o bytes
           /\ partial_row_length + n <= Size
           /\ \A k \in 0 .. Size - 1 :
                buff'[k] = IF k >= partial_row_length /\ k < partial_row_length + n
                           THEN bytes[k - partial_row_length + 1] ELSE buff[k]
           /\ BeginScan(bytes)
    BY <1>7, ReadFacts
  <2>2. PICK bytes \in Seq(Byte) :
           /\ Len(bytes) = n /\ fed' = fed \o bytes
           /\ partial_row_length + n <= Size
           /\ \A k \in 0 .. Size - 1 :
                buff'[k] = IF k >= partial_row_length /\ k < partial_row_length + n
                           THEN bytes[k - partial_row_length + 1] ELSE buff[k]
           /\ BeginScan(bytes)
    BY <2>1
  <2>3. /\ bytes_read' = partial_row_length + n
        /\ i' \in {partial_row_length, partial_row_length + 1} /\ i' >= partial_row_length
    BY <1>0, <2>2 DEF BeginScan
  <2>4. /\ Len(fed') = Len(fed) + n
        /\ \A j \in 1 .. n : fed'[Len(fed) + j] = bytes[j]
    <3>1. fed' = fed \o bytes /\ fed \in Seq(Byte) /\ bytes \in Seq(Byte) /\ Len(bytes) = n
      BY <1>0, <2>2
    <3>a. fed \in Seq(Byte) /\ bytes \in Seq(Byte)
      BY <3>1
    <3>b. /\ Len(fed \o bytes) = Len(fed) + Len(bytes)
          /\ \A j \in 1 .. Len(bytes) : (fed \o bytes)[Len(fed) + j] = bytes[j]
      BY <3>a, CatFacts
    <3>2. Len(fed \o bytes) = Len(fed) + Len(bytes)
          /\ \A j \in 1 .. Len(bytes) : (fed \o bytes)[Len(fed) + j] = bytes[j]
      BY <3>b
    <3> QED BY <3>1, <3>2
  <2>5. quoted = {} => quoted' = {}
    BY <2>2 DEF BeginScan
  <2>6. ASSUME NEW m \in i' .. bytes_read' - 1
        PROVE  buff'[m] = fed'[Len(fed') - bytes_read' + m + 1]
    <3>1. m \in partial_row_length .. partial_row_length + n - 1 /\ m \in 0 .. Size - 1
      BY <1>0, <2>2, <2>3
    <3>2. buff'[m] = bytes[m - partial_row_length + 1]
      BY <1>0, <2>2, <3>1
    <3>3. /\ m - partial_row_length + 1 \in 1 .. n
          /\ Len(fed) + (m - partial_row_length + 1) = Len(fed') - bytes_read' + m + 1
      BY <1>0, <2>3, <2>4, <3>1
    <3> QED BY <2>4, <3>2, <3>3
  <2>7. bytes_read' - i' <= Len(fed')
    BY <1>0, <2>3, <2>4
  <2> QED BY <1>1, <2>5, <2>6, <2>7 DEF FeedInv
<1>8. CASE SkipDoubledQuote \/ Plain \/ IgnoreLf
  <2>1. /\ pc = "scan" /\ pc' = "scan" /\ i < bytes_read /\ i' = i + 1
        /\ UNCHANGED <<bytes_read, fed, buff, quoted>>
    BY <1>8 DEF SkipDoubledQuote, Plain, IgnoreLf, Visit, Scanning, NextByte, bufVars, envVars, quoteVars
  <2> QED BY <1>3, <2>1 DEF FeedInv
<1>9. CASE EscapedSpecial
  <2>1. /\ pc = "scan" /\ pc' = "scan" /\ i < bytes_read /\ i' = i + 1
        /\ UNCHANGED <<bytes_read, fed, buff>> /\ quoted # {}
    BY <1>9 DEF EscapedSpecial, Visit, Scanning, NextByte, bufVars, envVars, Open
  <2> QED BY <1>3, <2>1 DEF FeedInv
<1>10. CASE EndCell
  <2>1. /\ pc = "scan" /\ pc' = "scan" /\ i < bytes_read /\ i' = i + 1
        /\ UNCHANGED <<bytes_read, fed>> /\ quoted' = {} /\ buff' = CellHere.buff
        /\ Scanning /\ ~Open
    BY <1>10 DEF EndCell, Visit, Scanning, NextByte, envVars
  <2>2. Sound' => \A m \in i + 1 .. bytes_read - 1 : buff'[m] = buff[m]
    <3>. HAVE Sound'
    <3>1. \A m \in i .. bytes_read - 1 : CellHere.buff[m] = buff[m]
      BY <1>1, <2>1, BytesAheadKept
    <3> QED BY <1>0, <2>1, <3>1
  <2>3. Quote \notin Range(fed') => quoted' = {}
    BY <2>1
  <2> QED BY <1>3, <2>1, <2>2, <2>3
<1>11. CASE EndRow
  <2>1. /\ pc = "scan" /\ i < bytes_read
        /\ fed' = fed /\ quoted' = {} /\ buff' = CellHere.buff
        /\ Scanning /\ ~Open
        /\ pc' = "idle" \/ (pc' = pc /\ NextByte)
    BY <1>11 DEF EndRow, AtRowEnd, Visit, Scanning, envVars
  <2>2. Sound' => \A m \in i + 1 .. bytes_read - 1 : buff'[m] = buff[m]
    <3>. HAVE Sound'
    <3>1. \A m \in i .. bytes_read - 1 : CellHere.buff[m] = buff[m]
      BY <1>1, <2>1, BytesAheadKept
    <3> QED BY <1>0, <2>1, <3>1
  <2>3. CASE pc' = "idle"
    BY <2>1, <2>3 DEF FeedInv
  <2>4. CASE pc' = pc /\ NextByte
    BY <1>3, <2>1, <2>2, <2>4 DEF NextByte
  <2> QED BY <2>1, <2>3, <2>4
<1>12. CASE VisitQuote
  <2>1. /\ pc = "scan" /\ pc' = "scan" /\ i < bytes_read /\ i' = i + 1
        /\ UNCHANGED <<bytes_read, fed, buff>> /\ buff[i] = Quote
    BY <1>12 DEF VisitQuote, Visit, Scanning, NextByte, bufVars, envVars
  <2>2. Quote \in Range(fed)
    <3>1. SUFFICES ASSUME Quote \notin Range(fed)
                   PROVE  FALSE
      OBVIOUS
    <3>2. buff[i] = fed[Len(fed) - bytes_read + i + 1]
      BY <1>0, <2>1, <3>1 DEF FeedInv, Sound
    <3>3. Len(fed) - bytes_read + i + 1 \in 1 .. Len(fed)
      BY <1>0, <2>1 DEF FeedInv
    <3> QED BY <1>0, <2>1, <3>1, <3>2, <3>3 DEF Range
  <2> QED BY <1>3, <2>1, <2>2
<1>13. CASE UNCHANGED vars
  BY <1>13 DEF vars, FeedInv, Sound, bufVars, quoteVars, scanVars, envVars, onceVars
<1> QED BY <1>4, <1>5, <1>6, <1>7, <1>8, <1>9, <1>10, <1>11, <1>12, <1>13 DEF Next, PreParse, Scan

----
(* The row that is being scanned is traced by CsvRows. *)

(* A step that touches neither the row nor the position keeps the trace. *)
LEMMA TraceFrame ==
  ASSUME RowTraced,
         UNCHANGED <<buff, cells, row_start, cell_start, quoted, quote_close_position, fed>>,
         Cursor' = Cursor, Scanned' = Scanned, Skips' = Skips, More' = More
  PROVE  RowTraced'
<1>1. RowBytes' = RowBytes
  BY DEF RowBytes
<1> QED BY <1>1 DEF RowTraced

(* Where the scanner is in the input, within its bounds. *)
LEMMA ScannedType ==
  ASSUME TypeOK, FeedInv, InRow, StageInv
  PROVE  /\ Scanned \in Nat /\ Scanned <= Len(fed) /\ Len(fed) \in Nat
         /\ Cursor \in 0 .. Size
         /\ (pc = "scan" => Cursor = i /\ Scanned = Len(fed) - (bytes_read - i))
         /\ (pc # "scan" => Scanned = Len(fed))
BY SizeAssumption DEF TypeOK, FeedInv, InRow, Scanned, Cursor, StageInv

(* One more byte of the row is scanned. *)
LEMMA ByteScanned ==
  ASSUME TypeOK, StageInv, FeedInv, InRow, Sound, RowTraced, Scanning,
         pc' = pc, NextByte, UNCHANGED <<fed, row_start>>
  PROVE  /\ buff[i] \in Byte
         /\ Promise!Parse(RowBytes') = Promise!AddToRow(Promise!Parse(RowBytes), buff[i])
         /\ Scanned' = Scanned + 1 /\ Cursor' = i + 1 /\ Cursor = i
         /\ Cursor' - row_start' <= Scanned'
<1>1. /\ pc = "scan" /\ i < bytes_read /\ i' = i + 1 /\ bytes_read' = bytes_read /\ pc' = "scan"
      /\ i \in Nat /\ bytes_read \in Nat /\ row_start \in Nat /\ fed \in Seq(Byte)
  BY SizeAssumption DEF Scanning, NextByte, TypeOK
<1>2. /\ Scanned \in Nat /\ Scanned <= Len(fed) /\ Cursor = i
      /\ Scanned = Len(fed) - (bytes_read - i) /\ Len(fed) \in Nat
  BY <1>1, ScannedType
<1>3. Cursor' = i + 1 /\ Scanned' = Scanned + 1 /\ Scanned < Len(fed)
  BY <1>1, <1>2 DEF Cursor, Scanned
<1>4. buff[i] = fed[Scanned + 1] /\ buff[i] \in Byte
  <2>1. buff[i] = fed[Len(fed) - bytes_read + i + 1]
    <3>1. i \in i .. bytes_read - 1
      BY <1>1
    <3>2. \A m \in i .. bytes_read - 1 : buff[m] = fed[Len(fed) - bytes_read + m + 1]
      BY <1>1, Zenon DEF FeedInv
    <3> QED BY <3>1, <3>2
  <2>2. Len(fed) - bytes_read + i + 1 = Scanned + 1 /\ Scanned + 1 \in 1 .. Len(fed)
    BY <1>1, <1>2, <1>3
  <2> QED BY <1>1, <2>1, <2>2
<1> DEFINE lo == Scanned - (i - row_start)
<1>5. lo \in Nat /\ lo <= Scanned
  BY <1>1, <1>2 DEF RowTraced, StageInv
<1>6. RowBytes = SubSeq(fed, lo + 1, Scanned) /\ RowBytes' = SubSeq(fed, lo + 1, Scanned + 1)
  <2>1. (Scanned + 1) - ((i + 1) - row_start) = lo
    BY <1>1, <1>2
  <2> QED BY <1>2, <1>3, <2>1 DEF RowBytes
<1>7. /\ SubSeq(fed, lo + 1, Scanned) \in Seq(Byte)
      /\ SubSeq(fed, lo + 1, Scanned + 1) = Append(SubSeq(fed, lo + 1, Scanned), fed[Scanned + 1])
  <2> DEFINE hi == Scanned
  <2>1. fed \in Seq(Byte) /\ lo \in Nat /\ hi \in Nat /\ lo <= hi /\ hi < Len(fed) /\ hi <= Len(fed)
    BY <1>1, <1>2, <1>3, <1>5
  <2> HIDE DEF lo, hi
  <2>2. /\ SubSeq(fed, lo + 1, hi) \in Seq(Byte)
        /\ SubSeq(fed, lo + 1, hi + 1) = Append(SubSeq(fed, lo + 1, hi), fed[hi + 1])
    BY <2>1, SubSeqFacts
  <2> QED BY <2>2 DEF hi
<1>8. Promise!Parse(RowBytes') = Promise!AddToRow(Promise!Parse(RowBytes), buff[i])
  BY <1>4, <1>6, <1>7, ParseOneMore
<1>9. (i + 1) - row_start <= Scanned + 1
  BY <1>1, <1>2 DEF RowTraced
<1> QED BY <1>2, <1>3, <1>4, <1>8, <1>9

(* The bytes of a row that has just begun. *)
LEMMA NoRowBytes ==
  ASSUME fed \in Seq(Byte), Scanned \in Nat, Scanned <= Len(fed), Cursor = row_start, row_start \in Nat
  PROVE  Promise!Parse(RowBytes) = Promise!Start
<1>1. RowBytes = SubSeq(fed, Scanned + 1, Scanned)
  BY DEF RowBytes
<1>2. SubSeq(fed, Scanned + 1, Scanned) = <<>>
  BY SubSeqFacts
<1> QED BY <1>1, <1>2, ParseNothing

(* A row that has no bytes yet is traced. *)
LEMMA RowBegins ==
  ASSUME fed \in Seq(Byte), Scanned \in Nat, Scanned <= Len(fed),
         Cursor = row_start, row_start \in Nat, cell_start = row_start,
         cells = <<>>, quoted = {}, ~Skips
  PROVE  RowTraced
<1>1. Promise!Parse(RowBytes) = Promise!Start
  BY NoRowBytes
<1>2. RowRel(Promise!Start, buff, <<>>, row_start, row_start, row_start, {},
             quote_close_position, FALSE, More)
  BY RowRelStart
<1>3. Skips = FALSE
  BY DEF Skips
<1>4. Cursor - row_start <= Scanned
  OBVIOUS
<1> QED BY <1>1, <1>2, <1>3, <1>4 DEF RowTraced

----
(* One byte is scanned. *)

(* The relation before a byte is scanned. *)
LEMMA BeforeByte ==
  ASSUME TypeOK, StageInv, InRow, RowTraced, Scanning
  PROVE  /\ RowRel(Promise!Parse(RowBytes), buff, cells, row_start, cell_start, i,
                   quoted, quote_close_position, skip_next_delim, TRUE)
         /\ row_start \in Nat /\ cell_start \in Nat /\ i \in Nat /\ i < Size
         /\ quote_close_position \in Nat /\ buff \in Buffer
         /\ pc = "scan" /\ i < bytes_read
<1>1. Cursor = i /\ (Skips <=> skip_next_delim) /\ (More <=> TRUE)
  BY DEF Scanning, Cursor, Skips, More
<1>2. Skips = skip_next_delim /\ More = TRUE
  BY <1>1 DEF TypeOK, Skips, More
<1>3. RowRel(Promise!Parse(RowBytes), buff, cells, row_start, cell_start, i,
             quoted, quote_close_position, skip_next_delim, TRUE)
  BY <1>1, <1>2 DEF RowTraced
<1>4. /\ row_start \in Nat /\ cell_start \in Nat /\ i \in Nat /\ i < Size
      /\ quote_close_position \in Nat /\ buff \in Buffer
      /\ pc = "scan" /\ i < bytes_read
  BY SizeAssumption DEF Scanning, TypeOK, SizeT
<1> QED BY <1>3, <1>4

(* A byte of the cell has been scanned. *)
LEMMA ContentStep ==
  ASSUME TypeOK, StageInv, FeedInv, InRow, Sound, RowTraced, Scanning,
         pc' = pc, NextByte, UNCHANGED <<buff, fed, row_start, cell_start, cells>>,
         NEW p, p = Promise!Parse(RowBytes),
         p.cell.mode = "open" \/ buff[i] \notin {Delim, Cr, Lf},
         CellRel(Promise!AddByte(p.cell, buff[i]), buff, cell_start, i + 1,
                 quoted', quote_close_position', Skips', More')
  PROVE  RowTraced'
<1>1. /\ RowRel(p, buff, cells, row_start, cell_start, i,
                quoted, quote_close_position, skip_next_delim, TRUE)
      /\ row_start \in Nat /\ cell_start \in Nat /\ i \in Nat /\ i < Size
      /\ buff \in Buffer
  BY BeforeByte
<1>2. RowRel(Promise!AddToRow(p, buff[i]), buff, cells, row_start, cell_start, i + 1,
             quoted', quote_close_position', Skips', More')
  BY <1>1, RowContent
<1>3. /\ Promise!Parse(RowBytes') = Promise!AddToRow(p, buff[i])
      /\ Cursor' = i + 1 /\ Cursor' - row_start' <= Scanned'
  BY ByteScanned
<1> QED BY <1>2, <1>3 DEF RowTraced

(* A visited quote: opens a cell, closes it, or strays. *)
LEMMA TraceQuote ==
  ASSUME TypeOK, StageInv, RowInv, FeedInv, InRow, Sound, RowTraced, VisitQuote
  PROVE  RowTraced'
<1>1. PICK p : p = Promise!Parse(RowBytes)
  OBVIOUS
<1>2. /\ Scanning /\ pc' = pc /\ NextByte /\ buff[i] = Quote /\ skip_next_delim = FALSE
      /\ UNCHANGED <<buff, fed, row_start, cell_start, cells>> /\ pc = "scan" /\ ~buffer_exceeded
      /\ bytes_read' = bytes_read /\ i' = i + 1 /\ i \in Nat /\ bytes_read \in Nat /\ i < bytes_read
  BY SizeAssumption DEF VisitQuote, Visit, Scanning, NextByte, bufVars, posVars, envVars, rowVars, TypeOK, InRow
<1>3. /\ RowRel(p, buff, cells, row_start, cell_start, i,
                quoted, quote_close_position, FALSE, TRUE)
      /\ row_start \in Nat /\ cell_start \in Nat /\ i \in Nat /\ i < Size
      /\ quote_close_position \in Nat /\ buff \in Buffer
  BY <1>1, <1>2, BeforeByte
<1>4. /\ p.cell \in ReadCell
      /\ CellRel(p.cell, buff, cell_start, i, quoted, quote_close_position, FALSE, TRUE)
  BY <1>3 DEF RowRel, ReadState
<1>5. buff[i] \notin {Delim, Cr, Lf}
  BY <1>2, SpecialsAssumption
<1>6. ASSUME CellRel(Promise!AddByte(p.cell, buff[i]), buff, cell_start, i + 1,
                     quoted', quote_close_position', Skips', More')
      PROVE  RowTraced'
  BY <1>1, <1>2, <1>5, <1>6, ContentStep
<1>7. "PENDING" \notin quoted
  BY <1>2 DEF RowInv, QuoteInv
<1>8. /\ pc' = "scan" /\ (Skips' <=> skip_next_delim') /\ (More' <=> i + 1 < bytes_read)
  BY <1>2 DEF Skips, More
<1>9. CASE i = cell_start
  <2>1. quoted' = {"UNCLOSED"} /\ quote_close_position' = 0 /\ skip_next_delim' = FALSE
    BY <1>2, <1>9 DEF VisitQuote
  <2>2. \A more : CellRel(Promise!AddByte(p.cell, buff[i]), buff, cell_start, i + 1,
                          {"UNCLOSED"}, 0, FALSE, more)
    BY <1>2, <1>3, <1>4, <1>9, CellOpens
  <2>3. Skips' = FALSE
    BY <1>8, <2>1 DEF Skips
  <2> QED BY <1>6, <2>1, <2>2, <2>3
<1>10. ASSUME i # cell_start, Open,
              "EMBEDDED" \notin quoted' => "EMBEDDED" \notin quoted,
              \/ /\ "UNCLOSED" \in quoted' /\ quote_close_position' = 0
                 /\ Skips' \/ "PENDING" \in quoted'
                 /\ Skips' => "EMBEDDED" \in quoted'
              \/ /\ "UNCLOSED" \notin quoted' /\ ~Skips' /\ quoted' # {}
                 /\ quote_close_position' = i - cell_start /\ More' /\ buff[i + 1] # Quote
       PROVE  RowTraced'
  <2>1. "UNCLOSED" \in quoted
    BY <1>10 DEF Open
  <2>2. CellRel(Promise!AddByte(p.cell, buff[i]), buff, cell_start, i + 1,
                quoted', quote_close_position', Skips', More')
    BY <1>2, <1>3, <1>4, <1>7, <1>10, <2>1, CellQuote
  <2> QED BY <1>6, <2>2
<1>11. CASE i # cell_start /\ Open
  <2>0. quote_close_position = 0 /\ "UNCLOSED" \in quoted
    BY <1>2, <1>11 DEF RowInv, QuoteInv, Open
  <2>1. CASE i + 1 = bytes_read
    <3>1. quoted' = quoted \cup {"PENDING"} /\ quote_close_position' = quote_close_position
      BY <1>2, <1>11, <2>1 DEF VisitQuote
    <3>2. ~Skips'
      BY <1>2, <1>8, <1>11, <2>1 DEF VisitQuote, Skips
    <3> QED BY <1>10, <1>11, <2>0, <3>1, <3>2
  <2>2. CASE i + 1 # bytes_read /\ buff[i + 1] = Quote
    <3>1. /\ quoted' = quoted \cup {"NEEDED", "EMBEDDED"}
          /\ quote_close_position' = quote_close_position /\ skip_next_delim' = TRUE
      BY <1>2, <1>11, <2>2 DEF VisitQuote
    <3>2. Skips'
      BY <1>8, <3>1
    <3> QED BY <1>10, <1>11, <2>0, <3>1, <3>2
  <2>3. CASE i + 1 # bytes_read /\ buff[i + 1] # Quote
    <3>1. /\ quoted' = (quoted \ {"UNCLOSED"}) \cup {"CLOSED"} /\ skip_next_delim' = FALSE
          /\ quote_close_position' = Wrap(i - cell_start)
      BY <1>2, <1>11, <2>0, <2>3 DEF VisitQuote
    <3>2. i - cell_start \in SizeT
      BY <1>2, <1>3, SizeAssumption DEF RowInv, OrderInv, Cursor, SizeT
    <3>3. quote_close_position' = i - cell_start
      BY <3>1, <3>2, WrapSmall
    <3>4. ~Skips' /\ More'
      BY <1>2, <1>8, <2>3, <3>1
    <3> QED BY <1>10, <1>11, <2>3, <3>1, <3>3, <3>4
  <2> QED BY <2>1, <2>2, <2>3
<1>12. CASE i # cell_start /\ ~Open
  <2>1. quoted' = quoted \cup {"EMBEDDED"} /\ quote_close_position' = 0 /\ skip_next_delim' = FALSE
    BY <1>2, <1>12 DEF VisitQuote
  <2>2. \A more : CellRel(Promise!AddByte(p.cell, buff[i]), buff, cell_start, i + 1,
                          quoted \cup {"EMBEDDED"}, 0, FALSE, more)
    BY <1>2, <1>3, <1>4, <1>12, CellStray DEF Open
  <2>3. Skips' = FALSE
    BY <1>8, <2>1 DEF Skips
  <2> QED BY <1>6, <2>1, <2>2, <2>3
<1> QED BY <1>9, <1>11, <1>12

(* A byte of content, a special byte between quotes included. *)
LEMMA TracePlain ==
  ASSUME TypeOK, StageInv, RowInv, FeedInv, InRow, Sound, RowTraced, Plain \/ EscapedSpecial
  PROVE  RowTraced'
<1>1. PICK p : p = Promise!Parse(RowBytes)
  OBVIOUS
<1>2. /\ Scanning /\ pc' = pc /\ NextByte /\ buff[i] # Quote /\ skip_next_delim = FALSE
      /\ UNCHANGED <<buff, fed, row_start, cell_start, cells, quote_close_position, skip_next_delim>>
      /\ pc = "scan" /\ i < bytes_read /\ i \in Nat /\ bytes_read \in Nat
      /\ \/ quoted' = quoted /\ buff[i] \notin {Delim, Cr, Lf}
         \/ quoted' = quoted \cup {"NEEDED"} /\ Open
  BY SizeAssumption, SpecialsAssumption DEF Plain, EscapedSpecial, Visit, Scanning, bufVars, posVars, envVars, rowVars,
       quoteVars, TypeOK
<1>3. /\ RowRel(p, buff, cells, row_start, cell_start, i,
                quoted, quote_close_position, FALSE, TRUE)
      /\ row_start \in Nat /\ cell_start \in Nat /\ i \in Nat /\ i < Size
      /\ quote_close_position \in Nat /\ buff \in Buffer
  BY <1>1, <1>2, BeforeByte
<1>4. /\ p.cell \in ReadCell
      /\ CellRel(p.cell, buff, cell_start, i, quoted, quote_close_position, FALSE, TRUE)
  BY <1>3 DEF RowRel, ReadState
<1>5. "PENDING" \notin quoted
  BY <1>2 DEF RowInv, QuoteInv
<1>6. p.cell.mode = "open" \/ buff[i] \notin {Delim, Cr, Lf}
  BY <1>2, <1>4, <1>5, ModeOpen DEF Open
<1>7. \A more : CellRel(Promise!AddByte(p.cell, buff[i]), buff, cell_start, i + 1,
                        quoted', quote_close_position, FALSE, more)
  BY <1>2, <1>3, <1>4, <1>5, CellPlain DEF Open
<1>8. Skips' = FALSE
  BY <1>2 DEF Skips
<1> QED BY <1>1, <1>2, <1>6, <1>7, <1>8, ContentStep

(* The second of two quotes, skipped by skip_next_delim. *)
LEMMA TraceSkip ==
  ASSUME TypeOK, StageInv, RowInv, FeedInv, InRow, Sound, RowTraced, SkipDoubledQuote
  PROVE  RowTraced'
<1>1. PICK p : p = Promise!Parse(RowBytes)
  OBVIOUS
<1>2. /\ Scanning /\ pc' = pc /\ NextByte /\ buff[i] = Quote /\ skip_next_delim = TRUE
      /\ skip_next_delim' = FALSE
      /\ UNCHANGED <<buff, fed, row_start, cell_start, cells, quote_close_position, quoted>>
      /\ pc = "scan" /\ i < bytes_read /\ i \in Nat /\ bytes_read \in Nat
  BY SizeAssumption DEF SkipDoubledQuote, Scanning, bufVars, posVars, envVars, rowVars, quoteVars, StageInv, TypeOK
<1>3. /\ RowRel(p, buff, cells, row_start, cell_start, i,
                quoted, quote_close_position, TRUE, TRUE)
      /\ row_start \in Nat /\ cell_start \in Nat /\ i \in Nat /\ i < Size
      /\ quote_close_position \in Nat /\ buff \in Buffer
  BY <1>1, <1>2, BeforeByte
<1>4. /\ p.cell \in ReadCell
      /\ CellRel(p.cell, buff, cell_start, i, quoted, quote_close_position, TRUE, TRUE)
  BY <1>3 DEF RowRel, ReadState
<1>5. "UNCLOSED" \in quoted /\ "EMBEDDED" \in quoted /\ "PENDING" \notin quoted
  <2>1. "PENDING" \notin quoted
    BY <1>2 DEF RowInv, QuoteInv
  <2> QED BY <1>4, <2>1 DEF CellRel
<1>6. \A more : CellRel(Promise!AddByte(p.cell, buff[i]), buff, cell_start, i + 1,
                        quoted, quote_close_position, FALSE, more)
  BY <1>2, <1>3, <1>4, <1>5, CellSkip
<1>7. buff[i] \notin {Delim, Cr, Lf}
  BY <1>2, SpecialsAssumption
<1>8. Skips' = FALSE
  BY <1>2 DEF Skips
<1>9. CellRel(Promise!AddByte(p.cell, buff[i]), buff, cell_start, i + 1,
              quoted', quote_close_position', Skips', More')
  BY <1>2, <1>6, <1>8
<1> QED BY <1>1, <1>2, <1>7, <1>9, ContentStep

----
(* A byte is scanned, or the row is moved. *)

(* A row read so far, with its cells, elsewhere in the buffer. *)
LEMMA RowRelMoved ==
  ASSUME NEW b \in Buffer, NEW c \in Buffer, NEW cs, NEW cs2, Len(cs2) = Len(cs),
         \A j \in 1 .. Len(cs) : Contents(c, cs2[j]) = Contents(b, cs[j]),
         NEW rs \in Nat, NEW s \in Nat, NEW k \in Nat, NEW d \in Int,
         k <= Size, s + d >= 0, k + d <= Size,
         \A m \in s .. k - 1 : c[m + d] = b[m],
         NEW p, NEW q, NEW close \in Nat, NEW more,
         RowRel(p, b, cs, rs, s, k, q, close, FALSE, FALSE)
  PROVE  RowRel(p, c, cs2, rs + d, s + d, k + d, q, close, FALSE, more)
<1>1. CellRel(p.cell, b, s, k, q, close, FALSE, FALSE)
  BY DEF RowRel
<1>2. CellRel(p.cell, c, s + d, k + d, q, close, FALSE, more)
  BY <1>1, CellRelMoved
<1>3. Values(Delivered(c, cs2)) = Values(Delivered(b, cs))
  <2>1. /\ Values(Delivered(c, cs2)) = [j \in 1 .. Len(cs) |-> Contents(c, cs2[j])]
        /\ Values(Delivered(b, cs)) = [j \in 1 .. Len(cs) |-> Contents(b, cs[j])]
    BY ValuesOfDelivered
  <2> QED BY <2>1
<1>4. /\ p \in ReadState /\ p.rows = <<>> /\ p.afterCr = FALSE
      /\ p.cells = Values(Delivered(b, cs))
      /\ rs <= k /\ p.length = k - rs /\ (p.begun <=> k > rs)
  BY DEF RowRel
<1>5. rs + d <= k + d /\ p.length = (k + d) - (rs + d) /\ (p.begun <=> k + d > rs + d)
  BY <1>4
<1> QED BY <1>2, <1>3, <1>4, <1>5 DEF RowRel

(* The partial row moves to the front of the buffer. *)
LEMMA TraceMove ==
  ASSUME TypeOK, TypeOK', StageInv, RowInv, FeedInv, InRow, RowTraced, MovePartialRow
  PROVE  RowTraced'
<1> USE SizeAssumption
<1>1. PICK p : p = Promise!Parse(RowBytes)
  OBVIOUS
<1>2. /\ pc = "idle" /\ pc' # "scan" /\ status # "cancelled" /\ status' = status
      /\ old_bytes_read > 0 /\ row_start < old_bytes_read /\ Cursor = old_bytes_read
      /\ row_start' = 0 /\ cell_start' = Wrap(cell_start - row_start)
      /\ old_bytes_read' = 0 /\ partial_row_length' = old_bytes_read - row_start
      /\ UNCHANGED <<fed, quoted, quote_close_position>>
      /\ cells' = RebasedCells
      /\ buff' = [ k \in DOMAIN buff |-> IF k < old_bytes_read - row_start
                                         THEN buff[k + row_start] ELSE buff[k] ]
  <2>1. /\ MayParse
        /\ old_bytes_read > 0 /\ row_start < old_bytes_read
        /\ row_start' = 0 /\ cell_start' = Wrap(cell_start - row_start)
        /\ EnterParse(old_bytes_read - row_start)
        /\ quoted' = quoted
        /\ cells' = RebasedCells
        /\ buff' = [ k \in DOMAIN buff |-> IF k < old_bytes_read - row_start
                                           THEN buff[k + row_start] ELSE buff[k] ]
    BY DEF MovePartialRow
  <2>2. /\ pc = "idle" /\ status # "cancelled" /\ Cursor = old_bytes_read
    BY <2>1 DEF MayParse, Cursor
  <2>3. /\ pc' # "scan" /\ status' = status
        /\ old_bytes_read' = 0 /\ partial_row_length' = old_bytes_read - row_start
        /\ UNCHANGED <<fed, quote_close_position>>
    BY <2>1 DEF EnterParse, envVars
  <2> QED BY <2>1, <2>2, <2>3
<1>3. /\ row_start \in Nat /\ cell_start \in Nat /\ old_bytes_read \in Nat /\ old_bytes_read <= Size
      /\ row_start <= cell_start /\ cell_start <= old_bytes_read /\ quote_close_position \in Nat
      /\ buff \in Buffer /\ buff' \in Buffer /\ fed \in Seq(Byte) /\ cells \in Seq(Cell)
      /\ DOMAIN buff = 0 .. Size - 1
  <2>1. /\ row_start \in Nat /\ cell_start \in Nat /\ old_bytes_read \in Nat /\ old_bytes_read <= Size
        /\ buff \in Buffer /\ fed \in Seq(Byte) /\ cells \in Seq(Cell)
        /\ quote_close_position \in Nat
    BY DEF TypeOK, SizeT
  <2>2. buff' \in Buffer
    BY DEF TypeOK
  <2>3. row_start <= cell_start /\ cell_start <= old_bytes_read
    BY <1>2 DEF RowInv, OrderInv
  <2>4. DOMAIN buff = 0 .. Size - 1
    BY <2>1 DEF Buffer
  <2> QED BY <2>1, <2>2, <2>3, <2>4
<1>4. cell_start' = cell_start - row_start
  <2>1. cell_start - row_start \in SizeT
    BY <1>3 DEF SizeT
  <2> QED BY <1>2, <2>1, WrapSmall
<1>5. Skips = FALSE /\ More = FALSE /\ Skips' = FALSE /\ More' = FALSE
  BY <1>2 DEF Skips, More
<1>6. /\ RowRel(p, buff, cells, row_start, cell_start, old_bytes_read,
                quoted, quote_close_position, FALSE, FALSE)
      /\ old_bytes_read - row_start <= Scanned
  BY <1>1, <1>2, <1>5 DEF RowTraced
<1> DEFINE d == -row_start
<1>7. d \in Int /\ cell_start + d = cell_start - row_start /\ old_bytes_read + d = old_bytes_read - row_start
      /\ row_start + d = 0
  BY <1>3
<1>8. \A m \in row_start .. old_bytes_read - 1 : buff'[m + d] = buff[m]
  <2>1. ASSUME NEW m \in row_start .. old_bytes_read - 1
        PROVE  buff'[m + d] = buff[m]
    <3>1. m + d \in 0 .. Size - 1 /\ m + d < old_bytes_read - row_start /\ (m + d) + row_start = m
      BY <1>3
    <3> QED BY <1>2, <1>3, <3>1
  <2> QED BY <2>1
<1>9. Len(cells') = Len(cells)
      /\ \A j \in 1 .. Len(cells) : Contents(buff', cells'[j]) = Contents(buff, cells[j])
  <2>1. /\ Len(cells') = Len(cells)
        /\ \A j \in 1 .. Len(cells) :
             cells'[j] = [cells[j] EXCEPT !.str = Wrap(cells[j].str - row_start)]
    <3>1. DOMAIN cells = 1 .. Len(cells) /\ Len(cells) \in Nat
      BY <1>3
    <3>2. cells' = [ k \in 1 .. Len(cells) |->
                       [cells[k] EXCEPT !.str = Wrap(cells[k].str - row_start)] ]
      BY <1>2, <3>1 DEF RebasedCells
    <3> QED BY <3>1, <3>2
  <2>2. ASSUME NEW j \in 1 .. Len(cells)
        PROVE  Contents(buff', cells'[j]) = Contents(buff, cells[j])
    <3>1. cells[j] \in Cell
      BY <1>3
    <3>2. /\ cells[j].str \in Nat /\ cells[j].len \in Nat
          /\ row_start <= cells[j].str /\ cells[j].str + cells[j].len < cell_start
      <4>1. row_start <= cells[j].str /\ cells[j].str + cells[j].len < cell_start
        BY <1>3 DEF RowInv, CellsInRow
      <4> QED BY <3>1, <4>1 DEF Cell, SizeT
    <3>3. cells[j].str - row_start \in SizeT
      BY <1>3, <3>2 DEF SizeT
    <3> DEFINE e == cells'[j]
               c == cells[j]
    <3>4. e.str = c.str - row_start /\ e.len = c.len
      BY <2>1, <3>1, <3>3, WrapSmall DEF Cell
    <3>a. \A m \in 1 .. c.len : c.str + m - 1 \in row_start .. old_bytes_read - 1
                                /\ (c.str + m - 1) + d = (c.str - row_start) + m - 1
      <4> DEFINE x == c.str
                 l == c.len
      <4>1. x \in Nat /\ l \in Nat /\ row_start <= x /\ x + l < cell_start
        BY <3>2
      <4> HIDE DEF x, l
      <4>2. \A m \in 1 .. l : x + m - 1 \in row_start .. old_bytes_read - 1
                                /\ (x + m - 1) + d = (x - row_start) + m - 1
        BY <1>3, <4>1
      <4> QED BY <4>2 DEF x, l
    <3>5. \A m \in 1 .. c.len : buff'[(c.str - row_start) + m - 1] = buff[c.str + m - 1]
      BY <1>8, <3>a
    <3>6. c.str + c.len <= Size /\ (c.str - row_start) + c.len <= Size
      BY <1>3, <3>2
    <3> HIDE DEF e, c
    <3>7. Contents(buff', e) = [m \in 1 .. c.len |-> buff'[(c.str - row_start) + m - 1]]
      BY <3>4, <3>6 DEF Contents, InBuffer
    <3>8. Contents(buff, c) = [m \in 1 .. c.len |-> buff[c.str + m - 1]]
      BY <3>6 DEF Contents, InBuffer
    <3>9. Contents(buff', e) = Contents(buff, c)
      BY <3>5, <3>7, <3>8
    <3> QED BY <3>9 DEF e, c
  <2> QED BY <2>1, <2>2
<1>10. RowRel(p, buff', cells', 0, cell_start', old_bytes_read - row_start,
              quoted, quote_close_position, FALSE, FALSE)
  <2>1. \A m \in cell_start .. old_bytes_read - 1 : buff'[m + d] = buff[m]
    BY <1>3, <1>8
  <2> HIDE DEF d
  <2>2. cell_start + d >= 0 /\ old_bytes_read + d <= Size
    BY <1>3, <1>7
  <2>3. RowRel(p, buff', cells', row_start + d, cell_start + d, old_bytes_read + d,
               quoted, quote_close_position, FALSE, FALSE)
    BY <1>3, <1>6, <1>7, <1>9, <2>1, <2>2, RowRelMoved
  <2>4. row_start + d = 0 /\ cell_start + d = cell_start' /\ old_bytes_read + d = old_bytes_read - row_start
    BY <1>2, <1>3, <1>4, <1>7 DEF d
  <2> QED BY <2>3, <2>4
<1>11. /\ Cursor' = old_bytes_read - row_start /\ Scanned' = Scanned /\ RowBytes' = RowBytes
       /\ Cursor' - row_start' = Cursor - row_start
  <2>1. Cursor' = old_bytes_read - row_start
    BY <1>2 DEF Cursor
  <2>2. Scanned' = Scanned
    BY <1>2 DEF Scanned
  <2>3. Cursor' - row_start' = Cursor - row_start
    <3>1. row_start' = 0 /\ Cursor = old_bytes_read
      BY <1>2
    <3> QED BY <1>3, <2>1, <3>1
  <2> QED BY <1>2, <2>1, <2>2, <2>3 DEF RowBytes
<1>12. RowRel(p, buff', cells', row_start', cell_start', Cursor',
              quoted', quote_close_position', Skips', More')
  BY <1>2, <1>5, <1>10, <1>11
<1>13. Cursor' - row_start' <= Scanned'
  <2>1. Cursor - row_start <= Scanned
    BY <1>2, <1>6
  <2> QED BY <1>11, <2>1
<1>14. p = Promise!Parse(RowBytes')
  BY <1>1, <1>11
<1> QED BY <1>12, <1>13, <1>14 DEF RowTraced

----
(* A cell ends, a row ends, or the scanner is between two reads. *)

(* A delimiter: the cell joins the row. *)
LEMMA TraceEndCell ==
  ASSUME TypeOK, StageInv, RowInv, FeedInv, InRow, Sound, RowTraced, EndCell
  PROVE  RowTraced'
<1> USE SizeAssumption
<1>1. PICK p : p = Promise!Parse(RowBytes)
  OBVIOUS
<1>2. /\ Scanning /\ pc' = pc /\ NextByte /\ buff[i] = Delim /\ skip_next_delim = FALSE /\ ~Open
      /\ skip_next_delim' = FALSE
      /\ UNCHANGED <<fed, row_start, quote_close_position>>
      /\ cell_start' = i + 1 /\ quoted' = {}
      /\ buff' = CellHere.buff /\ cells' = AddCell(CellHere, quoted)
      /\ pc = "scan" /\ i < bytes_read
  BY DEF EndCell, Visit, Scanning, envVars, TypeOK
<1>3. /\ RowRel(p, buff, cells, row_start, cell_start, i,
                quoted, quote_close_position, FALSE, TRUE)
      /\ row_start \in Nat /\ cell_start \in Nat /\ i \in Nat /\ i < Size
      /\ quote_close_position \in SizeT /\ quoted \in SUBSET Flags
      /\ buff \in Buffer /\ cells \in Seq(Cell)
  <2>1. /\ quote_close_position \in SizeT /\ quoted \in SUBSET Flags
        /\ cells \in Seq(Cell)
    BY DEF TypeOK
  <2> QED BY <1>1, <1>2, <2>1, BeforeByte
<1>4. /\ p \in ReadState /\ p.cell \in ReadCell /\ p.rows = <<>> /\ p.afterCr = FALSE
      /\ row_start <= i /\ p.length = i - row_start
      /\ CellRel(p.cell, buff, cell_start, i, quoted, quote_close_position, FALSE, TRUE)
  BY <1>3 DEF RowRel, ReadState
<1>5. /\ row_start <= cell_start /\ cell_start <= i
      /\ \A j \in 1 .. Len(cells) : cells[j].str + cells[j].len < cell_start
      /\ "PENDING" \notin quoted
  <2>1. Cursor = i
    BY <1>2 DEF Cursor
  <2>2. DOMAIN cells = 1 .. Len(cells)
    BY <1>3
  <2> QED BY <1>2, <2>1, <2>2 DEF RowInv, OrderInv, CellsInRow, QuoteInv
<1>6. p.cell.mode # "open"
  BY <1>2, <1>4, <1>5, ModeOpen DEF Open
<1>7. /\ Promise!Parse(RowBytes') = Promise!AddToRow(p, Delim)
      /\ Cursor' = i + 1 /\ Cursor' - row_start' <= Scanned'
  BY <1>1, <1>2, ByteScanned
<1>8. CellHere = Unquote(quoted, quote_close_position, cell_start, i - cell_start)
  <2>1. i - cell_start \in SizeT
    BY <1>3, <1>5 DEF SizeT
  <2> QED BY <2>1, WrapSmall DEF CellHere
<1> DEFINE r == Promise!CloseCell(p)
<1>9. r.cells = Values(Delivered(buff', cells'))
  <2>1. LET u == Unquote(quoted, quote_close_position, cell_start, i - cell_start) IN
        r.cells = Values(Delivered(u.buff, AddCell(u, quoted)))
    <3>1. "UNCLOSED" \notin quoted /\ i <= Size
      BY <1>2, <1>3 DEF Open
    <3> HIDE DEF r
    <3> QED BY <1>3, <1>5, <3>1, RowDelim DEF r
  <2> HIDE DEF r
  <2> QED BY <1>2, <1>8, <2>1
<1>10. /\ r \in ReadState /\ r.rows = <<>> /\ r.cell = Promise!EmptyCell
       /\ r.length = p.length + 1 /\ r.begun = TRUE /\ r.afterCr = FALSE
  BY <1>4, CloseCellFacts
<1>11. Promise!Parse(RowBytes') = r
  BY <1>4, <1>6, <1>7, AddDelim
<1> HIDE DEF r
<1>12. CellRel(Promise!EmptyCell, buff', i + 1, i + 1, {}, quote_close_position, FALSE, More')
  <2>1. i + 1 \in Nat
    BY <1>3
  <2> QED BY <2>1, CellRelStart
<1>13. CellRel(r.cell, buff', i + 1, i + 1, {}, quote_close_position, FALSE, More')
  BY <1>10, <1>12
<1>14. row_start <= i + 1 /\ r.length = (i + 1) - row_start /\ (r.begun <=> i + 1 > row_start)
  BY <1>3, <1>4, <1>10
<1>15. RowRel(r, buff', cells', row_start, i + 1, i + 1, {}, quote_close_position, FALSE, More')
  BY <1>9, <1>10, <1>13, <1>14 DEF RowRel
<1>16. Skips' = FALSE
  BY <1>2 DEF Skips
<1>17. RowRel(r, buff', cells', row_start', cell_start', Cursor',
              quoted', quote_close_position', Skips', More')
  BY <1>2, <1>7, <1>15, <1>16
<1> QED BY <1>7, <1>11, <1>17 DEF RowTraced

(* A cell of the row has its place in the buffer. *)
LEMMA CellFacts ==
  ASSUME NEW cs \in Seq(Cell), NEW k \in DOMAIN cs
  PROVE  cs[k].str \in Nat /\ cs[k].len \in Nat
<1>1. cs[k] \in Cell
  OBVIOUS
<1> QED BY <1>1, SizeAssumption DEF Cell, SizeT

(* A sequence without elements is empty. *)
LEMMA NoElements ==
  ASSUME NEW T, NEW s \in Seq(T), \A k \in DOMAIN s : FALSE
  PROVE  s = <<>>
<1>1. Len(s) \in Nat /\ DOMAIN s = 1 .. Len(s)
  OBVIOUS
<1>2. CASE Len(s) = 0
  BY <1>2
<1>3. CASE Len(s) # 0
  <2>1. 1 \in DOMAIN s
    BY <1>1, <1>3
  <2> QED BY <2>1
<1> QED BY <1>2, <1>3

(* ScannedType, of the next state. *)
LEMMA ScannedTypeNext ==
  (TypeOK /\ FeedInv /\ InRow /\ StageInv => Scanned \in Nat /\ Scanned <= Len(fed))'
<1>1. TypeOK /\ FeedInv /\ InRow /\ StageInv => Scanned \in Nat /\ Scanned <= Len(fed)
  BY ScannedType
<1> QED BY <1>1, PTL

(* RowBegins, of the next state. *)
LEMMA RowBeginsNext ==
  ((/\ fed \in Seq(Byte) /\ Scanned \in Nat /\ Scanned <= Len(fed)
    /\ Cursor = row_start /\ row_start \in Nat /\ cell_start = row_start
    /\ cells = <<>> /\ quoted = {} /\ ~Skips) => RowTraced)'
<1>1. (/\ fed \in Seq(Byte) /\ Scanned \in Nat /\ Scanned <= Len(fed)
       /\ Cursor = row_start /\ row_start \in Nat /\ cell_start = row_start
       /\ cells = <<>> /\ quoted = {} /\ ~Skips) => RowTraced
  BY RowBegins
<1> QED BY <1>1, PTL

(* A line end that ends a row, or belongs to the one before. *)
LEMMA TraceRowEnd ==
  ASSUME TypeOK, TypeOK', StageInv, StageInv', RowInv, FeedInv', InRow', IgnoreLf \/ EndRow \/ StartFreshRow
  PROVE  RowTraced'
<1> USE SizeAssumption
<1>1. /\ fed' \in Seq(Byte) /\ Scanned' \in Nat /\ Scanned' <= Len(fed')
      /\ row_start' \in Nat
  <2>1. (Scanned \in Nat /\ Scanned <= Len(fed))'
    BY ScannedTypeNext
  <2> QED BY <2>1 DEF TypeOK
<1>2. SUFFICES /\ Cursor' = row_start' /\ cell_start' = row_start' /\ cells' = <<>>
               /\ quoted' = {} /\ ~Skips'
  <2>1. RowTraced'
    BY <1>1, <1>2, RowBeginsNext
  <2> QED BY <2>1
<1>3. CASE IgnoreLf
  <2>1. /\ pc = "scan" /\ pc' = "scan" /\ i' = i + 1 /\ cell_start' = i + 1 /\ row_start' = i + 1
        /\ UNCHANGED <<cells, quoted, skip_next_delim, buff>> /\ skip_next_delim = FALSE
        /\ ~Open /\ ScannerLast = Cr /\ InRow /\ Cursor = i
        /\ i \in Nat /\ row_start \in Nat /\ cell_start \in Nat /\ cells \in Seq(Cell)
    BY <1>3 DEF IgnoreLf, Visit, Scanning, NextByte, bufVars, quoteVars, rowVars, InRow, CutShort,
                Cursor, TypeOK, SizeT
  <2>2. cells = <<>> /\ cell_start = i
    <3>1. CASE i > 0
      BY <2>1, <3>1 DEF RowInv, CrInv, ScannerLast
    <3>2. CASE i = 0
      <4>1. row_start <= cell_start /\ cell_start <= 0
        BY <2>1, <3>2 DEF RowInv, OrderInv
      <4>2. cell_start = 0
        BY <2>1, <4>1
      <4>3. \A k \in DOMAIN cells : FALSE
        <5>1. SUFFICES ASSUME NEW k \in DOMAIN cells PROVE FALSE
          OBVIOUS
        <5>2. cells[k].str \in Nat /\ cells[k].len \in Nat
          BY <2>1, CellFacts
        <5>3. cells[k].str + cells[k].len < cell_start
          BY <2>1 DEF RowInv, CellsInRow
        <5> QED BY <4>2, <5>2, <5>3
      <4>4. cells = <<>>
        BY <2>1, <4>3, NoElements
      <4> QED BY <3>2, <4>2, <4>4
    <3> QED BY <2>1, <3>1, <3>2
  <2>3. quoted = {}
    <3>1. quote_close_position \in Nat
      BY DEF TypeOK, SizeT
    <3>2. quoted # {} => IF quote_close_position = 0 THEN cell_start + 2 <= Cursor
                         ELSE cell_start + quote_close_position < Cursor
      BY <2>1 DEF RowInv, QuoteInv
    <3> QED BY <2>1, <2>2, <3>1, <3>2
  <2> QED BY <2>1, <2>2, <2>3 DEF Cursor, Skips
<1>4. CASE EndRow
  <2>1. ~abort'
    BY <1>4 DEF EndRow, InRow
  <2>2. cells' = <<>>
    BY <1>4, <2>1 DEF EndRow, RowDl
  <2> QED BY <1>4, <2>1, <2>2 DEF EndRow, AtRowEnd, Visit, Scanning, NextByte, Cursor, Skips
<1>5. CASE StartFreshRow
  <2>1. /\ pc = "idle" /\ status # "cancelled" /\ old_bytes_read > 0 /\ row_start >= old_bytes_read
        /\ cells' = cells /\ quoted' = {} /\ cell_start' = 0 /\ row_start' = 0
        /\ old_bytes_read' = 0 /\ partial_row_length' = partial_row_length /\ pc' # "scan"
        /\ InRow
        /\ partial_row_length = 0 /\ Cursor = old_bytes_read
    <3>1. /\ pc = "idle" /\ status # "cancelled" /\ old_bytes_read > 0 /\ row_start >= old_bytes_read
          /\ cells' = cells /\ quoted' = {} /\ cell_start' = 0 /\ row_start' = 0
          /\ old_bytes_read' = 0 /\ partial_row_length' = partial_row_length /\ pc' # "scan"
          /\ buffer_exceeded' = buffer_exceeded
      BY <1>5 DEF StartFreshRow, MayParse, EnterParse
    <3>2. partial_row_length = 0
      BY <3>1 DEF StageInv
    <3>3. InRow
      BY <3>1, <3>2 DEF InRow, CutShort
    <3> QED BY <3>1, <3>2, <3>3 DEF Cursor
  <2>2. cells = <<>>
    <3>1. cell_start \in Nat /\ row_start \in Nat /\ old_bytes_read \in Nat /\ cells \in Seq(Cell)
      BY DEF TypeOK
    <3>2. cell_start = old_bytes_read /\ row_start = old_bytes_read
      BY <2>1, <3>1 DEF RowInv, OrderInv
    <3>3. \A k \in DOMAIN cells : row_start <= cells[k].str /\ cells[k].str + cells[k].len < cell_start
      BY <2>1 DEF RowInv, CellsInRow
    <3>4. \A k \in DOMAIN cells : FALSE
      <4>1. SUFFICES ASSUME NEW k \in DOMAIN cells PROVE FALSE
        OBVIOUS
      <4>2. cells[k].str \in Nat /\ cells[k].len \in Nat
        BY <3>1, CellFacts
      <4> QED BY <3>1, <3>2, <3>3, <4>2
    <3> QED BY <3>1, <3>4, NoElements
  <2>3. Cursor' = 0 /\ ~Skips'
    BY <2>1 DEF Cursor, Skips
  <2> QED BY <2>1, <2>2, <2>3
<1> QED BY <1>3, <1>4, <1>5

(* Steps that scan nothing and move nothing. *)
LEMMA TraceIdle ==
  ASSUME TypeOK, StageInv, InRow => RowTraced, InRow',
         StartEmpty \/ SkipBom \/ ReadNothing \/ EndScan \/ AbortBetweenCalls \/ UNCHANGED vars
  PROVE  RowTraced'
<1> USE SizeAssumption
<1>1. /\ UNCHANGED <<buff, cells, row_start, cell_start, quoted, quote_close_position, fed>>
      /\ InRow
  <2>1. CASE StartEmpty
    BY <2>1 DEF StartEmpty, MayParse, EnterParse, posVars, envVars, onceVars, InRow, CutShort
  <2>2. CASE SkipBom
    BY <2>2 DEF SkipBom, bufVars, posVars, quoteVars, rowVars, envVars, InRow, CutShort
  <2>3. CASE ReadNothing
    BY <2>3 DEF ReadNothing, bufVars, posVars, quoteVars, rowVars, envVars, InRow, CutShort, StageInv
  <2>4. CASE EndScan
    BY <2>4 DEF EndScan, posVars, quoteVars, rowVars, envVars, InRow, CutShort, StageInv
  <2>5. CASE AbortBetweenCalls
    BY <2>5 DEF AbortBetweenCalls, bufVars, posVars, quoteVars, rowVars, envVars, onceVars, InRow, CutShort
  <2>6. CASE UNCHANGED vars
    BY <2>6 DEF vars, bufVars, posVars, quoteVars, rowVars, envVars, onceVars, InRow, CutShort
  <2> QED BY <2>1, <2>2, <2>3, <2>4, <2>5, <2>6
<1>2. Cursor' = Cursor /\ Scanned' = Scanned
  <2>1. CASE StartEmpty
    BY <2>1 DEF StartEmpty, MayParse, EnterParse, envVars, Cursor, Scanned
  <2>2. CASE SkipBom
    BY <2>2 DEF SkipBom, bufVars, envVars, Cursor, Scanned, scanVars
  <2>3. CASE ReadNothing
    BY <2>3 DEF ReadNothing, bufVars, envVars, Cursor, Scanned, StageInv
  <2>4. CASE EndScan
    <3>1. i = bytes_read /\ bytes_read > 0 /\ fed \in Seq(Byte) /\ bytes_read \in Nat
      BY <2>4 DEF EndScan, StageInv, TypeOK
    <3>2. Len(fed) - (bytes_read - i) = Len(fed)
      BY <3>1
    <3> QED BY <2>4, <3>1, <3>2 DEF EndScan, envVars, Cursor, Scanned
  <2>5. CASE AbortBetweenCalls
    BY <2>5 DEF AbortBetweenCalls, bufVars, scanVars, envVars, Cursor, Scanned
  <2>6. CASE UNCHANGED vars
    BY <2>6 DEF vars, bufVars, scanVars, envVars, Cursor, Scanned
  <2> QED BY <2>1, <2>2, <2>3, <2>4, <2>5, <2>6
<1>3. Skips' = Skips /\ More' = More
  <2>1. CASE EndScan
    <3>1. Skips = FALSE /\ More = FALSE
      BY <2>1 DEF EndScan, Skips, More, StageInv, TypeOK
    <3>2. Skips' = FALSE /\ More' = FALSE
      BY <2>1 DEF EndScan, Skips, More
    <3> QED BY <3>1, <3>2
  <2>2. CASE UNCHANGED vars
    BY <2>2 DEF vars, scanVars, Skips, More
  <2>3. CASE StartEmpty \/ SkipBom \/ ReadNothing \/ AbortBetweenCalls
    <3>1. pc # "scan" /\ pc' # "scan"
      BY <2>3 DEF StartEmpty, MayParse, EnterParse, SkipBom, ReadNothing, AbortBetweenCalls
    <3> QED BY <3>1 DEF Skips, More
  <2> QED BY <2>1, <2>2, <2>3
<1> QED BY <1>1, <1>2, <1>3, TraceFrame

----
(* A read: the row is moved to the front, and bytes join it. *)

(* The bytes of the row after a read that brought more of the input. *)
LEMMA RowBytesRead ==
  ASSUME NEW s \in Seq(Byte), NEW t \in Seq(Byte), Len(t) > 0, NEW n \in Nat, n <= Len(s)
  PROVE  LET row == SubSeq(s, Len(s) - n + 1, Len(s)) IN
         /\ row \in Seq(Byte)
         /\ SubSeq(s \o t, Len(s) - n + 1, Len(s)) = row
         /\ SubSeq(s \o t, Len(s) - n + 1, Len(s) + 1) = Append(row, t[1])
<1> DEFINE lo == Len(s) - n
           hi == Len(s)
           w  == s \o t
<1>1. lo \in Nat /\ hi \in Nat /\ lo <= hi /\ hi <= Len(s)
  OBVIOUS
<1>2. w \in Seq(Byte) /\ Len(w) = hi + Len(t) /\ w[hi + 1] = t[1] /\ hi < Len(w)
  <2>1. w \in Seq(Byte) /\ Len(w) = Len(s) + Len(t) /\ \A j \in 1 .. Len(t) : w[Len(s) + j] = t[j]
    BY CatFacts
  <2>2. 1 \in 1 .. Len(t)
    OBVIOUS
  <2> QED BY <2>1, <2>2
<1>3. SubSeq(s, lo + 1, hi) \in Seq(Byte) /\ SubSeq(w, lo + 1, hi) = SubSeq(s, lo + 1, hi)
  <2> HIDE DEF lo, hi
  <2> QED BY <1>1, SubSeqFacts
<1>4. SubSeq(w, lo + 1, hi + 1) = Append(SubSeq(w, lo + 1, hi), w[hi + 1])
  <2> HIDE DEF lo, hi, w
  <2>1. hi <= Len(w)
    BY <1>1, <1>2
  <2> QED BY <1>1, <1>2, <2>1, SubSeqFacts
<1> QED BY <1>2, <1>3, <1>4

(* The row is as it was, and the bytes that were read follow it; a quote that
   ended the last chunk is settled. *)
LEMMA TraceRead ==
  ASSUME TypeOK, TypeOK', StageInv, RowInv, FeedInv, InRow, RowTraced, Read, pc' # "fault"
  PROVE  RowTraced'
<1> USE SizeAssumption
<1>1. PICK p : p = Promise!Parse(RowBytes)
  OBVIOUS
<1> DEFINE k == partial_row_length
<1>2. PICK n \in Nat \ {0} : \E bytes \in Seq(Byte) :
           /\ Len(bytes) = n /\ fed' = fed \o bytes
           /\ k + n <= Size
           /\ \A m \in 0 .. Size - 1 :
                buff'[m] = IF m >= k /\ m < k + n THEN bytes[m - k + 1] ELSE buff[m]
           /\ BeginScan(bytes) /\ pc' = "scan" /\ pc = "read"
           /\ UNCHANGED <<posVars, rowVars>>
  BY ReadFacts
<1>3. PICK bytes \in Seq(Byte) :
           /\ Len(bytes) = n /\ fed' = fed \o bytes
           /\ k + n <= Size
           /\ \A m \in 0 .. Size - 1 :
                buff'[m] = IF m >= k /\ m < k + n THEN bytes[m - k + 1] ELSE buff[m]
           /\ BeginScan(bytes) /\ pc' = "scan" /\ pc = "read"
           /\ UNCHANGED <<posVars, rowVars>>
  BY <1>2
<1>4. /\ k \in Nat /\ cell_start \in Nat /\ row_start = 0 /\ fed \in Seq(Byte)
      /\ old_bytes_read = 0 /\ Cursor = k /\ cell_start <= k /\ cells \in Seq(Cell)
      /\ buff \in Buffer /\ buff' \in Buffer /\ quote_close_position \in Nat
      /\ status # "cancelled" /\ Scanned = Len(fed)
  <2>1. /\ k \in Nat /\ cell_start \in Nat /\ fed \in Seq(Byte) /\ cells \in Seq(Cell)
        /\ buff \in Buffer /\ buff' \in Buffer /\ quote_close_position \in Nat
    BY DEF TypeOK, SizeT
  <2>2. old_bytes_read = 0 /\ row_start = 0 /\ status # "cancelled"
    BY <1>3 DEF StageInv, InRow
  <2>3. Cursor = k /\ Scanned = Len(fed)
    BY <1>3, <2>2 DEF Cursor, Scanned
  <2> QED BY <2>1, <2>2, <2>3 DEF RowInv, OrderInv
<1>5. /\ bytes_read' = k + n /\ skip_next_delim' = FALSE
      /\ row_start' = 0 /\ cell_start' = cell_start /\ cells' = cells
      /\ k < Size
  BY <1>3, <1>4 DEF BeginScan, posVars, rowVars
<1>6. /\ \A m \in 0 .. k - 1 : buff'[m] = buff[m]
      /\ buff'[k] = bytes[1]
  <2>1. n \in Nat /\ n > 0
    OBVIOUS
  <2>2. ASSUME NEW m \in 0 .. k
        PROVE  m \in 0 .. Size - 1 /\ (m < k => buff'[m] = buff[m]) /\ (m = k => buff'[m] = bytes[1])
    <3>1. m \in 0 .. Size - 1
      BY <1>4, <1>5
    <3>2. buff'[m] = IF m >= k /\ m < k + n THEN bytes[m - k + 1] ELSE buff[m]
      BY <1>3, <3>1
    <3>3. m = k => m >= k /\ m < k + n /\ m - k + 1 = 1
      BY <1>4, <2>1
    <3>4. m < k => ~(m >= k)
      BY <1>4
    <3> QED BY <3>1, <3>2, <3>3, <3>4
  <2>3. k \in 0 .. k /\ \A m \in 0 .. k - 1 : m \in 0 .. k /\ m < k
    BY <1>4
  <2> QED BY <2>2, <2>3
<1>7. Skips = FALSE /\ More = FALSE /\ Skips' = FALSE
  BY <1>3, <1>5 DEF Skips, More
<1>8. /\ RowRel(p, buff, cells, 0, cell_start, k, quoted, quote_close_position, FALSE, FALSE)
      /\ k <= Len(fed)
  <2>1. /\ Cursor - row_start <= Scanned
        /\ RowRel(p, buff, cells, row_start, cell_start, Cursor, quoted, quote_close_position, Skips, More)
    BY <1>1 DEF RowTraced
  <2>2. k - 0 <= Len(fed)
    BY <1>4, <2>1
  <2>3. k <= Len(fed)
    BY <1>4, <2>2
  <2>4. row_start = 0 /\ Cursor = k
    BY <1>4
  <2> HIDE DEF k
  <2>5. RowRel(p, buff, cells, 0, cell_start, k, quoted, quote_close_position, FALSE, FALSE)
    BY <1>7, <2>1, <2>4
  <2> QED BY <2>3, <2>5
<1>9. \A more : RowRel(p, buff', cells, 0, cell_start, k, quoted, quote_close_position, FALSE, more)
  <2>1. ASSUME NEW j \in 1 .. Len(cells)
        PROVE  Contents(buff', cells[j]) = Contents(buff, cells[j])
    <3>1. cells[j].str \in Nat /\ cells[j].len \in Nat
      BY <1>4, CellFacts
    <3>2. cells[j].str + cells[j].len < cell_start
      BY <1>4 DEF RowInv, CellsInRow
    <3> DEFINE x == cells[j].str
               l == cells[j].len
    <3> HIDE DEF x, l
    <3>3. \A m \in 1 .. l : x + m - 1 \in 0 .. k - 1
      BY <1>4, <3>1, <3>2 DEF x, l
    <3>4. \A m \in 1 .. l : buff'[x + m - 1] = buff[x + m - 1]
      BY <1>6, <3>3
    <3> QED BY <3>4 DEF Contents, x, l
  <2>2. \A m \in cell_start .. k - 1 : buff'[m + 0] = buff[m]
    BY <1>4, <1>6
  <2>3. ASSUME NEW more
        PROVE  RowRel(p, buff', cells, 0, cell_start, k, quoted, quote_close_position, FALSE, more)
    <3>1. cell_start + 0 >= 0 /\ k + 0 <= Size /\ 0 \in Int /\ 0 \in Nat /\ k <= Size
      BY <1>4, <1>5
    <3> HIDE DEF k
    <3>2. RowRel(p, buff', cells, 0 + 0, cell_start + 0, k + 0, quoted, quote_close_position, FALSE, more)
      BY <1>4, <1>8, <2>1, <2>2, <3>1, RowRelMoved
    <3>3. 0 + 0 = 0 /\ cell_start + 0 = cell_start /\ k + 0 = k
      BY <1>4
    <3> QED BY <3>2, <3>3
  <2> QED BY <2>3
<1>10. /\ p = Promise!Parse(SubSeq(fed', Len(fed) - k + 1, Len(fed)))
       /\ Promise!AddToRow(p, buff'[k]) = Promise!Parse(SubSeq(fed', Len(fed) - k + 1, Len(fed) + 1))
  <2> DEFINE row == SubSeq(fed, Len(fed) - k + 1, Len(fed))
  <2>1. RowBytes = row
    <3>1. Scanned - (Cursor - row_start) + 1 = Len(fed) - k + 1
      BY <1>4
    <3> QED BY <1>4, <3>1 DEF RowBytes
  <2>2. Len(bytes) > 0 /\ fed \in Seq(Byte) /\ k \in Nat /\ k <= Len(fed)
    BY <1>3, <1>4, <1>8
  <2>a. /\ row \in Seq(Byte)
        /\ SubSeq(fed \o bytes, Len(fed) - k + 1, Len(fed)) = row
        /\ SubSeq(fed \o bytes, Len(fed) - k + 1, Len(fed) + 1) = Append(row, bytes[1])
    <3> HIDE DEF k
    <3> QED BY <2>2, RowBytesRead
  <2>3. row \in Seq(Byte)
    BY <2>a
  <2>4. /\ SubSeq(fed', Len(fed) - k + 1, Len(fed)) = row
        /\ SubSeq(fed', Len(fed) - k + 1, Len(fed) + 1) = Append(row, bytes[1])
    <3>1. fed' = fed \o bytes
      BY <1>3
    <3> QED BY <2>a, <3>1
  <2>5. bytes[1] \in Byte
    BY <2>2
  <2> HIDE DEF row
  <2>6. Promise!Parse(Append(row, bytes[1])) = Promise!AddToRow(Promise!Parse(row), bytes[1])
    BY <2>3, <2>5, ParseOneMore
  <2> QED BY <1>1, <1>6, <2>1, <2>4, <2>6
<1>11. Len(fed') = Len(fed) + n
  <2>1. Len(fed \o bytes) = Len(fed) + Len(bytes)
    BY <1>4, CatFacts
  <2>2. fed' = fed \o bytes /\ Len(bytes) = n
    BY <1>3
  <2> QED BY <2>1, <2>2
<1>12. ASSUME NEW e \in {0, 1}, i' = k + e
       PROVE  Cursor' = k + e /\ Scanned' = Len(fed) + e
              /\ RowBytes' = SubSeq(fed', Len(fed) - k + 1, Len(fed) + e)
              /\ Cursor' - row_start' <= Scanned'
  <2>1. Cursor' = k + e
    BY <1>3, <1>12 DEF Cursor
  <2>2. Scanned' = Len(fed') - (bytes_read' - i')
    BY <1>3 DEF Scanned
  <2>3. Scanned' = Len(fed) + e
    BY <1>4, <1>5, <1>11, <1>12, <2>2
  <2>4. Scanned' - (Cursor' - row_start') + 1 = Len(fed) - k + 1
    BY <1>4, <1>5, <2>1, <2>3
  <2>5. Cursor' - row_start' <= Scanned'
    BY <1>4, <1>5, <1>8, <2>1, <2>3
  <2> QED BY <2>1, <2>3, <2>4, <2>5 DEF RowBytes
<1>13. CASE "PENDING" \notin quoted
  <2>1. i' = k + 0 /\ quoted' = quoted /\ quote_close_position' = quote_close_position
    BY <1>3, <1>4, <1>13 DEF BeginScan
  <2>2. /\ Cursor' = k /\ RowBytes' = SubSeq(fed', Len(fed) - k + 1, Len(fed))
        /\ Cursor' - row_start' <= Scanned'
    BY <1>4, <1>12, <2>1
  <2>3. RowRel(p, buff', cells', row_start', cell_start', Cursor', quoted', quote_close_position', Skips', More')
    BY <1>5, <1>7, <1>9, <2>1, <2>2
  <2> QED BY <1>10, <2>2, <2>3 DEF RowTraced
<1>14. CASE "PENDING" \in quoted /\ bytes[1] # Quote
  <2>1. /\ cell_start + 2 <= k /\ "UNCLOSED" \in quoted
    BY <1>4, <1>14 DEF RowInv, QuoteInv, Open
  <2>2. Wrap(k - cell_start - 1) = k - 1 - cell_start
    <3>1. k - cell_start - 1 \in SizeT
      BY <1>4, <1>5, <2>1 DEF SizeT
    <3> QED BY <1>4, <3>1, WrapSmall
  <2>3. /\ i' = k + 0 /\ quoted' = ((quoted \ {"PENDING"}) \ {"UNCLOSED"}) \cup {"CLOSED"}
        /\ quote_close_position' = k - 1 - cell_start
    BY <1>3, <1>4, <1>14, <2>2 DEF BeginScan
  <2>4. /\ Cursor' = k /\ RowBytes' = SubSeq(fed', Len(fed) - k + 1, Len(fed))
        /\ Cursor' - row_start' <= Scanned'
    BY <1>4, <1>12, <2>3
  <2>5. More' = TRUE
    BY <1>3, <1>4, <1>5, <2>3 DEF More
  <2>6. /\ p \in ReadState /\ p.rows = <<>> /\ p.afterCr = FALSE
        /\ p.cells = Values(Delivered(buff', cells))
        /\ 0 <= k /\ p.length = k - 0 /\ (p.begun <=> k > 0)
        /\ CellRel(p.cell, buff', cell_start, k, quoted, quote_close_position, FALSE, TRUE)
    BY <1>9 DEF RowRel
  <2>7. CellRel(p.cell, buff', cell_start, k, quoted', k - 1 - cell_start, FALSE, TRUE)
    <3>1. buff'[k] # Quote
      BY <1>6, <1>14
    <3> HIDE DEF k
    <3>2. CellRel(p.cell, buff', cell_start, k,
                  ((quoted \ {"PENDING"}) \ {"UNCLOSED"}) \cup {"CLOSED"},
                  k - 1 - cell_start, FALSE, TRUE)
      BY <1>4, <1>14, <2>1, <2>6, <3>1, CellClosed
    <3> QED BY <2>3, <3>2
  <2>8. RowRel(p, buff', cells, 0, cell_start, k, quoted', k - 1 - cell_start, FALSE, TRUE)
    BY <2>6, <2>7 DEF RowRel
  <2>9. RowRel(p, buff', cells', row_start', cell_start', Cursor', quoted', quote_close_position', Skips', More')
    BY <1>5, <1>7, <2>3, <2>4, <2>5, <2>8
  <2> QED BY <1>10, <2>4, <2>9 DEF RowTraced
<1>15. CASE "PENDING" \in quoted /\ bytes[1] = Quote
  <2>1. "UNCLOSED" \in quoted
    BY <1>4, <1>15 DEF RowInv, QuoteInv, Open
  <2>2. /\ i' = k + 1 /\ quoted' = (quoted \ {"PENDING"}) \cup {"NEEDED", "EMBEDDED"}
        /\ quote_close_position' = quote_close_position
    BY <1>3, <1>4, <1>15 DEF BeginScan
  <2>3. /\ Cursor' = k + 1 /\ RowBytes' = SubSeq(fed', Len(fed) - k + 1, Len(fed) + 1)
        /\ Cursor' - row_start' <= Scanned'
    BY <1>4, <1>12, <2>2
  <2>4. /\ RowRel(p, buff', cells, 0, cell_start, k, quoted, quote_close_position, FALSE, FALSE)
        /\ p.cell \in ReadCell
        /\ CellRel(p.cell, buff', cell_start, k, quoted, quote_close_position, FALSE, FALSE)
    BY <1>9 DEF RowRel, ReadState
  <2>5. buff'[k] = Quote /\ buff'[k] \notin {Delim, Cr, Lf}
    BY <1>6, <1>15, SpecialsAssumption
  <2>6. "UNCLOSED" \in quoted' /\ "EMBEDDED" \in quoted' /\ "PENDING" \notin quoted'
    BY <2>1, <2>2
  <2>7. \A more : CellRel(Promise!AddByte(p.cell, buff'[k]), buff', cell_start, k + 1, quoted',
                          quote_close_position, FALSE, more)
    <3> HIDE DEF k
    <3> QED BY <1>4, <1>5, <1>15, <2>1, <2>4, <2>5, <2>6, CellSkip
  <2>8. RowRel(Promise!AddToRow(p, buff'[k]), buff', cells, 0, cell_start, k + 1, quoted',
               quote_close_position, FALSE, More')
    <3> HIDE DEF k
    <3> QED BY <1>4, <1>5, <2>4, <2>5, <2>7, RowContent
  <2>9. RowRel(Promise!AddToRow(p, buff'[k]), buff', cells', row_start', cell_start', Cursor',
               quoted', quote_close_position', Skips', More')
    BY <1>5, <1>7, <2>2, <2>3, <2>8
  <2> QED BY <1>10, <2>3, <2>9 DEF RowTraced
<1> QED BY <1>13, <1>14, <1>15

----
(* The invariant, and the theorem. *)

(* Every step keeps the trace of the row. *)
LEMMA TraceStep ==
  ASSUME TypeOK, TypeOK', StageInv, StageInv', RowInv, FeedInv, FeedInv', TraceInv, [Next]_vars
  PROVE  TraceInv'
<1>1. SUFFICES ASSUME InRow', Sound'
               PROVE  RowTraced'
  BY DEF TraceInv, RowTraced
<1>2. Sound /\ (InRow => RowTraced)
  <2>1. Sound
    BY <1>1, SoundKept
  <2> QED BY <2>1 DEF TraceInv, RowTraced
<1>3. pc' # "fault" /\ pc' # "done"
  BY <1>1 DEF InRow
<1>4. CASE MovePartialRow
  <2>1. InRow
    BY <1>1, <1>4, SizeAssumption DEF MovePartialRow, MayParse, EnterParse, InRow, CutShort, StageInv, TypeOK
  <2> QED BY <1>2, <1>4, <2>1, TraceMove
<1>5. CASE IgnoreLf \/ EndRow \/ StartFreshRow
  BY <1>1, <1>5, TraceRowEnd
<1>6. CASE StartEmpty \/ SkipBom \/ ReadNothing \/ EndScan \/ AbortBetweenCalls \/ UNCHANGED vars
  BY <1>1, <1>2, <1>6, TraceIdle
<1>7. CASE TruncateRow
  <2>1. CASE abort'
    <3>1. truncated' = TRUE /\ partial_row_length' = partial_row_length /\ pc' = "read" /\ pc = "truncate"
      BY <1>7, <2>1 DEF TruncateRow
    <3>2. partial_row_length = Size
      BY <3>1 DEF StageInv
    <3> QED BY <1>1, <2>1, <3>1, <3>2 DEF InRow, CutShort
  <2>2. CASE ~abort'
    BY <1>1, <1>7, <2>2 DEF TruncateRow, InRow
  <2> QED BY <2>1, <2>2
<1>8. CASE Read
  <2>1. InRow
    <3>1. PICK n \in Nat \ {0} : /\ partial_row_length + n <= Size /\ pc = "read"
                                 /\ UNCHANGED <<rowVars, status>>
      BY <1>3, <1>8, ReadFacts
    <3>2. partial_row_length # Size
      BY <3>1, SizeAssumption DEF TypeOK
    <3> QED BY <1>1, <3>1, <3>2 DEF InRow, CutShort, rowVars
  <2> QED BY <1>2, <1>3, <1>8, <2>1, TraceRead
<1>9. ASSUME SkipDoubledQuote \/ Plain \/ EscapedSpecial \/ EndCell \/ VisitQuote
      PROVE  InRow
  <2>1. pc = "scan" /\ UNCHANGED <<buffer_exceeded, status>>
    BY <1>9 DEF SkipDoubledQuote, Plain, EscapedSpecial, EndCell, VisitQuote, Visit, Scanning, rowVars
  <2> QED BY <1>1, <2>1 DEF InRow, CutShort
<1>10. CASE SkipDoubledQuote
  BY <1>2, <1>9, <1>10, TraceSkip
<1>11. CASE Plain \/ EscapedSpecial
  BY <1>2, <1>9, <1>11, TracePlain
<1>12. CASE EndCell
  BY <1>2, <1>9, <1>12, TraceEndCell
<1>13. CASE VisitQuote
  BY <1>2, <1>9, <1>13, TraceQuote
<1>14. CASE FaultInCell \/ Finish \/ FaultInFinish
  BY <1>3, <1>14 DEF FaultInCell, Finish, FaultInFinish
<1> QED BY <1>4, <1>5, <1>6, <1>7, <1>8, <1>10, <1>11, <1>12, <1>13, <1>14 DEF Next, PreParse, Scan

(* The first row is traced before its first byte. *)
LEMMA TraceInit == Init => TraceInv
<1> SUFFICES ASSUME Init PROVE TraceInv
  OBVIOUS
<1>1. /\ Cursor = 0 /\ row_start = 0 /\ cell_start = 0 /\ cells = <<>> /\ quoted = {} /\ ~Skips
      /\ fed \in Seq(Byte) /\ Scanned = 0 /\ Len(fed) = 0
  BY DEF Init, Cursor, Skips, Scanned
<1>2. RowTraced
  <2>1. Scanned \in Nat /\ Scanned <= Len(fed) /\ row_start \in Nat /\ Cursor = row_start
        /\ cell_start = row_start
    BY <1>1
  <2> QED BY <1>1, <2>1, RowBegins
<1> QED BY <1>2 DEF TraceInv, RowTraced

(* The invariant of the trace holds throughout. *)
LEMMA RowInductive == Spec => []RowIInv
<1>1. Init => FeedInv /\ TraceInv
  BY FeedInit, TraceInit
<1>2. IInv /\ IInv' /\ FeedInv /\ TraceInv /\ [Next]_vars => FeedInv' /\ TraceInv'
  <2>1. SUFFICES ASSUME IInv, IInv', FeedInv, TraceInv, [Next]_vars
                 PROVE  FeedInv' /\ TraceInv'
    OBVIOUS
  <2>2. TypeOK /\ TypeOK' /\ StageInv /\ StageInv' /\ RowInv
    BY <2>1 DEF IInv, SafetyInv
  <2>3. FeedInv'
    BY <2>1, <2>2, FeedStep
  <2>4. TraceInv'
    BY <2>1, <2>2, <2>3, TraceStep
  <2> QED BY <2>3, <2>4
<1> QED BY <1>1, <1>2, Inductive, PTL DEF Spec, RowIInv

(* RowSoFar: as long as no row has been cut short, or no quote has come, the *)
(* row that is being scanned is what CsvRows makes of its bytes: each cell   *)
(* that cell_dl closed has the value (doubled quotes removed in place,       *)
(* enclosing quotes taken off), and the cell that is still open agrees with  *)
(* it on whether quotes are open. This is so however the input is split into *)
(* reads, and wherever in the buffer the row has been moved to since.        *)
THEOREM RowsAreTraced == Spec => []RowSoFar
<1>1. RowIInv => RowSoFar
  <2>1. SUFFICES ASSUME RowIInv, pc = "scan", ~buffer_exceeded, truncated => Quote \notin Range(fed)
                 PROVE  Values(Delivered(buff, cells))
                          = Promise!Parse(SubSeq(fed, Scanned - (i - row_start) + 1, Scanned)).cells
    BY DEF RowSoFar
  <2>2. InRow /\ Sound
    BY <2>1 DEF RowIInv, IInv, SafetyInv, StageInv, InRow, CutShort, Sound
  <2>3. RowTraced
    BY <2>1, <2>2 DEF RowIInv, TraceInv, RowTraced
  <2>4. Promise!Parse(RowBytes).cells = Values(Delivered(buff, cells))
    BY <2>3 DEF RowTraced, RowRel
  <2>5. RowBytes = SubSeq(fed, Scanned - (i - row_start) + 1, Scanned)
    BY <2>1 DEF RowBytes, Cursor
  <2> QED BY <2>4, <2>5
<1> QED BY <1>1, RowInductive, PTL

----
(* One stream of input. *)

(* At first, no stream has ended. *)
LEMMA OneStreamInit == Init => OneStreamInv
BY DEF Init, OneStreamInv

(* Only a call that may read is left after status ok. *)
LEMMA MayParseFacts ==
  ASSUME MaxInputs = 1, TypeOK, OneStreamInv, MayParse
  PROVE  status = "ok" /\ pc = "idle" /\ ~finished
BY DEF MayParse, OneStreamInv, TypeOK

(* With one stream of input, a parser that has stopped never starts another. *)
LEMMA OneStreamStep ==
  ASSUME MaxInputs = 1, TypeOK, TypeOK', StageInv, NoFault, OneStreamInv, [Next]_vars
  PROVE  OneStreamInv'
<1> USE SizeAssumption
<1>1. /\ i \in Nat /\ bytes_read \in Nat /\ old_bytes_read \in Nat /\ partial_row_length \in Nat
      /\ row_start \in Nat /\ inputs \in Nat /\ fed \in Seq(Byte) /\ Len(fed) \in Nat
  BY DEF TypeOK
<1>2. CASE MovePartialRow
  <2>1. /\ status = "ok" /\ pc = "idle" /\ ~finished /\ old_bytes_read > 0 /\ row_start < old_bytes_read
        /\ UNCHANGED <<i, bytes_read, fed, finished, status, inputs>>
        /\ pc' \in {"truncate", "read"} /\ old_bytes_read' = 0
        /\ partial_row_length' = old_bytes_read - row_start
    BY <1>2, MayParseFacts DEF MovePartialRow, EnterParse, scanVars, envVars
  <2> QED BY <1>1, <2>1 DEF OneStreamInv
<1>3. CASE StartFreshRow \/ StartEmpty
  <2>1. /\ status = "ok" /\ pc = "idle" /\ ~finished
        /\ UNCHANGED <<i, bytes_read, fed, finished, status, inputs>>
        /\ pc' \in {"truncate", "read"} /\ old_bytes_read' = 0
        /\ partial_row_length' = partial_row_length
    BY <1>3, MayParseFacts DEF StartFreshRow, StartEmpty, EnterParse, scanVars, envVars
  <2> QED BY <1>1, <2>1 DEF OneStreamInv
<1>4. CASE TruncateRow
  <2>1. /\ pc = "truncate" /\ pc' = "read"
        /\ UNCHANGED <<i, bytes_read, fed, finished, status, inputs, old_bytes_read>>
        /\ partial_row_length' \in {partial_row_length, 0}
    BY <1>4 DEF TruncateRow, scanVars, envVars
  <2> QED BY <1>1, <2>1 DEF OneStreamInv
<1>5. CASE SkipBom
  BY <1>5 DEF SkipBom, OneStreamInv, bufVars, scanVars, envVars, posVars
<1>6. CASE ReadNothing
  <2>1. /\ pc = "read" /\ pc' = "idle" /\ inputs' = inputs + 1 /\ status' = "no_more_input"
        /\ UNCHANGED <<i, bytes_read, fed, finished, old_bytes_read, partial_row_length, row_start>>
        /\ old_bytes_read = 0 /\ row_start = 0 /\ status # "cancelled"
    BY <1>6 DEF ReadNothing, bufVars, scanVars, posVars, StageInv
  <2> QED BY <1>1, <2>1 DEF OneStreamInv
<1>7. CASE Read /\ pc' = "fault"
  <2>1. PICK n \in 1 .. Smaller(capacity, MaxInput - Len(fed)) :
        \E bytes \in [1 .. n -> Byte] :
          /\ fed' = fed \o bytes
          /\ IF partial_row_length + n > Size
             THEN pc' = "fault" /\ UNCHANGED <<buff, partial_row_length, scanVars, quoteVars>>
             ELSE pc' = "scan"
    BY <1>7 DEF Read
  <2>2. UNCHANGED <<partial_row_length, scanVars>> /\ \E t \in Seq(Byte) : fed' = fed \o t
    BY <1>7, <2>1
  <2>3. Len(fed') >= Len(fed) /\ Len(fed') \in Nat
    <3>1. PICK t \in Seq(Byte) : fed' = fed \o t
      BY <2>2
    <3>2. Len(fed \o t) = Len(fed) + Len(t)
      BY <1>1, CatFacts
    <3>3. Len(t) \in Nat
      OBVIOUS
    <3> QED BY <1>1, <3>1, <3>2, <3>3
  <2>4. /\ pc = "read" /\ UNCHANGED <<old_bytes_read, finished, status, inputs, row_start>>
    BY <1>7 DEF Read, posVars
  <2> QED BY <1>1, <1>7, <2>2, <2>3, <2>4 DEF OneStreamInv, scanVars
<1>8. CASE Read /\ pc' # "fault"
  <2>1. PICK n \in Nat \ {0} : \E bytes \in Seq(Byte) :
           /\ Len(bytes) = n /\ fed' = fed \o bytes
           /\ BeginScan(bytes) /\ pc' = "scan" /\ pc = "read"
           /\ UNCHANGED <<old_bytes_read, posVars, inputs, finished, status>>
    BY <1>8, ReadFacts
  <2>2. PICK bytes \in Seq(Byte) :
           /\ Len(bytes) = n /\ fed' = fed \o bytes
           /\ BeginScan(bytes) /\ pc' = "scan" /\ pc = "read"
           /\ UNCHANGED <<old_bytes_read, posVars, inputs, finished, status>>
    BY <2>1
  <2>3. Len(fed') = Len(fed) + n
    <3>1. Len(fed \o bytes) = Len(fed) + Len(bytes)
      BY <1>1, CatFacts
    <3> QED BY <2>2, <3>1
  <2>4. bytes_read' = partial_row_length + n /\ partial_row_length' = 0
    BY <2>2 DEF BeginScan
  <2> QED BY <1>1, <2>2, <2>3, <2>4 DEF OneStreamInv, posVars
<1>9. CASE SkipDoubledQuote \/ Plain \/ EscapedSpecial \/ EndCell \/ IgnoreLf \/ VisitQuote
  <2>1. /\ pc = "scan" /\ pc' = "scan"
        /\ UNCHANGED <<bytes_read, fed, finished, status, inputs, old_bytes_read, partial_row_length>>
    BY <1>9 DEF SkipDoubledQuote, Plain, EscapedSpecial, EndCell, IgnoreLf, VisitQuote, Visit, Scanning,
                NextByte, bufVars, envVars
  <2> QED BY <1>1, <2>1 DEF OneStreamInv
<1>10. CASE EndRow
  <2>1. /\ pc = "scan"
        /\ UNCHANGED <<bytes_read, fed, finished, inputs, old_bytes_read, partial_row_length>>
        /\ \/ pc' = "idle" /\ status' = "cancelled"
           \/ pc' = pc /\ status' = status
    BY <1>10 DEF EndRow, AtRowEnd, Visit, Scanning, NextByte, scanVars, envVars
  <2> QED BY <1>1, <2>1 DEF OneStreamInv
<1>11. CASE FaultInCell
  BY <1>11 DEF FaultInCell, AtRowEnd, Visit, Scanning, OneStreamInv, bufVars, scanVars, envVars, posVars
<1>12. CASE EndScan
  <2>1. /\ pc = "scan" /\ i >= bytes_read /\ i <= bytes_read /\ bytes_read > 0
        /\ pc' = "idle" /\ status' = "ok" /\ old_bytes_read' = bytes_read
        /\ UNCHANGED <<i, bytes_read, fed, finished, inputs, partial_row_length>>
    BY <1>12 DEF EndScan, StageInv, scanVars, envVars
  <2> QED BY <1>1, <2>1 DEF OneStreamInv
<1>13. CASE AbortBetweenCalls
  BY <1>13 DEF AbortBetweenCalls, OneStreamInv, bufVars, scanVars, envVars, posVars
<1>14. CASE Finish
  <2>1. /\ pc' = "done" /\ finished' = TRUE /\ status' \in {"ok", "cancelled"}
        /\ UNCHANGED <<bytes_read, fed, old_bytes_read, partial_row_length>>
    BY <1>14 DEF Finish, scanVars, envVars
  <2> QED BY <1>1, <2>1 DEF OneStreamInv
<1>15. CASE FaultInFinish
  BY <1>15 DEF FaultInFinish, MayFinish, OneStreamInv, bufVars, scanVars, envVars, posVars
<1>16. CASE UNCHANGED vars
  BY <1>16 DEF vars, OneStreamInv, bufVars, scanVars, envVars, posVars, onceVars
<1> QED BY <1>2, <1>3, <1>4, <1>5, <1>6, <1>7, <1>8, <1>9, <1>10, <1>11, <1>12, <1>13, <1>14, <1>15, <1>16
          DEF Next, PreParse, Scan

----
(* What is scanned only grows.                                              *)

(* Where the scanner is in the input, in every state. *)
LEMMA ScannedRange ==
  ASSUME TypeOK, StageInv, OneStreamInv
  PROVE  Scanned \in Nat /\ Scanned <= Len(fed) /\ Len(fed) \in Nat
<1>1. /\ i \in Nat /\ bytes_read \in Nat /\ Len(fed) \in Nat /\ bytes_read <= Len(fed)
      /\ pc = "scan" => i <= bytes_read
  BY SizeAssumption DEF TypeOK, OneStreamInv, StageInv
<1>2. CASE pc = "scan"
  BY <1>1, <1>2 DEF Scanned
<1>3. CASE pc # "scan" /\ status = "cancelled"
  <2>1. Smaller(i + 1, bytes_read) \in 0 .. bytes_read
    BY <1>1 DEF Smaller
  <2> QED BY <1>1, <1>3, <2>1 DEF Scanned
<1>4. CASE pc # "scan" /\ status # "cancelled"
  BY <1>1, <1>4 DEF Scanned
<1> QED BY <1>2, <1>3, <1>4

(* The scanner never returns to a byte it has seen. *)
LEMMA ScannedGrows ==
  ASSUME TypeOK, TypeOK', StageInv, OneStreamInv, [Next]_vars
  PROVE  Scanned <= Scanned'
<1> USE SizeAssumption
<1>1. /\ i \in Nat /\ bytes_read \in Nat /\ Len(fed) \in Nat /\ bytes_read <= Len(fed)
      /\ pc = "scan" => i <= bytes_read /\ status # "cancelled"
      /\ Scanned \in Nat /\ Scanned <= Len(fed)
  <2>1. /\ i \in Nat /\ bytes_read \in Nat /\ Len(fed) \in Nat /\ bytes_read <= Len(fed)
        /\ pc = "scan" => i <= bytes_read /\ status # "cancelled"
    <3>1. i \in Nat /\ bytes_read \in Nat /\ Len(fed) \in Nat
      BY DEF TypeOK
    <3>2. bytes_read <= Len(fed)
      BY DEF OneStreamInv
    <3>3. pc = "scan" => i <= bytes_read /\ status # "cancelled"
      BY DEF StageInv
    <3> QED BY <3>1, <3>2, <3>3
  <2>2. Scanned \in Nat /\ Scanned <= Len(fed)
    BY ScannedRange
  <2> QED BY <2>1, <2>2
<1>2. ASSUME pc # "scan", pc' # "scan", status' = status, UNCHANGED <<i, bytes_read, fed>>
      PROVE  Scanned <= Scanned'
  BY <1>1, <1>2 DEF Scanned
<1>3. CASE PreParse \/ TruncateRow \/ SkipBom \/ AbortBetweenCalls \/ FaultInFinish
  <2>1. pc # "scan" /\ pc' # "scan" /\ status' = status /\ UNCHANGED <<i, bytes_read, fed>>
    BY <1>3 DEF PreParse, MovePartialRow, StartFreshRow, StartEmpty, MayParse, EnterParse, TruncateRow,
                SkipBom, AbortBetweenCalls, FaultInFinish, MayFinish, scanVars, envVars
  <2> QED BY <1>2, <2>1
<1>4. CASE ReadNothing
  <2>1. pc # "scan" /\ pc' # "scan" /\ status # "cancelled" /\ status' # "cancelled" /\ fed' = fed
    BY <1>4 DEF ReadNothing, StageInv
  <2> QED BY <1>1, <2>1 DEF Scanned
<1>5. CASE Read /\ pc' = "fault"
  <2>1. pc = "read" /\ status # "cancelled" /\ status' = status /\ \E t \in Seq(Byte) : fed' = fed \o t
    <3>2. pc = "read" /\ status' = status
      BY <1>5 DEF Read
    <3>3. \E t \in Seq(Byte) : fed' = fed \o t
      <4>1. PICK n \in 1 .. Smaller(capacity, MaxInput - Len(fed)) :
              \E bytes \in [1 .. n -> Byte] : fed' = fed \o bytes
        BY <1>5 DEF Read
      <4>2. PICK bytes \in [1 .. n -> Byte] : fed' = fed \o bytes
        BY <4>1
      <4>3. n \in Nat
        BY <4>1
      <4>4. bytes \in Seq(Byte)
        BY <4>2, <4>3
      <4> QED BY <4>2, <4>4
    <3> QED BY <3>2, <3>3 DEF StageInv
  <2>2. Len(fed) <= Len(fed') /\ Len(fed') \in Nat
    <3>1. PICK t \in Seq(Byte) : fed' = fed \o t
      BY <2>1
    <3>2. fed \in Seq(Byte) /\ Len(t) \in Nat
      BY DEF TypeOK
    <3>3. Len(fed \o t) = Len(fed) + Len(t)
      BY <3>2, CatFacts
    <3> QED BY <1>1, <3>1, <3>2, <3>3
  <2>3. Scanned' = Len(fed')
    BY <1>5, <2>1 DEF Scanned
  <2> QED BY <1>1, <2>2, <2>3
<1>6. CASE Read /\ pc' # "fault"
  <2>1. PICK n \in Nat \ {0} : \E bytes \in Seq(Byte) :
           Len(bytes) = n /\ fed' = fed \o bytes /\ BeginScan(bytes) /\ pc' = "scan" /\ pc = "read"
    BY <1>6, ReadFacts
  <2>2. PICK bytes \in Seq(Byte) :
           Len(bytes) = n /\ fed' = fed \o bytes /\ BeginScan(bytes) /\ pc' = "scan" /\ pc = "read"
    BY <2>1
  <2>3. Len(fed') = Len(fed) + n
    <3>1. fed \in Seq(Byte)
      BY DEF TypeOK
    <3>2. Len(fed \o bytes) = Len(fed) + Len(bytes)
      BY <3>1, CatFacts
    <3> QED BY <2>2, <3>2
  <2>4. /\ bytes_read' = partial_row_length + n /\ partial_row_length \in Nat
        /\ i' \in {partial_row_length, partial_row_length + 1}
    BY <2>2 DEF BeginScan, TypeOK
  <2>5. Scanned' = Len(fed') - (bytes_read' - i')
    BY <2>2 DEF Scanned
  <2>6. Scanned' >= Len(fed)
    BY <1>1, <2>3, <2>4, <2>5
  <2> QED BY <1>1, <2>3, <2>4, <2>5, <2>6
<1>7. ASSUME pc = "scan", pc' = "scan", i' = i + 1, UNCHANGED <<bytes_read, fed>>
      PROVE  Scanned <= Scanned'
  BY <1>1, <1>7 DEF Scanned
<1>8. CASE SkipDoubledQuote \/ Plain \/ EscapedSpecial \/ EndCell \/ IgnoreLf \/ VisitQuote
  <2>1. pc = "scan" /\ pc' = "scan" /\ i' = i + 1 /\ UNCHANGED <<bytes_read, fed>>
    BY <1>8 DEF SkipDoubledQuote, Plain, EscapedSpecial, EndCell, IgnoreLf, VisitQuote, Visit, Scanning,
                NextByte, envVars
  <2> QED BY <1>7, <2>1
<1>9. CASE EndRow
  <2>1. pc = "scan" /\ i < bytes_read /\ UNCHANGED <<bytes_read, fed>>
        /\ \/ pc' = "idle" /\ status' = "cancelled" /\ i' = i
           \/ pc' = "scan" /\ i' = i + 1
    BY <1>9 DEF EndRow, AtRowEnd, Visit, Scanning, NextByte, scanVars, envVars
  <2>2. CASE pc' = "idle" /\ status' = "cancelled" /\ i' = i
    <3>1. Scanned' = Len(fed) - (bytes_read - Smaller(i + 1, bytes_read))
      BY <2>1, <2>2 DEF Scanned
    <3>2. Smaller(i + 1, bytes_read) = i + 1
      BY <1>1, <2>1 DEF Smaller
    <3> QED BY <1>1, <2>1, <3>1, <3>2 DEF Scanned
  <2> QED BY <1>7, <2>1, <2>2
<1>10. CASE FaultInCell
  <2>1. Scanned' = Len(fed)
    BY <1>1, <1>10 DEF FaultInCell, AtRowEnd, Visit, Scanning, Scanned, envVars
  <2> QED BY <1>1, <2>1
<1>11. CASE EndScan
  <2>1. Scanned' = Len(fed)
    BY <1>11 DEF EndScan, Scanned, envVars
  <2> QED BY <1>1, <2>1
<1>12. CASE Finish
  <2>1. pc = "idle" /\ pc' = "done" /\ UNCHANGED <<i, bytes_read, fed>>
        /\ (status = "cancelled" => status' = "cancelled")
    BY <1>12 DEF Finish, MayFinish, scanVars, envVars, StageInv, DeliversFinalRow
  <2>2. CASE status = "cancelled"
    BY <1>1, <2>1, <2>2 DEF Scanned
  <2>3. CASE status # "cancelled"
    <3>1. i = bytes_read
      BY <2>1, <2>3 DEF OneStreamInv
    <3>2. Smaller(i + 1, bytes_read) = bytes_read
      BY <1>1, <3>1 DEF Smaller
    <3> QED BY <1>1, <2>1, <2>3, <3>2 DEF Scanned
  <2> QED BY <2>2, <2>3
<1>13. CASE UNCHANGED vars
  BY <1>1, <1>13 DEF vars, scanVars, envVars, Scanned
<1> QED BY <1>3, <1>4, <1>5, <1>6, <1>8, <1>9, <1>10, <1>11, <1>12, <1>13 DEF Next, Scan

----
(* The cell at the end of the input. *)

(* The input ended with a quote inside the cell: zsv_finish places the closing
   quote after it, and cell_dl's memmove drops it. *)
LEMMA FinalShifted ==
  ASSUME buff \in Buffer, NEW q, NEW s \in Nat, NEW k \in Nat, s + 2 <= k, k < Size,
         NEW v, Squeezed(buff, s + 1, k - 1, v),
         "EMBEDDED" \notin q => NoQuote(buff, s + 1, k - 1)
  PROVE  Shows(Unquote(Closed(q), k - s, s, k - s), s, v)
<1> DEFINE n == k - s
           sh == ShiftRight(buff, s, n)
           t == s + 1
           e == k - 1
<1>1. /\ n \in Nat /\ n >= 2 /\ s + n <= Size /\ 0 < n /\ n + 1 # n /\ s + 1 + n <= Size
      /\ t \in Int /\ e \in Int /\ t <= e /\ t + 1 = s + 2 /\ e + 1 = s + n /\ 1 \in Int
  BY SizeAssumption
<1>2. \A m \in t .. e - 1 : sh[m + 1] = buff[m]
  <2>1. ASSUME NEW m \in t .. e - 1
        PROVE  sh[m + 1] = buff[m]
    <3>1. m + 1 \in 0 .. Size - 1 /\ m + 1 > s /\ m + 1 <= s + n /\ (m + 1) - 1 = m
      BY SizeAssumption
    <3>2. DOMAIN buff = 0 .. Size - 1
      BY DEF Buffer
    <3> QED BY <3>1, <3>2 DEF ShiftRight
  <2> QED BY <2>1
<1>3. Squeezed(sh, s + 2, s + n, v)
  <2> HIDE DEF n, sh
  <2>1. Squeezed(buff, t, e, v)
    OBVIOUS
  <2> HIDE DEF t, e
  <2>2. Squeezed(sh, t + 1, e + 1, v)
    BY <1>1, <1>2, <2>1, SqueezeMoved
  <2> QED BY <1>1, <2>2
<1>4. "EMBEDDED" \notin Closed(q) => NoQuote(sh, s + 2, s + n)
  <2>1. SUFFICES ASSUME "EMBEDDED" \notin Closed(q)
                 PROVE  NoQuote(sh, s + 2, s + n)
    OBVIOUS
  <2>2. NoQuote(buff, t, e)
    BY <2>1 DEF Closed
  <2> HIDE DEF n, sh, t, e
  <2>3. NoQuote(sh, t + 1, e + 1)
    BY <1>1, <1>2, <2>2, NoQuoteMoved
  <2> QED BY <1>1, <2>3
<1>5. Closed(q) # {}
  BY DEF Closed
<1>6. n \in Nat /\ 0 < n
  BY <1>1
<1>7. Shows(Unquote(Closed(q), n, s, n), s, v)
  <2>1. Squeezed(ShiftRight(buff, s, n), s + 2, s + n, v)
    BY <1>3
  <2>2. "EMBEDDED" \notin Closed(q) => NoQuote(ShiftRight(buff, s, n), s + 2, s + n)
    BY <1>4
  <2> HIDE DEF n
  <2> QED BY <1>1, <1>5, <1>6, <2>1, <2>2, UnquoteShifted
<1> QED BY <1>7

(* The input ended with another byte: zsv_finish takes the byte after it for the
   closing quote. *)
LEMMA FinalClosed ==
  ASSUME buff \in Buffer, NEW q, NEW s \in Nat, NEW k \in Nat, s + 1 <= k, k < Size,
         NEW v, Squeezed(buff, s + 1, k, v), buff[k - 1] # Quote,
         "EMBEDDED" \notin q => NoQuote(buff, s + 1, k)
  PROVE  Shows(Unquote(Closed(q), k - s, s, (k + 1) - s), s, v)
<1> DEFINE n == (k + 1) - s
<1>1. n \in Nat /\ n >= 2 /\ s + n <= Size /\ s + n - 1 = k /\ n - 1 = k - s
  BY SizeAssumption
<1>2. ~Dropped(buff, s + 1, k)
  <2>1. s + 1 \in Int /\ k >= s + 1
    OBVIOUS
  <2>2. CASE buff[k] = Quote
    BY <2>1, <2>2, DroppedStep
  <2>3. CASE buff[k] # Quote
    BY <2>3 DEF Dropped
  <2> QED BY <2>2, <2>3
<1>3. Closed(q) # {}
  BY DEF Closed
<1>4. "EMBEDDED" \notin Closed(q) => NoQuote(buff, s + 1, s + n - 1)
  BY <1>1 DEF Closed
<1>5. Squeezed(buff, s + 1, s + n - 1, v) /\ ~Dropped(buff, s + 1, s + n - 1)
  BY <1>1, <1>2
<1> HIDE DEF n
<1>6. Shows(Unquote(Closed(q), n - 1, s, n), s, v)
  BY <1>1, <1>3, <1>4, <1>5, UnquoteClosed
<1> QED BY <1>1, <1>6 DEF n

----
(* The row that zsv_finish delivers. *)

(* At the end of the input zsv_finish adds the last cell to the row, as long as
   the input does not end at an opening quote. *)
LEMMA FinalDelivered ==
  ASSUME TypeOK, StageInv, RowInv, InRow, RowTraced, ~abort, pc = "idle", status # "cancelled",
         old_bytes_read = 0, row_start = 0, partial_row_length > 0,
         last = buff[partial_row_length - 1],
         NEW p, p = Promise!Parse(RowBytes),
         ~(p.cell.mode = "open" /\ Len(p.cell.raw) = 1)
  PROVE  /\ HasFinalCell
         /\ Promise!CloseCell(p).cells = Values(Delivered(FinalCell.buff, AddCell(FinalCell, FinalQuoted)))
<1> USE SizeAssumption
<1> DEFINE k == partial_row_length
           s == cell_start
           v == Promise!ValueOf(p.cell)
<1>1. /\ k \in Nat /\ s \in Nat /\ Cursor = k /\ s <= k /\ scanned_length = k /\ k < Size
      /\ buff \in Buffer /\ cells \in Seq(Cell) /\ quoted \in SUBSET Flags
      /\ quote_close_position \in SizeT
  <2>1. /\ k \in Nat /\ s \in Nat /\ k <= Size
        /\ buff \in Buffer /\ cells \in Seq(Cell) /\ quoted \in SUBSET Flags
        /\ quote_close_position \in SizeT
    BY DEF TypeOK
  <2>2. Cursor = k
    BY DEF Cursor
  <2>3. s <= k /\ scanned_length = k
    BY <2>2 DEF RowInv, OrderInv, StageInv
  <2>4. k < Size
    BY DEF InRow, StageInv
  <2> QED BY <2>1, <2>2, <2>3, <2>4
<1>2. \A j \in 1 .. Len(cells) : cells[j].str + cells[j].len < s
  <2>1. DOMAIN cells = 1 .. Len(cells)
    BY <1>1
  <2> QED BY <2>1 DEF RowInv, CellsInRow
<1>3. RowRel(p, buff, cells, 0, s, k, quoted, quote_close_position, FALSE, FALSE)
  <2>1. Skips = FALSE /\ More = FALSE
    BY DEF Skips, More
  <2>2. RowRel(p, buff, cells, row_start, cell_start, Cursor, quoted, quote_close_position, Skips, More)
    BY DEF RowTraced
  <2> QED BY <1>1, <2>1, <2>2
<1>4. /\ p \in ReadState /\ p.cell \in ReadCell /\ p.cells \in Seq(Content)
      /\ CellRel(p.cell, buff, s, k, quoted, quote_close_position, FALSE, FALSE)
      /\ p.cells = Values(Delivered(buff, cells))
  BY <1>3 DEF RowRel, ReadState
<1>5. /\ v \in Content
      /\ Promise!CloseCell(p).cells = IF Len(p.cells) < MaxCols THEN Append(p.cells, v) ELSE p.cells
  BY <1>4, CloseCellFacts
<1>6. HasFinalCell
  BY <1>1 DEF HasFinalCell, FinalLength
<1>7. SUFFICES Shows(FinalCell, s, v)
  <2>1. s <= Size
    BY <1>1
  <2>2. Values(Delivered(FinalCell.buff, AddCell(FinalCell, FinalQuoted)))
          = IF Len(p.cells) < MaxCols THEN Append(p.cells, v) ELSE p.cells
    <3> HIDE DEF v, s
    <3> QED BY <1>1, <1>2, <1>4, <1>5, <1>7, <2>1, CellAdded
  <2> QED BY <1>5, <1>6, <2>2
<1>8. CASE "UNCLOSED" \notin quoted
  <2>1. FinalCell = Unquote(quoted, quote_close_position, s, k - s)
    BY <1>1, <1>8 DEF FinalCell, FinalQuoted, FinalClosePosition, FinalLength, ClosesOpenQuote, Open
  <2>2. Shows(Unquote(quoted, quote_close_position, s, k - s), s, v)
    <3> DEFINE c == p.cell
    <3>1. k <= Size /\ s \in Nat /\ k \in Nat
      BY <1>1
    <3>2. v = Promise!ValueOf(c)
      OBVIOUS
    <3> HIDE DEF s, k, v
    <3>3. c \in ReadCell /\ CellRel(c, buff, s, k, quoted, quote_close_position, FALSE, FALSE)
      BY <1>4
    <3> HIDE DEF c
    <3> QED BY <1>1, <1>8, <3>1, <3>2, <3>3, UnquoteShows
  <2> QED BY <2>1, <2>2
<1>9. CASE "UNCLOSED" \in quoted
  <2>1. p.cell.mode \in {"open", "quote"} /\ k > s
    <3>1. s \in Int /\ k \in Int
      BY <1>1
    <3> HIDE DEF s, k
    <3> QED BY <1>4, <1>9, <3>1 DEF CellRel
  <2>2. ClosesOpenQuote
    BY <1>9, <2>1 DEF ClosesOpenQuote, Open
  <2>3. FinalQuoted = Closed(quoted) /\ FinalClosePosition = k - s
    BY <2>2 DEF FinalQuoted, FinalClosePosition, Closed
  <2>4. v = p.cell.value
    BY <2>1 DEF Promise!ValueOf
  <2>5. CASE last # Quote
    <3>1. FinalLength = k + 1
      BY <1>1, <2>2, <2>5 DEF FinalLength
    <3>2. p.cell.mode = "open"
      BY <1>4, <2>1, <2>5 DEF CellRel
    <3>3. /\ Squeezed(buff, s + 1, k, p.cell.value)
          /\ "EMBEDDED" \notin quoted => NoQuote(buff, s + 1, k)
      BY <1>4, <3>2 DEF CellRel
    <3>4. Shows(Unquote(Closed(quoted), k - s, s, (k + 1) - s), s, v)
      <4>1. s + 1 <= k
        BY <1>1, <2>1
      <4>2. buff[k - 1] # Quote
        BY <2>5
      <4> HIDE DEF s, k
      <4> QED BY <1>1, <2>4, <3>3, <4>1, <4>2, FinalClosed
    <3> QED BY <2>3, <3>1, <3>4 DEF FinalCell
  <2>6. CASE last = Quote
    <3>1. FinalLength = k
      BY <1>1, <2>6 DEF FinalLength
    <3>2. /\ k >= s + 2
          /\ Squeezed(buff, s + 1, k - 1, p.cell.value)
          /\ "EMBEDDED" \notin quoted => NoQuote(buff, s + 1, k - 1)
      <4>1. CASE p.cell.mode = "quote"
        BY <1>4, <4>1 DEF CellRel
      <4>2. CASE p.cell.mode = "open"
        <5>1. /\ p.cell.raw = [j \in 1 .. k - s |-> buff[s + j - 1]]
              /\ Squeezed(buff, s + 1, k, p.cell.value)
              /\ k > s + 1 /\ buff[k - 1] = Quote => Dropped(buff, s + 1, k - 1)
              /\ "EMBEDDED" \notin quoted => NoQuote(buff, s + 1, k)
          BY <1>4, <4>2 DEF CellRel
        <5>2. k > s + 1
          <6>1. Len(p.cell.raw) = k - s
            <7> HIDE DEF s, k
            <7> QED BY <1>1, <5>1
          <6> QED BY <1>1, <2>1, <4>2, <6>1
        <5>3. Dropped(buff, s + 1, k - 1)
          BY <2>6, <5>1, <5>2
        <5>4. Squeezed(buff, s + 1, k - 1, p.cell.value)
          <6> DEFINE t == s + 1
                     e == k - 1
          <6>1. t \in Int /\ e \in Int /\ t <= e /\ e + 1 = k
            BY <1>1, <5>2
          <6>2. Squeezed(buff, t, e + 1, p.cell.value) /\ Dropped(buff, t, e)
            BY <5>1, <5>3, <6>1
          <6> HIDE DEF t, e
          <6>3. Squeezed(buff, t, e, p.cell.value)
            BY <6>1, <6>2, SqueezeDrop
          <6> QED BY <6>3 DEF t, e
        <5>5. ASSUME "EMBEDDED" \notin quoted
              PROVE  FALSE
          <6>1. k - 1 \in s + 1 .. k - 1
            BY <1>1, <5>2
          <6> QED BY <2>6, <5>1, <5>5, <6>1 DEF NoQuote
        <5> QED BY <1>1, <5>2, <5>4, <5>5
      <4> QED BY <2>1, <4>1, <4>2
    <3>3. Shows(Unquote(Closed(quoted), k - s, s, k - s), s, v)
      <4>1. s + 2 <= k
        BY <1>1, <3>2
      <4> HIDE DEF s, k
      <4> QED BY <1>1, <2>4, <3>2, <4>1, FinalShifted
    <3> QED BY <2>3, <3>1, <3>3 DEF FinalCell
  <2> QED BY <2>5, <2>6
<1> QED BY <1>8, <1>9

----
(* The last byte scanned. *)

(* A parser that still reads is in a row, and has not cut one. *)
LEMMA ReadingFacts ==
  ASSUME TypeOK, StageInv, NoFault, OneStreamInv, Reading
  PROVE  InRow /\ Sound /\ ~buffer_exceeded
BY DEF Reading, InRow, CutShort, Sound, NoFault, OneStreamInv, StageInv, TypeOK

(* Reading, once over, is over. *)
LEMMA ReadingBefore ==
  ASSUME TypeOK, StageInv, [Next]_vars, Reading'
  PROVE  Reading
<1>1. truncated => truncated'
  BY SoundKept
<1>2. finished => finished'
  BY DEF Next, PreParse, Scan, MovePartialRow, StartFreshRow, StartEmpty, EnterParse,
         TruncateRow, SkipBom, ReadNothing, Read, SkipDoubledQuote, Plain,
         EscapedSpecial, EndCell, IgnoreLf, EndRow, FaultInCell, VisitQuote, EndScan,
         AbortBetweenCalls, Finish, FaultInFinish, vars, TypeOK
<1>3. ASSUME status = "cancelled"
      PROVE  status' = "cancelled" \/ finished'
  <2>1. pc \in {"idle", "done", "fault"} /\ ~MayParse
    BY <1>3 DEF StageInv, MayParse
  <2>2. AbortBetweenCalls \/ Finish \/ FaultInFinish \/ UNCHANGED vars
    BY <2>1 DEF Next, PreParse, Scan, MovePartialRow, StartFreshRow, StartEmpty,
         TruncateRow, SkipBom, ReadNothing, Read, SkipDoubledQuote, Plain,
         EscapedSpecial, EndCell, IgnoreLf, EndRow, AtRowEnd, FaultInCell, VisitQuote, EndScan, Visit, Scanning
  <2> QED BY <1>3, <2>2 DEF AbortBetweenCalls, Finish, FaultInFinish, vars
<1> QED BY <1>1, <1>2, <1>3 DEF Reading

(* A byte is scanned: what is there to be seen of it afterwards. *)
LEMMA ByteSeen ==
  ASSUME TypeOK, StageInv, FeedInv, InRow, Sound, Scanning,
         pc' = pc, NextByte, UNCHANGED fed, NEW b \in Buffer, b[i] = buff[i]
  PROVE  /\ Cursor' = i + 1 /\ Scanned' = Scanned + 1 /\ Scanned \in Nat /\ Cursor = i
         /\ Scanned < Len(fed)
         /\ b[Cursor' - 1] = fed'[Scanned'] /\ fed[Scanned + 1] = buff[i] /\ buff[i] \in Byte
<1>1. /\ pc = "scan" /\ i < bytes_read /\ i' = i + 1 /\ bytes_read' = bytes_read /\ pc' = "scan"
      /\ i \in Nat /\ bytes_read \in Nat /\ fed \in Seq(Byte)
  BY SizeAssumption DEF Scanning, NextByte, TypeOK
<1>2. /\ Scanned \in Nat /\ Scanned <= Len(fed) /\ Cursor = i
      /\ Scanned = Len(fed) - (bytes_read - i) /\ Len(fed) \in Nat
  BY <1>1, ScannedType
<1>3. Cursor' = i + 1 /\ Scanned' = Scanned + 1 /\ Scanned < Len(fed)
  BY <1>1, <1>2 DEF Cursor, Scanned
<1>4. buff[i] = fed[Scanned + 1] /\ buff[i] \in Byte
  <2>1. buff[i] = fed[Len(fed) - bytes_read + i + 1]
    <3>1. i \in i .. bytes_read - 1
      BY <1>1
    <3>2. \A m \in i .. bytes_read - 1 : buff[m] = fed[Len(fed) - bytes_read + m + 1]
      BY <1>1, Zenon DEF FeedInv
    <3> QED BY <3>1, <3>2
  <2>2. Len(fed) - bytes_read + i + 1 = Scanned + 1 /\ Scanned + 1 \in 1 .. Len(fed)
    BY <1>1, <1>2, <1>3
  <2> QED BY <1>1, <2>1, <2>2
<1>5. (i + 1) - 1 = i
  BY <1>1
<1> QED BY <1>1, <1>2, <1>3, <1>4, <1>5

(* The parser starts with no byte before the first. *)
LEMMA LastInit == Init => LastInv
<1> SUFFICES ASSUME Init PROVE LastInv
  OBVIOUS
<1>1. Cursor = 0 /\ Scanned = 0
  BY DEF Init, Cursor, Scanned
<1> QED BY <1>1 DEF Init, LastInv

(* A row that is moved has cells if it had some. *)
LEMMA CellsKept ==
  ASSUME TypeOK
  PROVE  RebasedCells = <<>> <=> cells = <<>>
<1>1. cells \in Seq(Cell) /\ DOMAIN RebasedCells = DOMAIN cells
  BY DEF RebasedCells, TypeOK
<1>2. cells = <<>> => RebasedCells = <<>>
  BY DEF RebasedCells
<1>3. RebasedCells = <<>> => DOMAIN cells = {}
  BY <1>1
<1>4. DOMAIN cells = {} => cells = <<>>
  BY <1>1, NoElements
<1> QED BY <1>2, <1>3, <1>4

(* A row that a cell was added to is not empty. *)
LEMMA CellAddedSomething ==
  ASSUME TypeOK, NEW u, NEW q
  PROVE  AddCell(u, q) # <<>>
<1>1. cells \in Seq(Cell)
  BY DEF TypeOK
<1> DEFINE c == [str |-> u.str, len |-> u.len, quoted |-> q]
<1> HIDE DEF c
<1>2. Append(cells, c) # <<>>
  <2>1. Len(Append(cells, c)) = Len(cells) + 1 /\ Len(cells) \in Nat
    BY <1>1
  <2> QED BY <2>1
<1>3. ~(Len(cells) < MaxCols) => cells # <<>>
  BY <1>1, SizeAssumption
<1> QED BY <1>2, <1>3 DEF AddCell, c

----
(* Each step keeps it. *)

(* A byte of the row is scanned. *)
LEMMA LastScan ==
  ASSUME TypeOK, TypeOK', StageInv, RowInv, FeedInv, OneStreamInv, LastInv, Reading, InRow, Sound,
         Reading', SkipDoubledQuote \/ Plain \/ EscapedSpecial \/ EndCell \/ IgnoreLf \/ EndRow \/ VisitQuote
  PROVE  LastInv'
<1>1. /\ pc = "scan" /\ i < bytes_read /\ Scanning /\ pc' = pc /\ NextByte /\ fed' = fed /\ status' = status
      /\ buff' = buff \/ (~Open /\ buff' = CellHere.buff)
  <2>1. CASE EndRow
    <3>1. ~abort'
      BY <2>1 DEF EndRow, Reading
    <3> QED BY <2>1, <3>1 DEF EndRow, AtRowEnd, Visit, Scanning, envVars
  <2>2. CASE ~EndRow
    BY <2>2 DEF SkipDoubledQuote, Plain, EscapedSpecial, EndCell, IgnoreLf, VisitQuote, Visit, Scanning,
                NextByte, bufVars, envVars
  <2> QED BY <2>1, <2>2
<1>2. buff'[i] = buff[i] /\ buff' \in Buffer /\ i \in Nat
  <2>1. i \in 0 .. Size - 1 /\ i \in Nat
    BY <1>1, SizeAssumption DEF TypeOK
  <2>2. ~Open => CellHere.buff[i] = buff[i]
    BY <1>1, <2>1, CellSound
  <2> QED BY <1>1, <2>1, <2>2 DEF TypeOK
<1>3. /\ Cursor' = i + 1 /\ Scanned' = Scanned + 1 /\ Scanned \in Nat
      /\ buff'[Cursor' - 1] = fed'[Scanned']
  BY <1>1, <1>2, ByteSeen
<1>4. Scanned' > 0
  BY <1>3
<1>5. /\ i' # 0 /\ pc' = "scan" /\ status' # "no_more_input"
  BY <1>1, <1>2 DEF NextByte, OneStreamInv
<1>6. /\ (have_cell => abort \/ cells # <<>>)'
      /\ (cells = <<>> => cell_start = row_start)'
  <2>1. CASE EndCell
    BY <2>1, CellAddedSomething DEF EndCell
  <2>2. CASE EndRow
    <3>1. ~abort'
      BY <2>2 DEF EndRow, Reading
    <3> QED BY <2>2, <3>1 DEF EndRow, RowDl
  <2>3. CASE ~EndCell /\ ~EndRow
    <3>1. UNCHANGED <<have_cell, abort, cells>>
          /\ (UNCHANGED <<cell_start, row_start>> \/ cell_start' = row_start')
      BY <2>3 DEF SkipDoubledQuote, Plain, EscapedSpecial, IgnoreLf, VisitQuote, posVars, rowVars
    <3> QED BY <3>1 DEF LastInv
  <2> QED BY <2>1, <2>2, <2>3
<1> QED BY <1>3, <1>4, <1>5, <1>6 DEF LastInv

(* A call begins. *)
LEMMA LastPreParse ==
  ASSUME MaxInputs = 1, TypeOK, TypeOK', StageInv, RowInv, OneStreamInv, LastInv, Reading, PreParse
  PROVE  LastInv'
<1> USE SizeAssumption
<1>1. /\ status = "ok" /\ pc = "idle" /\ pc' \in {"read", "truncate"} /\ UNCHANGED <<status, fed, have_cell, abort>>
      /\ old_bytes_read \in Nat /\ partial_row_length \in Nat /\ row_start \in Nat /\ cell_start \in Nat
      /\ Len(fed) \in Nat /\ Scanned = Len(fed) /\ Scanned' = Scanned
      /\ DOMAIN buff = 0 .. Size - 1 /\ old_bytes_read <= Size
  <2>1. MayParse /\ pc' \in {"read", "truncate"} /\ UNCHANGED <<status, fed, have_cell, abort>>
    BY DEF PreParse, MovePartialRow, StartFreshRow, StartEmpty, EnterParse, envVars
  <2>2. status = "ok" /\ pc = "idle"
    BY <2>1, MayParseFacts
  <2>3. /\ old_bytes_read \in Nat /\ partial_row_length \in Nat /\ row_start \in Nat /\ cell_start \in Nat
        /\ Len(fed) \in Nat /\ DOMAIN buff = 0 .. Size - 1 /\ old_bytes_read <= Size
    <3>1. /\ old_bytes_read \in Nat /\ partial_row_length \in Nat /\ row_start \in Nat /\ cell_start \in Nat
          /\ fed \in Seq(Byte) /\ buff \in Buffer /\ old_bytes_read <= Size
      BY DEF TypeOK
    <3>2. DOMAIN buff = 0 .. Size - 1
      BY <3>1 DEF Buffer
    <3>3. Len(fed) \in Nat
      BY <3>1
    <3> QED BY <3>1, <3>2, <3>3
  <2> QED BY <2>1, <2>2, <2>3 DEF Scanned
<1>2. CASE MovePartialRow
  <2>1. /\ old_bytes_read > 0 /\ row_start < old_bytes_read /\ Cursor = old_bytes_read
        /\ last' = buff[old_bytes_read - 1]
        /\ buff' = [ k \in DOMAIN buff |-> IF k < old_bytes_read - row_start
                                     THEN buff[k + row_start] ELSE buff[k] ]
        /\ cell_start' = Wrap(cell_start - row_start) /\ cells' = RebasedCells /\ row_start' = 0
        /\ Cursor' = old_bytes_read - row_start
    BY <1>1, <1>2 DEF MovePartialRow, EnterParse, Cursor
  <2>2. Scanned > 0 /\ buff[old_bytes_read - 1] = fed[Scanned]
    BY <2>1 DEF LastInv
  <2>3. buff'[Cursor' - 1] = buff[old_bytes_read - 1]
    <3>1. /\ Cursor' - 1 \in 0 .. Size - 1 /\ Cursor' - 1 < old_bytes_read - row_start
          /\ (Cursor' - 1) + row_start = old_bytes_read - 1
      BY <1>1, <2>1
    <3> QED BY <1>1, <2>1, <3>1
  <2>4. (cells' = <<>> <=> cells = <<>>) /\ (have_cell => abort \/ cells # <<>>)
        /\ (cells = <<>> => cell_start = row_start)
    BY <2>1, CellsKept DEF LastInv
  <2>5. cells' = <<>> => cell_start' = row_start'
    <3>1. SUFFICES ASSUME cells' = <<>> PROVE cell_start' = 0
      BY <2>1
    <3>2. cell_start - row_start = 0 /\ 0 \in SizeT
      BY <1>1, <2>4, <3>1 DEF SizeT
    <3> QED BY <2>1, <3>2, WrapSmall
  <2> QED BY <1>1, <2>1, <2>2, <2>3, <2>4, <2>5 DEF LastInv
<1>3. CASE StartFreshRow
  <2>1. /\ old_bytes_read > 0 /\ Cursor = old_bytes_read /\ partial_row_length = 0
        /\ last' = buff[old_bytes_read - 1] /\ cells' = cells
        /\ cell_start' = 0 /\ row_start' = 0 /\ Cursor' = 0
    BY <1>1, <1>3 DEF StartFreshRow, EnterParse, Cursor, StageInv
  <2>2. Scanned > 0 /\ buff[old_bytes_read - 1] = fed[Scanned]
    BY <2>1 DEF LastInv
  <2> QED BY <1>1, <2>1, <2>2 DEF LastInv
<1>4. CASE StartEmpty
  <2>1. /\ old_bytes_read = 0 /\ last' = Junk /\ UNCHANGED <<cells, cell_start, row_start>>
        /\ Cursor' = partial_row_length
    BY <1>1, <1>4 DEF StartEmpty, EnterParse, Cursor, posVars
  <2>2. Scanned = 0 /\ partial_row_length = 0
    BY <1>1, <2>1 DEF OneStreamInv
  <2> QED BY <1>1, <2>1, <2>2 DEF LastInv
<1> QED BY <1>2, <1>3, <1>4 DEF PreParse

(* A read moves the row, and with it the last byte scanned. *)
LEMMA LastRead ==
  ASSUME TypeOK, TypeOK', StageInv, OneStreamInv, LastInv, Reading, Read, pc' # "fault"
  PROVE  LastInv'
<1> USE SizeAssumption
<1> DEFINE k == partial_row_length
<1>1. PICK n \in Nat \ {0} : \E bytes \in Seq(Byte) :
           /\ Len(bytes) = n /\ fed' = fed \o bytes
           /\ k + n <= Size
           /\ \A m \in 0 .. Size - 1 :
                buff'[m] = IF m >= k /\ m < k + n THEN bytes[m - k + 1] ELSE buff[m]
           /\ BeginScan(bytes) /\ pc' = "scan" /\ pc = "read"
           /\ UNCHANGED <<last, posVars, rowVars, status, abort>>
  BY ReadFacts
<1>2. PICK bytes \in Seq(Byte) :
           /\ Len(bytes) = n /\ fed' = fed \o bytes
           /\ k + n <= Size
           /\ \A m \in 0 .. Size - 1 :
                buff'[m] = IF m >= k /\ m < k + n THEN bytes[m - k + 1] ELSE buff[m]
           /\ BeginScan(bytes) /\ pc' = "scan" /\ pc = "read"
           /\ UNCHANGED <<last, posVars, rowVars, status, abort>>
  BY <1>1
<1>3. /\ k \in Nat /\ fed \in Seq(Byte) /\ Len(fed) \in Nat /\ n \in Nat /\ n > 0
      /\ Cursor = k /\ Scanned = Len(fed)
  <2>1. k \in Nat /\ fed \in Seq(Byte) /\ Len(fed) \in Nat /\ n \in Nat /\ n > 0
    <3>1. k \in Nat /\ fed \in Seq(Byte)
      BY DEF TypeOK
    <3>2. Len(fed) \in Nat
      BY <3>1
    <3> QED BY <3>1, <3>2
  <2>2. old_bytes_read = 0 /\ status # "cancelled"
    BY <1>2 DEF StageInv, Reading
  <2> QED BY <1>2, <2>1, <2>2 DEF Cursor, Scanned
<1>4. /\ Len(fed') = Len(fed) + n
      /\ \A j \in 1 .. Len(fed) : fed'[j] = fed[j]
      /\ fed'[Len(fed) + 1] = bytes[1]
  <2>1. /\ Len(fed \o bytes) = Len(fed) + Len(bytes)
        /\ \A j \in 1 .. Len(fed) : (fed \o bytes)[j] = fed[j]
        /\ \A j \in 1 .. Len(bytes) : (fed \o bytes)[Len(fed) + j] = bytes[j]
    BY <1>3, CatFacts
  <2>2. 1 \in 1 .. Len(bytes) /\ Len(bytes) = n
    BY <1>2, <1>3
  <2>3. fed' = fed \o bytes
    BY <1>2
  <2> QED BY <2>1, <2>2, <2>3
<1>5. /\ bytes_read' = k + n /\ i' \in {k, k + 1}
  BY <1>2, <1>3 DEF BeginScan
<1>6. Cursor' = i' /\ Scanned' = Len(fed') - (bytes_read' - i')
  BY <1>2 DEF Cursor, Scanned
<1>7. /\ Cursor' > 0 => Scanned' > 0 /\ buff'[Cursor' - 1] = fed'[Scanned']
      /\ i' = 0 => last' = IF Scanned' > 0 THEN fed'[Scanned'] ELSE Junk
  <2>1. CASE i' = k
    <3>1. Scanned' = Len(fed)
      BY <1>3, <1>4, <1>5, <1>6, <2>1
    <3>2. ASSUME k > 0
          PROVE  Len(fed) > 0 /\ buff'[k - 1] = fed[Len(fed)]
      <4>1. Len(fed) > 0 /\ buff[k - 1] = fed[Len(fed)]
        BY <1>3, <3>2 DEF LastInv
      <4>2. k - 1 \in 0 .. Size - 1 /\ ~(k - 1 >= k)
        BY <1>2, <1>3, <3>2
      <4> QED BY <1>2, <4>1, <4>2
    <3>3. last' = IF Len(fed) > 0 THEN fed[Len(fed)] ELSE Junk
      BY <1>2, <1>3 DEF LastInv
    <3>4. Len(fed) > 0 => fed'[Len(fed)] = fed[Len(fed)]
      BY <1>3, <1>4
    <3> QED BY <1>3, <1>6, <2>1, <3>1, <3>2, <3>3, <3>4
  <2>2. CASE i' = k + 1
    <3>1. Scanned' = Len(fed) + 1
      BY <1>3, <1>4, <1>5, <1>6, <2>2
    <3>2. buff'[k] = bytes[1]
      <4>1. k \in 0 .. Size - 1 /\ k >= k /\ k < k + n /\ k - k + 1 = 1
        BY <1>2, <1>3
      <4> QED BY <1>2, <4>1
    <3>3. (k + 1) - 1 = k /\ k + 1 # 0 /\ Len(fed) + 1 > 0
      BY <1>3
    <3> QED BY <1>4, <1>6, <2>2, <3>1, <3>2, <3>3
  <2> QED BY <1>5, <2>1, <2>2
<1>8. UNCHANGED <<have_cell, abort, cells, cell_start, row_start, status>>
  BY <1>2 DEF posVars, rowVars
<1>9. pc' = "scan" /\ status # "no_more_input"
  BY <1>2 DEF OneStreamInv
<1>10. pc' = "scan" /\ status' # "no_more_input"
  BY <1>8, <1>9
<1>11. /\ (have_cell => abort \/ cells # <<>>)'
       /\ (cells = <<>> => cell_start = row_start)'
  BY <1>8 DEF LastInv
<1> QED BY <1>7, <1>10, <1>11 DEF LastInv

(* Every step keeps what the scanner knows of the last byte. *)
LEMMA LastStep ==
  ASSUME MaxInputs = 1, TypeOK, TypeOK', StageInv, RowInv, NoFault, NoFault', FeedInv,
         OneStreamInv, LastInv, [Next]_vars
  PROVE  LastInv'
<1> USE SizeAssumption
<1>1. SUFFICES ASSUME Reading'
               PROVE  LastInv'
  BY DEF LastInv
<1>2. Reading /\ InRow /\ Sound /\ ~buffer_exceeded /\ pc' # "fault"
  <2>1. Reading
    BY <1>1, ReadingBefore
  <2>2. pc' # "fault"
    BY <1>1 DEF NoFault, Reading
  <2> QED BY <2>1, <2>2, ReadingFacts
<1>3. CASE PreParse
  BY <1>2, <1>3, LastPreParse
<1>4. CASE Read
  BY <1>2, <1>4, LastRead
<1>5. CASE SkipDoubledQuote \/ Plain \/ EscapedSpecial \/ EndCell \/ IgnoreLf \/ EndRow \/ VisitQuote
  BY <1>1, <1>2, <1>5, LastScan
<1>6. CASE TruncateRow \/ FaultInCell \/ Finish \/ FaultInFinish
  BY <1>1, <1>2, <1>6 DEF TruncateRow, FaultInCell, Finish, FaultInFinish, Reading
<1>7. CASE SkipBom
  BY <1>2, <1>7 DEF SkipBom, LastInv, Cursor, Scanned, bufVars, posVars, rowVars, scanVars, envVars
<1>8. CASE AbortBetweenCalls
  <2>1. UNCHANGED <<pc, old_bytes_read, partial_row_length, i, bytes_read, fed, status, buff, last,
                    cells, cell_start, row_start>> /\ abort'
    BY <1>8 DEF AbortBetweenCalls, bufVars, posVars, rowVars, scanVars, envVars
  <2> QED BY <1>2, <2>1 DEF LastInv, Cursor, Scanned
<1>9. CASE ReadNothing
  <2>1. /\ UNCHANGED <<buff, last, old_bytes_read, partial_row_length, fed, cells, have_cell, abort,
                       cell_start, row_start>>
        /\ pc = "read" /\ pc' = "idle" /\ status' = "no_more_input" /\ status # "cancelled"
    BY <1>2, <1>9 DEF ReadNothing, bufVars, posVars, rowVars, envVars, Reading
  <2>2. Cursor' = Cursor /\ Scanned' = Scanned
    BY <2>1 DEF Cursor, Scanned
  <2> QED BY <1>2, <2>1, <2>2 DEF LastInv
<1>10. CASE EndScan
  <2>1. /\ UNCHANGED <<buff, last, fed, cells, have_cell, abort, cell_start, row_start>>
        /\ pc = "scan" /\ pc' = "idle" /\ status' = "ok" /\ i = bytes_read /\ bytes_read > 0
        /\ old_bytes_read' = bytes_read /\ i \in Nat
    BY <1>10 DEF EndScan, bufVars, posVars, rowVars, envVars, StageInv, TypeOK
  <2>2. Len(fed) \in Nat
    BY DEF TypeOK
  <2>3. Cursor' = Cursor /\ Scanned' = Scanned
    BY <2>1, <2>2 DEF Cursor, Scanned
  <2> QED BY <1>2, <2>1, <2>3 DEF LastInv
<1>11. CASE UNCHANGED vars
  BY <1>2, <1>11 DEF vars, LastInv, Cursor, Scanned, bufVars, posVars, rowVars, scanVars, envVars
<1> QED BY <1>3, <1>4, <1>5, <1>6, <1>7, <1>8, <1>9, <1>10, <1>11 DEF Next, Scan

----
(* All the rows of the input. *)

(* A byte of content adds to the row and to the whole alike, *)
LEMMA SameContent ==
  ASSUME NEW P \in ReadState, NEW p \in ReadState, SameRow(P, p), p.afterCr = FALSE,
         NEW c \in Byte, p.cell.mode = "open" \/ c \notin {Delim, Cr, Lf}, P.afterCr => c # Lf
  PROVE  LET Q == Promise!AddToRow(P, c)
             q == Promise!AddToRow(p, c)
         IN  Q \in ReadState /\ Q.rows = P.rows /\ SameRow(Q, q) /\ Q.begun = TRUE /\ Q.afterCr = FALSE
<1> DEFINE Q == Promise!AddToRow(P, c)
           q == Promise!AddToRow(p, c)
<1>1. /\ q.cells = p.cells /\ q.cell = Promise!AddByte(p.cell, c)
      /\ q.length = p.length + 1 /\ q.begun = TRUE
  BY AddContent
<1>2. P.cell.mode = "open" \/ c \notin {Delim, Cr, Lf}
  BY DEF SameRow
<1>3. /\ Q \in ReadState /\ Q.rows = P.rows /\ Q.cells = P.cells /\ Q.cell = Promise!AddByte(P.cell, c)
      /\ Q.length = P.length + 1 /\ Q.begun = TRUE /\ Q.afterCr = FALSE
  <2>1. c \in Byte \cup {Junk} /\ (P.afterCr => c # Lf) /\ P \in ReadState
    OBVIOUS
  <2> QED BY <1>2, <2>1, AddContent
<1> HIDE DEF Q, q
<1>4. SameRow(Q, q)
  BY <1>1, <1>3 DEF SameRow
<1> QED BY <1>3, <1>4 DEF Q, q

(* and so does the end of a cell. *)
LEMMA SameClosed ==
  ASSUME NEW P \in ReadState, NEW p \in ReadState, SameRow(P, p)
  PROVE  LET Q == Promise!CloseCell(P)
             q == Promise!CloseCell(p)
         IN  Q \in ReadState /\ Q.rows = P.rows /\ SameRow(Q, q) /\ Q.begun = TRUE /\ Q.afterCr = FALSE
<1> DEFINE Q == Promise!CloseCell(P)
           q == Promise!CloseCell(p)
<1>1. /\ q.cells = IF Len(p.cells) < MaxCols THEN Append(p.cells, Promise!ValueOf(p.cell)) ELSE p.cells
      /\ q.cell = Promise!EmptyCell /\ q.length = p.length + 1 /\ q.begun = TRUE
  BY CloseCellFacts
<1>2. /\ Q \in ReadState /\ Q.rows = P.rows
      /\ Q.cells = IF Len(P.cells) < MaxCols THEN Append(P.cells, Promise!ValueOf(P.cell)) ELSE P.cells
      /\ Q.cell = Promise!EmptyCell /\ Q.length = P.length + 1 /\ Q.begun = TRUE /\ Q.afterCr = FALSE
  BY CloseCellFacts
<1> HIDE DEF Q, q
<1>3. SameRow(Q, q)
  <2>1. P.cells = p.cells /\ P.cell = p.cell /\ P.length = p.length
    BY DEF SameRow
  <2>2. Q.cells = q.cells
    BY <1>1, <1>2, <2>1
  <2>3. Q.cell = q.cell /\ Q.begun = q.begun /\ Q.length = q.length
    BY <1>1, <1>2, <2>1
  <2> QED BY <2>2, <2>3 DEF SameRow
<1> QED BY <1>2, <1>3 DEF Q, q

(* What is known of the byte before the one being scanned. *)
LEMMA LastSeen ==
  ASSUME TypeOK, LastInv, Reading, Scanning
  PROVE  /\ Scanned > 0 => ScannerLast = fed[Scanned]
         /\ ScannerLast = Cr => Scanned > 0
<1>1. pc = "scan" /\ Cursor = i /\ i \in Nat
  BY SizeAssumption DEF Scanning, Cursor, TypeOK
<1>2. CASE i > 0
  BY <1>1, <1>2 DEF LastInv, ScannerLast
<1>3. CASE i = 0
  <2>1. last = IF Scanned > 0 THEN fed[Scanned] ELSE Junk
    BY <1>1, <1>3 DEF LastInv
  <2>2. ScannerLast = last
    BY <1>3 DEF ScannerLast
  <2> QED BY <2>1, <2>2, SpecialsAssumption
<1> QED BY <1>1, <1>2, <1>3

(* One more byte of the input has been scanned. *)
LEMMA ConsumedByte ==
  ASSUME TypeOK, StageInv, FeedInv, InRow, Sound, Scanning, pc' = pc, NextByte, UNCHANGED fed
  PROVE  /\ buff[i] \in Byte
         /\ Promise!Parse(Consumed') = Promise!AddToRow(Promise!Parse(Consumed), buff[i])
         /\ Scanned' = Scanned + 1 /\ Scanned' > 0 /\ fed'[Scanned'] = buff[i]
<1>1. /\ Scanned' = Scanned + 1 /\ Scanned \in Nat /\ Scanned < Len(fed)
      /\ fed[Scanned + 1] = buff[i] /\ buff[i] \in Byte
  <2>1. buff \in Buffer /\ buff[i] = buff[i]
    BY DEF TypeOK
  <2> QED BY <2>1, ByteSeen
<1>2. fed \in Seq(Byte) /\ fed' = fed
  BY DEF TypeOK
<1>3. /\ SubSeq(fed, 1, Scanned) \in Seq(Byte)
      /\ SubSeq(fed, 1, Scanned + 1) = Append(SubSeq(fed, 1, Scanned), fed[Scanned + 1])
  <2>1. 0 \in Nat /\ 0 <= Scanned /\ Scanned <= Len(fed)
    BY <1>1
  <2>2. /\ SubSeq(fed, 0 + 1, Scanned) \in Seq(Byte)
        /\ SubSeq(fed, 0 + 1, Scanned + 1) = Append(SubSeq(fed, 0 + 1, Scanned), fed[Scanned + 1])
    BY <1>1, <1>2, <2>1, SubSeqFacts
  <2> QED BY <2>2
<1>4. Consumed = SubSeq(fed, 1, Scanned) /\ Consumed' = SubSeq(fed, 1, Scanned + 1)
  BY <1>1, <1>2 DEF Consumed
<1>5. Promise!Parse(Consumed') = Promise!AddToRow(Promise!Parse(Consumed), buff[i])
  BY <1>1, <1>3, <1>4, ParseOneMore
<1> QED BY <1>1, <1>2, <1>5

(* Nothing is scanned, and the row stays as long as it was. *)
LEMMA WholeFrame ==
  ASSUME WholeInv, Reading, UNCHANGED <<fed, calls>>, Scanned' = Scanned,
         Cursor' - row_start' = Cursor - row_start
  PROVE  WholeInv'
<1>1. Consumed' = Consumed /\ RowBytes' = RowBytes /\ RowsDelivered' = RowsDelivered
  BY DEF Consumed, RowBytes, RowsDelivered
<1> QED BY <1>1 DEF WholeInv, Whole

----
(* Each step keeps the rows delivered those of the input. *)

(* A byte of content is scanned. *)
LEMMA WholeContent ==
  ASSUME TypeOK, StageInv, RowInv, FeedInv, InRow, Sound, RowTraced, WholeInv, Reading,
         SkipDoubledQuote \/ Plain \/ EscapedSpecial \/ VisitQuote
  PROVE  WholeInv'
<1> USE SizeAssumption
<1>1. PICK P : P = Promise!Parse(Consumed)
  OBVIOUS
<1>2. PICK p : p = Promise!Parse(RowBytes)
  OBVIOUS
<1>3. /\ Scanning /\ pc' = pc /\ NextByte /\ UNCHANGED <<fed, row_start, calls>>
      /\ buff[i] = Quote \/ buff[i] \notin {Delim, Cr, Lf} \/ (Open /\ skip_next_delim = FALSE)
  BY DEF SkipDoubledQuote, Plain, EscapedSpecial, VisitQuote, Visit, Scanning, StageInv, posVars, envVars, TypeOK
<1>4. /\ buff[i] \in Byte
      /\ Promise!Parse(Consumed') = Promise!AddToRow(P, buff[i])
      /\ Scanned' > 0 /\ fed'[Scanned'] = buff[i]
  BY <1>1, <1>3, ConsumedByte
<1>5. /\ Promise!Parse(RowBytes') = Promise!AddToRow(p, buff[i]) /\ Cursor = i
  BY <1>2, <1>3, ByteScanned
<1>6. /\ RowRel(p, buff, cells, row_start, cell_start, i,
                quoted, quote_close_position, skip_next_delim, TRUE)
      /\ row_start \in Nat /\ cell_start \in Nat /\ i \in Nat /\ pc = "scan"
  BY <1>2, <1>3, BeforeByte
<1>7. p \in ReadState /\ p.afterCr = FALSE /\ (p.begun <=> i > row_start)
      /\ CellRel(p.cell, buff, cell_start, i, quoted, quote_close_position, skip_next_delim, TRUE)
  BY <1>6 DEF RowRel
<1>8. P \in ReadState /\ P.rows = RowsDelivered /\ SameRow(P, p) /\ (P.afterCr => ~P.begun)
  BY <1>1, <1>2 DEF WholeInv, Whole
<1>9. ASSUME Open
      PROVE  i > row_start
  <2>1. row_start <= cell_start /\ cell_start < i
    BY <1>5, <1>9 DEF RowInv, OrderInv, QuoteInv
  <2> QED BY <1>6, <2>1
<1>10. p.cell.mode = "open" \/ buff[i] \notin {Delim, Cr, Lf}
  <2>1. CASE buff[i] = Quote \/ buff[i] \notin {Delim, Cr, Lf}
    BY <2>1, SpecialsAssumption
  <2>2. CASE Open /\ skip_next_delim = FALSE
    <3>1. i < bytes_read /\ bytes_read \in Nat
      BY <1>3 DEF Scanning, TypeOK
    <3>2. "PENDING" \notin quoted
      BY <1>6, <3>1 DEF RowInv, QuoteInv
    <3> QED BY <1>7, <2>2, <3>2, ModeOpen DEF Open
  <2> QED BY <1>3, <2>1, <2>2
<1>11. P.afterCr => buff[i] # Lf
  <2>1. SUFFICES ASSUME P.afterCr, buff[i] = Lf
                 PROVE  FALSE
    OBVIOUS
  <2>2. Open
    BY <1>3, <2>1, SpecialsAssumption
  <2>3. P.begun
    BY <1>7, <1>8, <1>9, <2>2 DEF SameRow
  <2> QED BY <1>8, <2>1, <2>3
<1>c. PICK c : c = buff[i]
  OBVIOUS
<1> DEFINE Q == Promise!AddToRow(P, c)
           q == Promise!AddToRow(p, c)
<1>12. Q \in ReadState /\ Q.rows = P.rows /\ SameRow(Q, q) /\ Q.begun = TRUE /\ Q.afterCr = FALSE
  BY <1>4, <1>7, <1>8, <1>10, <1>11, <1>c, SameContent
<1>13. Promise!Parse(Consumed') = Q /\ Promise!Parse(RowBytes') = q
  BY <1>4, <1>5, <1>c
<1> HIDE DEF Q, q
<1>14. RowsDelivered' = RowsDelivered
  BY <1>3 DEF RowsDelivered
<1>15. Whole(Q, q)'
  BY <1>8, <1>12, <1>14 DEF Whole
<1> QED BY <1>13, <1>15 DEF WholeInv

(* A delimiter ends a cell. *)
LEMMA WholeEndCell ==
  ASSUME TypeOK, StageInv, RowInv, FeedInv, InRow, Sound, RowTraced, WholeInv, Reading, EndCell
  PROVE  WholeInv'
<1> USE SizeAssumption
<1>1. PICK P : P = Promise!Parse(Consumed)
  OBVIOUS
<1>2. PICK p : p = Promise!Parse(RowBytes)
  OBVIOUS
<1>3. /\ Scanning /\ pc' = pc /\ NextByte /\ UNCHANGED <<fed, row_start, calls>>
      /\ buff[i] = Delim /\ skip_next_delim = FALSE /\ ~Open
  BY DEF EndCell, Visit, Scanning, envVars, TypeOK
<1>4. Promise!Parse(Consumed') = Promise!AddToRow(P, Delim)
  BY <1>1, <1>3, ConsumedByte
<1>5. Promise!Parse(RowBytes') = Promise!AddToRow(p, Delim)
  BY <1>2, <1>3, ByteScanned
<1>6. /\ RowRel(p, buff, cells, row_start, cell_start, i,
                quoted, quote_close_position, FALSE, TRUE)
      /\ pc = "scan"
  BY <1>2, <1>3, BeforeByte
<1>7. p \in ReadState
      /\ CellRel(p.cell, buff, cell_start, i, quoted, quote_close_position, FALSE, TRUE)
  BY <1>6 DEF RowRel
<1>8. P \in ReadState /\ P.rows = RowsDelivered /\ SameRow(P, p)
  BY <1>1, <1>2 DEF WholeInv, Whole
<1>9. p.cell.mode # "open" /\ P.cell.mode # "open"
  <2>1. "PENDING" \notin quoted /\ "UNCLOSED" \notin quoted
    BY <1>3 DEF RowInv, QuoteInv, Open
  <2> QED BY <1>7, <1>8, <2>1, ModeOpen DEF SameRow
<1> DEFINE Q == Promise!CloseCell(P)
           q == Promise!CloseCell(p)
<1>10. Q \in ReadState /\ Q.rows = P.rows /\ SameRow(Q, q) /\ Q.begun = TRUE /\ Q.afterCr = FALSE
  BY <1>7, <1>8, SameClosed
<1>11. Promise!Parse(Consumed') = Q /\ Promise!Parse(RowBytes') = q
  BY <1>4, <1>5, <1>7, <1>8, <1>9, AddDelim
<1> HIDE DEF Q, q
<1>12. RowsDelivered' = RowsDelivered
  BY <1>3 DEF RowsDelivered
<1>13. Whole(Q, q)'
  BY <1>8, <1>10, <1>12 DEF Whole
<1> QED BY <1>11, <1>13 DEF WholeInv

(* After a line end, the row has no bytes. *)
LEMMA NoRowBytesNext ==
  (TypeOK /\ Scanned \in Nat /\ Scanned <= Len(fed) /\ Cursor = row_start /\ row_start \in Nat
     => Promise!Parse(RowBytes) = Promise!Start)'
<1>1. TypeOK /\ Scanned \in Nat /\ Scanned <= Len(fed) /\ Cursor = row_start /\ row_start \in Nat
        => Promise!Parse(RowBytes) = Promise!Start
  BY NoRowBytes DEF TypeOK
<1> QED BY <1>1, PTL

(* The cell that ends at a line end, and the row with it. *)
LEMMA RowClosed ==
  ASSUME TypeOK, StageInv, RowInv, InRow, RowTraced, Scanning, ~Open, skip_next_delim = FALSE,
         NEW p, p = Promise!Parse(RowBytes)
  PROVE  /\ p \in ReadState /\ p.cell.mode # "open" /\ p.afterCr = FALSE
         /\ Promise!CloseCell(p).cells = Values(Delivered(CellHere.buff, AddCell(CellHere, quoted)))
<1> USE SizeAssumption
<1>1. /\ RowRel(p, buff, cells, row_start, cell_start, i,
                quoted, quote_close_position, FALSE, TRUE)
      /\ row_start \in Nat /\ cell_start \in Nat /\ i \in Nat /\ i < Size
      /\ quote_close_position \in SizeT /\ quoted \in SUBSET Flags
      /\ buff \in Buffer /\ cells \in Seq(Cell) /\ pc = "scan"
  <2>1. /\ quote_close_position \in SizeT /\ quoted \in SUBSET Flags
        /\ cells \in Seq(Cell)
    BY DEF TypeOK
  <2> QED BY <2>1, BeforeByte
<1>2. /\ p \in ReadState /\ p.afterCr = FALSE
      /\ CellRel(p.cell, buff, cell_start, i, quoted, quote_close_position, FALSE, TRUE)
  BY <1>1 DEF RowRel
<1>3. /\ cell_start <= i
      /\ \A j \in 1 .. Len(cells) : cells[j].str + cells[j].len < cell_start
      /\ "PENDING" \notin quoted /\ "UNCLOSED" \notin quoted
  <2>1. Cursor = i
    BY <1>1 DEF Cursor
  <2>2. DOMAIN cells = 1 .. Len(cells)
    BY <1>1
  <2> QED BY <2>1, <2>2 DEF RowInv, OrderInv, CellsInRow, QuoteInv, Open
<1>4. p.cell.mode # "open"
  BY <1>2, <1>3, ModeOpen
<1>5. CellHere = Unquote(quoted, quote_close_position, cell_start, i - cell_start)
  <2>1. i - cell_start \in SizeT
    BY <1>1, <1>3 DEF SizeT
  <2> QED BY <2>1, WrapSmall DEF CellHere
<1>6. LET u == Unquote(quoted, quote_close_position, cell_start, i - cell_start) IN
      Promise!CloseCell(p).cells = Values(Delivered(u.buff, AddCell(u, quoted)))
  <2>1. i <= Size
    BY <1>1
  <2> QED BY <1>1, <1>3, <2>1, RowDelim
<1> QED BY <1>2, <1>4, <1>5, <1>6

(* The calls for rows, once there is one more. *)
LEMMA CallsAppended ==
  ASSUME TypeOK, NEW call, calls' = Append(calls, call)
  PROVE  RowsDelivered' = Append(RowsDelivered, Values(call.cells))
<1> DEFINE n == Len(calls)
<1>1. calls \in Seq(HandlerCall) /\ n \in Nat /\ DOMAIN calls = 1 .. n
  BY DEF TypeOK
<1>2. DOMAIN calls' = 1 .. n + 1 /\ calls'[n + 1] = call /\ \A k \in 1 .. n : calls'[k] = calls[k]
  BY <1>1
<1>3. RowsDelivered = [k \in 1 .. n |-> Values(calls[k].cells)]
  BY <1>1 DEF RowsDelivered
<1>4. RowsDelivered' = [k \in 1 .. n + 1 |-> IF k = n + 1 THEN Values(call.cells) ELSE RowsDelivered[k]]
  <2>1. RowsDelivered' = [k \in 1 .. n + 1 |-> Values(calls'[k].cells)]
    BY <1>2 DEF RowsDelivered
  <2>2. \A k \in 1 .. n + 1 :
          Values(calls'[k].cells) = IF k = n + 1 THEN Values(call.cells) ELSE RowsDelivered[k]
    BY <1>1, <1>2, <1>3
  <2> QED BY <2>1, <2>2
<1> DEFINE S == {Values(call.cells)} \cup {Values(calls[k].cells) : k \in 1 .. n}
<1>5. RowsDelivered \in Seq(S) /\ Len(RowsDelivered) = n /\ Values(call.cells) \in S
  BY <1>1, <1>3
<1> HIDE DEF S, n
<1>6. Append(RowsDelivered, Values(call.cells))
        = [k \in 1 .. n + 1 |-> IF k = n + 1 THEN Values(call.cells) ELSE RowsDelivered[k]]
  BY <1>5, AppendAsFunction
<1> QED BY <1>4, <1>6

(* The row that a line end delivers is the one that the bytes amount to. *)
LEMMA RowEnds ==
  ASSUME TypeOK, StageInv, RowInv, FeedInv, InRow, Sound, RowTraced, LastInv, WholeInv, Reading, EndRow,
         NEW P, P = Promise!Parse(Consumed), NEW c, c = buff[i]
  PROVE  /\ P \in ReadState /\ P.cell.mode # "open"
         /\ c \in {Cr, Lf} /\ ~(c = Lf /\ P.afterCr)
         /\ RowsDelivered' = Promise!AddToRow(P, c).rows
<1> USE SizeAssumption
<1>1. PICK p : p = Promise!Parse(RowBytes)
  OBVIOUS
<1>2. /\ Scanning /\ skip_next_delim = FALSE /\ ~Open
      /\ c \in {Cr, Lf} /\ (c = Lf => ScannerLast # Cr)
      /\ RowDl(CellHere.buff, AddCell(CellHere, quoted), {"cell", "row"})
      /\ ~buffer_exceeded
  <2>1. c \in {Cr, Lf} /\ (c = Lf => ScannerLast # Cr) /\ Scanning /\ skip_next_delim = FALSE /\ ~Open
    BY SpecialsAssumption DEF EndRow, AtRowEnd, Visit, TypeOK
  <2> QED BY <2>1 DEF EndRow, InRow
<1>3. /\ p \in ReadState /\ p.cell.mode # "open"
      /\ Promise!CloseCell(p).cells = Values(Delivered(CellHere.buff, AddCell(CellHere, quoted)))
  BY <1>1, <1>2, RowClosed
<1>4. /\ P \in ReadState /\ P.rows = RowsDelivered /\ SameRow(P, p)
      /\ (P.afterCr => Scanned > 0 /\ fed[Scanned] = Cr)
  BY <1>1 DEF WholeInv, Whole
<1>5. ~(c = Lf /\ P.afterCr) /\ P.cell.mode # "open"
  <2>1. Scanned > 0 => ScannerLast = fed[Scanned]
    BY <1>2, LastSeen
  <2> QED BY <1>2, <1>3, <1>4, <2>1 DEF SameRow
<1>6. Promise!CloseCell(P).cells = Promise!CloseCell(p).cells
  BY <1>3, <1>4, SameClosed DEF SameRow
<1>7. Promise!AddToRow(P, c).rows = Append(P.rows, Promise!CloseCell(P).cells)
  BY <1>2, <1>4, <1>5, AddRowEnd
<1>8. RowsDelivered' = Append(RowsDelivered, Promise!CloseCell(p).cells)
  <2> DEFINE call == [handler |-> "row", number |-> data_row_count,
                      cells |-> Delivered(CellHere.buff, AddCell(CellHere, quoted))]
  <2>1. calls' = Append(calls, call)
    BY <1>2 DEF RowDl, CallRowHandler
  <2>2. call.cells = Delivered(CellHere.buff, AddCell(CellHere, quoted))
    OBVIOUS
  <2> HIDE DEF call
  <2>3. RowsDelivered' = Append(RowsDelivered, Values(call.cells))
    BY <2>1, CallsAppended
  <2> QED BY <1>3, <2>2, <2>3
<1>9. RowsDelivered' = Promise!AddToRow(P, c).rows
  BY <1>4, <1>6, <1>7, <1>8
<1> QED BY <1>2, <1>4, <1>5, <1>9

(* A line end outside of quotes delivers the row. *)
LEMMA WholeEndRow ==
  ASSUME TypeOK, TypeOK', StageInv, StageInv', RowInv, FeedInv, FeedInv', InRow, InRow', Sound,
         RowTraced, LastInv, WholeInv, Reading, Reading', EndRow
  PROVE  WholeInv'
<1>1. PICK P : P = Promise!Parse(Consumed)
  OBVIOUS
<1>2. PICK c : c = buff[i]
  OBVIOUS
<1>3. PICK Q : Q = Promise!AddToRow(P, c)
  OBVIOUS
<1>4. /\ Scanning /\ pc' = pc /\ NextByte /\ UNCHANGED fed /\ row_start' = i + 1
  <2>1. ~abort'
    BY DEF EndRow, Reading
  <2>2. Scanning
    BY Zenon DEF EndRow, AtRowEnd, Visit
  <2>3. row_start' = i + 1 /\ NextByte /\ pc' = pc
    BY <2>1, Zenon DEF EndRow
  <2>4. fed' = fed
    BY DEF EndRow, envVars
  <2> QED BY <2>2, <2>3, <2>4
<1>5. /\ Promise!Parse(Consumed') = Q
      /\ Scanned' > 0 /\ fed'[Scanned'] = c
  BY <1>1, <1>2, <1>3, <1>4, ConsumedByte
<1>6. /\ Q \in ReadState /\ Q.rows = RowsDelivered'
      /\ Q.cells = <<>> /\ Q.cell = Promise!EmptyCell
      /\ Q.length = 0 /\ Q.begun = FALSE /\ (Q.afterCr <=> c = Cr)
  <2>1. /\ P \in ReadState /\ P.cell.mode # "open"
        /\ c \in {Cr, Lf} /\ ~(c = Lf /\ P.afterCr)
    BY <1>1, <1>2, RowEnds
  <2>2. RowsDelivered' = Promise!AddToRow(P, c).rows
    BY <1>1, <1>2, RowEnds
  <2> QED BY <1>3, <2>1, <2>2, AddRowEnd
<1>7. Promise!Parse(RowBytes') = Promise!Start
  <2>1. Cursor' = row_start'
    BY <1>4 DEF Cursor, NextByte, Scanning
  <2>2. row_start' \in Nat /\ Scanned' \in Nat /\ Scanned' <= Len(fed')
    <3>1. (Scanned \in Nat /\ Scanned <= Len(fed))'
      BY ScannedTypeNext
    <3> QED BY <3>1 DEF TypeOK
  <2> QED BY <2>1, <2>2, NoRowBytesNext
<1>8. PICK q : q = Promise!Start
  OBVIOUS
<1>9. /\ q.cells = <<>> /\ q.cell = Promise!EmptyCell
      /\ q.length = 0 /\ q.begun = FALSE
  BY <1>8, Zenon DEF Promise!Start
<1>10. SameRow(Q, q)
  BY <1>6, <1>9 DEF SameRow
<1>11. Q.afterCr <=> ~Q.begun /\ Scanned' > 0 /\ fed'[Scanned'] = Cr
  BY <1>5, <1>6
<1>12. Whole(Q, q)'
  BY <1>6, <1>10, <1>11 DEF Whole
<1> QED BY <1>5, <1>7, <1>8, <1>12 DEF WholeInv

(* The line feed that belongs to the carriage return before it. *)
LEMMA WholeIgnoreLf ==
  ASSUME TypeOK, TypeOK', StageInv, StageInv', RowInv, FeedInv, FeedInv', InRow, InRow', Sound,
         RowTraced, LastInv, WholeInv, Reading, IgnoreLf
  PROVE  WholeInv'
<1> USE SizeAssumption
<1>1. PICK P : P = Promise!Parse(Consumed)
  OBVIOUS
<1>2. PICK p : p = Promise!Parse(RowBytes)
  OBVIOUS
<1>3. /\ Scanning /\ pc' = pc /\ NextByte /\ UNCHANGED <<fed, calls>> /\ ~Open
      /\ buff[i] = Lf /\ ScannerLast = Cr /\ row_start' = i + 1 /\ pc = "scan"
      /\ i \in Nat /\ row_start \in Nat /\ cell_start \in Nat /\ Cursor = i
      /\ skip_next_delim = FALSE
  <2>1. i \in Nat /\ row_start \in Nat /\ cell_start \in Nat
    BY DEF TypeOK
  <2> QED BY <2>1 DEF IgnoreLf, Visit, Scanning, envVars, Cursor, TypeOK
<1>4. /\ Promise!Parse(Consumed') = Promise!AddToRow(P, Lf)
      /\ Scanned' > 0 /\ fed'[Scanned'] = Lf
  BY <1>1, <1>3, ConsumedByte
<1>5. Scanned > 0 /\ fed[Scanned] = Cr
  BY <1>3, LastSeen
<1>6. row_start = i
  <2>1. row_start <= cell_start /\ cell_start <= i
    BY <1>3 DEF RowInv, OrderInv
  <2>2. CASE i > 0
    <3>1. buff[i - 1] = Cr
      BY <1>3, <2>2 DEF ScannerLast
    <3>2. cells = <<>> /\ cell_start = i
      BY <1>3, <2>2, <3>1 DEF RowInv, CrInv
    <3> QED BY <3>2 DEF LastInv
  <2>3. CASE i = 0
    BY <1>3, <2>1, <2>3
  <2> QED BY <1>3, <2>2, <2>3
<1>7. p = Promise!Start
  <2>1. Scanned \in Nat /\ Scanned <= Len(fed) /\ fed \in Seq(Byte)
    BY ScannedType DEF TypeOK
  <2> QED BY <1>2, <1>3, <1>6, <2>1, NoRowBytes
<1>8. /\ P \in ReadState /\ P.rows = RowsDelivered /\ SameRow(P, p)
      /\ (P.afterCr <=> ~P.begun /\ Scanned > 0 /\ fed[Scanned] = Cr)
  BY <1>1, <1>2 DEF WholeInv, Whole
<1>9. p.begun = FALSE
  BY <1>7, Zenon DEF Promise!Start
<1>10. P.afterCr
  BY <1>5, <1>8, <1>9 DEF SameRow
<1> DEFINE Q == Promise!AddToRow(P, Lf)
<1>11. /\ Q \in ReadState /\ Q.rows = P.rows /\ Q.cells = P.cells /\ Q.cell = P.cell
       /\ Q.length = P.length /\ Q.begun = P.begun /\ Q.afterCr = FALSE
  BY <1>8, <1>10, AddLf
<1>12. Promise!Parse(RowBytes') = p
  <2>1. Cursor' = row_start'
    BY <1>3 DEF Cursor, NextByte
  <2>2. row_start' \in Nat /\ Scanned' \in Nat /\ Scanned' <= Len(fed')
    <3>1. (Scanned \in Nat /\ Scanned <= Len(fed))'
      BY ScannedTypeNext
    <3> QED BY <3>1 DEF TypeOK
  <2> QED BY <1>7, <2>1, <2>2, NoRowBytesNext
<1> HIDE DEF Q
<1>13. RowsDelivered' = RowsDelivered
  BY <1>3 DEF RowsDelivered
<1>14. Whole(Q, p)'
  <2>1. SameRow(Q, p)
    BY <1>8, <1>11 DEF SameRow
  <2>2. ~(Scanned' > 0 /\ fed'[Scanned'] = Cr)
    BY <1>4, SpecialsAssumption
  <2> QED BY <1>8, <1>11, <1>13, <2>1, <2>2 DEF Whole
<1> QED BY <1>4, <1>12, <1>14 DEF WholeInv, Q

(* Steps that scan nothing. *)
LEMMA WholeIdle ==
  ASSUME MaxInputs = 1, TypeOK, TypeOK', StageInv, RowInv, OneStreamInv, WholeInv, Reading, InRow,
         PreParse \/ SkipBom \/ ReadNothing \/ EndScan \/ AbortBetweenCalls \/ UNCHANGED vars
  PROVE  WholeInv'
<1> USE SizeAssumption
<1>1. UNCHANGED <<fed, calls>>
  BY DEF PreParse, MovePartialRow, StartFreshRow, StartEmpty, EnterParse, SkipBom, ReadNothing, EndScan,
         AbortBetweenCalls, vars, envVars
<1>2. SUFFICES Scanned' = Scanned /\ Cursor' - row_start' = Cursor - row_start
  BY <1>1, WholeFrame
<1>3. CASE StartEmpty \/ SkipBom \/ ReadNothing \/ EndScan \/ AbortBetweenCalls \/ UNCHANGED vars
  <2>1. row_start' = row_start
    BY <1>3 DEF StartEmpty, SkipBom, ReadNothing, EndScan, AbortBetweenCalls, vars, posVars
  <2>2. Cursor' = Cursor /\ Scanned' = Scanned
    <3>1. CASE StartEmpty
      BY <3>1 DEF StartEmpty, MayParse, EnterParse, envVars, Cursor, Scanned
    <3>2. CASE SkipBom
      BY <3>2 DEF SkipBom, bufVars, envVars, Cursor, Scanned, scanVars
    <3>3. CASE ReadNothing
      BY <3>3 DEF ReadNothing, bufVars, envVars, Cursor, Scanned, StageInv
    <3>4. CASE EndScan
      <4>1. i = bytes_read /\ bytes_read > 0 /\ fed \in Seq(Byte) /\ bytes_read \in Nat
        BY <3>4 DEF EndScan, StageInv, TypeOK
      <4>2. Len(fed) - (bytes_read - i) = Len(fed)
        BY <4>1
      <4> QED BY <3>4, <4>1, <4>2 DEF EndScan, envVars, Cursor, Scanned
    <3>5. CASE AbortBetweenCalls
      BY <3>5 DEF AbortBetweenCalls, bufVars, scanVars, envVars, Cursor, Scanned
    <3>6. CASE UNCHANGED vars
      BY <3>6 DEF vars, bufVars, scanVars, envVars, Cursor, Scanned
    <3> QED BY <1>3, <3>1, <3>2, <3>3, <3>4, <3>5, <3>6
  <2> QED BY <2>1, <2>2
<1>4. CASE MovePartialRow \/ StartFreshRow
  <2>1. MayParse /\ UNCHANGED <<fed, status>> /\ pc' \in {"truncate", "read"} /\ old_bytes_read' = 0
        /\ old_bytes_read > 0 /\ row_start' = 0
        /\ \/ MovePartialRow /\ partial_row_length' = old_bytes_read - row_start
           \/ StartFreshRow /\ partial_row_length' = partial_row_length /\ row_start >= old_bytes_read
    BY <1>4 DEF MovePartialRow, StartFreshRow, EnterParse, envVars
  <2>2. status = "ok" /\ pc = "idle"
    BY <2>1, MayParseFacts
  <2>3. Scanned' = Scanned /\ Cursor = old_bytes_read /\ Cursor' = partial_row_length'
    BY <2>1, <2>2 DEF Scanned, Cursor
  <2>4. row_start \in Nat /\ old_bytes_read \in Nat /\ row_start <= old_bytes_read /\ partial_row_length = 0
    BY <2>1, <2>2 DEF TypeOK, StageInv
  <2> QED BY <2>1, <2>3, <2>4
<1> QED BY <1>3, <1>4 DEF PreParse

(* More of the input is read. *)
LEMMA WholeRead ==
  ASSUME TypeOK, TypeOK', StageInv, RowInv, FeedInv, InRow, RowTraced, WholeInv, Reading,
         Read, pc' # "fault"
  PROVE  WholeInv'
<1> USE SizeAssumption
<1>1. PICK P : P = Promise!Parse(Consumed)
  OBVIOUS
<1>2. PICK p : p = Promise!Parse(RowBytes)
  OBVIOUS
<1> DEFINE k == partial_row_length
           m == Len(fed)
<1>3. PICK n \in Nat \ {0} : \E bytes \in Seq(Byte) :
           /\ Len(bytes) = n /\ fed' = fed \o bytes
           /\ BeginScan(bytes) /\ pc' = "scan" /\ pc = "read"
           /\ UNCHANGED <<posVars, status, calls>>
  BY ReadFacts
<1>4. PICK bytes \in Seq(Byte) :
           /\ Len(bytes) = n /\ fed' = fed \o bytes
           /\ BeginScan(bytes) /\ pc' = "scan" /\ pc = "read"
           /\ UNCHANGED <<posVars, status, calls>>
  BY <1>3
<1>5. /\ k \in Nat /\ m \in Nat /\ fed \in Seq(Byte) /\ n > 0 /\ 1 \in 1 .. Len(bytes) /\ bytes[1] \in Byte
      /\ row_start = 0 /\ row_start' = 0 /\ Cursor = k /\ Scanned = m /\ old_bytes_read = 0
  <2>1. k \in Nat /\ fed \in Seq(Byte)
    BY DEF TypeOK
  <2>2. m \in Nat
    BY <2>1
  <2>3. row_start = 0 /\ old_bytes_read = 0 /\ row_start' = 0
    BY <1>4 DEF StageInv, posVars
  <2>4. Cursor = k /\ Scanned = m
    BY <1>4, <2>3 DEF Cursor, Scanned, Reading
  <2>5. 1 \in 1 .. Len(bytes) /\ bytes[1] \in Byte /\ n > 0
    BY <1>4
  <2> QED BY <2>1, <2>2, <2>3, <2>4, <2>5
<1>6. k <= m
  BY <1>5 DEF RowTraced
<1>7. /\ Len(fed') = m + n /\ fed'[m + 1] = bytes[1]
      /\ \A j \in 1 .. m : fed'[j] = fed[j]
  <2>1. /\ Len(fed \o bytes) = Len(fed) + Len(bytes)
        /\ \A j \in 1 .. Len(fed) : (fed \o bytes)[j] = fed[j]
        /\ \A j \in 1 .. Len(bytes) : (fed \o bytes)[Len(fed) + j] = bytes[j]
    BY <1>5, CatFacts
  <2>2. fed' = fed \o bytes /\ Len(bytes) = n
    BY <1>4
  <2> QED BY <1>5, <2>1, <2>2
<1>8. ASSUME NEW x \in Nat, x <= m
      PROVE  /\ SubSeq(fed, m - x + 1, m) \in Seq(Byte)
             /\ SubSeq(fed', m - x + 1, m) = SubSeq(fed, m - x + 1, m)
             /\ SubSeq(fed', m - x + 1, m + 1) = Append(SubSeq(fed, m - x + 1, m), bytes[1])
  <2>1. LET row == SubSeq(fed, m - x + 1, m) IN
        /\ row \in Seq(Byte)
        /\ SubSeq(fed \o bytes, m - x + 1, m) = row
        /\ SubSeq(fed \o bytes, m - x + 1, m + 1) = Append(row, bytes[1])
    <3>1. Len(bytes) > 0
      BY <1>4
    <3> QED BY <1>5, <1>8, <3>1, RowBytesRead
  <2>2. fed' = fed \o bytes
    BY <1>4
  <2> QED BY <2>1, <2>2
<1>9. /\ Consumed = SubSeq(fed, 1, m) /\ RowBytes = SubSeq(fed, m - k + 1, m)
  BY <1>5 DEF Consumed, RowBytes
<1>10. /\ SubSeq(fed, 1, m) \in Seq(Byte)
       /\ SubSeq(fed', 1, m) = SubSeq(fed, 1, m)
       /\ SubSeq(fed', 1, m + 1) = Append(SubSeq(fed, 1, m), bytes[1])
  <2>1. m - m + 1 = 1 /\ m <= m
    BY <1>5
  <2> HIDE DEF m
  <2> QED BY <1>5, <1>8, <2>1
<1>11. /\ bytes_read' = k + n
       /\ i' = IF "PENDING" \in quoted /\ bytes[1] = Quote THEN k + 1 ELSE k
  BY <1>4, <1>5 DEF BeginScan
<1>12. Cursor' = i' /\ Scanned' = m + (i' - k) /\ Scanned' - (Cursor' - row_start') + 1 = m - k + 1
  <2>1. Cursor' = i' /\ Scanned' = Len(fed') - (bytes_read' - i')
    BY <1>4 DEF Cursor, Scanned
  <2>2. ASSUME NEW a \in Nat, NEW b \in Nat, NEW c \in Nat, a = m, b = k, c = i'
        PROVE  Scanned' = a + (c - b) /\ Scanned' - (Cursor' - row_start') + 1 = a - b + 1
    <3>1. Scanned' = (a + n) - ((b + n) - c)
      BY <1>7, <1>11, <2>1, <2>2
    <3>2. Scanned' = a + (c - b)
      BY <3>1
    <3>3. Cursor' - row_start' = c
      <4>1. row_start' = 0
        BY <1>5
      <4>2. Cursor' = c
        BY <2>1, <2>2
      <4>3. c - 0 = c
        OBVIOUS
      <4> QED BY <4>1, <4>2, <4>3
    <3> QED BY <3>2, <3>3
  <2>3. i' \in Nat
    BY <1>5, <1>11
  <2> QED BY <1>5, <2>1, <2>2, <2>3
<1>13. RowsDelivered' = RowsDelivered
  BY <1>4 DEF RowsDelivered
<1>14. /\ P \in ReadState /\ P.rows = RowsDelivered /\ SameRow(P, p)
       /\ (P.afterCr <=> ~P.begun /\ m > 0 /\ fed[m] = Cr)
  <2>1. Whole(P, p)
    BY <1>1, <1>2 DEF WholeInv
  <2> QED BY <1>5, <2>1 DEF Whole
<1>15. CASE ~("PENDING" \in quoted /\ bytes[1] = Quote)
  <2>1. Scanned' = m /\ Scanned' - (Cursor' - row_start') + 1 = m - k + 1
    BY <1>5, <1>11, <1>12, <1>15
  <2>2. Consumed' = Consumed /\ RowBytes' = RowBytes
    <3>1. Consumed' = SubSeq(fed', 1, m) /\ RowBytes' = SubSeq(fed', m - k + 1, m)
      BY <2>1 DEF Consumed, RowBytes
    <3> QED BY <1>5, <1>6, <1>8, <1>9, <1>10, <3>1
  <2>3. m > 0 => fed'[m] = fed[m]
    BY <1>5, <1>7
  <2>4. Whole(P, p)'
    BY <1>13, <1>14, <2>1, <2>3 DEF Whole
  <2> QED BY <1>1, <1>2, <2>2, <2>4 DEF WholeInv
<1>16. CASE "PENDING" \in quoted /\ bytes[1] = Quote
  <2>1. Scanned' = m + 1 /\ Scanned' - (Cursor' - row_start') + 1 = m - k + 1
    BY <1>5, <1>11, <1>12, <1>16
  <2>2. Consumed' = Append(Consumed, Quote) /\ RowBytes' = Append(RowBytes, Quote)
        /\ Consumed \in Seq(Byte) /\ RowBytes \in Seq(Byte)
    <3>1. Consumed' = SubSeq(fed', 1, m + 1) /\ RowBytes' = SubSeq(fed', m - k + 1, m + 1)
      BY <2>1 DEF Consumed, RowBytes
    <3> QED BY <1>5, <1>6, <1>8, <1>9, <1>10, <1>16, <3>1
  <2> DEFINE Q == Promise!AddToRow(P, Quote)
             q == Promise!AddToRow(p, Quote)
  <2>3. Promise!Parse(Consumed') = Q /\ Promise!Parse(RowBytes') = q
    BY <1>1, <1>2, <2>2, ParseOneMore
  <2>4. p \in ReadState /\ p.afterCr = FALSE
    BY <1>2 DEF RowTraced, RowRel
  <2>5. Quote \in Byte /\ Quote \notin {Delim, Cr, Lf}
    BY <1>5, <1>16, SpecialsAssumption
  <2>6. Q \in ReadState /\ Q.rows = P.rows /\ SameRow(Q, q) /\ Q.begun = TRUE /\ Q.afterCr = FALSE
    BY <1>14, <2>4, <2>5, SameContent
  <2> HIDE DEF Q, q
  <2>7. Whole(Q, q)'
    BY <1>13, <1>14, <2>6 DEF Whole
  <2> QED BY <2>3, <2>7 DEF WholeInv
<1> QED BY <1>15, <1>16

(* Every step keeps the rows delivered those of the whole input. *)
LEMMA WholeStep ==
  ASSUME MaxInputs = 1, TypeOK, TypeOK', StageInv, StageInv', RowInv, NoFault, NoFault',
         FeedInv, FeedInv', TraceInv, OneStreamInv, OneStreamInv', LastInv, WholeInv, [Next]_vars
  PROVE  WholeInv'
<1>1. SUFFICES ASSUME Reading'
               PROVE  WholeInv'
  BY DEF WholeInv
<1>2. Reading
  BY <1>1, ReadingBefore
<1>3. InRow /\ Sound /\ RowTraced
  <2>1. InRow /\ Sound
    BY <1>2, ReadingFacts
  <2> QED BY <2>1 DEF TraceInv, RowTraced
<1>4. pc' # "fault" /\ InRow'
  BY <1>1 DEF Reading, NoFault, InRow, CutShort, OneStreamInv, StageInv, TypeOK
<1>5. CASE PreParse \/ SkipBom \/ ReadNothing \/ EndScan \/ AbortBetweenCalls \/ UNCHANGED vars
  BY <1>2, <1>3, <1>5, WholeIdle
<1>6. CASE TruncateRow \/ FaultInCell \/ Finish \/ FaultInFinish
  BY <1>1, <1>4, <1>6 DEF TruncateRow, FaultInCell, Finish, FaultInFinish, Reading
<1>7. CASE Read
  BY <1>2, <1>3, <1>4, <1>7, WholeRead
<1>8. CASE SkipDoubledQuote \/ Plain \/ EscapedSpecial \/ VisitQuote
  BY <1>2, <1>3, <1>8, WholeContent
<1>9. CASE EndCell
  BY <1>2, <1>3, <1>9, WholeEndCell
<1>10. CASE IgnoreLf
  BY <1>2, <1>3, <1>4, <1>10, WholeIgnoreLf
<1>11. CASE EndRow
  BY <1>1, <1>2, <1>3, <1>4, <1>11, WholeEndRow
<1> QED BY <1>5, <1>6, <1>7, <1>8, <1>9, <1>10, <1>11 DEF Next, Scan

(* No bytes amount to no rows. *)
LEMMA WholeInit == Init => WholeInv
<1> SUFFICES ASSUME Init PROVE WholeInv
  OBVIOUS
<1>1. Scanned = 0 /\ Cursor = 0 /\ row_start = 0 /\ fed = <<>> /\ calls = <<>>
  BY DEF Init, Scanned, Cursor
<1>2. Consumed = <<>> /\ RowBytes = <<>>
  BY <1>1 DEF Consumed, RowBytes
<1>3. RowsDelivered = <<>>
  BY <1>1 DEF RowsDelivered
<1>4. Promise!Parse(<<>>) = Promise!Start /\ Promise!Start \in ReadState
  BY ParseNothing, StartType
<1>5. Promise!Start.rows = <<>> /\ Promise!Start.afterCr = FALSE
  BY Zenon DEF Promise!Start
<1> DEFINE p == Promise!Start
<1> HIDE DEF p
<1>6. Whole(p, p)
  BY <1>1, <1>3, <1>4, <1>5 DEF Whole, SameRow, p
<1> QED BY <1>2, <1>4, <1>6 DEF WholeInv, p

----
(* The mapped variables, from one state to the next. *)

(* ScannedRange, of the next state. *)
LEMMA ScannedRangeNext ==
  (TypeOK /\ StageInv /\ OneStreamInv => Scanned \in Nat /\ Scanned <= Len(fed))'
<1>1. TypeOK /\ StageInv /\ OneStreamInv => Scanned \in Nat /\ Scanned <= Len(fed)
  BY ScannedRange
<1> QED BY <1>1, PTL

(* The bytes scanned stay the beginning of those scanned later. *)
LEMMA ConsumedGrows ==
  ASSUME TypeOK, TypeOK', StageInv, StageInv', OneStreamInv, OneStreamInv', [Next]_vars
  PROVE  Promise!IsPrefix(Consumed, Consumed')
<1> DEFINE a == Scanned
           b == Scanned'
<1>1. a \in Nat /\ a <= Len(fed) /\ fed \in Seq(Byte) /\ fed' \in Seq(Byte) /\ Len(fed) \in Nat
  BY ScannedRange DEF TypeOK
<1>2. b \in Nat /\ b <= Len(fed')
  BY ScannedRangeNext
<1>3. a <= b
  BY ScannedGrows
<1>4. \A j \in 1 .. Len(fed) : fed'[j] = fed[j]
  <2>1. CASE fed' = fed
    BY <2>1
  <2>2. CASE \E bytes \in Seq(Byte) : fed' = fed \o bytes
    <3>1. PICK bytes \in Seq(Byte) : fed' = fed \o bytes
      BY <2>2
    <3>2. \A j \in 1 .. Len(fed) : (fed \o bytes)[j] = fed[j]
      BY <1>1, CatFacts
    <3> QED BY <3>1, <3>2
  <2> QED BY <2>1, <2>2, SoundKept
<1> DEFINE s == SubSeq(fed, 1, a)
           t == SubSeq(fed', 1, b)
<1>5. /\ s \in Seq(Byte) /\ Len(s) = a /\ \A j \in 1 .. a : s[j] = fed[j]
      /\ t \in Seq(Byte) /\ Len(t) = b /\ \A j \in 1 .. b : t[j] = fed'[j]
  <2> HIDE DEF a, b
  <2> QED BY <1>1, <1>2
<1>6. \A j \in 1 .. a : t[j] = s[j]
  <2> HIDE DEF a, b, s, t
  <2> QED BY <1>1, <1>2, <1>3, <1>4, <1>5
<1>7. Len(s) <= Len(t) /\ SubSeq(s, 1, Len(s)) = SubSeq(t, 1, Len(s))
  <2> HIDE DEF a, b, s, t
  <2>1. SubSeq(s, 1, a) = [j \in 1 .. a |-> s[j]] /\ SubSeq(t, 1, a) = [j \in 1 .. a |-> t[j]]
    BY <1>1, <1>2, <1>3, <1>5
  <2> QED BY <1>1, <1>2, <1>3, <1>5, <1>6, <2>1
<1> QED BY <1>7 DEF Consumed, Promise!IsPrefix

(* A sequence is the beginning of itself and of itself with one more element. *)
LEMMA PrefixOfAppend ==
  ASSUME NEW T, NEW s \in Seq(T), NEW v \in T
  PROVE  Promise!IsPrefix(s, s) /\ Promise!IsPrefix(s, Append(s, v)) /\ Len(Append(s, v)) = Len(s) + 1
<1> DEFINE t == Append(s, v)
           n == Len(s)
<1>1. n \in Nat /\ t \in Seq(T) /\ Len(t) = n + 1 /\ \A j \in 1 .. n : t[j] = s[j]
  OBVIOUS
<1>2. SubSeq(s, 1, n) = [j \in 1 .. n |-> s[j]]
  OBVIOUS
<1>3. SubSeq(t, 1, n) = [j \in 1 .. n |-> t[j]]
  <2> HIDE DEF t, n
  <2> QED BY <1>1
<1>4. n <= n + 1 /\ n <= n /\ SubSeq(s, 1, n) = SubSeq(t, 1, n)
  <2> HIDE DEF t, n
  <2> QED BY <1>1, <1>2, <1>3
<1> QED BY <1>1, <1>4 DEF Promise!IsPrefix

(* The rows delivered are a sequence, *)
LEMMA RowsDeliveredType ==
  ASSUME TypeOK
  PROVE  RowsDelivered \in Seq({Values(calls[k].cells) : k \in DOMAIN calls}) /\ Len(RowsDelivered) = Len(calls)
<1>1. DOMAIN calls = 1 .. Len(calls) /\ Len(calls) \in Nat
  BY DEF TypeOK
<1> QED BY <1>1 DEF RowsDelivered

(* Handlers are called one at a time. *)
LEMMA CallsGrow ==
  ASSUME TypeOK, [Next]_vars
  PROVE  calls' = calls \/ \E call : calls' = Append(calls, call)
<1>1. CASE TruncateRow \/ EndRow \/ Finish
  BY <1>1 DEF TruncateRow, EndRow, Finish, RowDl, CallRowHandler
<1>2. CASE ~(TruncateRow \/ EndRow \/ Finish)
  BY <1>2 DEF Next, PreParse, Scan, MovePartialRow, StartFreshRow, StartEmpty, EnterParse,
         SkipBom, ReadNothing, Read, SkipDoubledQuote, Plain,
         EscapedSpecial, EndCell, IgnoreLf, FaultInCell, VisitQuote, EndScan,
         AbortBetweenCalls, FaultInFinish, vars
<1> QED BY <1>1, <1>2

(* that no step takes a row from. *)
LEMMA DeliveredGrows ==
  ASSUME TypeOK, [Next]_vars
  PROVE  Promise!IsPrefix(RowsDelivered, RowsDelivered')
<1>1. RowsDelivered \in Seq({Values(calls[k].cells) : k \in DOMAIN calls})
  BY RowsDeliveredType
<1>2. CASE calls' = calls
  <2>1. RowsDelivered' = RowsDelivered
    BY <1>2 DEF RowsDelivered
  <2>2. PICK s : s = RowsDelivered
    OBVIOUS
  <2>3. \A T : s \in Seq(T) => Promise!IsPrefix(s, s)
    <3>1. SUFFICES ASSUME NEW T, s \in Seq(T) PROVE Promise!IsPrefix(s, s)
      OBVIOUS
    <3>2. Len(s) <= Len(s)
      OBVIOUS
    <3> QED BY <3>2 DEF Promise!IsPrefix
  <2> QED BY <1>1, <2>1, <2>2, <2>3
<1>3. CASE \E call : calls' = Append(calls, call)
  <2>1. PICK call : calls' = Append(calls, call)
    BY <1>3
  <2>2. RowsDelivered' = Append(RowsDelivered, Values(call.cells))
    BY <2>1, CallsAppended
  <2> DEFINE T == {Values(calls[k].cells) : k \in DOMAIN calls} \cup {Values(call.cells)}
  <2>3. RowsDelivered \in Seq(T) /\ Values(call.cells) \in T
    BY <1>1
  <2> HIDE DEF T
  <2> QED BY <2>2, <2>3, PrefixOfAppend
<1> QED BY <1>2, <1>3, CallsGrow

----
(* Each step of the parser, as a step of CsvRows. *)

(* The mapped phase, as the parser knows it, *)
LEMMA PhaseReading == Phase = "reading" <=> Reading
BY DEF Phase, Reading

(* and in the next state. *)
LEMMA PhaseReadingNext == (Phase = "reading" <=> Reading)'
<1>1. Phase = "reading" <=> Reading
  BY PhaseReading
<1> QED BY <1>1, PTL

(* A step that delivers the rows its bytes complete is a Consume step. *)
LEMMA ConsumeIntro ==
  ASSUME Reading, Phase' \in {"reading", "over"}, Promise!IsPrefix(Consumed, Consumed'),
         RowsDelivered' = Promise!Parse(Consumed').rows
  PROVE  Promise!Consume
BY PhaseReading DEF Promise!Consume, Phase, RowsDelivered, Promise!RowsOf

(* While the input is read, what has been delivered is what Parse says. *)
LEMMA MapsReading ==
  ASSUME TypeOK, TypeOK', StageInv, StageInv', OneStreamInv, OneStreamInv', WholeInv', Reading, Reading',
         [Next]_vars
  PROVE  Promise!Consume
<1>1. Promise!IsPrefix(Consumed, Consumed')
  BY ConsumedGrows
<1>2. RowsDelivered' = Promise!Parse(Consumed').rows
  BY DEF WholeInv, Whole
<1>3. Phase' = "reading"
  BY PhaseReadingNext
<1> QED BY <1>1, <1>2, <1>3, ConsumeIntro

(* The caller aborts in the row handler: the row is the last one. *)
LEMMA MapsAbort ==
  ASSUME TypeOK, TypeOK', StageInv, StageInv', RowInv, FeedInv, InRow, Sound, RowTraced, LastInv, WholeInv,
         OneStreamInv, OneStreamInv', Reading, EndRow, status' = "cancelled"
  PROVE  Promise!Consume
<1> USE SizeAssumption
<1>1. PICK P : P = Promise!Parse(Consumed)
  OBVIOUS
<1>2. PICK c : c = buff[i]
  OBVIOUS
<1>3. /\ Scanning /\ pc = "scan" /\ i < bytes_read /\ UNCHANGED <<i, bytes_read, fed, truncated, finished>>
      /\ i \in Nat /\ bytes_read \in Nat /\ fed \in Seq(Byte) /\ pc' = "idle"
  <2>1. i \in Nat /\ bytes_read \in Nat /\ fed \in Seq(Byte)
    BY DEF TypeOK
  <2>2. Scanning
    BY DEF EndRow, AtRowEnd, Visit
  <2>3. abort'
    BY DEF EndRow, Reading
  <2> QED BY <2>1, <2>2, <2>3 DEF EndRow, Scanning, scanVars, envVars, onceVars
<1>4. /\ Scanned \in Nat /\ Scanned < Len(fed) /\ fed[Scanned + 1] = c /\ c \in Byte
      /\ Scanned = Len(fed) - (bytes_read - i) /\ Len(fed) \in Nat
  <2>1. Scanned \in Nat /\ Scanned = Len(fed) - (bytes_read - i) /\ Len(fed) \in Nat
    BY <1>3, ScannedType
  <2>2. Scanned < Len(fed)
    BY <1>3, <2>1
  <2>3. buff[i] = fed[Len(fed) - bytes_read + i + 1]
    <3>1. i \in i .. bytes_read - 1
      BY <1>3
    <3>2. \A m \in i .. bytes_read - 1 : buff[m] = fed[Len(fed) - bytes_read + m + 1]
      BY <1>3, Zenon DEF FeedInv
    <3> QED BY <3>1, <3>2
  <2>4. Len(fed) - bytes_read + i + 1 = Scanned + 1 /\ Scanned + 1 \in 1 .. Len(fed)
    BY <1>3, <2>1, <2>2
  <2> QED BY <1>2, <1>3, <2>1, <2>2, <2>3, <2>4
<1>5. Scanned' = Scanned + 1
  <2>1. Scanned' = Len(fed) - (bytes_read - Smaller(i + 1, bytes_read))
    BY <1>3 DEF Scanned
  <2>2. Smaller(i + 1, bytes_read) = i + 1
    BY <1>3 DEF Smaller
  <2> QED BY <1>3, <1>4, <2>1, <2>2
<1>6. Promise!Parse(Consumed') = Promise!AddToRow(P, c)
  <2>1. 0 \in Nat /\ 0 <= Scanned /\ Scanned <= Len(fed)
    BY <1>4
  <2>2. /\ SubSeq(fed, 0 + 1, Scanned) \in Seq(Byte)
        /\ SubSeq(fed, 0 + 1, Scanned + 1) = Append(SubSeq(fed, 0 + 1, Scanned), fed[Scanned + 1])
    BY <1>3, <1>4, <2>1, SubSeqFacts
  <2>3. Consumed \in Seq(Byte) /\ Consumed' = Append(Consumed, c)
    BY <1>3, <1>4, <1>5, <2>2 DEF Consumed
  <2> QED BY <1>1, <2>3, ParseOneMore
<1>7. RowsDelivered' = Promise!AddToRow(P, c).rows
  BY <1>1, <1>2, RowEnds
<1>8. Promise!IsPrefix(Consumed, Consumed')
  <2>1. [Next]_vars
    BY DEF Next, Scan
  <2> QED BY <2>1, ConsumedGrows
<1>9. Phase' = "over"
  BY <1>3 DEF Phase, Reading
<1> QED BY <1>6, <1>7, <1>8, <1>9, ConsumeIntro

(* The row fills the buffer. *)
LEMMA MapsTruncate ==
  ASSUME TypeOK, TypeOK', StageInv, InRow, Sound, RowTraced, WholeInv, Reading, TruncateRow
  PROVE  Promise!Truncate
<1> USE SizeAssumption
<1>1. PICK P : P = Promise!Parse(Consumed)
  OBVIOUS
<1>2. PICK p : p = Promise!Parse(RowBytes)
  OBVIOUS
<1>3. /\ pc = "truncate" /\ pc' = "read" /\ UNCHANGED <<fed, status, finished>> /\ truncated' = TRUE
      /\ RowDl(buff, cells, {"row"}) /\ ~buffer_exceeded
      /\ old_bytes_read = 0 /\ row_start = 0 /\ partial_row_length = Size /\ Cursor = Size
  BY DEF TruncateRow, StageInv, InRow, Cursor, envVars
<1>4. Consumed' = Consumed
  BY <1>3 DEF Consumed, Scanned, Reading
<1>5. /\ p.cells = Values(Delivered(buff, cells)) /\ p.length = Cursor - row_start
  BY <1>2 DEF RowTraced, RowRel
<1>6. p.length = Size
  BY <1>3, <1>5
<1>7. P.rows = RowsDelivered /\ P.cells = p.cells /\ P.length = p.length
  BY <1>1, <1>2 DEF WholeInv, Whole, SameRow
<1>8. RowsDelivered' = Append(RowsDelivered, P.cells)
  <2> DEFINE call == [handler |-> "row", number |-> data_row_count, cells |-> Delivered(buff, cells)]
  <2>1. calls' = Append(calls, call)
    BY <1>3 DEF RowDl, CallRowHandler
  <2>2. call.cells = Delivered(buff, cells)
    OBVIOUS
  <2> HIDE DEF call
  <2>3. RowsDelivered' = Append(RowsDelivered, Values(call.cells))
    BY <2>1, CallsAppended
  <2> QED BY <1>5, <1>7, <2>2, <2>3
<1>9. Phase = "reading" /\ Phase' = "cut"
  BY <1>3, PhaseReading DEF Phase
<1> QED BY <1>1, <1>4, <1>6, <1>7, <1>8, <1>9 DEF Promise!Truncate, Phase, RowsDelivered

(* After that nothing is taken back. *)
LEMMA MapsCut ==
  ASSUME TypeOK, TypeOK', StageInv, StageInv', OneStreamInv, OneStreamInv', truncated, [Next]_vars
  PROVE  Promise!AfterCut
<1>1. truncated'
  BY SoundKept
<1>2. Phase = "cut" /\ Phase' = "cut"
  BY <1>1 DEF Phase
<1>3. Promise!IsPrefix(Consumed, Consumed') /\ Promise!IsPrefix(RowsDelivered, RowsDelivered')
  BY ConsumedGrows, DeliveredGrows
<1> QED BY <1>2, <1>3 DEF Promise!AfterCut, Phase, RowsDelivered

(* Nor does anything happen after the end. *)
LEMMA MapsOver ==
  ASSUME TypeOK, TypeOK', StageInv, OneStreamInv, ~truncated, ~Reading, [Next]_vars
  PROVE  UNCHANGED <<Consumed, RowsDelivered, Phase>>
<1>1. status = "cancelled" \/ finished
  BY DEF Reading
<1>2. CASE UNCHANGED vars
  <2>1. UNCHANGED <<Scanned, fed, calls, truncated, finished, status>>
    BY <1>2 DEF vars, scanVars, envVars, onceVars, Scanned
  <2> QED BY <2>1 DEF Consumed, RowsDelivered, Phase
<1>3. CASE ~UNCHANGED vars
  <2>1. AbortBetweenCalls \/ Finish \/ FaultInFinish
    <3>1. pc \in {"idle", "done", "fault"} /\ ~MayParse
      BY <1>1 DEF StageInv, OneStreamInv, MayParse
    <3> QED BY <1>3, <3>1 DEF Next, PreParse, Scan, MovePartialRow, StartFreshRow, StartEmpty,
         TruncateRow, SkipBom, ReadNothing, Read, SkipDoubledQuote, Plain,
         EscapedSpecial, EndCell, IgnoreLf, EndRow, AtRowEnd, FaultInCell, VisitQuote, EndScan, Visit, Scanning
  <2>2. ~finished /\ status = "cancelled" /\ abort /\ pc = "idle"
    BY <1>1, <2>1 DEF AbortBetweenCalls, Finish, FaultInFinish, MayFinish, StageInv
  <2>3. ~FaultInFinish
    BY <2>2 DEF FaultInFinish, HasFinalCell
  <2>4. /\ UNCHANGED <<fed, calls, truncated, status, i, bytes_read>> /\ pc' # "scan"
    BY <2>1, <2>2, <2>3 DEF AbortBetweenCalls, Finish, DeliversFinalRow, envVars, onceVars, scanVars
  <2>5. UNCHANGED Scanned
    BY <2>2, <2>4 DEF Scanned
  <2> QED BY <2>2, <2>4, <2>5 DEF Consumed, RowsDelivered, Phase
<1> QED BY <1>2, <1>3

----
(* The end of the input. *)

(* A row is begun when it has a byte. *)
LEMMA RowRelBegun ==
  ASSUME RowTraced
  PROVE  /\ Promise!Parse(RowBytes) \in ReadState
         /\ Promise!Parse(RowBytes).begun <=> Cursor > row_start
BY DEF RowTraced, RowRel

(* A sequence is a prefix of itself. *)
LEMMA SelfPrefix ==
  ASSUME NEW T, NEW s \in Seq(T)
  PROVE  Promise!IsPrefix(s, s)
<1>1. Len(s) <= Len(s)
  OBVIOUS
<1> QED BY <1>1 DEF Promise!IsPrefix

(* Append adds one element. *)
LEMMA LenOfAppend ==
  ASSUME NEW T, NEW s \in Seq(T), NEW v
  PROVE  Len(Append(s, v)) = Len(s) + 1
<1>1. s \in Seq(T \cup {v}) /\ v \in T \cup {v}
  OBVIOUS
<1> QED BY <1>1, PrefixOfAppend

(* zsv_finish after all the input has been read: the row that has begun is
   delivered. *)
LEMMA MapsFinish ==
  ASSUME TypeOK, TypeOK', StageInv, StageInv', RowInv, InRow, Sound, RowTraced, LastInv, WholeInv,
         OneStreamInv, Reading, Finish, api = "more"
  PROVE  Promise!Consume \/ Promise!Finish
<1> USE SizeAssumption
<1>1. PICK P : P = Promise!Parse(Consumed)
  OBVIOUS
<1>2. PICK p : p = Promise!Parse(RowBytes)
  OBVIOUS
<1>3. /\ pc = "idle" /\ pc' = "done" /\ finished' = TRUE /\ UNCHANGED <<fed, i, bytes_read, truncated>>
      /\ abort \/ status = "no_more_input"
      /\ ~buffer_exceeded /\ status # "cancelled"
  BY DEF Finish, MayFinish, envVars, scanVars, onceVars, Reading, TypeOK, InRow
<1>4. Consumed' = Consumed /\ Scanned = Len(fed)
  <2>1. i = bytes_read /\ bytes_read \in Nat /\ Len(fed) \in Nat
    <3>1. fed \in Seq(Byte) /\ bytes_read \in Nat /\ status # "cancelled"
      BY DEF TypeOK, Reading
    <3>2. i = bytes_read
      BY <1>3, <3>1 DEF OneStreamInv
    <3>3. Len(fed) \in Nat
      BY <3>1
    <3> QED BY <3>1, <3>2, <3>3
  <2>2. Smaller(i + 1, bytes_read) = bytes_read
    BY <2>1 DEF Smaller
  <2>3. Scanned' \in {Len(fed), Len(fed) - (bytes_read - Smaller(i + 1, bytes_read))}
    BY <1>3 DEF Scanned
  <2>4. Scanned' = Len(fed)
    BY <2>1, <2>2, <2>3
  <2>5. Scanned = Len(fed)
    BY <1>3 DEF Scanned, Reading
  <2> QED BY <1>3, <2>4, <2>5 DEF Consumed
<1>5. Phase = "reading" /\ Phase' = "over"
  BY <1>3, PhaseReading DEF Phase, Reading
<1>6. P \in ReadState /\ P.rows = RowsDelivered /\ SameRow(P, p)
  BY <1>1, <1>2 DEF WholeInv, Whole
<1>7. Consumed \in Seq(Byte)
  <2>1. fed \in Seq(Byte) /\ Scanned = Len(fed)
    BY <1>4 DEF TypeOK
  <2> QED BY <2>1 DEF Consumed
<1>8. CASE abort
  <2>1. RowsDelivered' = RowsDelivered
    BY <1>8 DEF Finish, DeliversFinalRow, RowsDelivered
  <2>2. Promise!IsPrefix(Consumed, Consumed')
    BY <1>4, <1>7, SelfPrefix
  <2>3. RowsDelivered' = Promise!Parse(Consumed').rows
    BY <1>1, <1>4, <1>6, <2>1
  <2> QED BY <1>5, <2>2, <2>3, ConsumeIntro
<1>9. CASE ~abort
  <2> DEFINE k == partial_row_length
  <2>1. /\ status = "no_more_input" /\ old_bytes_read = 0 /\ row_start = 0 /\ Cursor = k
        /\ k \in Nat /\ cell_start \in Nat /\ cell_start <= k /\ scanned_length = k
    <3>1. status = "no_more_input" /\ old_bytes_read = 0 /\ row_start = 0
      BY <1>3, <1>9 DEF OneStreamInv
    <3>2. Cursor = k /\ scanned_length = Cursor
      BY <1>3, <3>1 DEF Cursor, StageInv
    <3>3. cell_start <= Cursor
      BY DEF RowInv, OrderInv
    <3>4. k \in Nat /\ cell_start \in Nat
      BY DEF TypeOK
    <3> QED BY <3>1, <3>2, <3>3, <3>4
  <2>2. p \in ReadState /\ (p.begun <=> k > 0)
    BY <1>2, <2>1, RowRelBegun
  <2>3. CASE k = 0
    <3>1. cells = <<>>
      <4>1. cells \in Seq(Cell) /\ cell_start = 0
        BY <2>1, <2>3 DEF TypeOK
      <4>2. \A j \in DOMAIN cells : FALSE
        <5>1. SUFFICES ASSUME NEW j \in DOMAIN cells PROVE FALSE
          OBVIOUS
        <5>2. cells[j].str \in Nat /\ cells[j].len \in Nat
          BY <4>1, CellFacts
        <5>3. cells[j].str + cells[j].len < cell_start
          BY DEF RowInv, CellsInRow
        <5> QED BY <4>1, <5>2, <5>3
      <4> QED BY <4>1, <4>2, NoElements
    <3>2. ~DeliversFinalRow
      <4>1. ~have_cell
        BY <1>9, <3>1 DEF LastInv
      <4>2. FinalLength = 0
        BY <2>1, <2>3 DEF FinalLength, ClosesOpenQuote
      <4> QED BY <4>1, <4>2 DEF DeliversFinalRow, HasFinalCell
    <3>3. RowsDelivered' = RowsDelivered
      BY <3>2 DEF Finish, RowsDelivered
    <3>4. Promise!FinalRowsOf(Consumed) = P.rows
      <4>1. ~P.begun
        BY <1>6, <2>2, <2>3 DEF SameRow
      <4> QED BY <1>1, <4>1 DEF Promise!FinalRowsOf
    <3> QED BY <1>4, <1>5, <1>6, <3>3, <3>4 DEF Promise!Finish, Phase, RowsDelivered
  <2>4. CASE k > 0
    <3>1. HasFinalCell
      <4>1. FinalLength \in {k, k + 1}
        BY <2>1 DEF FinalLength
      <4> QED BY <1>9, <2>1, <2>4, <4>1 DEF HasFinalCell
    <3>2. RowsDelivered' = Append(RowsDelivered, Values(Delivered(FinalCell.buff, AddCell(FinalCell, FinalQuoted))))
      <4> DEFINE call == [handler |-> "row", number |-> data_row_count,
                          cells |-> Delivered(FinalCell.buff, AddCell(FinalCell, FinalQuoted))]
      <4>1. calls' = Append(calls, call)
        <5>1. DeliversFinalRow
          BY <1>9, <3>1 DEF DeliversFinalRow
        <5>2. buff' = FinalCell.buff /\ RowDl(buff', AddCell(FinalCell, FinalQuoted), {"cell", "row"})
          BY <3>1, <5>1 DEF Finish
        <5>3. CallRowHandler(FinalCell.buff, AddCell(FinalCell, FinalQuoted))
          BY <5>2 DEF RowDl
        <5> QED BY <1>3, <5>3 DEF CallRowHandler
      <4>2. call.cells = Delivered(FinalCell.buff, AddCell(FinalCell, FinalQuoted))
        OBVIOUS
      <4> HIDE DEF call
      <4>3. RowsDelivered' = Append(RowsDelivered, Values(call.cells))
        BY <4>1, CallsAppended
      <4> QED BY <4>2, <4>3
    <3>3. Promise!FinalRowsOf(Consumed) = Append(P.rows, Promise!CloseCell(P).cells)
      <4>1. P.begun
        BY <1>6, <2>2, <2>4 DEF SameRow
      <4> QED BY <1>1, <4>1 DEF Promise!FinalRowsOf
    <3>4. CASE ~(p.cell.mode = "open" /\ Len(p.cell.raw) = 1)
      <4>1. last = buff[k - 1]
        BY <2>1, <2>4 DEF LastInv
      <4>2. Promise!CloseCell(p).cells = Values(Delivered(FinalCell.buff, AddCell(FinalCell, FinalQuoted)))
        BY <1>2, <1>3, <1>9, <2>1, <2>4, <3>4, <4>1, FinalDelivered DEF Reading
      <4>3. Promise!CloseCell(P).cells = Promise!CloseCell(p).cells
        BY <1>6, <2>2, SameClosed DEF SameRow
      <4>4. RowsDelivered' = Promise!FinalRowsOf(Consumed)
        BY <1>6, <3>2, <3>3, <4>2, <4>3
      <4> QED BY <1>4, <1>5, <4>4 DEF Promise!Finish, Phase, RowsDelivered
    <3>5. CASE p.cell.mode = "open" /\ Len(p.cell.raw) = 1
      <4>1. Promise!EndsAtOpeningQuote(Consumed)
        BY <1>1, <1>6, <3>5 DEF Promise!EndsAtOpeningQuote, SameRow
      <4>2. Promise!IsPrefix(RowsDelivered, RowsDelivered')
        <5>1. [Next]_vars
          BY DEF Next
        <5> QED BY <5>1, DeliveredGrows
      <4>3. Len(RowsDelivered') = Len(Promise!FinalRowsOf(Consumed))
        <5> DEFINE r == Values(Delivered(FinalCell.buff, AddCell(FinalCell, FinalQuoted)))
        <5>1. PICK s : s = RowsDelivered
          OBVIOUS
        <5>2. s \in Seq(Seq(Content))
          BY <1>6, <5>1 DEF ReadState
        <5>3. PICK t : t = r
          OBVIOUS
        <5>4. PICK v : v = Promise!CloseCell(P).cells
          OBVIOUS
        <5>5. Len(Append(s, t)) = Len(s) + 1 /\ Len(Append(s, v)) = Len(s) + 1
          BY <5>2, LenOfAppend
        <5>6. RowsDelivered' = Append(s, t) /\ Promise!FinalRowsOf(Consumed) = Append(s, v)
          BY <1>6, <3>2, <3>3, <5>1, <5>3, <5>4
        <5> QED BY <5>5, <5>6
      <4> QED BY <1>4, <1>5, <4>1, <4>2, <4>3 DEF Promise!Finish, Phase, RowsDelivered
    <3> QED BY <3>4, <3>5
  <2> QED BY <2>1, <2>3, <2>4
<1> QED BY <1>8, <1>9

----
(* The refinement. *)

(* Every step of the parser is a step of CsvRows, or none. *)
LEMMA RefStep ==
  ASSUME MaxInputs = 1, RefInv, RefInv', api = "more", [Next]_vars
  PROVE  [Promise!Next]_<<Consumed, RowsDelivered, Phase>>
<1>1. /\ TypeOK /\ TypeOK' /\ StageInv /\ StageInv' /\ RowInv /\ NoFault /\ NoFault'
      /\ FeedInv /\ FeedInv' /\ TraceInv
  BY DEF RefInv, RowIInv, IInv, SafetyInv
<1>2. OneStreamInv /\ OneStreamInv' /\ LastInv /\ WholeInv /\ WholeInv'
  BY DEF RefInv
<1>3. CASE truncated
  <2>1. Promise!AfterCut
    BY <1>1, <1>2, <1>3, MapsCut
  <2> QED BY <2>1 DEF Promise!Next
<1>4. CASE ~truncated /\ ~Reading
  BY <1>1, <1>2, <1>4, MapsOver
<1>5. CASE Reading /\ Reading'
  <2>1. Promise!Consume
    BY <1>1, <1>2, <1>5, MapsReading
  <2> QED BY <2>1 DEF Promise!Next
<1>6. CASE Reading /\ ~Reading'
  <2>1. InRow /\ Sound /\ ~buffer_exceeded
    BY <1>1, <1>2, <1>6, ReadingFacts
  <2>2. RowTraced
    BY <1>1, <2>1 DEF TraceInv, RowTraced
  <2>3. (EndRow /\ status' = "cancelled") \/ TruncateRow \/ Finish
    <3>1. CASE PreParse \/ SkipBom \/ Read \/ SkipDoubledQuote \/ Plain \/ EscapedSpecial \/ EndCell
               \/ IgnoreLf \/ VisitQuote \/ FaultInCell \/ AbortBetweenCalls \/ FaultInFinish
               \/ UNCHANGED vars
      <4>1. UNCHANGED <<truncated, finished, status>>
        BY <3>1 DEF PreParse, MovePartialRow, StartFreshRow, StartEmpty, EnterParse, SkipBom, Read,
             SkipDoubledQuote, Plain, EscapedSpecial, EndCell, IgnoreLf, VisitQuote, FaultInCell,
             AbortBetweenCalls, FaultInFinish, vars, onceVars
      <4> QED BY <1>6, <4>1 DEF Reading
    <3>2. CASE ReadNothing \/ EndScan
      <4>1. UNCHANGED <<truncated, finished>> /\ status' # "cancelled"
        BY <3>2 DEF ReadNothing, EndScan, onceVars
      <4> QED BY <1>6, <4>1 DEF Reading
    <3>3. CASE EndRow
      <4>1. UNCHANGED <<truncated, finished>>
        BY <3>3 DEF EndRow, onceVars
      <4> QED BY <1>6, <3>3, <4>1 DEF Reading
    <3> QED BY <3>1, <3>2, <3>3 DEF Next, Scan
  <2>4. CASE EndRow /\ status' = "cancelled"
    <3>1. Promise!Consume
      BY <1>1, <1>2, <1>6, <2>1, <2>2, <2>4, MapsAbort
    <3> QED BY <3>1 DEF Promise!Next
  <2>5. CASE TruncateRow
    <3>1. Promise!Truncate
      BY <1>1, <1>2, <1>6, <2>1, <2>2, <2>5, MapsTruncate
    <3> QED BY <3>1 DEF Promise!Next
  <2>6. CASE Finish
    <3>1. Promise!Consume \/ Promise!Finish
      BY <1>1, <1>2, <1>6, <2>1, <2>2, <2>6, MapsFinish
    <3> QED BY <3>1 DEF Promise!Next
  <2> QED BY <2>3, <2>4, <2>5, <2>6
<1> QED BY <1>3, <1>4, <1>5, <1>6

(* A parser that has read nothing has delivered nothing. *)
LEMMA RefInit == Init => Promise!Init
<1> SUFFICES ASSUME Init PROVE Promise!Init
  OBVIOUS
<1>1. fed = <<>> /\ calls = <<>> /\ truncated = FALSE /\ finished = FALSE /\ status = "ok" /\ Scanned = 0
  BY DEF Init, Scanned
<1>2. Consumed = <<>> /\ RowsDelivered = <<>>
  BY <1>1 DEF Consumed, RowsDelivered
<1>3. Phase = "reading"
  BY <1>1 DEF Phase
<1> QED BY <1>2, <1>3 DEF Promise!Init, RowsDelivered, Phase

(* The invariant of the refinement holds throughout. *)
LEMMA RefInductive ==
  ASSUME MaxInputs = 1
  PROVE  Spec => []RefInv
<1>1. Init => OneStreamInv /\ LastInv /\ WholeInv
  BY OneStreamInit, LastInit, WholeInit
<1>2. RowIInv /\ RowIInv' /\ OneStreamInv /\ LastInv /\ WholeInv /\ [Next]_vars
        => OneStreamInv' /\ LastInv' /\ WholeInv'
  <2>1. SUFFICES ASSUME RowIInv, RowIInv', OneStreamInv, LastInv, WholeInv, [Next]_vars
                 PROVE  OneStreamInv' /\ LastInv' /\ WholeInv'
    OBVIOUS
  <2>2. /\ TypeOK /\ TypeOK' /\ StageInv /\ StageInv' /\ RowInv /\ NoFault /\ NoFault'
        /\ FeedInv /\ FeedInv' /\ TraceInv
    BY <2>1 DEF RowIInv, IInv, SafetyInv
  <2>3. OneStreamInv'
    BY <2>1, <2>2, OneStreamStep
  <2>4. LastInv'
    BY <2>1, <2>2, LastStep
  <2>5. WholeInv'
    BY <2>1, <2>2, <2>3, WholeStep
  <2> QED BY <2>3, <2>4, <2>5
<1> QED BY <1>1, <1>2, RowInductive, PTL DEF Spec, RefInv

(* ImplementsCsvRows: over one stream of input read by zsv_parse_more, the  *)
(* parser is an implementation of CsvRows. Whatever the reads return, and    *)
(* wherever they end, every row it delivers is the row the specification     *)
(* reads from all the bytes scanned so far, in order, none left out and none *)
(* twice, and the row at the end of the input is delivered once, by          *)
(* zsv_finish. One stream, because a second one is scanned with the first    *)
(* one's last byte in mind; zsv_parse_more, because zsv_parse_bytes can      *)
(* deliver a row that is not there (the run extra_row).                      *)
THEOREM ImplementsTheRows ==
  ASSUME MaxInputs = 1
  PROVE  Spec /\ api = "more" => ImplementsCsvRows
<1>1. [Next]_vars => api' = api
  BY DEF Next, PreParse, Scan, MovePartialRow, StartFreshRow, StartEmpty, EnterParse, TruncateRow,
         SkipBom, ReadNothing, Read, SkipDoubledQuote, Plain, EscapedSpecial, EndCell, IgnoreLf, EndRow,
         FaultInCell, VisitQuote, EndScan, AbortBetweenCalls, Finish, FaultInFinish, vars, envVars
<1>2. api = "more" /\ [Next]_vars => (api = "more")'
  BY <1>1
<1>3. RefInv /\ RefInv' /\ api = "more" /\ [Next]_vars
        => [Promise!Next]_<<Consumed, [k \in DOMAIN calls |-> Values(calls[k].cells)],
                            IF truncated THEN "cut"
                            ELSE IF finished \/ status = "cancelled" THEN "over" ELSE "reading">>
  BY RefStep DEF RowsDelivered, Phase
<1> QED BY <1>2, <1>3, RefInit, RefInductive, PTL DEF Spec, ImplementsCsvRows, Promise!Spec

----
(* Cells without flags hold no special byte.                                *)

----
(* The unescaping loop writes nothing before the bytes it looks at. *)
LEMMA RemoveDoubledBefore ==
  ASSUME NEW b \in Buffer, NEW s \in Nat, NEW n \in Int
  PROVE  \A k \in 0 .. Size - 1 : k < s \/ n <= 0 => RemoveDoubled(b, s, n).buff[k] = b[k]
<1> DEFINE D == DoubledQuotes(b, s, n)
           kept == (s .. s + n - 1) \ D
           NewPlace(m) == m - Cardinality({d \in D : d < m})
           From(k) == {m \in kept : NewPlace(m) = k}
           r == RemoveDoubled(b, s, n)
<1>1. r.buff = [k \in 0 .. Size - 1 |->
                  IF From(k) = {} THEN b[k] ELSE b[CHOOSE m \in From(k) : TRUE]]
  BY DEF RemoveDoubled, Buffer
<1>2. D \subseteq s .. s + n - 1
  BY DEF DoubledQuotes
<1>3. ASSUME NEW m \in s .. s + n - 1
      PROVE  NewPlace(m) \in Int /\ NewPlace(m) >= s
  <2> DEFINE E == {d \in D : d < m}
  <2>1. E \subseteq s .. m - 1
    BY <1>2
  <2>2. IsFiniteSet(s .. m - 1) /\ Cardinality(s .. m - 1) = m - s
    <3>1. s \in Int /\ m - 1 \in Int
      OBVIOUS
    <3>2. /\ IsFiniteSet(s .. m - 1)
          /\ Cardinality(s .. m - 1) = IF s > m - 1 THEN 0 ELSE (m - 1) - s + 1
      BY <3>1, FS_Interval
    <3> QED BY <3>2
  <2>3. IsFiniteSet(E) /\ Cardinality(E) <= m - s
    BY <2>1, <2>2, FS_Subset
  <2>4. Cardinality(E) \in Nat
    BY <2>3, FS_CardinalityType
  <2> HIDE DEF E
  <2>5. m - Cardinality(E) \in Int /\ m - Cardinality(E) >= s
    BY <2>3, <2>4
  <2> QED BY <2>5 DEF E
<1> HIDE DEF NewPlace, D
<1>4. ASSUME NEW k \in 0 .. Size - 1, k < s \/ n <= 0
      PROVE  From(k) = {}
  BY <1>3, <1>4
<1> HIDE DEF From
<1> QED BY <1>1, <1>4

(* Nor does cell_dl write anything up to the first byte of the cell. *)
LEMMA UnquoteBefore ==
  ASSUME buff \in Buffer, NEW q, NEW close \in SizeT, NEW s \in 0 .. Size, NEW n \in SizeT
  PROVE  \A k \in 0 .. Size - 1 : k <= s => Unquote(q, close, s, n).buff[k] = buff[k]
<1> DEFINE u == Unquote(q, close, s, n)
           shifted == ShiftRight(buff, s, close)
<1> SUFFICES ASSUME NEW k \in 0 .. Size - 1, k <= s
             PROVE  u.buff[k] = buff[k]
  OBVIOUS
<1>1. s + 1 \in Nat /\ s + 2 \in Nat /\ n - 1 \in Int /\ Wrap(n - 2) \in Int
  BY WrapType, SizeAssumption DEF SizeT
<1>2. shifted \in Buffer /\ shifted[k] = buff[k]
  <2>1. shifted = [j \in 0 .. Size - 1 |-> IF j > s /\ j <= s + close THEN buff[j - 1] ELSE buff[j]]
    BY DEF ShiftRight, Buffer
  <2>2. \A j \in 0 .. Size - 1 : j > s => j - 1 \in 0 .. Size - 1
    BY SizeAssumption
  <2> QED BY <2>1, <2>2 DEF Buffer
<1> HIDE DEF shifted
<1>3. u.buff \in {buff, RemoveDoubled(buff, s + 1, n - 1).buff, shifted,
                  RemoveDoubled(shifted, s + 2, Wrap(n - 2)).buff}
  BY DEF Unquote, shifted
<1>4. /\ RemoveDoubled(buff, s + 1, n - 1).buff[k] = buff[k]
      /\ RemoveDoubled(shifted, s + 2, Wrap(n - 2)).buff[k] = shifted[k]
  BY <1>1, <1>2, RemoveDoubledBefore
<1> HIDE DEF u
<1> QED BY <1>2, <1>3, <1>4

(* Nor anything at all, in a cell that never was quoted. *)
LEMMA UnquoteNothing ==
  ASSUME buff \in Buffer, NEW q, q \subseteq {"EMBEDDED"}, NEW close, q # {} => close = 0,
         NEW s \in 0 .. Size, NEW n \in SizeT
  PROVE  Unquote(q, close, s, n).buff = buff
<1>1. CASE q = {}
  BY <1>1 DEF Unquote
<1>2. CASE q # {}
  <2>1. close = 0 /\ Wrap(close + 1) = 1
    BY <1>2, WrapSmall, SizeAssumption DEF SizeT
  <2>2. CASE n # 1
    BY <1>2, <2>1, <2>2 DEF Unquote
  <2>3. CASE n = 1
    <3> DEFINE r == RemoveDoubled(buff, s + 1, n - 1)
    <3>1. Unquote(q, close, s, n).buff \in {buff, r.buff}
      BY <1>2, <2>1, <2>3 DEF Unquote
    <3>2. \A k \in 0 .. Size - 1 : r.buff[k] = buff[k]
      BY <2>3, RemoveDoubledBefore
    <3>3. r.buff = [k \in 0 .. Size - 1 |-> r.buff[k]]
      BY DEF RemoveDoubled, Buffer
    <3>4. buff = [k \in 0 .. Size - 1 |-> buff[k]]
      BY DEF Buffer
    <3> HIDE DEF r
    <3>5. r.buff = buff
      BY <3>2, <3>3, <3>4
    <3> QED BY <3>1, <3>5
  <2> QED BY <2>2, <2>3
<1> QED BY <1>1, <1>2

(* What handlers see of such a cell. *)
LEMMA PlainContents ==
  ASSUME NEW c \in Cell, NEW b, NEW rs \in Nat, NEW cs, PlainCell(c, b, rs, cs)
  PROVE  Range(Contents(b, c)) \cap Specials = {}
<1>1. c.str \in Nat /\ c.len \in Nat /\ Size \in Nat
  BY SizeAssumption DEF Cell, SizeT
<1>2. CASE ~InBuffer(c)
  <2>1. Range(Contents(b, c)) \subseteq {Junk}
    BY <1>2 DEF Contents, Range
  <2> QED BY <2>1, SpecialsAssumption DEF Specials
<1>3. CASE InBuffer(c)
  <2>1. Contents(b, c) = [k \in 1 .. c.len |-> b[c.str + k - 1]]
    BY <1>3 DEF Contents
  <2>2. \A m \in c.str .. c.str + c.len - 1 : b[m] \notin Specials
    BY <1>1, <1>3 DEF PlainCell, InBuffer
  <2>3. \A k \in 1 .. c.len : c.str + k - 1 \in c.str .. c.str + c.len - 1
    BY <1>1
  <2> QED BY <2>1, <2>2, <2>3 DEF Range
<1> QED BY <1>2, <1>3

(* A row of such cells is delivered as promised. *)
LEMMA DeliversPlain ==
  ASSUME TypeOK, QuotedWhenNeeded, NEW b, NEW cs \in Seq(Cell), NEW points,
         RowDl(b, cs, points),
         \A k \in DOMAIN cs : cs[k].quoted = {} => Range(Contents(b, cs[k])) \cap Specials = {}
  PROVE  QuotedWhenNeeded'
<1>1. calls \in Seq(HandlerCall)
  BY DEF TypeOK
<1>2. calls' = calls \/ \E call : call.cells = Delivered(b, cs) /\ calls' = Append(calls, call)
  <2>1. ASSUME NEW handler
        PROVE  [handler |-> handler, number |-> data_row_count, cells |-> Delivered(b, cs)].cells
                 = Delivered(b, cs)
    OBVIOUS
  <2> QED BY <2>1 DEF RowDl, CallRowHandler
<1>3. CASE calls' = calls
  BY <1>3 DEF QuotedWhenNeeded, DeliveredCells
<1>4. ASSUME NEW call, call.cells = Delivered(b, cs), calls' = Append(calls, call)
      PROVE  QuotedWhenNeeded'
  <2>1. ASSUME NEW c \in DeliveredCells'
        PROVE  c \in DeliveredCells \/ c \in Range(Delivered(b, cs))
    <3>1. PICK k \in DOMAIN calls' : c \in Range(calls'[k].cells)
      BY DEF DeliveredCells
    <3>2. DOMAIN calls' = 1 .. Len(calls) + 1 /\ DOMAIN calls = 1 .. Len(calls) /\ Len(calls) \in Nat
      BY <1>1, <1>4
    <3>3. CASE k = Len(calls) + 1
      BY <1>1, <1>4, <3>1, <3>3
    <3>4. CASE k # Len(calls) + 1
      <4>1. k \in DOMAIN calls /\ calls'[k] = calls[k]
        BY <1>1, <1>4, <3>2, <3>4
      <4> QED BY <3>1, <4>1 DEF DeliveredCells
    <3> QED BY <3>3, <3>4
  <2>2. ASSUME NEW c \in Range(Delivered(b, cs)), c.quoted = {}
        PROVE  Range(c.value) \cap Specials = {}
    <3>1. PICK k \in 1 .. Len(cs) : c = [value |-> Contents(b, cs[k]), quoted |-> cs[k].quoted]
      BY DEF Delivered, Range
    <3>2. k \in DOMAIN cs
      OBVIOUS
    <3> QED BY <2>2, <3>1, <3>2
  <2> QED BY <2>1, <2>2 DEF QuotedWhenNeeded, Specials
<1> QED BY <1>2, <1>3, <1>4

(* A row with cells has been read up to where its next cell starts. *)
LEMMA NextCellRead ==
  ASSUME StageInv, RowInv, TailInv, Live, ~CutShort, cells # <<>>,
         pc \in {"idle", "truncate", "read", "scan"}
  PROVE  cell_start <= Cursor
<1>1. CASE buffer_exceeded
  BY <1>1 DEF TailInv
<1>2. CASE ~buffer_exceeded
  BY <1>2 DEF InRow, RowInv, OrderInv, Live
<1> QED BY <1>1, <1>2

(* A step that no handler can be called after. *)
LEMMA FlagsAtEnd ==
  ASSUME ~Live', pc' # "scan", QuotedWhenNeeded'
  PROVE  FlagsInv'
BY DEF FlagsInv, PlainInv, HereInv, SkipInv, TailInv

(* A step that neither scans nor moves a byte. *)
LEMMA FlagsFrame ==
  ASSUME FlagsInv, Live' => Live /\ Cursor' = Cursor,
         UNCHANGED <<cells, buff, row_start, cell_start, quoted, quote_close_position,
                     buffer_exceeded, calls>>,
         pc' = "scan" /\ skip_next_delim' => pc = "scan" /\ skip_next_delim
  PROVE  FlagsInv'
<1>1. Unflagged' = Unflagged
  BY DEF Unflagged
<1>2. PlainInv'
  BY <1>1 DEF FlagsInv, PlainInv
<1>3. HereInv'
  BY DEF FlagsInv, HereInv
<1>4. SkipInv'
  BY DEF FlagsInv, SkipInv
<1>5. TailInv'
  BY <1>1 DEF FlagsInv, TailInv
<1>6. QuotedWhenNeeded'
  BY DEF FlagsInv, QuotedWhenNeeded, DeliveredCells
<1> QED BY <1>2, <1>3, <1>4, <1>5, <1>6 DEF FlagsInv

(* A byte that ends no cell is scanned. *)
LEMMA FlagsByte ==
  ASSUME FlagsInv, TypeOK, Scanning, Live, i' = i + 1,
         UNCHANGED <<cells, buff, row_start, cell_start, buffer_exceeded, calls, pc, status>>,
         quoted' = {} => quoted = {} /\ buff[i] \notin Specials,
         skip_next_delim' => quoted' # {},
         buffer_exceeded /\ cells # <<>> =>
           /\ quoted' \subseteq {"EMBEDDED"} /\ (quoted' # {} => quote_close_position' = 0)
           /\ buff[i] # Cr
  PROVE  FlagsInv'
<1>1. Unflagged' = Unflagged
  BY DEF Unflagged
<1>2. /\ pc = "scan" /\ Cursor = i /\ Cursor' = i + 1 /\ i \in Nat /\ (i + 1) - 1 = i
      /\ cell_start \in Nat
  BY SizeAssumption DEF Scanning, Cursor, TypeOK
<1>3. PlainInv'
  BY <1>1 DEF FlagsInv, PlainInv, Live
<1>4. HereInv'
  <2>. SUFFICES ASSUME quoted' = {}, NEW m \in cell_start .. i
                PROVE  buff[m] \notin Specials
    BY <1>2 DEF HereInv
  <2>1. CASE m = i
    BY <2>1
  <2>2. CASE m # i
    <3>1. m \in cell_start .. i - 1
      BY <1>2, <2>2
    <3> QED BY <1>2, <3>1 DEF FlagsInv, HereInv
  <2> QED BY <2>1, <2>2
<1>5. SkipInv'
  BY DEF SkipInv
<1>6. TailInv'
  <2>. SUFFICES ASSUME buffer_exceeded, cells # <<>>
                PROVE  TailInv'
    BY DEF TailInv
  <2>1. cell_start <= i /\ (Unflagged # {} => row_start < cell_start)
    BY <1>2 DEF FlagsInv, TailInv
  <2>2. cell_start <= i + 1
    BY <1>2, <2>1
  <2>3. buff[Cursor' - 1] = buff[i]
    BY <1>2
  <2> QED BY <1>1, <1>2, <2>1, <2>2, <2>3 DEF TailInv
<1>7. QuotedWhenNeeded'
  BY DEF FlagsInv, QuotedWhenNeeded, DeliveredCells
<1> QED BY <1>3, <1>4, <1>5, <1>6, <1>7 DEF FlagsInv

(* In the tail of a truncated row, all that ends is a cell that never opened. *)
LEMMA FlagsScan ==
  ASSUME FlagsInv, TypeOK, StageInv,
         SkipDoubledQuote \/ Plain \/ EscapedSpecial \/ VisitQuote
  PROVE  FlagsInv'
<1>1. /\ Scanning /\ i' = i + 1
      /\ UNCHANGED <<cells, buff, row_start, cell_start, buffer_exceeded, calls, pc, status>>
  BY DEF SkipDoubledQuote, Plain, EscapedSpecial, VisitQuote, Visit, NextByte, bufVars, posVars, rowVars
<1>2. Live
  BY <1>1 DEF Scanning, StageInv, Live
<1>3. buffer_exceeded /\ cells # <<>> =>
        quoted \subseteq {"EMBEDDED"} /\ (quoted # {} => quote_close_position = 0)
  BY <1>2 DEF FlagsInv, TailInv
<1>4. CASE SkipDoubledQuote
  <2>1. UNCHANGED <<quoted, quote_close_position>> /\ ~skip_next_delim' /\ quoted # {}
    BY <1>4 DEF SkipDoubledQuote, Scanning, quoteVars, FlagsInv, SkipInv
  <2>2. buff[i] # Cr
    BY <1>4, SpecialsAssumption DEF StageInv, SkipDoubledQuote, Scanning
  <2> QED BY <1>1, <1>2, <1>3, <2>1, <2>2, FlagsByte
<1>5. CASE Plain
  <2>1. UNCHANGED <<quoted, quote_close_position>> /\ ~skip_next_delim' /\ buff[i] \notin Specials
    BY <1>5 DEF Plain, quoteVars, Specials
  <2> QED BY <1>1, <1>2, <1>3, <2>1, FlagsByte DEF Specials
<1>6. CASE EscapedSpecial
  <2>1. quoted' # {} /\ ~skip_next_delim' /\ "UNCLOSED" \in quoted
    BY <1>6 DEF EscapedSpecial, Visit, Open
  <2> QED BY <1>1, <1>2, <1>3, <2>1, FlagsByte
<1>7. CASE VisitQuote
  <2>1. buff[i] # Cr
    BY <1>7, SpecialsAssumption DEF VisitQuote, Visit
  <2>2. quoted' # {} /\ (skip_next_delim' => quoted' # {})
    BY <1>7 DEF VisitQuote
  <2>3. buffer_exceeded /\ cells # <<>> =>
          quoted' \subseteq {"EMBEDDED"} /\ quote_close_position' = 0
    BY <1>3, <1>7 DEF VisitQuote, Open
  <2> QED BY <1>1, <1>2, <2>1, <2>2, <2>3, FlagsByte
<1> QED BY <1>4, <1>5, <1>6, <1>7

(* The row with one more cell, which ends before byte e. *)
LEMMA PlainAdded ==
  ASSUME TypeOK, FlagsInv, Live, cells # <<>> => cell_start <= Cursor, Cursor <= Size,
         NEW q, NEW close \in SizeT, NEW n \in SizeT, NEW e \in Nat, Cursor <= e,
         q = {} => /\ quoted = {}
                   /\ \/ n = e - cell_start /\ e = Cursor
                      \/ cell_start + n > Size + row_start
  PROVE  LET u == Unquote(q, close, cell_start, n)
             cs == AddCell(u, q)
         IN  \A k \in DOMAIN cs : cs[k].quoted = {} => PlainCell(cs[k], u.buff, row_start, e + 1)
<1> DEFINE u == Unquote(q, close, cell_start, n)
           new == [str |-> u.str, len |-> u.len, quoted |-> q]
           cs == AddCell(u, q)
<1>1. /\ cells \in Seq(Cell) /\ Len(cells) \in Nat /\ DOMAIN cells = 1 .. Len(cells)
      /\ buff \in Buffer /\ cell_start \in 0 .. Size /\ row_start \in Nat /\ Size \in Nat
      /\ row_start <= cell_start /\ Cursor \in Nat
  BY SizeAssumption DEF TypeOK, Cursor
<1>2. \A m \in 0 .. Size - 1 : m <= cell_start => u.buff[m] = buff[m]
  BY <1>1, UnquoteBefore
<1>3. ASSUME NEW k \in DOMAIN cells, cells[k].quoted = {}
      PROVE  PlainCell(cells[k], u.buff, row_start, e + 1)
  <2> DEFINE c == cells[k]
  <2>1. PlainCell(c, buff, row_start, cell_start)
    BY <1>3 DEF FlagsInv, PlainInv, Unflagged
  <2>2. c.str \in Nat /\ c.len \in Nat
    <3>1. c \in Cell
      BY <1>1
    <3> QED BY <3>1, SizeAssumption DEF Cell, SizeT
  <2>3. cell_start <= e
    <3>1. cells # <<>>
      BY <1>1
    <3> QED BY <1>1, <3>1
  <2> HIDE DEF c, u
  <2>4. CASE c.str + c.len > Size + row_start
    BY <2>4 DEF PlainCell, c
  <2>5. CASE ~(c.str + c.len > Size + row_start)
    <3>1. /\ row_start <= c.str /\ c.str + c.len < cell_start
          /\ \A m \in c.str .. c.str + c.len - 1 : buff[m] \notin Specials
      BY <2>1, <2>5 DEF PlainCell
    <3>2. \A m \in c.str .. c.str + c.len - 1 : m \in 0 .. Size - 1 /\ m <= cell_start
      BY <1>1, <2>2, <3>1
    <3>3. \A m \in c.str .. c.str + c.len - 1 : u.buff[m] \notin Specials
      BY <1>2, <3>1, <3>2
    <3>4. c.str + c.len < e + 1
      BY <1>1, <2>2, <2>3, <3>1
    <3> QED BY <3>1, <3>3, <3>4 DEF PlainCell, c
  <2> QED BY <2>4, <2>5
<1>4. ASSUME q = {}
      PROVE  PlainCell(new, u.buff, row_start, e + 1)
  <2>1. u.str = cell_start /\ u.len = n /\ u.buff = buff
    BY <1>4 DEF Unquote
  <2>2. new.str = cell_start /\ new.len = n
    BY <2>1
  <2> HIDE DEF new, u
  <2>3. CASE cell_start + n > Size + row_start
    BY <2>2, <2>3 DEF PlainCell
  <2>4. CASE n = e - cell_start /\ e = Cursor
    <3>1. \A m \in cell_start .. Cursor - 1 : buff[m] \notin Specials
      BY <1>4 DEF FlagsInv, HereInv
    <3>2. cell_start + n = e /\ e < e + 1
      BY <1>1, <2>4
    <3> QED BY <1>1, <2>1, <2>2, <2>4, <3>1, <3>2 DEF PlainCell
  <2> QED BY <1>4, <2>3, <2>4
<1>5. cs = cells \/ cs = Append(cells, new)
  BY DEF AddCell
<1>6. new.quoted = q
  OBVIOUS
<1> HIDE DEF new, cs, u
<1>7. CASE cs = cells
  BY <1>3, <1>7 DEF cs, u
<1>8. CASE cs = Append(cells, new)
  <2>1. /\ DOMAIN cs = 1 .. Len(cells) + 1 /\ cs[Len(cells) + 1] = new
        /\ \A k \in 1 .. Len(cells) : cs[k] = cells[k]
    BY <1>1, <1>8
  <2>2. ASSUME NEW k \in DOMAIN cs, cs[k].quoted = {}
        PROVE  PlainCell(cs[k], u.buff, row_start, e + 1)
    <3>1. CASE k = Len(cells) + 1
      BY <1>4, <1>6, <2>1, <2>2, <3>1
    <3>2. CASE k # Len(cells) + 1
      BY <1>1, <1>3, <2>1, <2>2, <3>2
    <3> QED BY <3>1, <3>2
  <2> QED BY <2>2 DEF cs, u
<1> QED BY <1>5, <1>7, <1>8

(* The row with the cell that ends at the byte scanned. *)
LEMMA PlainHere ==
  ASSUME TypeOK, StageInv, RowInv, FlagsInv, Scanning
  PROVE  LET cs == AddCell(CellHere, quoted) IN
         /\ \A k \in DOMAIN cs : cs[k].quoted = {} => PlainCell(cs[k], CellHere.buff, row_start, i + 1)
         /\ cs \in Seq(Cell)
<1> DEFINE n == Wrap(i - cell_start)
<1>1. /\ pc = "scan" /\ Live /\ ~CutShort /\ Cursor = i /\ i \in Nat /\ i <= Size
      /\ row_start <= i /\ row_start \in Nat /\ cell_start \in 0 .. Size /\ row_start <= cell_start
      /\ quote_close_position \in SizeT /\ quoted \in SUBSET Flags /\ Size \in Nat
  BY SizeAssumption DEF Scanning, StageInv, Live, CutShort, Cursor, TypeOK
<1>2. cells # <<>> => cell_start <= Cursor
  BY <1>1, NextCellRead DEF FlagsInv
<1>3. n \in SizeT
  BY <1>1, WrapType
<1>4. n = i - cell_start \/ cell_start + n > Size + row_start
  <2>1. CASE cell_start <= i
    <3>1. i - cell_start \in SizeT
      BY <1>1, <2>1, SizeAssumption DEF SizeT
    <3> QED BY <3>1, WrapSmall
  <2>2. CASE i < cell_start
    <3>1. n = SizeMod + i - cell_start
      BY <1>1, <2>2, SizeAssumption DEF Wrap
    <3> QED BY <1>1, <3>1, SizeAssumption
  <2> QED BY <1>1, <2>1, <2>2
<1>5. CellHere = Unquote(quoted, quote_close_position, cell_start, n)
  BY DEF CellHere
<1>6. AddCell(CellHere, quoted) \in Seq(Cell)
  BY <1>1, CellHereType, AddCellType
<1> HIDE DEF n
<1>7. /\ Cursor <= Size /\ i \in Nat /\ Cursor <= i
      /\ quoted = {} => quoted = {} /\ ((n = i - cell_start /\ i = Cursor)
                                         \/ cell_start + n > Size + row_start)
  BY <1>1, <1>4
<1>8. LET u == Unquote(quoted, quote_close_position, cell_start, n)
          cs == AddCell(u, quoted)
      IN  \A k \in DOMAIN cs : cs[k].quoted = {} => PlainCell(cs[k], u.buff, row_start, i + 1)
  BY <1>1, <1>2, <1>3, <1>7, PlainAdded, Zenon
<1> QED BY <1>5, <1>6, <1>8

(* A delimiter ends a cell. *)
LEMMA FlagsEndCell ==
  ASSUME TypeOK, StageInv, RowInv, FlagsInv, EndCell
  PROVE  FlagsInv'
<1>1. /\ Scanning /\ pc = "scan" /\ Live /\ ~CutShort /\ Cursor = i /\ i \in Nat /\ buff[i] = Delim
      /\ row_start <= i /\ row_start \in Nat /\ ~skip_next_delim /\ i < bytes_read
  BY SizeAssumption DEF EndCell, Visit, Scanning, StageInv, Live, CutShort, Cursor, TypeOK
<1>2. /\ buff' = CellHere.buff /\ cells' = AddCell(CellHere, quoted) /\ quoted' = {}
      /\ cell_start' = i + 1 /\ i' = i + 1
      /\ UNCHANGED <<row_start, buffer_exceeded, calls, pc, status, skip_next_delim>>
  BY DEF EndCell, NextByte
<1>3. Cursor' = i + 1
  BY <1>1, <1>2 DEF Cursor
<1>4. PlainInv'
  <2>1. \A k \in DOMAIN cells' : cells'[k].quoted = {} => PlainCell(cells'[k], buff', row_start, i + 1)
    BY <1>1, <1>2, PlainHere
  <2> QED BY <1>2, <2>1 DEF PlainInv, Unflagged
<1>5. HereInv'
  BY <1>1, <1>2, <1>3 DEF HereInv
<1>6. SkipInv'
  BY <1>1, <1>2 DEF SkipInv
<1>7. TailInv'
  <2>1. ASSUME buffer_exceeded, Unflagged' # {}
        PROVE  buff'[i] # Cr
    <3>1. buff \in Buffer /\ cells \in Seq(Cell) /\ cell_start \in 0 .. Size /\ quote_close_position \in SizeT
          /\ Wrap(i - cell_start) \in SizeT
      BY <1>1, SizeAssumption, WrapType DEF TypeOK
    <3>2. quoted \subseteq {"EMBEDDED"} /\ (quoted # {} => quote_close_position = 0)
      <4>1. CASE cells # <<>>
        BY <1>1, <2>1, <4>1 DEF FlagsInv, TailInv
      <4>2. CASE cells = <<>>
        <5>1. PICK k \in DOMAIN cells' : cells'[k].quoted = {}
          BY <2>1 DEF Unflagged
        <5>2. cells' = cells \/ cells' = <<[str |-> CellHere.str, len |-> CellHere.len, quoted |-> quoted]>>
          BY <1>2, <4>2 DEF AddCell
        <5>3. quoted = {}
          BY <4>2, <5>1, <5>2
        <5> QED BY <5>3
      <4> QED BY <4>1, <4>2
    <3>3. buff' = buff
      BY <1>2, <3>1, <3>2, UnquoteNothing DEF CellHere
    <3> QED BY <1>1, <3>3, SpecialsAssumption
  <2>2. (i + 1) - 1 = i /\ row_start < i + 1
    BY <1>1
  <2> QED BY <1>2, <1>3, <2>1, <2>2 DEF TailInv
<1>8. QuotedWhenNeeded'
  BY <1>2 DEF FlagsInv, QuotedWhenNeeded, DeliveredCells
<1> QED BY <1>4, <1>5, <1>6, <1>7, <1>8 DEF FlagsInv

(* The line feed of a CR LF pair follows no cell that has no flags. *)
LEMMA FlagsIgnoreLf ==
  ASSUME TypeOK, StageInv, RowInv, FlagsInv, IgnoreLf
  PROVE  FlagsInv'
<1>1. /\ Scanning /\ pc = "scan" /\ Live /\ ~CutShort /\ Cursor = i /\ i \in Nat /\ cell_start \in Nat
      /\ row_start \in Nat /\ row_start <= i /\ ~skip_next_delim /\ ~Open /\ ScannerLast = Cr /\ buff[i] = Lf
      /\ cells \in Seq(Cell)
  BY SizeAssumption DEF IgnoreLf, Visit, Scanning, StageInv, Live, CutShort, Cursor, TypeOK
<1>2. /\ cell_start' = i + 1 /\ row_start' = i + 1 /\ i' = i + 1
      /\ UNCHANGED <<cells, buff, quoted, quote_close_position, buffer_exceeded, calls, pc, status, skip_next_delim>>
  BY DEF IgnoreLf, NextByte, bufVars, quoteVars, rowVars
<1>3. Cursor' = i + 1
  BY <1>1, <1>2 DEF Cursor
<1>4. Unflagged = {} /\ Unflagged' = {}
  <2>1. Unflagged = {}
    <3>1. SUFFICES ASSUME NEW k \in DOMAIN cells, cells[k].quoted = {}
                   PROVE  FALSE
      BY DEF Unflagged
    <3>2. cells # <<>> /\ Unflagged # {}
      BY <3>1 DEF Unflagged
    <3>3. cell_start <= i
      BY <1>1, <3>2, NextCellRead DEF FlagsInv
    <3>4. CASE buffer_exceeded
      <4>1. row_start < cell_start /\ buff[i - 1] # Cr
        BY <1>1, <3>2, <3>4 DEF FlagsInv, TailInv
      <4>2. i > 0
        BY <1>1, <3>3, <4>1
      <4> QED BY <1>1, <4>1, <4>2 DEF ScannerLast
    <3>5. CASE ~buffer_exceeded
      <4>1. InRow
        BY <1>1, <3>5 DEF InRow, Live
      <4>2. row_start <= cells[k].str /\ cells[k].str + cells[k].len < cell_start
        BY <3>1, <4>1 DEF RowInv, CellsInRow
      <4>3. cells[k].str \in Nat /\ cells[k].len \in Nat
        <5>1. cells[k] \in Cell
          BY <1>1, <3>1
        <5> QED BY <5>1, SizeAssumption DEF Cell, SizeT
      <4>4. i > 0
        BY <1>1, <3>3, <4>2, <4>3
      <4>5. buff[i - 1] = Cr
        BY <1>1, <4>4 DEF ScannerLast
      <4>6. cells = <<>>
        BY <1>1, <4>1, <4>4, <4>5 DEF RowInv, CrInv
      <4> QED BY <3>2, <4>6
    <3> QED BY <3>4, <3>5
  <2> QED BY <1>2, <2>1 DEF Unflagged
<1>5. PlainInv' /\ HereInv'
  BY <1>1, <1>2, <1>3, <1>4 DEF PlainInv, HereInv
<1>6. SkipInv'
  BY <1>1, <1>2 DEF SkipInv
<1>7. TailInv'
  <2>1. buffer_exceeded /\ cells # <<>> =>
          quoted \subseteq {"EMBEDDED"} /\ (quoted # {} => quote_close_position = 0)
    BY <1>1 DEF FlagsInv, TailInv
  <2> QED BY <1>1, <1>2, <1>3, <1>4, <2>1 DEF TailInv
<1>8. QuotedWhenNeeded'
  BY <1>2 DEF FlagsInv, QuotedWhenNeeded, DeliveredCells
<1> QED BY <1>5, <1>6, <1>7, <1>8 DEF FlagsInv

(* Plain cells are delivered as promised. *)
LEMMA DeliversRow ==
  ASSUME TypeOK, QuotedWhenNeeded, NEW b, NEW cs \in Seq(Cell), NEW points, NEW e,
         RowDl(b, cs, points), \A k \in DOMAIN cs : cs[k].quoted = {} => PlainCell(cs[k], b, row_start, e)
  PROVE  QuotedWhenNeeded'
<1>1. row_start \in Nat
  BY SizeAssumption DEF TypeOK
<1>2. \A k \in DOMAIN cs : cs[k].quoted = {} => Range(Contents(b, cs[k])) \cap Specials = {}
  <2>. SUFFICES ASSUME NEW k \in DOMAIN cs, cs[k].quoted = {}
                PROVE  Range(Contents(b, cs[k])) \cap Specials = {}
    OBVIOUS
  <2>1. cs[k] \in Cell
    OBVIOUS
  <2>2. PlainCell(cs[k], b, row_start, e)
    OBVIOUS
  <2> QED BY <1>1, <2>1, <2>2, PlainContents
<1> QED BY <1>2, DeliversPlain

(* A line end ends the row. *)
LEMMA FlagsEndRow ==
  ASSUME TypeOK, StageInv, RowInv, FlagsInv, EndRow
  PROVE  FlagsInv'
<1>1. /\ Scanning /\ ~skip_next_delim /\ i \in Nat
  BY SizeAssumption DEF EndRow, AtRowEnd, Visit, TypeOK
<1>2. /\ RowDl(CellHere.buff, AddCell(CellHere, quoted), {"cell", "row"})
      /\ buffer_exceeded' = FALSE
  BY DEF EndRow
<1>3. QuotedWhenNeeded'
  BY <1>1, <1>2, PlainHere, DeliversRow DEF FlagsInv
<1>4. CASE abort'
  <2>1. pc' = "idle" /\ status' = "cancelled"
    BY <1>4 DEF EndRow
  <2> QED BY <1>3, <2>1, FlagsAtEnd DEF Live
<1>5. CASE ~abort'
  <2>1. /\ cell_start' = i + 1 /\ i' = i + 1 /\ pc' = "scan" /\ skip_next_delim' = skip_next_delim
    BY <1>1, <1>5 DEF EndRow, NextByte, Scanning
  <2>2. cells' = <<>>
    BY <1>2, <1>5 DEF RowDl
  <2>3. Cursor' = i + 1
    BY <2>1 DEF Cursor
  <2>4. Unflagged' = {}
    BY <2>2 DEF Unflagged
  <2>5. PlainInv' /\ TailInv'
    BY <1>2, <2>4 DEF PlainInv, TailInv
  <2>6. HereInv'
    BY <1>1, <2>1, <2>3 DEF HereInv
  <2>7. SkipInv'
    BY <1>1, <2>1 DEF SkipInv
  <2> QED BY <1>3, <2>5, <2>6, <2>7 DEF FlagsInv
<1> QED BY <1>4, <1>5

(* One below zero is stored from the top of size_t down. *)
LEMMA WrapNegative == ASSUME NEW n \in Int, n < 0, n + SizeMod >= 0 PROVE Wrap(n) = n + SizeMod
BY SizeAssumption DEF Wrap

(* A partial row, with its cells, is moved to the front of the buffer. *)
LEMMA FlagsMove ==
  ASSUME TypeOK, StageInv, RowInv, FlagsInv, MovePartialRow
  PROVE  FlagsInv'
<1>1. /\ MayParse /\ old_bytes_read > 0 /\ row_start < old_bytes_read
      /\ buff' = [ k \in DOMAIN buff |-> IF k < old_bytes_read - row_start
                                         THEN buff[k + row_start] ELSE buff[k] ]
      /\ cell_start' = Wrap(cell_start - row_start) /\ row_start' = 0 /\ quoted' = quoted
      /\ EnterParse(old_bytes_read - row_start)
      /\ cells' = [k \in DOMAIN cells |-> [cells[k] EXCEPT !.str = Wrap(cells[k].str - row_start)]]
  BY DEF MovePartialRow, RebasedCells
<1>2. /\ pc = "idle" /\ Live /\ ~CutShort /\ Cursor = old_bytes_read
      /\ row_start \in Nat /\ cell_start \in Nat /\ old_bytes_read \in Nat /\ Size \in Nat
      /\ cell_start <= Size /\ row_start <= cell_start /\ old_bytes_read <= Size
      /\ cells \in Seq(Cell) /\ DOMAIN buff = 0 .. Size - 1
  <2>1. /\ pc = "idle" /\ Live
    BY <1>1 DEF MayParse, Live
  <2>2. row_start \in Nat /\ old_bytes_read \in Nat /\ Size \in Nat /\ old_bytes_read <= Size
    BY SizeAssumption DEF TypeOK
  <2>3. cell_start \in Nat /\ cell_start <= Size /\ row_start <= cell_start
    BY <2>2 DEF TypeOK
  <2>4. cells \in Seq(Cell) /\ DOMAIN buff = 0 .. Size - 1
    BY DEF TypeOK, Buffer
  <2>5. partial_row_length = 0 /\ ~CutShort
    BY <1>1, SizeAssumption DEF StageInv, CutShort
  <2>6. Cursor = old_bytes_read
    BY <1>1, <2>1 DEF Cursor
  <2> QED BY <2>1, <2>2, <2>3, <2>4, <2>5, <2>6
<1>3. /\ pc' \in {"read", "truncate"} /\ status' = status /\ old_bytes_read' = 0
      /\ partial_row_length' = old_bytes_read - row_start
      /\ UNCHANGED <<quote_close_position, buffer_exceeded, calls>>
  BY <1>1 DEF EnterParse
<1>4. Live' /\ Cursor' = old_bytes_read - row_start
  BY <1>2, <1>3 DEF Live, Cursor
<1>5. cell_start' = cell_start - row_start
  <2>1. cell_start - row_start \in SizeT
    BY <1>2, SizeAssumption DEF SizeT
  <2> QED BY <1>1, <2>1, WrapSmall
<1>6. cells # <<>> => cell_start <= old_bytes_read
  BY <1>2, NextCellRead DEF FlagsInv
<1>7. \A m \in 0 .. old_bytes_read - row_start - 1 : buff'[m] = buff[m + row_start]
  <2>. TAKE m \in 0 .. old_bytes_read - row_start - 1
  <2>1. m \in 0 .. Size - 1 /\ m < old_bytes_read - row_start
    BY <1>2
  <2> QED BY <1>1, <1>2, <2>1
<1>8. DOMAIN cells' = DOMAIN cells
  BY <1>1
<1>9. Unflagged' = Unflagged
  <2>1. \A k \in DOMAIN cells : cells'[k].quoted = cells[k].quoted
    <3>. TAKE k \in DOMAIN cells
    <3>1. cells[k] \in Cell
      BY <1>2
    <3>2. cells'[k] = [cells[k] EXCEPT !.str = Wrap(cells[k].str - row_start)]
      BY <1>1
    <3> QED BY <3>1, <3>2 DEF Cell
  <2> QED BY <1>8, <2>1 DEF Unflagged
<1>10. PlainInv'
  <2>. SUFFICES ASSUME NEW k \in Unflagged
                PROVE  PlainCell(cells'[k], buff', row_start', cell_start')
    BY <1>9 DEF PlainInv
  <2>1. k \in DOMAIN cells /\ cells[k] \in Cell /\ cells # <<>>
    BY <1>2 DEF Unflagged
  <2>2. PICK c : c = cells[k]
    OBVIOUS
  <2>3. PICK d : d = cells'[k]
    OBVIOUS
  <2>4. c.str \in Nat /\ c.len \in Nat /\ c.str < SizeMod /\ PlainCell(c, buff, row_start, cell_start)
    BY <1>2, <2>1, <2>2, SizeAssumption DEF Cell, SizeT, FlagsInv, PlainInv
  <2>5. d.str = Wrap(c.str - row_start) /\ d.len = c.len
    BY <1>1, <2>1, <2>2, <2>3 DEF Cell
  <2>6. CASE c.str < row_start
    <3>1. d.str = SizeMod + c.str - row_start
      BY <1>2, <2>4, <2>5, <2>6, SizeAssumption, WrapNegative
    <3>2. d.str + d.len > Size + 0
      BY <1>2, <2>4, <2>5, <3>1, SizeAssumption
    <3> QED BY <1>1, <2>3, <3>2 DEF PlainCell
  <2>7. CASE c.str >= row_start
    <3>1. d.str = c.str - row_start
      <4>1. c.str - row_start \in SizeT
        BY <1>2, <2>4, <2>7, SizeAssumption DEF SizeT
      <4> QED BY <2>5, <4>1, WrapSmall
    <3>2. CASE c.str + c.len > Size + row_start
      <4>1. d.str + d.len > Size + 0
        BY <1>2, <2>4, <2>5, <3>1, <3>2
      <4> QED BY <1>1, <2>3, <4>1 DEF PlainCell
    <3>3. CASE ~(c.str + c.len > Size + row_start)
      <4>1. /\ c.str + c.len < cell_start
            /\ \A m \in c.str .. c.str + c.len - 1 : buff[m] \notin Specials
        BY <2>4, <3>3 DEF PlainCell
      <4>2. 0 <= d.str /\ d.str + d.len < cell_start - row_start
        BY <1>2, <2>4, <2>5, <2>7, <3>1, <4>1
      <4>3. \A m \in d.str .. d.str + d.len - 1 : buff'[m] \notin Specials
        <5>. TAKE m \in d.str .. d.str + d.len - 1
        <5>1. m \in 0 .. old_bytes_read - row_start - 1 /\ m + row_start \in c.str .. c.str + c.len - 1
          <6>1. /\ c.str \in Nat /\ c.len \in Nat /\ row_start \in Nat /\ cell_start \in Nat
                /\ old_bytes_read \in Nat /\ cell_start <= old_bytes_read
            BY <1>2, <1>6, <2>1, <2>4
          <6>2. /\ d.str = c.str - row_start /\ d.len = c.len /\ row_start <= c.str
                /\ c.str + c.len < cell_start
            BY <1>2, <2>4, <2>5, <2>7, <3>1, <4>1
          <6>3. m \in c.str - row_start .. c.str - row_start + c.len - 1
            BY <6>2
          <6> QED BY <6>1, <6>2, <6>3
        <5> QED BY <1>7, <4>1, <5>1
      <4> QED BY <1>1, <1>5, <2>3, <4>2, <4>3 DEF PlainCell
    <3> QED BY <3>2, <3>3
  <2> QED BY <1>2, <2>4, <2>6, <2>7
<1>11. HereInv'
  <2>. SUFFICES ASSUME quoted = {}, NEW m \in cell_start - row_start .. (old_bytes_read - row_start) - 1
                PROVE  buff'[m] \notin Specials
    BY <1>1, <1>4, <1>5 DEF HereInv
  <2>1. \A j \in cell_start .. old_bytes_read - 1 : buff[j] \notin Specials
    BY <1>2 DEF FlagsInv, HereInv
  <2>2. m \in 0 .. old_bytes_read - row_start - 1 /\ m + row_start \in cell_start .. old_bytes_read - 1
    BY <1>2
  <2> QED BY <1>7, <2>1, <2>2
<1>12. SkipInv'
  BY <1>3 DEF SkipInv
<1>13. TailInv'
  <2>. SUFFICES ASSUME buffer_exceeded, cells # <<>>
                PROVE  TailInv'
    BY <1>1, <1>2, <1>3 DEF TailInv
  <2>1. /\ quoted \subseteq {"EMBEDDED"} /\ (quoted # {} => quote_close_position = 0)
        /\ cell_start <= old_bytes_read
        /\ Unflagged # {} => row_start < cell_start /\ buff[old_bytes_read - 1] # Cr
    BY <1>2 DEF FlagsInv, TailInv
  <2>2. cell_start' <= Cursor'
    BY <1>2, <1>4, <1>5, <2>1
  <2>3. ASSUME Unflagged # {}
        PROVE  row_start' < cell_start' /\ buff'[Cursor' - 1] # Cr
    <3>1. row_start < cell_start /\ buff[old_bytes_read - 1] # Cr
      BY <2>1, <2>3
    <3>2. 0 < cell_start - row_start
      BY <1>2, <3>1
    <3>3. /\ (old_bytes_read - row_start) - 1 \in 0 .. old_bytes_read - row_start - 1
          /\ ((old_bytes_read - row_start) - 1) + row_start = old_bytes_read - 1
      BY <1>1, <1>2
    <3>4. buff'[(old_bytes_read - row_start) - 1] = buff[old_bytes_read - 1]
      BY <1>7, <3>3
    <3> QED BY <1>1, <1>4, <1>5, <3>1, <3>2, <3>4
  <2> QED BY <1>1, <1>3, <1>9, <2>1, <2>2, <2>3 DEF TailInv
<1>14. QuotedWhenNeeded'
  BY <1>3 DEF FlagsInv, QuotedWhenNeeded, DeliveredCells
<1> QED BY <1>10, <1>11, <1>12, <1>13, <1>14 DEF FlagsInv

(* The last chunk ended with a row: there are no cells without flags. *)
LEMMA FlagsFresh ==
  ASSUME TypeOK, StageInv, RowInv, FlagsInv, StartFreshRow
  PROVE  FlagsInv'
<1>1. /\ MayParse /\ old_bytes_read > 0 /\ row_start >= old_bytes_read
      /\ cell_start' = 0 /\ row_start' = 0 /\ quoted' = {} /\ UNCHANGED <<buff, cells>>
      /\ EnterParse(partial_row_length)
  BY DEF StartFreshRow
<1>2. /\ pc = "idle" /\ Live /\ ~CutShort /\ Cursor = old_bytes_read /\ partial_row_length = 0
      /\ row_start \in Nat /\ cell_start \in Nat /\ old_bytes_read \in Nat /\ row_start <= cell_start
      /\ cells \in Seq(Cell)
  BY <1>1, SizeAssumption DEF MayParse, Live, CutShort, StageInv, Cursor, TypeOK
<1>3. /\ pc' \in {"read", "truncate"} /\ old_bytes_read' = 0 /\ partial_row_length' = 0 /\ Cursor' = 0
      /\ UNCHANGED <<quote_close_position, buffer_exceeded, calls>>
  BY <1>1, <1>2 DEF EnterParse, Cursor
<1>4. Unflagged = {}
  <2>1. SUFFICES ASSUME NEW k \in DOMAIN cells, cells[k].quoted = {}
                 PROVE  FALSE
    BY DEF Unflagged
  <2>2. cells # <<>> /\ Unflagged # {}
    BY <2>1 DEF Unflagged
  <2>3. cell_start <= old_bytes_read
    BY <1>2, <2>2, NextCellRead DEF FlagsInv
  <2>4. CASE buffer_exceeded
    <3>1. row_start < cell_start
      BY <1>2, <2>2, <2>4 DEF FlagsInv, TailInv
    <3> QED BY <1>1, <1>2, <2>3, <3>1
  <2>5. CASE ~buffer_exceeded
    <3>1. InRow
      BY <1>2, <2>5 DEF InRow, Live
    <3>2. row_start <= cells[k].str /\ cells[k].str + cells[k].len < cell_start
      BY <2>1, <3>1 DEF RowInv, CellsInRow
    <3>3. cells[k].str \in Nat /\ cells[k].len \in Nat
      <4>1. cells[k] \in Cell
        BY <1>2, <2>1
      <4> QED BY <4>1, SizeAssumption DEF Cell, SizeT
    <3> QED BY <1>1, <1>2, <2>3, <3>2, <3>3
  <2> QED BY <2>4, <2>5
<1>5. Unflagged' = {}
  BY <1>1, <1>4 DEF Unflagged
<1>6. PlainInv' /\ HereInv' /\ SkipInv' /\ TailInv'
  BY <1>1, <1>3, <1>5 DEF PlainInv, HereInv, SkipInv, TailInv
<1>7. QuotedWhenNeeded'
  BY <1>3 DEF FlagsInv, QuotedWhenNeeded, DeliveredCells
<1> QED BY <1>6, <1>7 DEF FlagsInv

(* A row that fills the buffer is delivered as far as it has been read. *)
LEMMA FlagsTruncate ==
  ASSUME TypeOK, StageInv, FlagsInv, TruncateRow
  PROVE  FlagsInv'
<1>1. /\ pc = "truncate" /\ pc' = "read" /\ RowDl(buff, cells, {"row"}) /\ cells \in Seq(Cell)
      /\ Live /\ old_bytes_read = 0 /\ Cursor = partial_row_length /\ cell_start \in Nat
      /\ UNCHANGED <<buff, old_bytes_read, row_start, cell_start, quoted, quote_close_position, status>>
      /\ buffer_exceeded' = ~abort'
      /\ partial_row_length' = IF abort' THEN partial_row_length ELSE 0
  <2>1. pc = "truncate" /\ old_bytes_read = 0 /\ Live
    BY DEF TruncateRow, StageInv, Live
  <2>2. Cursor = partial_row_length
    BY <2>1 DEF Cursor
  <2>3. cells \in Seq(Cell) /\ cell_start \in Nat
    BY SizeAssumption DEF TypeOK
  <2>4. /\ UNCHANGED <<buff, old_bytes_read, row_start, cell_start, quoted, quote_close_position, status>>
        /\ pc' = "read" /\ RowDl(buff, cells, {"row"})
        /\ partial_row_length' = IF abort' THEN partial_row_length ELSE 0
    BY DEF TruncateRow, posVars, quoteVars
  <2>5. buffer_exceeded' = ~abort'
    <3>1. buffer_exceeded' = IF abort' THEN FALSE ELSE TRUE
      BY DEF TruncateRow
    <3> QED BY <3>1
  <2> QED BY <2>1, <2>2, <2>3, <2>4, <2>5
<1>2. \A k \in DOMAIN cells : cells[k].quoted = {} => PlainCell(cells[k], buff, row_start, cell_start)
  BY <1>1 DEF FlagsInv, PlainInv, Unflagged
<1>3. QuotedWhenNeeded'
  BY <1>1, <1>2, DeliversRow DEF FlagsInv
<1>4. cells' = cells \/ cells' = <<>>
  BY <1>1 DEF RowDl
<1>5. PlainInv'
  BY <1>1, <1>2, <1>4 DEF PlainInv, Unflagged
<1>6. SkipInv'
  BY <1>1 DEF SkipInv
<1>7. HereInv'
  <2>1. CASE abort'
    <3>1. Cursor' = Cursor
      BY <1>1, <2>1 DEF Cursor
    <3> QED BY <1>1, <3>1 DEF HereInv, FlagsInv
  <2>2. CASE ~abort'
    <3>1. Cursor' = 0
      BY <1>1, <2>2 DEF Cursor
    <3> QED BY <1>1, <3>1 DEF HereInv
  <2> QED BY <2>1, <2>2
<1>8. TailInv'
  <2>1. buffer_exceeded' => cells' = <<>>
    BY <1>1 DEF RowDl
  <2> QED BY <2>1 DEF TailInv
<1> QED BY <1>3, <1>5, <1>6, <1>7, <1>8 DEF FlagsInv

(* A read adds bytes behind those of the row. *)
LEMMA FlagsRead ==
  ASSUME TypeOK, StageInv, RowInv, FlagsInv, Read
  PROVE  FlagsInv'
<1>1. /\ pc = "read" /\ Live /\ old_bytes_read = 0 /\ Cursor = partial_row_length
      /\ cell_start \in Nat /\ row_start \in Nat /\ partial_row_length \in Nat /\ Size \in Nat
      /\ cells \in Seq(Cell) /\ DOMAIN buff = 0 .. Size - 1
      /\ UNCHANGED <<old_bytes_read, row_start, cell_start, cells, buffer_exceeded, calls, status>>
  BY SizeAssumption DEF Read, StageInv, Live, Cursor, TypeOK, posVars, rowVars, Buffer
<1>2. QuotedWhenNeeded'
  BY <1>1 DEF FlagsInv, QuotedWhenNeeded, DeliveredCells
<1>3. CASE pc' = "fault"
  BY <1>2, <1>3, FlagsAtEnd DEF Live
<1>4. CASE pc' # "fault"
  <2>1. PICK n \in 1 .. Smaller(capacity, MaxInput - Len(fed)) : \E bytes \in [1 .. n -> Byte] :
          /\ partial_row_length + n <= Size
          /\ buff' = [ k \in DOMAIN buff |->
                         IF k >= partial_row_length /\ k < partial_row_length + n
                         THEN bytes[k - partial_row_length + 1] ELSE buff[k] ]
          /\ BeginScan(bytes) /\ pc' = "scan"
    <3>1. \A n \in 1 .. Smaller(capacity, MaxInput - Len(fed)) :
            ~(partial_row_length + n > Size) => partial_row_length + n <= Size
      BY <1>1
    <3> QED BY <1>4, <3>1 DEF Read
  <2>10. PICK bytes \in [1 .. n -> Byte] :
          /\ partial_row_length + n <= Size
          /\ buff' = [ k \in DOMAIN buff |->
                         IF k >= partial_row_length /\ k < partial_row_length + n
                         THEN bytes[k - partial_row_length + 1] ELSE buff[k] ]
          /\ BeginScan(bytes) /\ pc' = "scan"
    BY <2>1
  <2>2. /\ partial_row_length < Size /\ ~CutShort
        /\ \A m \in 0 .. partial_row_length - 1 : buff'[m] = buff[m]
    <3>1. n \in Nat /\ n > 0
      OBVIOUS
    <3>2. partial_row_length < Size
      BY <1>1, <2>10, <3>1
    <3> QED BY <1>1, <2>10, <3>2 DEF CutShort
  <2>3. /\ skip_next_delim' = FALSE /\ Cursor' = i'
        /\ quoted' = {} => quoted = {}
        /\ "PENDING" \notin quoted => /\ quoted' = quoted /\ i' = partial_row_length
                                      /\ quote_close_position' = quote_close_position
    BY <2>10 DEF BeginScan, Cursor
  <2>4. cells # <<>> => cell_start <= partial_row_length
    BY <1>1, <2>2, NextCellRead DEF FlagsInv
  <2>5. PlainInv'
    <3>. SUFFICES ASSUME NEW k \in Unflagged
                  PROVE  PlainCell(cells[k], buff', row_start, cell_start)
      BY <1>1 DEF PlainInv, Unflagged
    <3>1. PICK c : c = cells[k]
      OBVIOUS
    <3>2. PlainCell(c, buff, row_start, cell_start) /\ cell_start <= partial_row_length
      BY <1>1, <2>4, <3>1 DEF FlagsInv, PlainInv, Unflagged
    <3>3. c.str \in Nat /\ c.len \in Nat
      <4>1. c \in Cell
        BY <1>1, <3>1 DEF Unflagged
      <4> QED BY <4>1, SizeAssumption DEF Cell, SizeT
    <3>4. c.str + c.len < cell_start => \A m \in c.str .. c.str + c.len - 1 : buff'[m] = buff[m]
      BY <1>1, <2>2, <3>2, <3>3
    <3> QED BY <3>1, <3>2, <3>4 DEF PlainCell
  <2>6. HereInv'
    <3>. SUFFICES ASSUME quoted' = {}, NEW m \in cell_start .. i' - 1
                  PROVE  buff'[m] \notin Specials
      BY <1>1, <2>3 DEF HereInv
    <3>1. quoted = {} /\ i' = partial_row_length
      BY <2>3
    <3>2. m \in cell_start .. partial_row_length - 1 /\ m \in 0 .. partial_row_length - 1
      BY <1>1, <3>1
    <3>3. buff[m] \notin Specials
      BY <1>1, <3>1, <3>2 DEF FlagsInv, HereInv
    <3> QED BY <2>2, <3>2, <3>3
  <2>7. SkipInv'
    BY <2>3 DEF SkipInv
  <2>8. TailInv'
    <3>. SUFFICES ASSUME buffer_exceeded, cells # <<>>
                  PROVE  TailInv'
      BY <1>1 DEF TailInv
    <3>1. /\ quoted \subseteq {"EMBEDDED"} /\ (quoted # {} => quote_close_position = 0)
          /\ Unflagged # {} => row_start < cell_start /\ buff[partial_row_length - 1] # Cr
      BY <1>1 DEF FlagsInv, TailInv
    <3>2. /\ quoted' = quoted /\ quote_close_position' = quote_close_position
          /\ Cursor' = partial_row_length
      BY <2>3, <3>1
    <3>3. Unflagged' = Unflagged
      BY <1>1 DEF Unflagged
    <3>4. row_start < cell_start => buff'[partial_row_length - 1] = buff[partial_row_length - 1]
      BY <1>1, <2>2, <2>4
    <3> QED BY <1>1, <2>4, <3>1, <3>2, <3>3, <3>4 DEF TailInv
  <2> QED BY <1>2, <2>5, <2>6, <2>7, <2>8 DEF FlagsInv
<1> QED BY <1>3, <1>4

(* zsv_finish ends the last cell, unless it is empty or the caller has aborted, and
   delivers the row. *)
LEMMA FlagsFinish ==
  ASSUME TypeOK, StageInv, RowInv, FlagsInv, Finish
  PROVE  FlagsInv'
<1>1. pc' = "done" /\ ~finished /\ pc = "idle"
  BY DEF Finish, MayFinish
<1>2. CASE ~DeliversFinalRow
  <2>1. calls' = calls
    BY <1>2 DEF Finish
  <2>2. QuotedWhenNeeded'
    BY <2>1 DEF FlagsInv, QuotedWhenNeeded, DeliveredCells
  <2> QED BY <1>1, <2>2, FlagsAtEnd DEF Live
<1>3. CASE DeliversFinalRow
  <2> DEFINE cs == IF HasFinalCell THEN AddCell(FinalCell, FinalQuoted) ELSE cells
             b == IF HasFinalCell THEN FinalCell.buff ELSE buff
             e == IF HasFinalCell THEN FinalLength + 1 ELSE cell_start
  <2>1. RowDl(b, cs, {"cell", "row"})
    BY <1>3 DEF Finish
  <2>2. ~abort /\ status # "cancelled" /\ Live /\ ~CutShort
    BY <1>1, <1>3 DEF DeliversFinalRow, StageInv, Live, CutShort
  <2>3. cells \in Seq(Cell)
    BY DEF TypeOK
  <2>4. ASSUME ~HasFinalCell
        PROVE  cells \in Seq(Cell) /\ \A k \in DOMAIN cells :
                 cells[k].quoted = {} => PlainCell(cells[k], buff, row_start, cell_start)
    <3>1. \A k \in DOMAIN cells : cells[k].quoted = {} => PlainCell(cells[k], buff, row_start, cell_start)
      BY <2>2 DEF FlagsInv, PlainInv, Unflagged
    <3> QED BY <2>3, <2>4, <3>1
  <2>5. ASSUME HasFinalCell
        PROVE  LET a == AddCell(FinalCell, FinalQuoted)
               IN  a \in Seq(Cell) /\ \A k \in DOMAIN a :
                     a[k].quoted = {} => PlainCell(a[k], FinalCell.buff, row_start, FinalLength + 1)
    <3> DEFINE n == FinalLength - cell_start
               q == FinalQuoted
               close == FinalClosePosition
               end == FinalLength
    <3>1. /\ Cursor = scanned_length /\ scanned_length \in Nat /\ scanned_length <= Size
          /\ cell_start \in 0 .. Size /\ Size \in Nat
      BY <1>1, <2>2, SizeAssumption DEF StageInv, TypeOK
    <3>2. end \in 0 .. Size + 1 /\ scanned_length <= end /\ cell_start <= end
      BY <2>5, <3>1 DEF FinalLength, HasFinalCell
    <3>3. n \in SizeT
      BY <3>1, <3>2, SizeAssumption DEF SizeT
    <3>4. close \in SizeT
      BY SizeAssumption DEF TypeOK, FinalClosePosition, ClosesOpenQuote, SizeT
    <3>5. q = {} => quoted = {} /\ end = Cursor
      BY <3>1 DEF FinalQuoted, FinalLength, ClosesOpenQuote, Open
    <3>6. q \in SUBSET Flags
      BY DEF FinalQuoted, TypeOK, Flags
    <3>7. cells # <<>> => cell_start <= Cursor
      BY <1>1, <2>2, NextCellRead DEF FlagsInv
    <3>8. FinalCell = Unquote(q, close, cell_start, n)
      BY DEF FinalCell
    <3>9. AddCell(FinalCell, q) \in Seq(Cell)
      BY <1>1, <2>5, <3>6, FinalCellType, AddCellType
    <3> HIDE DEF n, q, close, end
    <3>10. /\ end \in Nat /\ Cursor <= Size /\ Cursor <= end
           /\ q = {} => quoted = {} /\ ((n = end - cell_start /\ end = Cursor)
                                         \/ cell_start + n > Size + row_start)
      BY <3>1, <3>2, <3>5 DEF n, end
    <3>11. LET u == Unquote(q, close, cell_start, n)
               a == AddCell(u, q)
           IN  \A k \in DOMAIN a : a[k].quoted = {} => PlainCell(a[k], u.buff, row_start, end + 1)
      BY <2>2, <3>3, <3>4, <3>7, <3>10, PlainAdded, Zenon
    <3>12. \A k \in DOMAIN AddCell(FinalCell, q) : AddCell(FinalCell, q)[k].quoted = {} =>
             PlainCell(AddCell(FinalCell, q)[k], FinalCell.buff, row_start, end + 1)
      BY <3>8, <3>11
    <3> QED BY <2>5, <3>9, <3>12 DEF q, end
  <2>6. cs \in Seq(Cell) /\ \A k \in DOMAIN cs : cs[k].quoted = {} => PlainCell(cs[k], b, row_start, e)
    <3> HIDE DEF cs, b, e
    <3>1. CASE HasFinalCell
      <4>1. cs = AddCell(FinalCell, FinalQuoted) /\ b = FinalCell.buff /\ e = FinalLength + 1
        BY <3>1 DEF cs, b, e
      <4> QED BY <2>5, <3>1, <4>1
    <3>2. CASE ~HasFinalCell
      <4>1. cs = cells /\ b = buff /\ e = cell_start
        BY <3>2 DEF cs, b, e
      <4> QED BY <2>4, <3>2, <4>1
    <3> QED BY <3>1, <3>2
  <2> HIDE DEF cs, b, e
  <2>7. QuotedWhenNeeded
    BY DEF FlagsInv
  <2>8. QuotedWhenNeeded'
    BY <2>1, <2>6, <2>7, DeliversRow
  <2> QED BY <1>1, <2>8, FlagsAtEnd DEF Live
<1> QED BY <1>2, <1>3

(* At first nothing is scanned, and nothing delivered. *)
LEMMA FlagsInit ==
  ASSUME Init
  PROVE  FlagsInv
<1>1. Cursor = 0 /\ cell_start = 0 /\ cells = <<>> /\ calls = <<>> /\ pc = "idle"
  BY DEF Init, Cursor
<1>2. PlainInv /\ HereInv /\ SkipInv /\ TailInv
  BY <1>1 DEF PlainInv, HereInv, SkipInv, TailInv, Unflagged
<1>3. QuotedWhenNeeded
  BY <1>1 DEF QuotedWhenNeeded, DeliveredCells
<1> QED BY <1>2, <1>3 DEF FlagsInv

(* Every step keeps it. *)
LEMMA FlagsStep ==
  ASSUME TypeOK, StageInv, RowInv, FlagsInv, [Next]_vars
  PROVE  FlagsInv'
<1>1. CASE PreParse
  <2>1. CASE StartEmpty
    <3>1. /\ pc = "idle" /\ status # "cancelled" /\ old_bytes_read = 0 /\ old_bytes_read' = 0
          /\ pc' \in {"read", "truncate"} /\ partial_row_length' = partial_row_length
          /\ UNCHANGED <<cells, buff, row_start, cell_start, quoted, quote_close_position,
                         buffer_exceeded, calls>>
      BY <2>1 DEF StartEmpty, MayParse, EnterParse, posVars
    <3>2. Live /\ Cursor' = Cursor
      BY <3>1 DEF Live, Cursor
    <3> QED BY <3>1, <3>2, FlagsFrame
  <2> QED BY <1>1, <2>1, FlagsMove, FlagsFresh DEF PreParse
<1>2. CASE TruncateRow
  BY <1>2, FlagsTruncate
<1>3. CASE SkipBom \/ ReadNothing
  <2>1. /\ pc = "read" /\ pc' \in {"read", "idle"} /\ old_bytes_read = 0
        /\ UNCHANGED <<cells, buff, row_start, cell_start, quoted, quote_close_position,
                       buffer_exceeded, calls, old_bytes_read, partial_row_length>>
    BY <1>3 DEF SkipBom, ReadNothing, StageInv, bufVars, posVars, quoteVars, rowVars
  <2>2. Live /\ Cursor' = Cursor
    BY <2>1 DEF Live, Cursor, StageInv
  <2> QED BY <2>1, <2>2, FlagsFrame
<1>4. CASE Read
  BY <1>4, FlagsRead
<1>5. CASE SkipDoubledQuote \/ Plain \/ EscapedSpecial \/ VisitQuote
  BY <1>5, FlagsScan
<1>6. CASE EndCell \/ IgnoreLf \/ EndRow
  BY <1>6, FlagsEndCell, FlagsIgnoreLf, FlagsEndRow
<1>7. CASE FaultInCell \/ FaultInFinish
  <2>1. pc' = "fault" /\ calls' = calls
    BY <1>7 DEF FaultInCell, FaultInFinish
  <2>2. QuotedWhenNeeded'
    BY <2>1 DEF FlagsInv, QuotedWhenNeeded, DeliveredCells
  <2> QED BY <2>1, <2>2, FlagsAtEnd DEF Live
<1>8. CASE EndScan
  <2>1. /\ pc = "scan" /\ pc' = "idle" /\ old_bytes_read' = bytes_read
        /\ i = bytes_read /\ bytes_read > 0
        /\ UNCHANGED <<cells, buff, row_start, cell_start, quoted, quote_close_position,
                       buffer_exceeded, calls>>
    <3>1. i \in Nat /\ bytes_read \in Nat
      BY SizeAssumption DEF TypeOK
    <3> QED BY <1>8, <3>1 DEF EndScan, StageInv, posVars, quoteVars, rowVars
  <2>2. Live /\ Cursor' = Cursor
    BY <2>1 DEF Live, Cursor, StageInv
  <2> QED BY <2>1, <2>2, FlagsFrame
<1>9. CASE AbortBetweenCalls \/ UNCHANGED vars
  <2>1. UNCHANGED <<pc, status, i, old_bytes_read, partial_row_length, skip_next_delim,
                    cells, buff, row_start, cell_start, quoted, quote_close_position,
                    buffer_exceeded, calls>>
    BY <1>9 DEF AbortBetweenCalls, vars, bufVars, posVars, quoteVars, rowVars, scanVars
  <2>2. Live' = Live /\ Cursor' = Cursor
    BY <2>1 DEF Live, Cursor
  <2> QED BY <2>1, <2>2, FlagsFrame
<1>10. CASE Finish
  BY <1>10, FlagsFinish
<1> QED BY <1>1, <1>2, <1>3, <1>4, <1>5, <1>6, <1>7, <1>8, <1>9, <1>10 DEF Next, Scan

(* Whatever the input and its chunks, however often a row is truncated and wherever the
   caller aborts, a cell that is delivered with no quoted flag holds no delimiter, no
   quote and no line end: a writer may copy it out as it is (cell_dl, zsv_scan_delim,
   scanner_pre_parse, zsv_finish; common.h:65-68). *)
THEOREM QuotesWhenNeeded == Spec => []QuotedWhenNeeded
<1>1. Init => FlagsInv
  BY FlagsInit
<1>2. IInv /\ FlagsInv /\ [Next]_vars => FlagsInv'
  BY FlagsStep DEF IInv, SafetyInv
<1>3. FlagsInv => QuotedWhenNeeded
  BY DEF FlagsInv
<1> QED BY <1>1, <1>2, <1>3, Inductive, PTL DEF Spec

----
(* At most one call for each row of an input without quotes.                *)

(* A row that has begun is one more. *)
LEMMA DueFacts ==
  ASSUME NEW p \in ReadState
  PROVE  /\ Len(p.rows) \in Nat /\ Due(p) \in Nat /\ Len(p.rows) <= Due(p) /\ Due(p) <= Len(p.rows) + 1
         /\ p.begun => Due(p) = Len(p.rows) + 1
         /\ ~p.begun => Due(p) = Len(p.rows)
<1>1. Len(p.rows) \in Nat
  BY DEF ReadState
<1>2. CASE p.begun
  BY <1>1, <1>2 DEF Due
<1>3. CASE ~p.begun
  BY <1>1, <1>3 DEF Due
<1> QED BY <1>1, <1>2, <1>3

(* The rows of an input that ends at p are counted by Due. *)
LEMMA FinalRowsAreDue ==
  ASSUME NEW bytes, Promise!Parse(bytes) \in ReadState
  PROVE  /\ Len(Promise!FinalRowsOf(bytes)) = Due(Promise!Parse(bytes))
         /\ Due(Promise!Parse(bytes)) \in Nat
<1> DEFINE p == Promise!Parse(bytes)
           last_row == Promise!CloseCell(p).cells
<1>1. p.rows \in Seq(Seq(Content)) /\ p.begun \in BOOLEAN
  BY DEF ReadState
<1>2. Promise!FinalRowsOf(bytes) = IF p.begun THEN Append(p.rows, last_row) ELSE p.rows
  BY DEF Promise!FinalRowsOf
<1> HIDE DEF p, last_row
<1>3. Len(p.rows) \in Nat /\ Len(Append(p.rows, last_row)) = Len(p.rows) + 1
  BY <1>1, LenOfAppend
<1>4. Len(Promise!FinalRowsOf(bytes)) = Due(p) /\ Due(p) \in Nat
  <2>1. p \in ReadState
    BY DEF p
  <2>2. CASE p.begun
    BY <1>2, <1>3, <2>1, <2>2, DueFacts
  <2>3. CASE ~p.begun
    BY <1>2, <1>3, <2>1, <2>3, DueFacts
  <2> QED BY <2>2, <2>3
<1> QED BY <1>4 DEF p

(* A byte that is not a quote. *)
LEMMA PlainAdds ==
  ASSUME NEW p, PlainRead(p), NEW c \in Byte, c # Quote
  PROVE  LET q == Promise!AddToRow(p, c) IN
         /\ PlainRead(q)
         /\ q.afterCr <=> c = Cr
         /\ Due(p) \in Nat /\ Due(q) \in Nat /\ Due(p) <= Due(q)
         /\ Len(p.rows) \in Nat /\ Len(q.rows) \in Nat
         /\ c \notin {Cr, Lf} => q.begun /\ Len(q.rows) = Len(p.rows)
         /\ c \in {Cr, Lf} /\ ~(c = Lf /\ p.afterCr) => ~q.begun /\ Len(q.rows) = Len(p.rows) + 1
         /\ c = Lf /\ p.afterCr => ~q.begun /\ Len(q.rows) = Len(p.rows)
<1> DEFINE q == Promise!AddToRow(p, c)
<1>1. p \in ReadState /\ p.cell.mode # "open" /\ p.cell \in ReadCell /\ c \in Byte \cup {Junk}
      /\ Delim \notin {Cr, Lf} /\ Cr # Lf
  BY SpecialsAssumption DEF PlainRead, ReadState
<1>2. p.rows \in Seq(Seq(Content)) /\ Len(p.rows) \in Nat /\ p.begun \in BOOLEAN
      /\ p.afterCr \in BOOLEAN /\ (p.afterCr => ~p.begun)
  BY <1>1 DEF PlainRead, ReadState
<1>3. Promise!EmptyCell.mode = "start"
  BY DEF Promise!EmptyCell
<1>4. CASE c = Delim
  <2>1. q = Promise!CloseCell(p)
    BY <1>1, <1>4, AddDelim
  <2>2. q \in ReadState /\ q.rows = p.rows /\ q.cell = Promise!EmptyCell /\ q.begun = TRUE /\ q.afterCr = FALSE
    BY <1>1, <2>1, CloseCellFacts
  <2> HIDE DEF q
  <2>3. c \notin {Cr, Lf} /\ PlainRead(q)
    BY <1>1, <1>3, <1>4, <2>2 DEF PlainRead
  <2>4. Due(p) \in Nat /\ Due(q) \in Nat /\ Due(p) <= Due(q)
    BY <1>1, <1>2, <2>2, DueFacts
  <2>5. (q.afterCr <=> c = Cr) /\ Len(q.rows) = Len(p.rows)
    BY <1>1, <1>4, <2>2
  <2> QED BY <1>2, <2>2, <2>3, <2>4, <2>5 DEF q
<1>5. CASE c \in {Cr, Lf} /\ ~(c = Lf /\ p.afterCr)
  <2>1. /\ q \in ReadState /\ q.rows = Append(p.rows, Promise!CloseCell(p).cells)
        /\ q.cell = Promise!EmptyCell /\ q.begun = FALSE /\ (q.afterCr <=> c = Cr)
    BY <1>1, <1>5, AddRowEnd
  <2>2. Len(Append(p.rows, Promise!CloseCell(p).cells)) = Len(p.rows) + 1
    BY <1>2, LenOfAppend
  <2> HIDE DEF q
  <2>3. PlainRead(q) /\ Len(q.rows) = Len(p.rows) + 1
    BY <1>3, <2>1, <2>2 DEF PlainRead
  <2>4. Due(p) \in Nat /\ Due(q) \in Nat /\ Due(p) <= Due(q)
    BY <1>1, <1>2, <2>1, <2>3, DueFacts
  <2> QED BY <1>2, <1>5, <2>1, <2>3, <2>4 DEF q
<1>6. CASE c = Lf /\ p.afterCr
  <2>1. q \in ReadState /\ q.rows = p.rows /\ q.cell = p.cell /\ q.begun = p.begun /\ q.afterCr = FALSE
    BY <1>1, <1>6, AddLf
  <2> HIDE DEF q
  <2>2. PlainRead(q) /\ Due(q) = Due(p) /\ Due(p) \in Nat
    <3>1. PlainRead(q)
      BY <1>1, <1>2, <2>1 DEF PlainRead
    <3>2. ~p.begun /\ ~q.begun
      BY <1>2, <1>6, <2>1
    <3> QED BY <1>1, <2>1, <3>1, <3>2, DueFacts
  <2>3. (q.afterCr <=> c = Cr) /\ ~q.begun /\ Len(q.rows) = Len(p.rows)
    BY <1>1, <1>2, <1>6, <2>1
  <2> QED BY <1>2, <1>6, <2>2, <2>3 DEF q
<1>7. CASE c \notin {Delim, Cr, Lf}
  <2>1. /\ q \in ReadState /\ q.rows = p.rows /\ q.cell = Promise!AddByte(p.cell, c)
        /\ q.begun = TRUE /\ q.afterCr = FALSE
    <3>1. p.afterCr => c # Lf
      BY <1>7
    <3> QED BY <1>1, <1>7, <3>1, AddContent
  <2>2. q.cell.mode = Promise!NextMode(p.cell.mode, c)
    BY <1>1, <2>1, AddByteFacts
  <2>3. Promise!NextMode(p.cell.mode, c) # "open"
    BY <1>1, Zenon DEF Promise!NextMode, ReadCell, Mode
  <2> HIDE DEF q
  <2>4. PlainRead(q)
    BY <2>1, <2>2, <2>3 DEF PlainRead
  <2>5. Due(p) \in Nat /\ Due(q) \in Nat /\ Due(p) <= Due(q)
    BY <1>1, <1>2, <2>1, DueFacts
  <2>6. c \notin {Cr, Lf} /\ ~(c = Cr) /\ Len(q.rows) = Len(p.rows)
    BY <1>7, <2>1
  <2> QED BY <1>2, <2>1, <2>4, <2>5, <2>6 DEF q
<1> QED BY <1>4, <1>5, <1>6, <1>7, Zenon

(* Reading nothing is reading plainly. *)
LEMMA PlainStart == PlainRead(Promise!Start)
<1>1. Promise!Start.cell = Promise!EmptyCell /\ Promise!Start.afterCr = FALSE
  BY DEF Promise!Start
<1>2. Promise!EmptyCell.mode = "start"
  BY DEF Promise!EmptyCell
<1> QED BY <1>1, <1>2, StartType DEF PlainRead

(* An input without quotes is read plainly from its first byte to its last, and
   what is due only grows. *)
LEMMA PlainParse ==
  ASSUME NEW bytes \in Seq(Byte), Quote \notin Range(bytes), NEW n \in Nat, n <= Len(bytes)
  PROVE  LET p == Promise!Parse(SubSeq(bytes, 1, n)) IN
         /\ PlainRead(p)
         /\ p.afterCr <=> n > 0 /\ bytes[n] = Cr
         /\ \A m \in 0 .. n : Due(Promise!Parse(SubSeq(bytes, 1, m))) <= Due(p)
<1> DEFINE After(m) == Promise!Parse(SubSeq(bytes, 1, m))
           Good(m) == /\ PlainRead(After(m))
                      /\ After(m).afterCr <=> m > 0 /\ bytes[m] = Cr
                      /\ \A l \in 0 .. m : Due(After(l)) <= Due(After(m))
           Bad == {m \in 0 .. n : ~Good(m)}
<1>1. SUFFICES Bad = {}
  <2>1. n \in 0 .. n
    OBVIOUS
  <2> HIDE DEF After, Good
  <2>2. Good(n)
    BY <1>1, <2>1
  <2> QED BY <2>2 DEF Good, After
<1>2. SUFFICES ASSUME Bad # {}  PROVE  FALSE
  OBVIOUS
<1>3. PICK m \in Bad : \A l \in Bad : m <= l
  <2>1. Bad \subseteq Nat
    OBVIOUS
  <2> HIDE DEF Bad
  <2> QED BY <1>2, <2>1, LeastNumber
<1>4. After(0) = Promise!Start
  <2>1. SubSeq(bytes, 1, 0) = <<>>
    OBVIOUS
  <2> QED BY <2>1, ParseNothing
<1>5. Good(0)
  <2>1. PlainRead(After(0)) /\ After(0).afterCr = FALSE
    BY <1>4, PlainStart DEF Promise!Start
  <2>2. Due(After(0)) \in Nat
    BY <1>4, StartType, DueFacts
  <2> HIDE DEF After
  <2>3. \A l \in 0 .. 0 : l = 0
    OBVIOUS
  <2>4. \A l \in 0 .. 0 : Due(After(l)) <= Due(After(0))
    BY <2>2, <2>3
  <2> QED BY <2>1, <2>4
<1>6. m \in Nat /\ m <= n /\ ~Good(m)
  BY <1>3
<1>7. m # 0
  <2> HIDE DEF Good
  <2> QED BY <1>5, <1>6
<1>8. m - 1 \in Nat /\ m - 1 < Len(bytes) /\ m - 1 \in 0 .. n /\ (m - 1) + 1 = m /\ Len(bytes) \in Nat
  BY <1>6, <1>7
<1>9. Good(m - 1)
  <2> HIDE DEF Good
  <2>1. ~(m - 1 \in Bad)
    <3>1. m - 1 \in Bad => m <= m - 1
      BY <1>3
    <3> QED BY <1>6, <3>1
  <2> QED BY <1>8, <2>1
<1> DEFINE c == bytes[m]
           p == After(m - 1)
<1>10. c \in Byte /\ c # Quote
  <2>1. m \in 1 .. Len(bytes)
    BY <1>6, <1>7, <1>8
  <2> QED BY <2>1 DEF Range
<1>11. After(m) = Promise!AddToRow(p, c)
  <2>1. /\ SubSeq(bytes, 0 + 1, m - 1) \in Seq(Byte)
        /\ SubSeq(bytes, 0 + 1, (m - 1) + 1) = Append(SubSeq(bytes, 0 + 1, m - 1), bytes[(m - 1) + 1])
    <3>1. 0 \in Nat /\ 0 <= m - 1 /\ m - 1 <= Len(bytes)
      BY <1>8
    <3> QED BY <1>8, <3>1, SubSeqFacts
  <2>2. SubSeq(bytes, 1, m) = Append(SubSeq(bytes, 1, m - 1), c) /\ SubSeq(bytes, 1, m - 1) \in Seq(Byte)
    BY <1>8, <2>1
  <2> QED BY <2>2, ParseOneMore
<1>12. PlainRead(p) /\ \A l \in 0 .. m - 1 : Due(After(l)) <= Due(p)
  BY <1>9
<1> HIDE DEF After, p, c
<1>13. /\ PlainRead(After(m)) /\ (After(m).afterCr <=> c = Cr)
       /\ Due(p) \in Nat /\ Due(After(m)) \in Nat /\ Due(p) <= Due(After(m))
  BY <1>10, <1>11, <1>12, PlainAdds
<1>14. ASSUME NEW l \in 0 .. m
       PROVE  Due(After(l)) <= Due(After(m))
  <2>1. CASE l = m
    BY <1>13, <2>1
  <2>2. CASE l # m
    <3>1. l \in 0 .. m - 1
      BY <1>6, <2>2
    <3>2. Due(After(l)) <= Due(p)
      BY <1>12, <3>1
    <3>3. Due(After(l)) \in Nat
      <4>1. Good(l)
        <5> HIDE DEF Good
        <5>1. ~(l \in Bad)
          <6>1. l \in Bad => m <= l
            BY <1>3
          <6> QED BY <1>6, <3>1, <6>1
        <5> QED BY <1>6, <3>1, <5>1
      <4>2. After(l) \in ReadState
        BY <4>1 DEF PlainRead
      <4> QED BY <4>2, DueFacts
    <3> QED BY <1>13, <3>2, <3>3
  <2> QED BY <2>1, <2>2
<1>15. After(m).afterCr <=> m > 0 /\ bytes[m] = Cr
  BY <1>6, <1>7, <1>13 DEF c
<1> QED BY <1>6, <1>13, <1>14, <1>15

(* One more call is one more row, if it is the row handler's. *)
LEMMA CallCounted ==
  ASSUME TypeOK
  PROVE  /\ CallCount \in Nat
         /\ \A call : calls' = Append(calls, call) =>
              CallCount' = IF call.handler = "row" THEN CallCount + 1 ELSE CallCount
<1>1. calls \in Seq(HandlerCall)
  BY DEF TypeOK
<1> DEFINE n == Len(calls)
<1>2. n \in Nat /\ DOMAIN calls = 1 .. n
  BY <1>1
<1>3. IsFiniteSet(RowCalls)
  <2>1. IsFiniteSet(1 .. n)
    BY <1>2, FS_Interval
  <2>2. RowCalls \in SUBSET (1 .. n)
    BY <1>2 DEF RowCalls
  <2> QED BY <2>1, <2>2, FS_Subset
<1>4. CallCount \in Nat
  BY <1>3, FS_CardinalityType DEF CallCount
<1>5. ASSUME NEW call, calls' = Append(calls, call)
      PROVE  CallCount' = IF call.handler = "row" THEN CallCount + 1 ELSE CallCount
  <2>1. /\ DOMAIN calls' = 1 .. n + 1 /\ calls'[n + 1] = call
        /\ \A k \in 1 .. n : calls'[k] = calls[k]
    BY <1>1, <1>5
  <2>2. 1 .. n + 1 = (1 .. n) \cup {n + 1} /\ n + 1 \notin 1 .. n
    BY <1>2
  <2> HIDE DEF n
  <2>3. CASE call.handler = "row"
    <3>1. RowCalls' = RowCalls \cup {n + 1}
      BY <1>2, <2>1, <2>2, <2>3 DEF RowCalls
    <3>2. n + 1 \notin RowCalls
      BY <1>2, <2>2 DEF RowCalls
    <3> QED BY <1>3, <2>3, <3>1, <3>2, FS_AddElement DEF CallCount
  <2>4. CASE call.handler # "row"
    <3>1. RowCalls' = RowCalls
      BY <1>2, <2>1, <2>2, <2>4 DEF RowCalls
    <3> QED BY <2>4, <3>1 DEF CallCount
  <2> QED BY <2>3, <2>4
<1> QED BY <1>4, <1>5

(* What row_dl does to the counts. *)
LEMMA RowDlCounts ==
  ASSUME TypeOK, NEW b, NEW cs, NEW points, RowDl(b, cs, points)
  PROVE  /\ CallCount \in Nat /\ CallCount' \in Nat /\ CallCount' <= CallCount + 1
         /\ buffer_exceeded => CallCount' = CallCount
         /\ cum_row_count' = cum_row_count + 1
         /\ abort => abort'
         /\ AtMaxRows => abort'
         /\ have_cell' => abort' /\ cs # <<>>
<1>1. CallCount \in Nat
  BY CallCounted
<1>2. CallRowHandler(b, cs) /\ cum_row_count' = cum_row_count + 1
      /\ have_cell' = (abort' /\ cs # <<>>)
      /\ \E stop \in {abort} \cup MayAbortIn(points) : abort' = (stop \/ AtMaxRows)
  BY DEF RowDl
<1>3. (abort => abort') /\ (AtMaxRows => abort')
  <2>1. PICK stop \in {abort} \cup MayAbortIn(points) : abort' = (stop \/ AtMaxRows)
    BY <1>2
  <2>2. abort => stop
    BY <2>1 DEF MayAbortIn
  <2> QED BY <2>1, <2>2
<1>4. have_cell' => abort' /\ cs # <<>>
  BY <1>2
<1> DEFINE call(h) == [handler |-> h, number |-> data_row_count, cells |-> Delivered(b, cs)]
<1>5. CASE ~buffer_exceeded
  <2>1. calls' = Append(calls, call("row"))
    BY <1>2, <1>5 DEF CallRowHandler
  <2>2. call("row").handler = "row"
    OBVIOUS
  <2> HIDE DEF call
  <2>3. CallCount' = CallCount + 1
    BY <2>1, <2>2, CallCounted
  <2> QED BY <1>1, <1>2, <1>3, <1>4, <1>5, <2>3
<1>6. CASE buffer_exceeded
  <2>1. calls' = calls \/ calls' = Append(calls, call("overflow"))
    BY <1>2, <1>6 DEF CallRowHandler
  <2>2. call("overflow").handler # "row"
    OBVIOUS
  <2> HIDE DEF call
  <2>3. calls' = calls => CallCount' = CallCount
    BY DEF CallCount, RowCalls
  <2>4. CallCount' = CallCount
    BY <2>1, <2>2, <2>3, CallCounted
  <2> QED BY <1>1, <1>2, <1>3, <1>4, <2>4
<1> QED BY <1>5, <1>6

----
(* What has been scanned of an input without quotes. *)
LEMMA SeenPlain ==
  ASSUME TypeOK, StageInv, OneStreamInv, FedPlain
  PROVE  /\ PlainRead(Seen) /\ Seen \in ReadState
         /\ Seen.afterCr <=> Scanned > 0 /\ fed[Scanned] = Cr
         /\ Len(Promise!FinalRowsOf(Consumed)) = Due(Seen)
         /\ \A n \in 0 .. Scanned : Due(Promise!Parse(SubSeq(fed, 1, n))) <= Due(Seen)
<1>1. fed \in Seq(Byte) /\ Scanned \in Nat /\ Scanned <= Len(fed)
  BY ScannedRange DEF TypeOK
<1>2. Quote \notin Range(fed)
  BY DEF FedPlain
<1>3. /\ PlainRead(Promise!Parse(SubSeq(fed, 1, Scanned)))
      /\ Promise!Parse(SubSeq(fed, 1, Scanned)).afterCr <=> Scanned > 0 /\ fed[Scanned] = Cr
      /\ \A n \in 0 .. Scanned :
           Due(Promise!Parse(SubSeq(fed, 1, n))) <= Due(Promise!Parse(SubSeq(fed, 1, Scanned)))
  BY <1>1, <1>2, PlainParse
<1>4. Seen = Promise!Parse(SubSeq(fed, 1, Scanned))
  BY DEF Seen, Consumed
<1>5. PlainRead(Seen) /\ Seen \in ReadState
  BY <1>3, <1>4 DEF PlainRead
<1>6. Len(Promise!FinalRowsOf(Consumed)) = Due(Seen)
  BY <1>5, FinalRowsAreDue DEF Seen
<1> QED BY <1>3, <1>4, <1>5, <1>6

(* The same after a step. *)
LEMMA SeenPlainNext ==
  (TypeOK /\ StageInv /\ OneStreamInv /\ FedPlain =>
     /\ PlainRead(Seen) /\ Seen \in ReadState
     /\ Seen.afterCr <=> Scanned > 0 /\ fed[Scanned] = Cr
     /\ Len(Promise!FinalRowsOf(Consumed)) = Due(Seen)
     /\ \A n \in 0 .. Scanned : Due(Promise!Parse(SubSeq(fed, 1, n))) <= Due(Seen))'
<1>1. TypeOK /\ StageInv /\ OneStreamInv /\ FedPlain =>
        /\ PlainRead(Seen) /\ Seen \in ReadState
        /\ Seen.afterCr <=> Scanned > 0 /\ fed[Scanned] = Cr
        /\ Len(Promise!FinalRowsOf(Consumed)) = Due(Seen)
        /\ \A n \in 0 .. Scanned : Due(Promise!Parse(SubSeq(fed, 1, n))) <= Due(Seen)
  BY SeenPlain
<1> QED BY <1>1, PTL

(* Calls stay within what is due if there are none, *)
LEMMA CallsFrame ==
  ASSUME TypeOK, TypeOK', StageInv, StageInv', OneStreamInv, OneStreamInv', CallsInv,
         [Next]_vars, UNCHANGED calls
  PROVE  CallsInv'
<1>1. SUFFICES ASSUME FedPlain', api' = "more" \/ ~finished'
               PROVE  CallCount' <= Due(Seen')
  BY DEF CallsInv
<1>2. /\ fed' = fed \/ \E bytes \in Seq(Byte) : fed' = fed \o bytes
      /\ FedPlain
  BY <1>1, SoundKept DEF FedPlain
<1>3. api' = api /\ (finished => finished')
  <2>1. api' = api
    BY Zenon DEF Next, PreParse, Scan, MovePartialRow, StartFreshRow, StartEmpty, EnterParse,
           TruncateRow, SkipBom, ReadNothing, Read, SkipDoubledQuote, Plain, EscapedSpecial, EndCell,
           IgnoreLf, EndRow, FaultInCell, VisitQuote, EndScan, AbortBetweenCalls, Finish, FaultInFinish,
           vars, envVars
  <2>2. finished => finished'
    BY DEF Next, PreParse, Scan, MovePartialRow, StartFreshRow, StartEmpty, EnterParse,
           TruncateRow, SkipBom, ReadNothing, Read, SkipDoubledQuote, Plain, EscapedSpecial, EndCell,
           IgnoreLf, EndRow, FaultInCell, VisitQuote, EndScan, AbortBetweenCalls, Finish, FaultInFinish,
           vars, TypeOK
  <2> QED BY <2>1, <2>2
<1>4. CallCount <= Due(Seen)
  BY <1>1, <1>2, <1>3 DEF CallsInv
<1>5. CallCount' = CallCount
  BY DEF CallCount, RowCalls
<1>6. Scanned \in Nat /\ Scanned' \in Nat /\ Scanned <= Scanned' /\ Scanned <= Len(fed)
  BY ScannedRange, ScannedRangeNext, ScannedGrows
<1>7. Consumed = SubSeq(fed', 1, Scanned)
  <2>1. CASE fed' = fed
    BY <2>1 DEF Consumed
  <2>2. CASE \E bytes \in Seq(Byte) : fed' = fed \o bytes
    <3>1. PICK bytes \in Seq(Byte) : fed' = fed \o bytes
      BY <2>2
    <3>2. fed \in Seq(Byte) /\ 0 \in Nat /\ 0 <= Scanned
      BY <1>6 DEF TypeOK
    <3>3. SubSeq(fed \o bytes, 0 + 1, Scanned) = SubSeq(fed, 0 + 1, Scanned)
      BY <1>6, <3>2, SubSeqFacts
    <3>4. 0 + 1 = 1
      OBVIOUS
    <3>5. SubSeq(fed', 1, Scanned) = SubSeq(fed, 1, Scanned)
      BY <3>1, <3>3, <3>4, Zenon
    <3> QED BY <3>5 DEF Consumed
  <2> QED BY <1>2, <2>1, <2>2
<1>8. /\ Seen' \in ReadState
      /\ \A n \in 0 .. Scanned' : Due(Promise!Parse(SubSeq(fed', 1, n))) <= Due(Seen')
  BY <1>1, SeenPlainNext
<1>9. Due(Seen) <= Due(Seen')
  <2>1. Scanned \in 0 .. Scanned'
    BY <1>6
  <2>2. Due(Promise!Parse(SubSeq(fed', 1, Scanned))) <= Due(Seen')
    BY <1>8, <2>1
  <2> QED BY <1>7, <2>2 DEF Seen
<1>10. CallCount \in Nat /\ Due(Seen) \in Nat /\ Due(Seen') \in Nat
  <2>1. Seen \in ReadState
    BY <1>2, SeenPlain
  <2> QED BY <1>8, <2>1, CallCounted, DueFacts
<1> QED BY <1>4, <1>5, <1>9, <1>10

(* A byte that is scanned, when there are no quotes: no quote is open, none is
   skipped, and cell_dl moves nothing. *)
LEMMA PlainByte ==
  ASSUME TypeOK, StageInv, FeedInv, OneStreamInv, FedPlain, Scanning
  PROVE  /\ pc = "scan" /\ Going /\ i \in 0 .. Size - 1 /\ Cursor = i /\ bytes_read \in Nat /\ i < bytes_read
         /\ quoted = {} /\ ~Open /\ ~skip_next_delim
         /\ CellHere.fault = FALSE /\ CellHere.buff = buff
         /\ buff[i] \in Byte /\ buff[i] # Quote
         /\ Scanned \in Nat /\ Scanned = Len(fed) - (bytes_read - i) /\ Len(fed) \in Nat
         /\ Scanned < Len(fed) /\ fed[Scanned + 1] = buff[i]
<1> USE SizeAssumption
<1>1. /\ pc = "scan" /\ i < bytes_read /\ i \in Nat /\ bytes_read \in Nat /\ bytes_read <= Size /\ fed \in Seq(Byte)
  BY DEF Scanning, TypeOK
<1>2. Going
  BY <1>1 DEF Going, StageInv, OneStreamInv
<1>3. i \in 0 .. Size - 1 /\ Cursor = i
  BY <1>1 DEF Cursor
<1>4. quoted = {} /\ Sound
  BY DEF FeedInv, FedPlain, Sound
<1>5. ~Open /\ CellHere.fault = FALSE /\ CellHere.buff = buff
  BY <1>4 DEF Open, CellHere, Unquote
<1>6. Scanned \in Nat /\ Len(fed) \in Nat /\ Scanned = Len(fed) - (bytes_read - i) /\ Scanned < Len(fed)
  <2>1. Scanned \in Nat /\ Len(fed) \in Nat
    BY ScannedRange
  <2>2. Scanned = Len(fed) - (bytes_read - i)
    BY <1>1 DEF Scanned
  <2> QED BY <1>1, <2>1, <2>2
<1>7. fed[Scanned + 1] = buff[i] /\ Scanned + 1 \in 1 .. Len(fed)
  <2>1. \A m \in i .. bytes_read - 1 : buff[m] = fed[Len(fed) - bytes_read + m + 1]
    BY <1>1, <1>4, Zenon DEF FeedInv
  <2>2. i \in i .. bytes_read - 1 /\ Len(fed) - bytes_read + i + 1 = Scanned + 1
    BY <1>1, <1>6
  <2>3. Scanned + 1 \in 1 .. Len(fed)
    BY <1>6
  <2> QED BY <2>1, <2>2, <2>3
<1>8. buff[i] \in Byte /\ buff[i] # Quote
  BY <1>1, <1>7 DEF FedPlain, Range
<1>9. ~skip_next_delim
  BY <1>1, <1>8 DEF StageInv
<1> QED BY <1>1, <1>2, <1>3, <1>4, <1>5, <1>6, <1>7, <1>8, <1>9

(* It is one more byte of what has been seen. *)
LEMMA SeenByte ==
  ASSUME TypeOK, StageInv, FeedInv, OneStreamInv, FedPlain, Scanning,
         fed' = fed, Scanned' = Scanned + 1, NEW c, c = buff[i]
  PROVE  /\ Seen' = Promise!AddToRow(Seen, c) /\ fed'[Scanned'] = c /\ Scanned' > 0
         /\ c \in Byte /\ c # Quote /\ PlainRead(Seen)
<1>1. /\ c \in Byte /\ c # Quote /\ Scanned \in Nat /\ Len(fed) \in Nat
      /\ Scanned < Len(fed) /\ fed[Scanned + 1] = c
  BY PlainByte
<1>2. fed \in Seq(Byte)
  BY DEF TypeOK
<1>3. /\ SubSeq(fed, 1, Scanned) \in Seq(Byte)
      /\ SubSeq(fed, 1, Scanned + 1) = Append(SubSeq(fed, 1, Scanned), fed[Scanned + 1])
  <2>1. 0 \in Nat /\ 0 <= Scanned /\ Scanned <= Len(fed)
    BY <1>1
  <2>2. /\ SubSeq(fed, 0 + 1, Scanned) \in Seq(Byte)
        /\ SubSeq(fed, 0 + 1, Scanned + 1) = Append(SubSeq(fed, 0 + 1, Scanned), fed[Scanned + 1])
    BY <1>1, <1>2, <2>1, SubSeqFacts
  <2> QED BY <2>2
<1>4. Consumed = SubSeq(fed, 1, Scanned) /\ Consumed' = SubSeq(fed, 1, Scanned + 1)
  BY DEF Consumed
<1>5. Seen' = Promise!AddToRow(Seen, c)
  <2>1. Promise!Parse(Append(SubSeq(fed, 1, Scanned), c))
          = Promise!AddToRow(Promise!Parse(SubSeq(fed, 1, Scanned)), c)
    BY <1>3, ParseOneMore
  <2> QED BY <1>1, <1>3, <1>4, <2>1 DEF Seen
<1>6. PlainRead(Seen)
  BY SeenPlain
<1> QED BY <1>1, <1>5, <1>6

(* The scanner sees the carriage return that the rows so far ended with. *)
LEMMA LastIsCr ==
  ASSUME TypeOK, StageInv, FeedInv, OneStreamInv, AheadInv, FedPlain, Scanning
  PROVE  ScannerLast = Cr <=> Seen.afterCr
<1>1. /\ pc = "scan" /\ Going /\ Cursor = i /\ i \in Nat
  BY PlainByte, SizeAssumption
<1>2. Seen.afterCr <=> Scanned > 0 /\ fed[Scanned] = Cr
  BY SeenPlain
<1>3. CASE i > 0
  BY <1>1, <1>2, <1>3 DEF AheadInv, ScannerLast
<1>4. CASE i = 0
  <2>1. last = IF Scanned > 0 THEN fed[Scanned] ELSE Junk
    BY <1>1, <1>4 DEF AheadInv
  <2>2. ScannerLast = last
    BY <1>4 DEF ScannerLast
  <2> QED BY <1>2, <2>1, <2>2, SpecialsAssumption
<1> QED BY <1>1, <1>3, <1>4

(* The first two parts of AheadInv after a byte, which is not the first of the
   buffer. *)
LEMMA ByteBehind ==
  ASSUME TypeOK, StageInv, FeedInv, OneStreamInv, FedPlain, Scanning,
         pc' = pc, NextByte, UNCHANGED <<fed, status, buff>>
  PROVE  /\ Cursor' = i + 1 /\ Scanned' = Scanned + 1 /\ i' = i + 1 /\ pc' = "scan" /\ FedPlain'
         /\ Scanned' > 0 /\ buff'[Cursor' - 1] = fed'[Scanned']
         /\ ~(pc' \in {"read", "truncate"} \/ (pc' = "scan" /\ i' = 0))
         /\ ~AfterCut'
<1>1. /\ pc = "scan" /\ i \in 0 .. Size - 1 /\ bytes_read \in Nat /\ Scanned \in Nat
      /\ Scanned = Len(fed) - (bytes_read - i) /\ Len(fed) \in Nat /\ fed[Scanned + 1] = buff[i]
  BY PlainByte
<1>2. i' = i + 1 /\ bytes_read' = bytes_read /\ pc' = "scan" /\ i \in Nat
  BY <1>1 DEF NextByte
<1>3. Cursor' = i + 1 /\ Scanned' = Scanned + 1
  BY <1>1, <1>2 DEF Cursor, Scanned
<1>4. (i + 1) - 1 = i /\ i + 1 # 0 /\ Scanned + 1 > 0
  BY <1>1, <1>2
<1>5. ~AfterCut'
  BY <1>2 DEF AfterCut
<1> QED BY <1>1, <1>2, <1>3, <1>4, <1>5 DEF FedPlain

----
(* Each step keeps AheadInv and, if it calls a handler, CallsInv. *)

(* A byte of content begins the row, if it has not begun, *)
LEMMA AheadPlain ==
  ASSUME TypeOK, StageInv, FeedInv, OneStreamInv, CallsInv, AheadInv, FedPlain, Plain
  PROVE  AheadInv'
<1> DEFINE c == buff[i]
<1>1. /\ Scanning /\ c \notin {Delim, Cr, Lf, Quote} /\ pc' = pc /\ NextByte
      /\ UNCHANGED <<fed, status, buff, calls, buffer_exceeded, have_cell, abort, cells, finished>>
  BY DEF Plain, Scanning, NextByte, bufVars, envVars, rowVars
<1>2. Going /\ pc = "scan"
  BY <1>1, PlainByte
<1>3. /\ Scanned' = Scanned + 1 /\ Scanned' > 0 /\ buff'[Cursor' - 1] = fed'[Scanned']
      /\ ~(pc' \in {"read", "truncate"} \/ (pc' = "scan" /\ i' = 0)) /\ ~AfterCut'
  BY <1>1, ByteBehind
<1>4. Seen' = Promise!AddToRow(Seen, c) /\ c \in Byte /\ c # Quote /\ PlainRead(Seen)
  BY <1>1, <1>3, SeenByte
<1>5. Seen'.begun /\ Len(Seen'.rows) = Len(Seen.rows)
  <2>1. c \notin {Cr, Lf}
    BY <1>1
  <2> HIDE DEF c
  <2> QED BY <1>4, <2>1, PlainAdds
<1>6. CallCount' = CallCount
  BY <1>1 DEF CallCount, RowCalls
<1>7. ~buffer_exceeded => CallCount <= Len(Seen.rows)
  BY <1>2 DEF AheadInv, AfterCut
<1>8. have_cell => abort \/ cells # <<>>
  BY <1>2 DEF AheadInv
<1> QED BY <1>1, <1>3, <1>5, <1>6, <1>7, <1>8 DEF AheadInv

(* and so does the end of a cell. *)
LEMMA AheadEndCell ==
  ASSUME TypeOK, StageInv, FeedInv, OneStreamInv, CallsInv, AheadInv, FedPlain, EndCell
  PROVE  AheadInv'
<1> DEFINE c == buff[i]
<1>1. /\ Scanning /\ c = Delim /\ pc' = pc /\ NextByte /\ buff' = CellHere.buff
      /\ UNCHANGED <<fed, status, calls, buffer_exceeded, finished>>
      /\ cells' = AddCell(CellHere, quoted)
  BY DEF EndCell, Visit, Scanning, NextByte, envVars
<1>2. Going /\ pc = "scan" /\ buff' = buff
  BY <1>1, PlainByte
<1>3. /\ Scanned' = Scanned + 1 /\ Scanned' > 0 /\ buff'[Cursor' - 1] = fed'[Scanned']
      /\ ~(pc' \in {"read", "truncate"} \/ (pc' = "scan" /\ i' = 0)) /\ ~AfterCut'
  BY <1>1, <1>2, ByteBehind
<1>4. Seen' = Promise!AddToRow(Seen, c) /\ c \in Byte /\ c # Quote /\ PlainRead(Seen)
  BY <1>1, <1>3, SeenByte
<1>5. Seen'.begun /\ Len(Seen'.rows) = Len(Seen.rows)
  <2>1. c \notin {Cr, Lf}
    BY <1>1, SpecialsAssumption
  <2> HIDE DEF c
  <2> QED BY <1>4, <2>1, PlainAdds
<1>6. CallCount' = CallCount
  BY <1>1 DEF CallCount, RowCalls
<1>7. ~buffer_exceeded => CallCount <= Len(Seen.rows)
  BY <1>2 DEF AheadInv, AfterCut
<1>8. cells' # <<>>
  BY <1>1, CellAddedSomething
<1> QED BY <1>1, <1>3, <1>5, <1>6, <1>7, <1>8 DEF AheadInv

(* The line feed of a CR LF pair: the row before it has ended, so that no row is
   being thrown away. *)
LEMMA AheadIgnoreLf ==
  ASSUME TypeOK, StageInv, FeedInv, OneStreamInv, CallsInv, AheadInv, FedPlain, IgnoreLf
  PROVE  AheadInv'
<1> DEFINE c == buff[i]
<1>1. /\ Scanning /\ c = Lf /\ ScannerLast = Cr /\ pc' = pc /\ NextByte /\ row_start' = i + 1
      /\ UNCHANGED <<fed, status, buff, calls, buffer_exceeded, have_cell, abort, cells, finished>>
  BY DEF IgnoreLf, Visit, Scanning, NextByte, bufVars, envVars, rowVars
<1>2. Going /\ pc = "scan" /\ i \in 0 .. Size - 1
  BY <1>1, PlainByte
<1>3. /\ Cursor' = i + 1 /\ Scanned' = Scanned + 1 /\ Scanned' > 0 /\ buff'[Cursor' - 1] = fed'[Scanned']
      /\ ~(pc' \in {"read", "truncate"} \/ (pc' = "scan" /\ i' = 0)) /\ ~AfterCut'
  BY <1>1, ByteBehind
<1>4. Seen' = Promise!AddToRow(Seen, c) /\ c \in Byte /\ c # Quote /\ PlainRead(Seen)
  BY <1>1, <1>3, SeenByte
<1>5. Seen.afterCr /\ ~Seen.begun
  BY <1>1, <1>4, LastIsCr DEF PlainRead
<1>6. Len(Seen'.rows) = Len(Seen.rows)
  <2>1. c = Lf
    BY <1>1
  <2> HIDE DEF c
  <2> QED BY <1>4, <1>5, <2>1, PlainAdds
<1>7. CallCount' = CallCount
  BY <1>1 DEF CallCount, RowCalls
<1>8. ~buffer_exceeded /\ CallCount <= Len(Seen.rows)
  BY <1>2, <1>5 DEF AheadInv, AfterCut
<1>9. have_cell => abort \/ cells # <<>>
  BY <1>2 DEF AheadInv
<1>10. ~(row_start' < Cursor')
  BY <1>1, <1>2, <1>3
<1> QED BY <1>1, <1>3, <1>6, <1>7, <1>8, <1>9, <1>10 DEF AheadInv

(* A row ends: if it was cut short its tail is not counted, else it is one more
   row, and one more call. *)
LEMMA AheadEndRow ==
  ASSUME TypeOK, StageInv, FeedInv, OneStreamInv, CallsInv, AheadInv, FedPlain, EndRow
  PROVE  AheadInv' /\ CallsInv'
<1> USE SizeAssumption
<1> DEFINE c == buff[i]
<1>1. /\ Scanning /\ c \in {Cr, Lf} /\ (c = Lf => ScannerLast # Cr) /\ buff' = CellHere.buff
      /\ RowDl(CellHere.buff, AddCell(CellHere, quoted), {"cell", "row"})
      /\ UNCHANGED <<fed, finished, api>> /\ buffer_exceeded' = FALSE
  <2>1. AtRowEnd /\ buff' = CellHere.buff
        /\ RowDl(CellHere.buff, AddCell(CellHere, quoted), {"cell", "row"})
        /\ envVars' = envVars /\ finished' = finished /\ buffer_exceeded' = FALSE
    BY Zenon DEF EndRow
  <2>2. Scanning /\ c \in {Cr, Lf} /\ (c = Lf => ScannerLast # Cr)
    BY <2>1, SpecialsAssumption DEF AtRowEnd, Visit
  <2>3. UNCHANGED <<fed, api>>
    BY <2>1 DEF envVars
  <2> QED BY <2>1, <2>2, <2>3
<1>2. /\ Going /\ pc = "scan" /\ i \in 0 .. Size - 1 /\ buff' = buff /\ i < bytes_read /\ bytes_read \in Nat
      /\ Scanned = Len(fed) - (bytes_read - i) /\ Len(fed) \in Nat /\ Scanned \in Nat
  BY <1>1, PlainByte
<1>3. \/ abort' /\ pc' = "idle" /\ status' = "cancelled" /\ UNCHANGED <<i, bytes_read>>
      \/ ~abort' /\ pc' = pc /\ status' = status /\ NextByte /\ row_start' = i + 1
  BY DEF EndRow, scanVars
<1>4. Scanned' = Scanned + 1
  <2>1. CASE abort' /\ pc' = "idle" /\ status' = "cancelled" /\ UNCHANGED <<i, bytes_read>>
    <3>1. Smaller(i + 1, bytes_read) = i + 1
      BY <1>2 DEF Smaller
    <3>2. Scanned' = Len(fed) - (bytes_read - (i + 1))
      BY <1>1, <2>1, <3>1 DEF Scanned, Smaller
    <3> QED BY <1>2, <3>2
  <2>2. CASE ~abort' /\ pc' = pc /\ status' = status /\ NextByte
    BY <1>1, <1>2, <2>2, ByteBehind
  <2> QED BY <1>3, <2>1, <2>2
<1>5. Seen' = Promise!AddToRow(Seen, c) /\ c \in Byte /\ c # Quote /\ PlainRead(Seen)
  BY <1>1, <1>4, SeenByte
<1>6. ~(c = Lf /\ Seen.afterCr)
  BY <1>1, LastIsCr
<1>7. /\ ~Seen'.begun /\ Len(Seen'.rows) = Len(Seen.rows) + 1 /\ Len(Seen.rows) \in Nat
      /\ PlainRead(Seen')
  <2>1. c \in {Cr, Lf}
    BY <1>1
  <2> HIDE DEF c
  <2> QED BY <1>5, <1>6, <2>1, PlainAdds
<1>8. /\ CallCount \in Nat /\ CallCount' \in Nat /\ CallCount' <= CallCount + 1
      /\ (buffer_exceeded => CallCount' = CallCount)
      /\ (have_cell' => abort')
  BY <1>1, RowDlCounts
<1>9. CallCount' <= Len(Seen'.rows)
  <2>1. CASE ~buffer_exceeded
    <3>1. CallCount <= Len(Seen.rows)
      BY <1>2, <2>1 DEF AheadInv, AfterCut
    <3> QED BY <1>7, <1>8, <3>1
  <2>2. CASE buffer_exceeded
    <3>1. CallCount <= Due(Seen)
      BY <1>2 DEF CallsInv, Going
    <3>2. Due(Seen) \in Nat /\ Due(Seen) <= Len(Seen.rows) + 1
      BY <1>5, DueFacts DEF PlainRead
    <3> QED BY <1>7, <1>8, <2>2, <3>1, <3>2
  <2> QED BY <2>1, <2>2
<1>10. CallsInv'
  <2>1. Due(Seen') \in Nat /\ Len(Seen'.rows) <= Due(Seen') /\ Len(Seen'.rows) \in Nat
    BY <1>7, DueFacts DEF PlainRead
  <2>2. CallCount' <= Due(Seen')
    BY <1>8, <1>9, <2>1
  <2> QED BY <2>2 DEF CallsInv
<1>11. AheadInv'
  <2>1. CASE abort' /\ pc' = "idle" /\ status' = "cancelled"
    BY <2>1 DEF AheadInv, Going
  <2>2. CASE ~abort' /\ pc' = pc /\ status' = status /\ NextByte /\ row_start' = i + 1
    <3>1. /\ Cursor' = i + 1 /\ Scanned' > 0 /\ buff'[Cursor' - 1] = fed'[Scanned']
          /\ ~(pc' \in {"read", "truncate"} \/ (pc' = "scan" /\ i' = 0)) /\ ~AfterCut'
      BY <1>1, <1>2, <2>2, ByteBehind
    <3>2. ~(row_start' < Cursor')
      BY <1>2, <2>2, <3>1
    <3> QED BY <1>1, <1>8, <1>9, <2>2, <3>1, <3>2 DEF AheadInv
  <2> QED BY <1>3, <2>1, <2>2
<1> QED BY <1>10, <1>11

(* A call begins: with one stream of input, no row was cut short by an abort. *)
LEMMA AheadPreParse ==
  ASSUME MaxInputs = 1, TypeOK, StageInv, OneStreamInv, AheadInv, FedPlain, PreParse
  PROVE  AheadInv'
<1> USE SizeAssumption
<1>1. /\ status = "ok" /\ pc = "idle" /\ ~finished /\ pc' \in {"read", "truncate"} /\ old_bytes_read' = 0
      /\ UNCHANGED <<status, fed, have_cell, abort, calls, finished, buffer_exceeded>>
      /\ old_bytes_read \in Nat /\ partial_row_length \in Nat /\ row_start \in Nat /\ Len(fed) \in Nat
      /\ DOMAIN buff = 0 .. Size - 1 /\ old_bytes_read <= Size
  <2>1. /\ MayParse /\ pc' \in {"read", "truncate"} /\ old_bytes_read' = 0
        /\ UNCHANGED <<status, fed, have_cell, abort, calls, finished, buffer_exceeded>>
    BY DEF PreParse, MovePartialRow, StartFreshRow, StartEmpty, EnterParse, envVars
  <2>2. status = "ok" /\ pc = "idle" /\ ~finished
    BY <2>1, MayParseFacts
  <2>3. /\ old_bytes_read \in Nat /\ partial_row_length \in Nat /\ row_start \in Nat
        /\ fed \in Seq(Byte) /\ buff \in Buffer /\ old_bytes_read <= Size
    BY DEF TypeOK
  <2>4. Len(fed) \in Nat /\ DOMAIN buff = 0 .. Size - 1
    BY <2>3 DEF Buffer
  <2> QED BY <2>1, <2>2, <2>3, <2>4
<1>2. Scanned = Len(fed) /\ Scanned' = Scanned /\ Seen' = Seen /\ CallCount' = CallCount /\ Going
  BY <1>1 DEF Scanned, Seen, Consumed, CallCount, RowCalls, Going
<1>3. ~AfterCut
  <2>1. partial_row_length < Size
    <3>1. CASE old_bytes_read > 0
      BY <3>1 DEF StageInv
    <3>2. CASE old_bytes_read = 0
      <4>1. fed = <<>>
        BY <1>1, <3>2 DEF OneStreamInv
      <4>2. partial_row_length <= 0
        BY <4>1 DEF OneStreamInv
      <4> QED BY <1>1, <4>2
    <3> QED BY <1>1, <3>1, <3>2
  <2> QED BY <1>1, <2>1 DEF AfterCut
<1>4. ~AfterCut'
  <2>1. partial_row_length' = Size => pc' = "truncate"
    BY DEF PreParse, MovePartialRow, StartFreshRow, StartEmpty, EnterParse
  <2> QED BY <2>1 DEF AfterCut
<1>5. /\ Cursor > 0 => Scanned > 0 /\ buff[Cursor - 1] = fed[Scanned]
      /\ have_cell => abort \/ cells # <<>>
      /\ row_start < Cursor /\ ~buffer_exceeded => Seen.begun
      /\ IF buffer_exceeded THEN Seen.begun ELSE CallCount <= Len(Seen.rows)
  BY <1>2, <1>3 DEF AheadInv
<1>6. CASE MovePartialRow
  <2>1. /\ old_bytes_read > 0 /\ row_start < old_bytes_read /\ Cursor = old_bytes_read
        /\ last' = buff[old_bytes_read - 1]
        /\ buff' = [ k \in DOMAIN buff |-> IF k < old_bytes_read - row_start
                                     THEN buff[k + row_start] ELSE buff[k] ]
        /\ cells' = RebasedCells /\ row_start' = 0 /\ Cursor' = old_bytes_read - row_start
    BY <1>1, <1>6 DEF MovePartialRow, EnterParse, Cursor
  <2>2. Scanned > 0 /\ buff[old_bytes_read - 1] = fed[Scanned]
    BY <1>5, <2>1
  <2>3. buff'[Cursor' - 1] = buff[old_bytes_read - 1]
    <3>1. /\ Cursor' - 1 \in 0 .. Size - 1 /\ Cursor' - 1 < old_bytes_read - row_start
          /\ (Cursor' - 1) + row_start = old_bytes_read - 1
      BY <1>1, <2>1
    <3> QED BY <1>1, <2>1, <3>1
  <2>4. ~buffer_exceeded => Seen.begun
    BY <1>5, <2>1
  <2>5. cells' = <<>> <=> cells = <<>>
    BY <2>1, CellsKept
  <2> QED BY <1>1, <1>2, <1>4, <1>5, <2>1, <2>2, <2>3, <2>4, <2>5 DEF AheadInv
<1>7. CASE StartFreshRow
  <2>1. /\ old_bytes_read > 0 /\ Cursor = old_bytes_read /\ partial_row_length = 0
        /\ last' = buff[old_bytes_read - 1] /\ cells' = cells
        /\ row_start' = 0 /\ Cursor' = 0
    BY <1>1, <1>7 DEF StartFreshRow, EnterParse, Cursor, StageInv
  <2>2. Scanned > 0 /\ buff[old_bytes_read - 1] = fed[Scanned]
    BY <1>5, <2>1
  <2> QED BY <1>1, <1>2, <1>4, <1>5, <2>1, <2>2 DEF AheadInv
<1>8. CASE StartEmpty
  <2>1. /\ old_bytes_read = 0 /\ last' = Junk /\ UNCHANGED <<cells, row_start>>
        /\ Cursor' = partial_row_length
    BY <1>1, <1>8 DEF StartEmpty, EnterParse, Cursor, posVars
  <2>2. Scanned = 0 /\ partial_row_length = 0
    BY <1>1, <1>2, <2>1 DEF OneStreamInv
  <2> QED BY <1>1, <1>2, <1>4, <1>5, <2>1, <2>2 DEF AheadInv
<1> QED BY <1>6, <1>7, <1>8 DEF PreParse

(* A row is cut short: it has begun, so it is one of those that are due. *)
LEMMA AheadTruncate ==
  ASSUME TypeOK, StageInv, FeedInv, OneStreamInv, CallsInv, AheadInv, FedPlain, TruncateRow
  PROVE  AheadInv' /\ CallsInv'
<1> USE SizeAssumption
<1>1. /\ pc = "truncate" /\ pc' = "read" /\ RowDl(buff, cells, {"row"})
      /\ buffer_exceeded' = (IF abort' THEN FALSE ELSE TRUE)
      /\ partial_row_length' = (IF abort' THEN partial_row_length ELSE 0)
      /\ UNCHANGED <<buff, last, old_bytes_read, row_start, fed, finished, status, api>>
  BY DEF TruncateRow, posVars, envVars
<1>2. /\ partial_row_length = Size /\ old_bytes_read = 0 /\ row_start = 0 /\ status # "cancelled"
      /\ Len(fed) \in Nat /\ Size > 0
  <2>1. Len(fed) \in Nat
    BY DEF TypeOK
  <2> QED BY <1>1, <2>1 DEF StageInv
<1>3. Going /\ ~AfterCut
  BY <1>1, <1>2 DEF Going, AfterCut, OneStreamInv
<1>4. /\ Cursor = Size /\ Cursor' \in {0, Size} /\ Scanned' = Scanned /\ Seen' = Seen
      /\ (buffer_exceeded' => Cursor' = 0) /\ (~buffer_exceeded' => AfterCut')
  BY <1>1, <1>2 DEF Cursor, Scanned, Seen, Consumed, AfterCut
<1>5. /\ Scanned > 0 /\ buff[Size - 1] = fed[Scanned] /\ Seen.begun /\ last = fed[Scanned]
      /\ (~buffer_exceeded => CallCount <= Len(Seen.rows)) /\ CallCount <= Due(Seen)
  <2>1. Scanned > 0 /\ buff[Size - 1] = fed[Scanned] /\ last = fed[Scanned]
    BY <1>1, <1>2, <1>3, <1>4 DEF AheadInv
  <2>2. Seen.begun /\ (~buffer_exceeded => CallCount <= Len(Seen.rows))
    BY <1>2, <1>3, <1>4 DEF AheadInv
  <2>3. CallCount <= Due(Seen)
    BY <1>3 DEF CallsInv, Going
  <2> QED BY <2>1, <2>2, <2>3
<1>6. /\ CallCount \in Nat /\ CallCount' \in Nat /\ CallCount' <= CallCount + 1
      /\ (buffer_exceeded => CallCount' = CallCount)
      /\ (have_cell' => abort')
  BY <1>1, RowDlCounts
<1>7. AheadInv'
  BY <1>1, <1>2, <1>4, <1>5, <1>6 DEF AheadInv
<1>8. CallsInv'
  <2>1. Due(Seen) \in Nat /\ Due(Seen) = Len(Seen.rows) + 1 /\ Len(Seen.rows) \in Nat
    BY <1>5, SeenPlain, DueFacts
  <2>2. CallCount' <= Due(Seen')
    BY <1>4, <1>5, <1>6, <2>1
  <2> QED BY <2>2 DEF CallsInv
<1> QED BY <1>7, <1>8

(* A read leaves the scanner where it was in the input. *)
LEMMA AheadRead ==
  ASSUME TypeOK, StageInv, FeedInv, OneStreamInv, AheadInv, FedPlain, Read, pc' # "fault"
  PROVE  AheadInv'
<1> USE SizeAssumption
<1> DEFINE k == partial_row_length
<1>1. PICK n \in Nat \ {0} : \E bytes \in Seq(Byte) :
           /\ Len(bytes) = n /\ fed' = fed \o bytes
           /\ k + n <= Size
           /\ \A m \in 0 .. Size - 1 :
                buff'[m] = IF m >= k /\ m < k + n THEN bytes[m - k + 1] ELSE buff[m]
           /\ BeginScan(bytes) /\ pc' = "scan" /\ pc = "read"
           /\ UNCHANGED <<last, posVars, rowVars, finished, status, abort, calls>>
  BY ReadFacts
<1>2. PICK bytes \in Seq(Byte) :
           /\ Len(bytes) = n /\ fed' = fed \o bytes
           /\ k + n <= Size
           /\ \A m \in 0 .. Size - 1 :
                buff'[m] = IF m >= k /\ m < k + n THEN bytes[m - k + 1] ELSE buff[m]
           /\ BeginScan(bytes) /\ pc' = "scan" /\ pc = "read"
           /\ UNCHANGED <<last, posVars, rowVars, finished, status, abort, calls>>
  BY <1>1
<1>3. /\ k \in Nat /\ fed \in Seq(Byte) /\ Len(fed) \in Nat /\ n \in Nat /\ n > 0
      /\ Cursor = k /\ Scanned = Len(fed) /\ Going
  <2>1. k \in Nat /\ fed \in Seq(Byte)
    BY DEF TypeOK
  <2>2. old_bytes_read = 0 /\ status # "cancelled" /\ ~finished
    BY <1>2 DEF StageInv, OneStreamInv
  <2> QED BY <1>2, <2>1, <2>2 DEF Cursor, Scanned, Going
<1>4. /\ Len(fed') = Len(fed) + n
      /\ \A j \in 1 .. Len(fed) : fed'[j] = fed[j]
  <2>1. /\ Len(fed \o bytes) = Len(fed) + Len(bytes)
        /\ \A j \in 1 .. Len(fed) : (fed \o bytes)[j] = fed[j]
    BY <1>3, CatFacts
  <2> QED BY <1>2, <2>1
<1>5. bytes_read' = k + n /\ i' = k
  <2>1. quoted = {}
    BY DEF FeedInv, FedPlain
  <2> QED BY <1>2, <1>3, <2>1 DEF BeginScan
<1>6. Cursor' = k /\ Scanned' = Scanned
  BY <1>2, <1>3, <1>4, <1>5 DEF Cursor, Scanned
<1>7. Seen' = Seen
  <2>1. 0 \in Nat /\ 0 <= Scanned /\ Scanned <= Len(fed) /\ 0 + 1 = 1
    BY <1>3
  <2>2. SubSeq(fed \o bytes, 0 + 1, Scanned) = SubSeq(fed, 0 + 1, Scanned)
    BY <1>3, <2>1, SubSeqFacts
  <2>3. SubSeq(fed', 1, Scanned) = SubSeq(fed, 1, Scanned)
    BY <1>2, <2>1, <2>2, Zenon
  <2> QED BY <1>6, <2>3 DEF Seen, Consumed
<1>8. ~AfterCut /\ ~AfterCut'
  <2>1. k # Size
    BY <1>2, <1>3
  <2> QED BY <1>2, <2>1 DEF AfterCut
<1>9. /\ Cursor > 0 => Scanned > 0 /\ buff[Cursor - 1] = fed[Scanned]
      /\ last = IF Scanned > 0 THEN fed[Scanned] ELSE Junk
      /\ have_cell => abort \/ cells # <<>>
      /\ row_start < Cursor /\ ~buffer_exceeded => Seen.begun
      /\ IF buffer_exceeded THEN Seen.begun ELSE CallCount <= Len(Seen.rows)
  BY <1>2, <1>3, <1>8 DEF AheadInv
<1>10. Scanned > 0 => fed'[Scanned] = fed[Scanned]
  BY <1>3, <1>4
<1>11. Cursor > 0 => buff'[Cursor - 1] = buff[Cursor - 1]
  <2>1. ASSUME k > 0
        PROVE  buff'[k - 1] = buff[k - 1]
    <3>1. k - 1 \in 0 .. Size - 1 /\ ~(k - 1 >= k)
      BY <1>2, <1>3, <2>1
    <3> QED BY <1>2, <3>1
  <2> QED BY <1>3, <2>1
<1>12. UNCHANGED <<last, have_cell, abort, cells, row_start, buffer_exceeded, calls>>
  BY <1>2 DEF posVars, rowVars
<1>13. CallCount' = CallCount
  BY <1>12 DEF CallCount, RowCalls
<1>14. Scanned' = Scanned /\ Cursor' = Cursor
  BY <1>3, <1>6
<1>15. last' = IF Scanned' > 0 THEN fed'[Scanned'] ELSE Junk
  BY <1>9, <1>10, <1>12, <1>14
<1>16. Cursor' > 0 => Scanned' > 0 /\ buff'[Cursor' - 1] = fed'[Scanned']
  BY <1>9, <1>10, <1>11, <1>14
<1>17. IF buffer_exceeded' \/ AfterCut' THEN Seen'.begun ELSE CallCount' <= Len(Seen'.rows)
  BY <1>7, <1>8, <1>9, <1>12, <1>13
<1>18. /\ have_cell' => abort' \/ cells' # <<>>
       /\ row_start' < Cursor' /\ ~buffer_exceeded' => Seen'.begun
  BY <1>7, <1>9, <1>12, <1>14
<1> QED BY <1>15, <1>16, <1>17, <1>18 DEF AheadInv

(* Steps that scan nothing and call nothing. *)
LEMMA AheadIdle ==
  ASSUME TypeOK, StageInv, OneStreamInv, AheadInv,
         SkipBom \/ ReadNothing \/ EndScan \/ AbortBetweenCalls \/ UNCHANGED vars
  PROVE  AheadInv'
<1> USE SizeAssumption
<1>1. /\ UNCHANGED <<buff, fed, have_cell, cells, row_start, buffer_exceeded, calls, last, finished>>
      /\ abort => abort'
      /\ FedPlain' = FedPlain /\ CallCount' = CallCount
  BY DEF SkipBom, ReadNothing, EndScan, AbortBetweenCalls, vars, bufVars, posVars, rowVars, envVars,
         FedPlain, CallCount, RowCalls
<1>2. /\ i \in Nat /\ bytes_read \in Nat /\ Len(fed) \in Nat /\ partial_row_length \in Nat
  <2>1. fed \in Seq(Byte)
    BY DEF TypeOK
  <2> QED BY <2>1 DEF TypeOK
<1>3. CASE SkipBom \/ AbortBetweenCalls \/ UNCHANGED vars
  <2>1. UNCHANGED <<pc, status, i, bytes_read, old_bytes_read, partial_row_length>>
    BY <1>3 DEF SkipBom, AbortBetweenCalls, vars, bufVars, scanVars
  <2>2. Cursor' = Cursor /\ Scanned' = Scanned /\ Seen' = Seen /\ AfterCut' = AfterCut /\ Going' = Going
    BY <1>1, <2>1 DEF Cursor, Scanned, Seen, Consumed, AfterCut, Going
  <2> QED BY <1>1, <2>1, <2>2 DEF AheadInv
<1>4. CASE ReadNothing
  <2>1. /\ pc = "read" /\ pc' = "idle" /\ status' = "no_more_input" /\ status # "cancelled"
        /\ UNCHANGED <<old_bytes_read, partial_row_length, abort>>
    BY <1>4 DEF ReadNothing, bufVars, StageInv
  <2>2. /\ Cursor' = Cursor /\ Scanned' = Scanned /\ AfterCut' = AfterCut
        /\ Going' = Going
    BY <1>1, <2>1 DEF Cursor, Scanned, AfterCut, Going
  <2>3. Seen' = Seen
    BY <1>1, <2>2 DEF Seen, Consumed
  <2> QED BY <1>1, <2>1, <2>2, <2>3 DEF AheadInv
<1>5. CASE EndScan
  <2>1. /\ pc = "scan" /\ pc' = "idle" /\ status' = "ok" /\ status # "cancelled" /\ i = bytes_read
        /\ bytes_read > 0 /\ old_bytes_read' = bytes_read /\ partial_row_length = 0
        /\ UNCHANGED <<partial_row_length, abort>>
    BY <1>5 DEF EndScan, StageInv, TypeOK
  <2>2. Cursor' = Cursor /\ Scanned' = Scanned /\ ~AfterCut /\ ~AfterCut' /\ Going' = Going
    BY <1>1, <1>2, <2>1 DEF Cursor, Scanned, AfterCut, Going
  <2>3. Seen' = Seen
    BY <1>1, <2>2 DEF Seen, Consumed
  <2> QED BY <1>1, <2>1, <2>2, <2>3 DEF AheadInv
<1> QED BY <1>3, <1>4, <1>5

(* zsv_finish delivers the last row if it has begun. *)
LEMMA CallsFinish ==
  ASSUME TypeOK, TypeOK', StageInv, StageInv', RowInv, FeedInv, OneStreamInv, OneStreamInv',
         CallsInv, AheadInv, Finish
  PROVE  CallsInv'
<1> USE SizeAssumption
<1>1. /\ MayFinish /\ pc = "idle" /\ ~finished /\ finished' = TRUE
      /\ UNCHANGED <<fed, api, i, bytes_read>> /\ pc' = "done"
  BY DEF Finish, MayFinish, scanVars, envVars
<1>2. CASE ~DeliversFinalRow
  <2>1. UNCHANGED calls
    BY <1>2 DEF Finish
  <2>2. [Next]_vars
    BY DEF Next
  <2> QED BY <2>1, <2>2, CallsFrame
<1>3. CASE DeliversFinalRow
  <2>1. SUFFICES ASSUME FedPlain', api' = "more"
                 PROVE  CallCount' <= Due(Seen')
    BY <1>1 DEF CallsInv
  <2>2. FedPlain /\ api = "more"
    BY <1>1, <2>1 DEF FedPlain
  <2>3. ~abort /\ (HasFinalCell \/ have_cell)
    BY <1>3 DEF DeliversFinalRow
  <2>4. status = "no_more_input"
    BY <1>1, <2>2, <2>3 DEF MayFinish, StageInv, TypeOK
  <2>5. Going /\ ~AfterCut /\ ~CutShort
    <3>1. ~CutShort
      BY <2>3 DEF CutShort
    <3>2. partial_row_length < Size /\ partial_row_length \in Nat
      BY <1>1, <3>1 DEF StageInv, TypeOK
    <3> QED BY <1>1, <2>4, <3>1, <3>2 DEF Going, AfterCut
  <2>6. /\ old_bytes_read = 0 /\ row_start = 0 /\ scanned_length = Cursor /\ Cursor \in Nat
        /\ i = bytes_read /\ i \in Nat /\ Len(fed) \in Nat
    <3>1. old_bytes_read = 0 /\ row_start = 0 /\ i = bytes_read
      BY <1>1, <2>4 DEF OneStreamInv
    <3>2. scanned_length = Cursor
      BY <1>1, <2>4 DEF StageInv
    <3>3. scanned_length \in Nat /\ i \in Nat /\ fed \in Seq(Byte)
      BY <1>1 DEF TypeOK
    <3> QED BY <3>1, <3>2, <3>3
  <2>7. Seen' = Seen
    <3>1. Scanned = Len(fed)
      BY <1>1, <2>4 DEF Scanned
    <3>2. Scanned' = Len(fed)
      <4>1. Smaller(i + 1, bytes_read) = bytes_read
        BY <2>6 DEF Smaller
      <4>2. CASE status' = "cancelled"
        <5>1. Scanned' = Len(fed) - (bytes_read - Smaller(i + 1, bytes_read))
          BY <1>1, <4>2 DEF Scanned, Smaller
        <5> QED BY <2>6, <4>1, <5>1
      <4>3. CASE status' # "cancelled"
        BY <1>1, <4>3 DEF Scanned
      <4> QED BY <4>2, <4>3
    <3> QED BY <1>1, <3>1, <3>2 DEF Seen, Consumed
  <2>8. Seen.begun
    <3>1. CASE buffer_exceeded
      BY <2>2, <2>5, <3>1 DEF AheadInv
    <3>2. CASE ~buffer_exceeded
      <4>1. Cursor > 0
        <5>1. CASE HasFinalCell
          <6>1. quoted = {}
            BY <2>2 DEF FeedInv, FedPlain
          <6>2. FinalLength = Cursor
            BY <2>6, <6>1 DEF FinalLength, ClosesOpenQuote, Open
          <6> QED BY <5>1, <6>2 DEF HasFinalCell
        <5>2. CASE have_cell
          <6>1. cells # <<>>
            BY <2>2, <2>3, <2>5, <5>2 DEF AheadInv
          <6>2. CellsInRow /\ OrderInv
            BY <1>1, <2>4, <2>5, <3>2 DEF RowInv, InRow
          <6>3. cells \in Seq(Cell) /\ 1 \in DOMAIN cells
            <7>1. cells \in Seq(Cell)
              BY DEF TypeOK
            <7> QED BY <6>1, <7>1
          <6>4. cells[1] \in Cell
            BY <6>3
          <6>5. cells[1].str \in Nat /\ cells[1].len \in Nat
            BY <6>4 DEF Cell, SizeT
          <6>6. cells[1].str + cells[1].len < cell_start /\ cell_start <= Cursor
            BY <6>2, <6>3 DEF CellsInRow, OrderInv
          <6>7. cell_start \in Nat
            BY DEF TypeOK
          <6> QED BY <2>6, <6>5, <6>6, <6>7
        <5> QED BY <2>3, <5>1, <5>2
      <4> QED BY <2>2, <2>5, <2>6, <3>2, <4>1 DEF AheadInv
    <3> QED BY <3>1, <3>2
  <2>9. /\ CallCount \in Nat /\ CallCount' \in Nat /\ CallCount' <= CallCount + 1
        /\ (buffer_exceeded => CallCount' = CallCount)
    <3>1. \E b, cs : RowDl(b, cs, {"cell", "row"})
      BY <1>3 DEF Finish
    <3>2. PICK b, cs : RowDl(b, cs, {"cell", "row"})
      BY <3>1
    <3> QED BY <3>2, RowDlCounts
  <2>10. /\ CallCount <= Due(Seen)
         /\ ~buffer_exceeded => CallCount <= Len(Seen.rows)
    BY <1>1, <2>2, <2>5 DEF CallsInv, AheadInv
  <2>11. Due(Seen) \in Nat /\ Due(Seen) = Len(Seen.rows) + 1 /\ Len(Seen.rows) \in Nat
    BY <2>2, <2>8, SeenPlain, DueFacts
  <2> QED BY <2>7, <2>9, <2>10, <2>11
<1> QED BY <1>2, <1>3

----
(* The limit on the rows.                                                   *)

(* A parser that has stopped stays so, with one stream of input. *)
LEMMA StaysStopped ==
  ASSUME MaxInputs = 1, TypeOK, StageInv, OneStreamInv, [Next]_vars, Stopped
  PROVE  Stopped'
<1> USE SizeAssumption
<1>1. CASE finished \/ pc = "fault"
  <2>1. pc \in {"done", "fault"}
    BY <1>1 DEF OneStreamInv
  <2>2. UNCHANGED vars
    BY <2>1 DEF Next, PreParse, Scan, MovePartialRow, StartFreshRow, StartEmpty, MayParse,
         TruncateRow, SkipBom, ReadNothing, Read, SkipDoubledQuote, Plain, EscapedSpecial, EndCell, IgnoreLf,
         EndRow, AtRowEnd, FaultInCell, VisitQuote, EndScan, Visit, Scanning, AbortBetweenCalls, Finish,
         FaultInFinish, MayFinish
  <2> QED BY <1>1, <2>2 DEF vars, Stopped, Going
<1>2. CASE status = "cancelled"
  <2>1. pc \in {"idle", "done", "fault"} /\ ~MayParse
    BY <1>2 DEF StageInv, MayParse
  <2>2. AbortBetweenCalls \/ Finish \/ FaultInFinish \/ UNCHANGED vars
    BY <2>1 DEF Next, PreParse, Scan, MovePartialRow, StartFreshRow, StartEmpty,
         TruncateRow, SkipBom, ReadNothing, Read, SkipDoubledQuote, Plain,
         EscapedSpecial, EndCell, IgnoreLf, EndRow, AtRowEnd, FaultInCell, VisitQuote, EndScan, Visit, Scanning
  <2> QED BY <1>2, <2>2 DEF AbortBetweenCalls, Finish, FaultInFinish, vars, Stopped, Going
<1>3. CASE AfterCut /\ Going
  <2>1. partial_row_length = Size /\ pc \in {"read", "idle"} /\ ~finished
    BY <1>3 DEF AfterCut, Going
  <2>2. ~MayParse
    <3>1. SUFFICES ASSUME MayParse
                   PROVE  FALSE
      OBVIOUS
    <3>2. status = "ok" /\ pc = "idle"
      BY <3>1, MayParseFacts
    <3>3. CASE old_bytes_read > 0
      BY <2>1, <3>3 DEF StageInv
    <3>4. CASE old_bytes_read = 0
      <4>1. fed = <<>>
        BY <3>2, <3>4 DEF OneStreamInv
      <4> QED BY <2>1, <4>1 DEF OneStreamInv
    <3>5. old_bytes_read \in Nat
      BY DEF TypeOK
    <3> QED BY <3>3, <3>4, <3>5
  <2>3. SkipBom \/ ReadNothing \/ Read \/ AbortBetweenCalls \/ Finish \/ FaultInFinish \/ UNCHANGED vars
    BY <2>1, <2>2 DEF Next, PreParse, Scan, MovePartialRow, StartFreshRow, StartEmpty,
         TruncateRow, SkipDoubledQuote, Plain,
         EscapedSpecial, EndCell, IgnoreLf, EndRow, AtRowEnd, FaultInCell, VisitQuote, EndScan, Visit, Scanning
  <2>4. CASE Read
    <3>1. pc' = "fault"
      <4>1. SUFFICES ASSUME pc' # "fault"
                     PROVE  FALSE
        OBVIOUS
      <4>2. \E n \in Nat \ {0} : partial_row_length + n <= Size
        BY <2>4, <4>1, ReadFacts
      <4> QED BY <2>1, <4>2
    <3> QED BY <3>1 DEF Stopped, Going
  <2>5. CASE SkipBom \/ ReadNothing \/ AbortBetweenCalls
    <3>1. partial_row_length' = partial_row_length /\ pc' \in {"read", "idle"}
      BY <2>1, <2>5 DEF SkipBom, ReadNothing, AbortBetweenCalls, bufVars
    <3> QED BY <2>1, <3>1 DEF Stopped, AfterCut
  <2>6. CASE Finish \/ FaultInFinish
    BY <2>6 DEF Finish, FaultInFinish, Stopped, Going
  <2>7. CASE UNCHANGED vars
    BY <1>3, <2>7 DEF vars, bufVars, Stopped, AfterCut
  <2> QED BY <2>3, <2>4, <2>5, <2>6, <2>7
<1> QED BY <1>1, <1>2, <1>3 DEF Stopped, Going

(* An abort is never taken back. *)
LEMMA AbortStays ==
  ASSUME TypeOK, [Next]_vars, abort
  PROVE  abort'
<1>1. CASE TruncateRow
  <2>1. RowDl(buff, cells, {"row"})
    BY <1>1 DEF TruncateRow
  <2> QED BY <2>1, RowDlCounts
<1>2. CASE EndRow
  <2>1. RowDl(CellHere.buff, AddCell(CellHere, quoted), {"cell", "row"})
    BY <1>2, Zenon DEF EndRow
  <2> QED BY <2>1, RowDlCounts
<1>3. CASE Finish
  BY <1>3 DEF Finish, DeliversFinalRow
<1>4. CASE EndCell
  <2>1. abort' \in {abort} \cup MayAbortIn({"cell"})
    BY <1>4 DEF EndCell
  <2> QED BY <2>1 DEF MayAbortIn
<1>5. CASE ~TruncateRow /\ ~EndRow /\ ~Finish /\ ~EndCell
  BY <1>5 DEF Next, PreParse, Scan, MovePartialRow, StartFreshRow, StartEmpty, EnterParse, SkipBom,
         ReadNothing, Read, SkipDoubledQuote, Plain, EscapedSpecial, IgnoreLf, FaultInCell, VisitQuote,
         EndScan, AbortBetweenCalls, FaultInFinish, vars
<1> QED BY <1>1, <1>2, <1>3, <1>4, <1>5

(* Every step keeps the number of rows within the limit. *)
LEMMA LimitStep ==
  ASSUME MaxInputs = 1, TypeOK, StageInv, OneStreamInv, LimitInv, [Next]_vars
  PROVE  LimitInv'
<1> USE SizeAssumption
<1>1. CallCount \in Nat /\ cum_row_count \in Nat
  BY CallCounted DEF TypeOK
<1>2. ASSUME UNCHANGED <<calls, cum_row_count>>
      PROVE  LimitInv'
  <2>1. CallCount' = CallCount
    BY <1>2 DEF CallCount, RowCalls
  <2>2. (abort => abort') /\ (Stopped => Stopped')
    BY AbortStays, StaysStopped
  <2> QED BY <1>2, <2>1, <2>2 DEF LimitInv, Stopped
<1>3. ASSUME NEW b, NEW cs, NEW points, RowDl(b, cs, points), ~abort \/ ~Stopped, abort' => Stopped'
      PROVE  LimitInv'
  <2>1. /\ CallCount' \in Nat /\ CallCount' <= CallCount + 1 /\ cum_row_count' = cum_row_count + 1
        /\ (AtMaxRows => abort')
    BY <1>3, RowDlCounts
  <2>2. CallCount' <= cum_row_count'
    BY <1>1, <2>1 DEF LimitInv
  <2>3. ASSUME MaxRows > 0
        PROVE  cum_row_count' < MaxRows \/ (cum_row_count' = MaxRows /\ abort' /\ Stopped')
    <3>1. cum_row_count < MaxRows
      BY <1>3, <2>3 DEF LimitInv, Stopped
    <3>2. cum_row_count' = MaxRows => abort'
      BY <2>1, <2>3 DEF AtMaxRows
    <3> QED BY <1>1, <1>3, <2>1, <3>1, <3>2
  <2> QED BY <2>2, <2>3 DEF LimitInv, Stopped
<1>4. CASE TruncateRow
  <2>1. pc = "truncate" /\ RowDl(buff, cells, {"row"}) /\ pc' = "read"
        /\ partial_row_length' = (IF abort' THEN partial_row_length ELSE 0)
    BY <1>4 DEF TruncateRow
  <2>2. partial_row_length = Size /\ ~Stopped
    BY <2>1 DEF StageInv, OneStreamInv, Stopped, Going, AfterCut
  <2>3. abort' => Stopped'
    BY <2>1, <2>2 DEF Stopped, AfterCut
  <2> QED BY <1>3, <2>1, <2>2, <2>3
<1>5. CASE EndRow
  <2>1. AtRowEnd /\ RowDl(CellHere.buff, AddCell(CellHere, quoted), {"cell", "row"})
        /\ (abort' => status' = "cancelled")
    BY <1>5, Zenon DEF EndRow
  <2>2. pc = "scan"
    BY <2>1 DEF AtRowEnd, Visit, Scanning
  <2>3. ~Stopped
    BY <2>2 DEF StageInv, OneStreamInv, Stopped, Going, AfterCut
  <2>4. abort' => Stopped'
    BY <2>1 DEF Stopped, Going
  <2> QED BY <1>3, <2>1, <2>3, <2>4
<1>6. CASE Finish /\ DeliversFinalRow
  <2>1. PICK b, cs : RowDl(b, cs, {"cell", "row"})
    BY <1>6 DEF Finish
  <2>2. ~abort /\ Stopped'
    BY <1>6 DEF Finish, DeliversFinalRow, Stopped, Going
  <2> QED BY <1>3, <2>1, <2>2
<1>7. CASE Finish /\ ~DeliversFinalRow
  <2>1. UNCHANGED <<calls, cum_row_count>>
    BY <1>7 DEF Finish, rowVars
  <2> QED BY <1>2, <2>1
<1>8. CASE ~TruncateRow /\ ~EndRow /\ ~Finish
  <2>1. UNCHANGED <<calls, cum_row_count>>
    BY <1>8 DEF Next, PreParse, Scan, MovePartialRow, StartFreshRow, StartEmpty, EnterParse, SkipBom,
         ReadNothing, Read, SkipDoubledQuote, Plain, EscapedSpecial, EndCell, IgnoreLf, FaultInCell, VisitQuote,
         EndScan, AbortBetweenCalls, FaultInFinish, vars, rowVars
  <2> QED BY <1>2, <2>1
<1> QED BY <1>4, <1>5, <1>6, <1>7, <1>8

(* No call has been made at first. *)
LEMMA CountInit == ASSUME Init PROVE CountInv
<1>1. /\ Cursor = 0 /\ Scanned = 0 /\ calls = <<>> /\ cum_row_count = 0 /\ fed = <<>> /\ ~AfterCut
      /\ have_cell = FALSE /\ buffer_exceeded = FALSE /\ pc = "idle" /\ row_start = 0
  BY SizeAssumption DEF Init, Cursor, Scanned, AfterCut
<1>2. CallCount = 0
  <2>1. RowCalls = {}
    BY <1>1 DEF RowCalls
  <2> QED BY <2>1, FS_EmptySet DEF CallCount
<1>3. Seen \in ReadState
  <2>1. Consumed = <<>>
    BY <1>1 DEF Consumed
  <2> QED BY <2>1, ParseNothing, StartType DEF Seen
<1>4. CallCount <= Len(Seen.rows) /\ CallCount <= Due(Seen)
  BY <1>2, <1>3, DueFacts
<1>5. LimitInv
  BY <1>1, <1>2, SizeAssumption DEF LimitInv
<1>6. CallsInv
  BY <1>4 DEF CallsInv
<1>7. AheadInv
  BY <1>1, <1>4 DEF AheadInv
<1> QED BY <1>5, <1>6, <1>7 DEF CountInv

(* Every step keeps the rows counted. *)
LEMMA CountStep ==
  ASSUME MaxInputs = 1, TypeOK, TypeOK', StageInv, StageInv', RowInv, FeedInv,
         OneStreamInv, OneStreamInv', CountInv, [Next]_vars
  PROVE  CountInv'
<1>1. CallsInv /\ AheadInv /\ LimitInv
  BY DEF CountInv
<1>2. LimitInv'
  BY <1>1, LimitStep
<1>3. FedPlain' => FedPlain
  BY SoundKept DEF FedPlain
<1>4. CASE Finish
  <2>1. AheadInv'
    BY <1>4 DEF Finish, AheadInv, Going
  <2> QED BY <1>1, <1>2, <1>4, <2>1, CallsFinish DEF CountInv
<1>5. CASE ~FedPlain'
  BY <1>2, <1>5 DEF CountInv, CallsInv, AheadInv
<1>6. CASE FedPlain' /\ EndRow
  BY <1>1, <1>2, <1>3, <1>6, AheadEndRow DEF CountInv
<1>7. CASE FedPlain' /\ TruncateRow
  BY <1>1, <1>2, <1>3, <1>7, AheadTruncate DEF CountInv
<1>8. CASE FedPlain' /\ ~Finish /\ ~EndRow /\ ~TruncateRow
  <2>1. UNCHANGED calls
    BY <1>8 DEF Next, PreParse, Scan, MovePartialRow, StartFreshRow, StartEmpty, EnterParse, SkipBom,
         ReadNothing, Read, SkipDoubledQuote, Plain, EscapedSpecial, EndCell, IgnoreLf, FaultInCell, VisitQuote,
         EndScan, AbortBetweenCalls, FaultInFinish, vars
  <2>2. CallsInv'
    BY <1>1, <2>1, CallsFrame
  <2>3. AheadInv'
    <3>1. CASE PreParse
      BY <1>1, <1>3, <1>8, <3>1, AheadPreParse
    <3>2. CASE SkipBom \/ ReadNothing \/ EndScan \/ AbortBetweenCalls \/ UNCHANGED vars
      BY <1>1, <3>2, AheadIdle
    <3>3. CASE Read /\ pc' # "fault"
      BY <1>1, <1>3, <1>8, <3>3, AheadRead
    <3>4. CASE pc' = "fault"
      BY <3>4 DEF AheadInv, Going
    <3>5. CASE Plain
      BY <1>1, <1>3, <1>8, <3>5, AheadPlain
    <3>6. CASE EndCell
      BY <1>1, <1>3, <1>8, <3>6, AheadEndCell
    <3>7. CASE IgnoreLf
      BY <1>1, <1>3, <1>8, <3>7, AheadIgnoreLf
    <3>8. CASE SkipDoubledQuote \/ EscapedSpecial \/ VisitQuote
      <4>1. Scanning /\ (skip_next_delim \/ Open \/ buff[i] = Quote)
        BY <3>8 DEF SkipDoubledQuote, EscapedSpecial, VisitQuote, Visit, Scanning
      <4> QED BY <1>3, <1>8, <4>1, PlainByte
    <3>9. CASE FaultInCell \/ FaultInFinish
      BY <3>9 DEF FaultInCell, FaultInFinish, AheadInv, Going
    <3> QED BY <1>8, <3>1, <3>2, <3>3, <3>4, <3>5, <3>6, <3>7, <3>8, <3>9 DEF Next, Scan
  <2> QED BY <1>2, <2>2, <2>3 DEF CountInv
<1> QED BY <1>4, <1>5, <1>6, <1>7, <1>8

(* OneCallPerPlainRow: over one stream of input without quotes, the row handler
   is called at most once for each row of the input, rows that do not fit in the
   buffer and whose tail is thrown away included, and no more than max_rows
   times, with quotes too. A second stream after an aborted truncation delivers
   the same row again, which is why this is about one stream. *)
THEOREM CallsOncePerRow ==
  ASSUME MaxInputs = 1
  PROVE  Spec => []OneCallPerPlainRow
<1>1. Init => CountInv
  BY CountInit
<1>2. RefInv /\ RefInv' /\ CountInv /\ [Next]_vars => CountInv'
  <2>1. SUFFICES ASSUME RefInv, RefInv', CountInv, [Next]_vars
                 PROVE  CountInv'
    OBVIOUS
  <2>2. TypeOK /\ TypeOK' /\ StageInv /\ StageInv' /\ RowInv /\ FeedInv /\ OneStreamInv /\ OneStreamInv'
    BY <2>1 DEF RefInv, RowIInv, IInv, SafetyInv
  <2> QED BY <2>1, <2>2, CountStep
<1>3. RefInv /\ CountInv => OneCallPerPlainRow
  <2>1. SUFFICES ASSUME RefInv, CountInv
                 PROVE  OneCallPerPlainRow
    OBVIOUS
  <2>2. TypeOK /\ StageInv /\ OneStreamInv
    BY <2>1 DEF RefInv, RowIInv, IInv, SafetyInv
  <2>3. ASSUME Quote \notin Range(fed), api = "more" \/ ~finished
        PROVE  OneCallPerRow
    <3>1. FedPlain
      BY <2>3 DEF FedPlain
    <3>2. CallCount <= Due(Seen) /\ Len(Promise!FinalRowsOf(Consumed)) = Due(Seen)
      BY <2>1, <2>2, <2>3, <3>1, SeenPlain DEF CountInv, CallsInv
    <3> QED BY <3>2 DEF OneCallPerRow, CallCount
  <2>4. MaxRowsHolds
    <3>1. CallCount \in Nat /\ cum_row_count \in Nat
      BY <2>2, CallCounted DEF TypeOK
    <3>2. CallCount <= cum_row_count /\ (MaxRows > 0 => cum_row_count <= MaxRows)
      BY <2>1, <3>1, SizeAssumption DEF CountInv, LimitInv
    <3> QED BY <3>1, <3>2, SizeAssumption DEF MaxRowsHolds, CallCount
  <2> QED BY <2>3, <2>4 DEF OneCallPerPlainRow
<1>4. Spec => []RefInv
  BY RefInductive
<1> QED BY <1>1, <1>2, <1>3, <1>4, PTL DEF Spec

=============================================================================
