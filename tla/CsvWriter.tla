----------------------------- MODULE CsvWriter -----------------------------
(***************************************************************************)
(* The CSV writer of the tools: cells are quoted where they need it, and   *)
(* collected in a buffer that is written out when the next cell does not   *)
(* fit.  src/app/utils/writer.c.                                           *)
(*                                                                         *)
(* Left out: table_init, which no tool sets, and memory and output that    *)
(* fail.  Memory for a quoted cell that cannot be had is taken for a cell  *)
(* that needs no quotes, and what write returns is not looked at.          *)
(***************************************************************************)
EXTENDS Integers, Sequences, FiniteSets, SequencesExt

CONSTANTS
  Comma, Cr, Lf, Quote, Nul, Bom,
  Lead,        \* the first byte of a UTF-8 character of two
  Byte,        \* all bytes
  Size,        \* ZSV_OUTPUT_BUFF_SIZE
  Cells,       \* bound: the values written
  Prepends,    \* the strings given to zsv_writer_cell_prepend
  MaxCells     \* bound: how many values are written

ASSUME WriterAssumption ==
  /\ {Comma, Cr, Lf, Quote, Nul, Bom, Lead} \subseteq Byte
  /\ Size \in Nat \ {0} /\ MaxCells \in Nat
  /\ Cells \subseteq Seq(Byte) /\ Prepends \subseteq Seq(Byte)

VARIABLES
  out,            \* the output buffer's used bytes, and the file behind it
  started, with_bom, cell_prepend,
  deleted,
  rows            \* history: the rows of values written

vars == <<out, started, with_bom, cell_prepend, deleted, rows>>

-----------------------------------------------------------------------------
(* zsv_csv_quote *)

(* A byte that a character begins with; the rest of the character is not
   looked at, whether or not it is well formed. *)
CharStart(s) ==
  LET start[k \in DOMAIN s] == k = 1 \/ ~(start[k - 1] /\ s[k - 1] = Lead)
  IN  {k \in DOMAIN s : start[k]}

Quotes(s) == {k \in CharStart(s) : s[k] = Quote}

(* Faulty: a CR is not a line end. *)
NeedsQuotes_NoCr(s) == \E k \in CharStart(s) : s[k] \in {Comma, Lf, Quote}

NeedsQuotes(s) == \E k \in CharStart(s) : s[k] \in {Comma, Lf, Cr, Quote}

(* Every quote has another one before it. *)
DoubleQuotes(s) ==
  LET Place(k) == k + Cardinality({q \in Quotes(s) : q <= k})
      At(j)    == {k \in DOMAIN s : Place(k) = j}
  IN  [ j \in 1 .. Len(s) + Cardinality(Quotes(s)) |->
          IF At(j) = {} THEN Quote ELSE s[CHOOSE k \in At(j) : TRUE] ]

Quoted(s) == <<Quote>> \o DoubleQuotes(s) \o <<Quote>>

Strlen(s) == Cardinality({k \in DOMAIN s : \A m \in 1 .. k : s[m] # Nul})

UpToNul(s) == SubSeq(s, 1, Strlen(s))

(* zsv_writer_cell_aux: what is written of a cell. *)
Field(s, check) == IF check /\ NeedsQuotes(s) THEN UpToNul(Quoted(s)) ELSE s

-----------------------------------------------------------------------------
(* Faulty: the bytes written out stay in the buffer. *)
OutputBuffFlush_KeepUsed(o) == [buff |-> o.buff, file |-> o.file \o o.buff]

OutputBuffFlush(o) == [buff |-> <<>>, file |-> o.file \o o.buff]

Fits(o, s) == Len(s) + Len(o.buff) <= Size

OutputBuffWrite(o, s) ==
  IF s = <<>> THEN o
  ELSE IF Fits(o, s) THEN [o EXCEPT !.buff = @ \o s]
  ELSE LET flushed == OutputBuffFlush(o)
       IN  IF Len(s) > Size THEN [flushed EXCEPT !.file = @ \o s]
           ELSE [flushed EXCEPT !.buff = @ \o s]

-----------------------------------------------------------------------------
Init ==
  /\ out = [buff |-> <<>>, file |-> <<>>]
  /\ started = FALSE /\ with_bom \in BOOLEAN /\ cell_prepend = <<>>
  /\ deleted = FALSE /\ rows = <<>>

(* What goes before a cell. *)
Separator(new_row) ==
  IF ~started THEN (IF with_bom THEN <<Bom, Bom, Bom>> ELSE <<>>)
  ELSE IF new_row THEN <<Lf>> ELSE <<Comma>>

AddValue(new_row, s) ==
  IF new_row \/ rows = <<>> THEN Append(rows, <<s>>)
  ELSE [rows EXCEPT ![Len(rows)] = Append(@, s)]

Written == LET count[k \in 0 .. Len(rows)] == IF k = 0 THEN 0 ELSE count[k - 1] + Len(rows[k])
           IN  count[Len(rows)]

(* A caller has a cell written unchecked when it knows that it needs no quotes:
   it is a number, or a cell that the parser gave no flags.  A value behind a
   prefix is a string, which ends before a NUL. *)
MayWrite(s, check) ==
  /\ ~deleted /\ Written < MaxCells
  /\ check \/ ~NeedsQuotes(s)
  /\ cell_prepend # <<>> => UpToNul(s) = s

(* zsv_writer_cell; zsv_writer_cell_s, _zu, _Lf and _blank call it. *)
Cell ==
  \E s \in Cells, new_row \in BOOLEAN, check \in BOOLEAN :
    /\ MayWrite(s, check)
    /\ LET value     == cell_prepend \o s
           separated == OutputBuffWrite(out, Separator(new_row))
       IN  /\ out' = OutputBuffWrite(separated, Field(value, check \/ cell_prepend # <<>>))
           /\ rows' = AddValue(new_row, value)
    /\ started' = TRUE
    /\ UNCHANGED <<with_bom, cell_prepend, deleted>>

(* zsv_writer_cell_prepend *)
CellPrepend ==
  /\ ~deleted
  /\ cell_prepend' \in Prepends
  /\ UNCHANGED <<out, started, with_bom, deleted, rows>>

(* zsv_writer_flush *)
Flush ==
  /\ ~deleted
  /\ out' = OutputBuffFlush(out)
  /\ UNCHANGED <<started, with_bom, cell_prepend, deleted, rows>>

(* zsv_writer_delete: the last row is ended past the buffer. *)
Delete ==
  /\ ~deleted
  /\ LET flushed == OutputBuffFlush(out)
     IN  out' = IF started THEN [flushed EXCEPT !.file = Append(@, Lf)] ELSE flushed
  /\ deleted' = TRUE
  /\ UNCHANGED <<started, with_bom, cell_prepend, rows>>

Next == Cell \/ CellPrepend \/ Flush \/ Delete

Spec == Init /\ [][Next]_vars

-----------------------------------------------------------------------------
(* The buffer is never written past its end, and writing before the first cell
   or after the last leaves nothing behind. *)
TypeOK ==
  /\ out \in [buff : Seq(Byte), file : Seq(Byte)]
  /\ Len(out.buff) <= Size
  /\ started \in BOOLEAN /\ with_bom \in BOOLEAN /\ deleted \in BOOLEAN
  /\ cell_prepend \in Prepends \cup {<<>>}
  /\ rows \in Seq(Seq(Seq(Byte)))
  /\ (~started \/ deleted) => out.buff = <<>>

Promise == INSTANCE CsvOutput WITH
  LineEnd <- <<Lf>>, text <- out.file \o out.buff, file <- out.file

(* The file gets the text in the order in which it was written, each part once,
   also when a cell is longer than the buffer and passes it by, and all of it at
   a flush and at the end. *)
ImplementsCsvOutput == Promise!Spec

-----------------------------------------------------------------------------
(* The CSV writer and the push parser: what one writes the other reads. *)


Parser == INSTANCE CsvRows WITH
  Delim <- Comma, MaxCols <- MaxCells, RowLimit <- Size,
  consumed <- out.file, delivered <- rows, phase <- "reading"

(* A UTF-8 character of two bytes that is none. *)
Malformed(s) ==
  \E k \in DOMAIN s : k + 1 \in DOMAIN s /\ s[k] = Lead
                      /\ s[k + 1] \in {Comma, Cr, Lf, Quote}

(* Values that are not written as they are: the two exceptions of ReadsBack. *)
Spoiled(s) == Malformed(s) \/ (NeedsQuotes(s) /\ Nul \in Range(s))

WithoutBom(bytes) ==
  IF Len(bytes) > 0 /\ bytes[1] = Bom THEN SubSeq(bytes, 4, Len(bytes)) ELSE bytes

(* Spoiled or not, a value does not reach into the rows before it: at any time
   the parser reads those that are complete as they were written, up to the first
   spoiled one. *)
EarlierRowsStay ==
  LET clean == {r \in 0 .. Len(rows) :
                  \A q \in 1 .. r : \A c \in DOMAIN rows[q] : ~Spoiled(rows[q][c])}
      n     == CHOOSE r \in clean : \A q \in clean : q <= r
      read  == Parser!FinalRowsOf(WithoutBom(out.file \o out.buff) \o <<Lf>>)
  IN  SubSeq(read, 1, n) = SubSeq(rows, 1, n)

(* When the writer is deleted the file holds, for the push parser, exactly the
   rows and values that were written: whatever needs quotes gets them, also behind
   a prefix, and separators, line ends and blank cells are not lost.  It is not so
   for a malformed character that hides a special byte, and for a NUL in a value
   that is quoted (zsv_csv_quote; zsv_writer_cell_aux); but what is before such a
   value stays. *)
ReadsBack ==
  /\ deleted /\ (\A r \in DOMAIN rows : \A c \in DOMAIN rows[r] : ~Spoiled(rows[r][c]))
       => Parser!FinalRowsOf(WithoutBom(out.file)) = rows
  /\ EarlierRowsStay

=============================================================================
