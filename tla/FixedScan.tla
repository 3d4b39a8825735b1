----------------------------- MODULE FixedScan -----------------------------
(***************************************************************************)
(* zsv select --fixed: rows are lines, cut into cells at given offsets, or *)
(* at those found by --fixed-auto.  src/src/zsv_scan_fixed.c, the parts of *)
(* zsv.c for ZSV_MODE_FIXED, and auto_detect_fixed_column_sizes of         *)
(* src/app/select.c.  One step is a call of zsv_parse_more.                *)
(*                                                                         *)
(* Positions are counted from 0, as in the code.                           *)
(*                                                                         *)
(* Left out: handlers that abort, zsv_parse_bytes, warnings, and memory    *)
(* that runs out.  Bound: --fixed-auto sees the whole input in its preview *)
(* of 256 KB, where it is not cut off within a line.                       *)
(***************************************************************************)
EXTENDS Integers, Sequences, SequencesExt

CONSTANTS
  VectorBytes,         \* VECTOR_BYTES
  BuffSize,            \* scanner->buff.size
  FixedOptions,        \* bound: offsets; <<>> stands for --fixed-auto
  FixedInputs          \* bound: the bytes of the input

VARIABLES opts, input,
  at,                  \* bytes read so far
  data,                \* struct zsv_scanner
  written, pc          \* "rows", "no more input", "done"; how --fixed-auto may end is
                       \* said at Outcome

vars == <<opts, input, at, data, written, pc>>

LineEnds == {"\n", "\r"}
Byte(b, i) == b[i + 1]
Places(b) == 0 .. Len(b) - 1

-----------------------------------------------------------------------------
(* auto_detect_fixed_column_sizes *)

LineStart(b, i) == Max({0} \cup {j + 1 : j \in {k \in 0 .. i - 1 : Byte(b, k) \in LineEnds}})
Ends(b) == {i \in Places(b) : Byte(b, i) \in LineEnds}
LineEnd(b) == Max({0} \cup {i - LineStart(b, i) : i \in Ends(b)})

(* Places on the line where any line has something. *)
Merged(b) == {i - LineStart(b, i) : i \in {j \in Places(b) : Byte(b, j) \notin LineEnds \cup {" "}}}

(* Columns are counted until a line that is not empty has ended; offsets are those
   of the merged line. *)
ColumnsCounted(b) ==
  LET words == {i \in Places(b) : /\ Byte(b, i) \notin LineEnds \cup {" "}
                                  /\ i > 0 => Byte(b, i - 1) \in LineEnds \cup {" "}}
  IN  Cardinality({i \in words : ~\E e \in Ends(b) : e < i /\ e > LineStart(b, e)})

AutoOffsets(b) ==
  LET places == {i \in Merged(b) : i < LineEnd(b)}
      starts == {i \in places : i > 0 /\ i - 1 \notin places}
  IN  IF places = {} THEN <<>>
      ELSE Append(SetToSortSeq(starts \ {Min(places)}, <), LineEnd(b))

(* zsv_set_fixed_offsets *)
Valid(offsets) ==
  /\ offsets # <<>>
  /\ \A i \in 2 .. Len(offsets) : offsets[i - 1] <= offsets[i]
  /\ Last(offsets) <= BuffSize

(* With --fixed-auto the array of offsets has as many places as columns were counted.
   Those without an offset keep the zero of calloc. *)
InitialOffsets ==
  IF opts # <<>> THEN opts
  ELSE AutoOffsets(input) \o [n \in 1 .. ColumnsCounted(input) - Len(AutoOffsets(input)) |-> 0]

(* What the command does with the offsets:
     "failed"      no line with a byte in it has ended: nothing is parsed;
     "undefined"   more offsets were found than the array has places, and written;
     "delimited"   no column was counted: the offsets are not set, and the input is
                   parsed as delimited text, which is not this module's;
     "invalid"     the offsets are refused, and no row is selected;
     "rows"        the input is parsed with them. *)
Outcome ==
  CASE opts = <<>> /\ LineEnd(input) = 0 -> "failed"
    [] opts = <<>> /\ LineEnd(input) > 0 /\ Len(AutoOffsets(input)) > ColumnsCounted(input) -> "undefined"
    [] opts = <<>> /\ LineEnd(input) > 0 /\ InitialOffsets = <<>> -> "delimited"
    [] OTHER -> IF Valid(InitialOffsets) THEN "rows" ELSE "invalid"

Init ==
  /\ opts \in FixedOptions /\ input \in FixedInputs
  /\ at = 0 /\ written = <<>>
  /\ pc = Outcome
  /\ data = [ offsets |-> IF pc = "rows" THEN InitialOffsets ELSE <<>>,
              partial |-> <<>>,               \* the partial row, at the front of the buffer
              last |-> "none",                \* scanner->last
              throwaway |-> FALSE ]           \* zsv_throwaway_row is the row handler

-----------------------------------------------------------------------------
(* row_fx *)
Cut(line) ==
  LET end(i) == Min({data.offsets[i], Len(line)})
  IN  [i \in DOMAIN data.offsets |-> SubSeq(line, IF i = 1 THEN 1 ELSE end(i - 1) + 1, end(i))]

Row(x, line) ==
  IF x.throwaway THEN [x EXCEPT !.throwaway = FALSE]
  ELSE [x EXCEPT !.rows = Append(@, Cut(line))]

(* The full vectors from i on, and the first of them that has a line end. *)
VectorAt(i, k) == i + k * VectorBytes .. i + (k + 1) * VectorBytes - 1
VectorsWithEnd(b, i) ==
  {k \in 0 .. (Len(b) - i) \div VectorBytes - 1 : VectorAt(i, k) \cap Ends(b) # {}}

(* The line ends that are found: the next vector that has one is searched for, but
   its bits are applied from where the search began; near the end of the chunk the
   bytes are looked at one by one; if there are only full vectors without a line end
   the bytes behind them are not looked at. *)
Found(b) ==
  LET f[i \in 0 .. Len(b)] ==
        IF i + VectorBytes > Len(b) THEN {e \in Ends(b) : e >= i}
        ELSE IF VectorsWithEnd(b, i) = {} THEN {}
        ELSE LET k == Min(VectorsWithEnd(b, i))
                 hits == {e \in Ends(b) : e \in VectorAt(i, k)}
                 next == Max(hits) - k * VectorBytes + 1
             IN  {e \in Ends(b) : e \in i .. next - 1} \cup f[next]
  IN  f[0]

(* Faulty: the byte in front of the chunk is forgotten. *)
ByteBefore_InChunk(b, i) == IF i > 0 THEN Byte(b, i - 1) ELSE "none"

(* scanner_last *)
ByteBefore(b, i) == IF i > 0 THEN Byte(b, i - 1) ELSE data.last

(* zsv_scan_fixed: an LF behind a CR ends nothing. *)
ScanFixed(b, x) ==
  FoldLeft(LAMBDA y, e :
             LET row == IF Byte(b, e) = "\n" /\ ByteBefore(b, e) = "\r" THEN y
                        ELSE Row(y, SubSeq(b, y.row_start + 1, e))
             IN  [row EXCEPT !.row_start = e + 1],
           x, SetToSortSeq(Found(b), <))

(* scanner_pre_parse: a row as long as the buffer is delivered, and what comes up to
   the next line end will be thrown away. *)
PreParse ==
  LET x == [rows |-> written, throwaway |-> data.throwaway, row_start |-> 0]
  IN  IF Len(data.partial) < BuffSize THEN [x |-> x, partial |-> data.partial]
      ELSE [x |-> [Row(x, data.partial) EXCEPT !.throwaway = TRUE], partial |-> <<>>]

(* zsv_parse_more; fewer bytes may be read than there is room for. *)
ParseMore ==
  /\ pc = "rows" /\ at < Len(input)
  /\ \E n \in 1 .. Min({Len(input) - at, BuffSize - Len(PreParse.partial)}) :
       LET b == PreParse.partial \o SubSeq(input, at + 1, at + n)
           x == ScanFixed(b, PreParse.x)
       IN  /\ at' = at + n
           /\ written' = x.rows
           /\ data' = [data EXCEPT !.partial = SubSeq(b, x.row_start + 1, Len(b)),
                                   !.last = Last(b), !.throwaway = x.throwaway]
  /\ UNCHANGED <<opts, input, pc>>

NoMoreInput ==
  /\ pc = "rows" /\ at = Len(input)
  /\ pc' = "no more input"
  /\ written' = PreParse.x.rows
  /\ data' = [data EXCEPT !.partial = PreParse.partial, !.throwaway = PreParse.x.throwaway]
  /\ UNCHANGED <<opts, input, at>>

(* zsv_finish: what is left is one row; only its last line end is taken off. *)
FinishFixed ==
  /\ pc = "no more input" /\ pc' = "done"
  /\ LET left == data.partial
         line == IF left # <<>> /\ Last(left) \in LineEnds THEN Front(left) ELSE left
         x    == [rows |-> written, throwaway |-> data.throwaway]
     IN  written' = IF line = <<>> THEN written ELSE Row(x, line).rows
  /\ UNCHANGED <<opts, input, at, data>>

Next == ParseMore \/ NoMoreInput \/ FinishFixed

Spec == Init /\ [][Next]_vars

-----------------------------------------------------------------------------
(* What is promised. *)

RowEnds == SetToSortSeq({e \in Ends(input) : ~(Byte(input, e) = "\n" /\ e > 0 /\ Byte(input, e - 1) = "\r")}, <)
Lines == [n \in DOMAIN RowEnds |->
            SubSeq(input, LineStart(input, RowEnds[n]) + 1, RowEnds[n])]
Fits(lines) == \A n \in DOMAIN lines : Len(lines[n]) + VectorBytes < BuffSize

(* However the input is divided into chunks, each line that ends a vector before the
   end of the input is a row of its own, in order and cut at the offsets; lines that
   end later are at least not mixed with those before. *)
LinesCut ==
  LET lines == Lines
      cut(n) == n \in DOMAIN lines /\ n \in DOMAIN written /\ written[n] = Cut(lines[n])
  IN  Fits(lines) =>
        /\ \A n \in 1 .. Len(written) - 1 : cut(n)
        /\ pc = "done" => \A n \in DOMAIN lines : RowEnds[n] + VectorBytes < Len(input) => cut(n)

(* With the offsets of --fixed-auto no word of any line is divided; with "undefined"
   and "delimited" there are none, and nothing is promised. *)
WordsWhole ==
  opts = <<>> =>
    \A line \in ToSet(Lines), o \in ToSet(data.offsets) :
      o \in 1 .. Len(line) - 1 => line[o] = " " \/ line[o + 1] = " "

FixedRows == LinesCut /\ WordsWhole

(* Every line is a row of its own. *)
AllLines ==
  LET lines == Lines
  IN  pc = "done" /\ Fits(lines) =>
        \A n \in DOMAIN lines : n \in DOMAIN written /\ written[n] = Cut(lines[n])

=============================================================================
