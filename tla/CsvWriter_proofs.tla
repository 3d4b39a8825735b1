-------------------------- MODULE CsvWriter_proofs --------------------------
(* Proofs about the CSV writer: its buffer never overflows, and the file gets *)
(* what is written in order, once and completely.                             *)
EXTENDS CsvWriter, FiniteSetTheorems, SequenceTheorems, TLAPS

Output == [buff : Seq(Byte), file : Seq(Byte)]

(* Concatenation of bytes. *)
LEMMA Concat ==
  ASSUME NEW r \in Seq(Byte), NEW s \in Seq(Byte), NEW t \in Seq(Byte)
  PROVE  r \o s \in Seq(Byte) /\ (r \o s) \o t = r \o (s \o t)
PROOF
<1> QED BY ConcatProperties, ConcatAssociative

(* A sequence begins every sequence that continues it. *)
LEMMA PrefixOfConcat ==
  ASSUME NEW S, NEW s \in Seq(S), NEW t \in Seq(S)
  PROVE  Promise!IsPrefix(s, s \o t)
PROOF
<1>1. Len(s) <= Len(s \o t)
  OBVIOUS
<1>2. SubSeq(s, 1, Len(s)) = SubSeq(s \o t, 1, Len(s))
  OBVIOUS
<1> QED BY <1>1, <1>2 DEF Promise!IsPrefix

(* A quoted value is a sequence of bytes, with one quote more for each one. *)
LEMMA DoubleQuotesType ==
  ASSUME NEW s \in Seq(Byte)
  PROVE  DoubleQuotes(s) \in Seq(Byte)
PROOF
<1>1. IsFiniteSet(DOMAIN s)
  BY FS_Interval
<1>2. Quotes(s) \in SUBSET DOMAIN s
  BY DEF Quotes, CharStart
<1>3. Cardinality(Quotes(s)) \in Nat
  BY <1>1, <1>2, FS_Subset, FS_CardinalityType
<1> DEFINE n == Len(s) + Cardinality(Quotes(s))
<1>4. n \in Nat
  BY <1>3
<1>5. Quote \in Byte
  BY WriterAssumption
<1> DEFINE Place(k) == k + Cardinality({q \in Quotes(s) : q <= k})
           At(j)    == {k \in DOMAIN s : Place(k) = j}
           Value(j) == IF At(j) = {} THEN Quote ELSE s[CHOOSE k \in At(j) : TRUE]
<1>6. ASSUME NEW j PROVE Value(j) \in Byte
  <2>1. At(j) # {} => (CHOOSE k \in At(j) : TRUE) \in DOMAIN s
    OBVIOUS
  <2> HIDE DEF At
  <2>2. \A k \in DOMAIN s : s[k] \in Byte
    OBVIOUS
  <2> QED BY <1>5, <2>1, <2>2
<1>7. DoubleQuotes(s) = [j \in 1 .. n |-> Value(j)]
  BY Zenon DEF DoubleQuotes
<1> HIDE DEF n, Value
<1>8. DoubleQuotes(s) \in [1 .. n -> Byte]
  BY <1>6, <1>7
<1> QED BY <1>4, <1>8

(* strlen finds no more bytes than there are. *)
LEMMA UpToNulType ==
  ASSUME NEW s \in Seq(Byte)
  PROVE  UpToNul(s) \in Seq(Byte)
PROOF
<1> DEFINE before == {k \in DOMAIN s : \A m \in 1 .. k : s[m] # Nul}
<1>1. IsFiniteSet(1 .. Len(s)) /\ Cardinality(1 .. Len(s)) = Len(s)
  <2>1. Len(s) \in Nat
    OBVIOUS
  <2> HIDE DEF before
  <2>2. /\ IsFiniteSet(1 .. Len(s))
        /\ Cardinality(1 .. Len(s)) = IF 1 > Len(s) THEN 0 ELSE Len(s) - 1 + 1
    BY <2>1, FS_Interval
  <2> QED BY <2>1, <2>2
<1>2. before \in SUBSET (1 .. Len(s))
  OBVIOUS
<1>3. Cardinality(before) \in Nat /\ Cardinality(before) <= Len(s)
  BY <1>1, <1>2, FS_Subset, FS_CardinalityType
<1>4. Strlen(s) \in 0 .. Len(s)
  BY <1>3 DEF Strlen
<1> QED BY <1>4 DEF UpToNul

LEMMA FieldType ==
  ASSUME NEW s \in Seq(Byte), NEW check \in BOOLEAN
  PROVE  Field(s, check) \in Seq(Byte)
PROOF
<1>1. <<Quote>> \in Seq(Byte)
  BY WriterAssumption
<1>2. DoubleQuotes(s) \in Seq(Byte)
  BY DoubleQuotesType
<1>3. Quoted(s) \in Seq(Byte)
  BY <1>1, <1>2 DEF Quoted
<1>4. UpToNul(Quoted(s)) \in Seq(Byte)
  BY <1>3, UpToNulType
<1> QED BY <1>4 DEF Field

(* A flush moves the buffer to the file. *)
LEMMA FlushFacts ==
  ASSUME NEW o \in Output
  PROVE  /\ OutputBuffFlush(o) \in Output
         /\ OutputBuffFlush(o).buff = <<>>
         /\ OutputBuffFlush(o).file = o.file \o o.buff
PROOF
<1> QED BY DEF OutputBuffFlush, Output

(* Whether the bytes are kept, written out or passed by: they come behind all
   that was written before, and the file is only added to. *)
LEMMA WriteFacts ==
  ASSUME NEW o \in Output, Len(o.buff) <= Size, NEW s \in Seq(Byte)
  PROVE  /\ OutputBuffWrite(o, s) \in Output
         /\ Len(OutputBuffWrite(o, s).buff) <= Size
         /\ OutputBuffWrite(o, s).file \o OutputBuffWrite(o, s).buff = (o.file \o o.buff) \o s
         /\ \E t \in Seq(Byte) : OutputBuffWrite(o, s).file = o.file \o t
PROOF
<1> DEFINE w == OutputBuffWrite(o, s)
           f == OutputBuffFlush(o)
<1> SUFFICES /\ w \in Output /\ Len(w.buff) <= Size
             /\ w.file \o w.buff = (o.file \o o.buff) \o s
             /\ \E u \in Seq(Byte) : w.file = o.file \o u
  OBVIOUS
<1>0. /\ o.buff \in Seq(Byte) /\ o.file \in Seq(Byte) /\ <<>> \in Seq(Byte)
      /\ o = [buff |-> o.buff, file |-> o.file]
      /\ o.file = o.file \o <<>>
      /\ Size \in Nat
  BY WriterAssumption DEF Output
<1>a. ASSUME NEW b \in Seq(Byte), NEW t \in Seq(Byte), Len(b) <= Size,
             w = [buff |-> b, file |-> o.file \o t],
             (o.file \o t) \o b = (o.file \o o.buff) \o s
      PROVE  /\ w \in Output /\ Len(w.buff) <= Size
             /\ w.file \o w.buff = (o.file \o o.buff) \o s
             /\ \E u \in Seq(Byte) : w.file = o.file \o u
  <2> HIDE DEF w
  <2>1. w.file = o.file \o t /\ w.buff = b
    BY <1>a
  <2>2. o.file \o t \in Seq(Byte)
    BY <1>0, ConcatProperties
  <2>3. w \in Output
    BY <1>a, <2>2 DEF Output
  <2> QED BY <1>a, <2>1, <2>3
<1>1. f = [buff |-> <<>>, file |-> o.file \o o.buff]
  BY DEF OutputBuffFlush
<1>2. CASE s = <<>>
  <2>1. w = [buff |-> o.buff, file |-> o.file \o <<>>]
    BY <1>0, <1>2 DEF OutputBuffWrite
  <2>2. (o.file \o <<>>) \o o.buff = (o.file \o o.buff) \o s
    BY <1>0, <1>2, ConcatEmptySeq, ConcatProperties
  <2> HIDE DEF w
  <2> QED BY <1>0, <1>a, <2>1, <2>2
<1>3. CASE s # <<>> /\ Fits(o, s)
  <2>1. w = [buff |-> o.buff \o s, file |-> o.file \o <<>>]
    BY <1>0, <1>3 DEF OutputBuffWrite
  <2>2. Len(o.buff \o s) <= Size /\ o.buff \o s \in Seq(Byte)
    BY <1>0, <1>3, ConcatProperties DEF Fits
  <2>3. (o.file \o <<>>) \o (o.buff \o s) = (o.file \o o.buff) \o s
    BY <1>0, Concat, SMTT(30)
  <2> HIDE DEF w
  <2> QED BY <1>0, <1>a, <2>1, <2>2, <2>3
<1>4. CASE s # <<>> /\ ~Fits(o, s) /\ Len(s) > Size
  <2>1. w = [f EXCEPT !.file = @ \o s]
    BY <1>4 DEF OutputBuffWrite
  <2>2. o.file \o (o.buff \o s) = (o.file \o o.buff) \o s /\ o.buff \o s \in Seq(Byte)
    BY <1>0, Concat, SMTT(30)
  <2>3. (o.file \o (o.buff \o s)) \o <<>> = (o.file \o o.buff) \o s
    BY <1>0, <2>2, ConcatEmptySeq, ConcatProperties
  <2> HIDE DEF w, f
  <2>4. w = [buff |-> <<>>, file |-> o.file \o (o.buff \o s)]
    BY <1>1, <2>1, <2>2
  <2>5. Len(<<>>) <= Size
    BY <1>0
  <2> QED BY <1>0, <1>a, <2>2, <2>3, <2>4, <2>5
<1>5. CASE s # <<>> /\ ~Fits(o, s) /\ ~(Len(s) > Size)
  <2>1. w = [f EXCEPT !.buff = @ \o s]
    BY <1>5 DEF OutputBuffWrite
  <2>2. <<>> \o s = s /\ Len(s) <= Size
    BY <1>0, <1>5, ConcatEmptySeq
  <2> HIDE DEF w, f
  <2>3. w = [buff |-> s, file |-> o.file \o o.buff]
    BY <1>1, <2>1, <2>2
  <2> QED BY <1>0, <1>a, <2>2, <2>3
<1> QED BY <1>2, <1>3, <1>4, <1>5

(* The history of values keeps its type. *)
LEMMA AddValueType ==
  ASSUME rows \in Seq(Seq(Seq(Byte))), NEW new_row \in BOOLEAN, NEW s \in Seq(Byte)
  PROVE  AddValue(new_row, s) \in Seq(Seq(Seq(Byte)))
PROOF
<1>1. CASE new_row \/ rows = <<>>
  <2>1. <<s>> \in Seq(Seq(Byte))
    OBVIOUS
  <2> QED BY <1>1, <2>1 DEF AddValue
<1>2. CASE ~(new_row \/ rows = <<>>)
  <2>1. Len(rows) \in DOMAIN rows
    BY <1>2
  <2>2. Append(rows[Len(rows)], s) \in Seq(Seq(Byte))
    BY <2>1
  <2> QED BY <1>2, <2>1, <2>2 DEF AddValue
<1> QED BY <1>1, <1>2

-----------------------------------------------------------------------------
(* One cell: it keeps the types, and is one Write of the promise. *)
LEMMA CellStep ==
  ASSUME TypeOK, Cell
  PROVE  TypeOK' /\ Promise!Write
PROOF
<1>1. PICK s \in Cells, new_row \in BOOLEAN, check \in BOOLEAN :
        /\ MayWrite(s, check)
        /\ out' = OutputBuffWrite(OutputBuffWrite(out, Separator(new_row)),
                                  Field(cell_prepend \o s, check \/ cell_prepend # <<>>))
        /\ rows' = AddValue(new_row, cell_prepend \o s)
  BY DEF Cell
<1>2. started' = TRUE /\ UNCHANGED <<with_bom, cell_prepend, deleted>> /\ ~deleted
  BY <1>1 DEF Cell, MayWrite
<1> DEFINE sep   == Separator(new_row)
           value == cell_prepend \o s
           field == Field(value, check \/ cell_prepend # <<>>)
           mid   == OutputBuffWrite(out, sep)
<1>3. /\ out \in Output /\ Len(out.buff) <= Size
      /\ out.buff \in Seq(Byte) /\ out.file \in Seq(Byte)
  BY DEF TypeOK, Output
<1>4. sep \in Seq(Byte)
  BY WriterAssumption DEF Separator
<1>5. value \in Seq(Byte)
  <2> HIDE DEF sep, value, field, mid
  <2>1. s \in Seq(Byte)
    BY WriterAssumption
  <2>2. cell_prepend \in Prepends \cup {<<>>}
    BY DEF TypeOK
  <2>3. Prepends \subseteq Seq(Byte) /\ <<>> \in Seq(Byte)
    BY WriterAssumption
  <2>4. cell_prepend \in Seq(Byte)
    BY <2>2, <2>3
  <2> QED BY <2>1, <2>4 DEF value
<1>6. field \in Seq(Byte)
  BY <1>5, FieldType
<1>7. /\ mid \in Output /\ Len(mid.buff) <= Size
      /\ mid.file \o mid.buff = (out.file \o out.buff) \o sep
      /\ \E t \in Seq(Byte) : mid.file = out.file \o t
  BY <1>3, <1>4, WriteFacts
<1>8. /\ out' \in Output /\ Len(out'.buff) <= Size
      /\ out'.file \o out'.buff = (mid.file \o mid.buff) \o field
      /\ \E t \in Seq(Byte) : out'.file = mid.file \o t
  <2>1. out' = OutputBuffWrite(mid, field)
    BY <1>1
  <2> HIDE DEF mid, field
  <2> QED BY <1>6, <1>7, <2>1, WriteFacts
<1>9. TypeOK'
  <2>1. rows' \in Seq(Seq(Seq(Byte)))
    BY <1>1, <1>5, AddValueType DEF TypeOK
  <2>2. out' \in [buff : Seq(Byte), file : Seq(Byte)]
    BY <1>8 DEF Output
  <2> QED BY <1>2, <1>8, <2>1, <2>2 DEF TypeOK
<1>10. Promise!IsPrefix(out.file, out'.file)
  <2>1. PICK t \in Seq(Byte) : mid.file = out.file \o t
    BY <1>7
  <2>2. PICK u \in Seq(Byte) : out'.file = mid.file \o u
    BY <1>8
  <2> HIDE DEF mid
  <2>3. t \o u \in Seq(Byte)
    BY ConcatProperties
  <2>4. out.file \in Seq(Byte)
    BY <1>3
  <2>5. (out.file \o t) \o u = out.file \o (t \o u)
    BY <2>4, Concat
  <2> QED BY <2>1, <2>2, <2>3, <2>4, <2>5, PrefixOfConcat
<1>11. Promise!IsPrefix(out'.file, out'.file \o out'.buff)
  <2>1. out'.file \in Seq(Byte) /\ out'.buff \in Seq(Byte)
    BY <1>8 DEF Output
  <2> QED BY <2>1, PrefixOfConcat
<1>12. Promise!IsPrefix(out.file \o out.buff, out'.file \o out'.buff)
  <2> HIDE DEF mid, sep, field
  <2>1. out.file \o out.buff \in Seq(Byte) /\ sep \o field \in Seq(Byte)
    BY <1>3, <1>4, <1>6, ConcatProperties
  <2>0. sep \in Seq(Byte) /\ field \in Seq(Byte)
    BY <1>4, <1>6
  <2>2. ((out.file \o out.buff) \o sep) \o field = (out.file \o out.buff) \o (sep \o field)
    <3> DEFINE text == out.file \o out.buff
    <3> text \in Seq(Byte)
      BY <2>1
    <3> HIDE DEF text
    <3>1. (text \o sep) \o field = text \o (sep \o field)
      BY <2>0, Concat
    <3> QED BY <3>1 DEF text
  <2> QED BY <1>7, <1>8, <2>1, <2>2, PrefixOfConcat
<1> QED BY <1>2, <1>9, <1>10, <1>11, <1>12 DEF Promise!Write

(* Setting the prefix writes nothing. *)
LEMMA PrependStep ==
  ASSUME TypeOK, CellPrepend
  PROVE  TypeOK' /\ UNCHANGED <<out, deleted>>
PROOF
<1> QED BY DEF TypeOK, CellPrepend

(* A flush leaves the whole text in the file. *)
LEMMA FlushStep ==
  ASSUME TypeOK, Flush
  PROVE  TypeOK' /\ Promise!Flush
PROOF
<1>1. out \in Output
  BY DEF TypeOK, Output
<1>2. /\ out' \in Output /\ out'.buff = <<>>
      /\ out'.file = out.file \o out.buff
  BY <1>1, FlushFacts DEF Flush
<1>3. out'.file \o out'.buff = out'.file
  BY <1>2, ConcatEmptySeq DEF Output
<1>4. TypeOK'
  <2>1. Len(out'.buff) <= Size
    BY <1>2, WriterAssumption
  <2> QED BY <1>2, <2>1 DEF TypeOK, Flush, Output
<1> QED BY <1>2, <1>3, <1>4 DEF Promise!Flush, Flush

(* Deleting the writer does so too, and ends the last row. *)
LEMMA DeleteStep ==
  ASSUME TypeOK, Delete
  PROVE  TypeOK' /\ Promise!Delete
PROOF
<1> DEFINE text == out.file \o out.buff
           f    == OutputBuffFlush(out)
<1>1. /\ out \in Output /\ <<Lf>> \in Seq(Byte)
      /\ out.buff \in Seq(Byte) /\ out.file \in Seq(Byte)
  BY WriterAssumption DEF TypeOK, Output
<1>2. /\ f \in Output /\ f.buff = <<>> /\ f.file = text /\ text \in Seq(Byte)
  BY <1>1, FlushFacts, ConcatProperties
<1>3. f = [buff |-> <<>>, file |-> text]
  BY DEF OutputBuffFlush
<1>4. out' = IF started THEN [f EXCEPT !.file = Append(@, Lf)] ELSE f
  BY DEF Delete
<1>5. out' = [buff |-> <<>>, file |-> IF started THEN text \o <<Lf>> ELSE text]
  <2> HIDE DEF f, text
  <2>1. Append(text, Lf) = text \o <<Lf>>
    BY <1>2, WriterAssumption, AppendIsConcat
  <2> QED BY <1>3, <1>4, <2>1 DEF TypeOK
<1> HIDE DEF f, text
<1>6. out'.file \in {text, text \o <<Lf>>} /\ out'.file \in Seq(Byte) /\ out'.buff = <<>>
  BY <1>1, <1>2, <1>5
<1>7. out'.file \o out'.buff = out'.file
  BY <1>6, ConcatEmptySeq
<1>8. TypeOK'
  <2>1. Len(out'.buff) <= Size
    BY <1>6, WriterAssumption
  <2>2. out' \in [buff : Seq(Byte), file : Seq(Byte)]
    BY <1>5, <1>6
  <2> QED BY <1>6, <2>1, <2>2 DEF TypeOK, Delete
<1> QED BY <1>6, <1>7, <1>8 DEF Promise!Delete, Delete, text

LEMMA InitFacts == Init => TypeOK /\ Promise!Init
PROOF
<1> SUFFICES ASSUME Init PROVE TypeOK /\ Promise!Init
  OBVIOUS
<1>1. Size \in Nat
  BY WriterAssumption
<1>2. out = [buff |-> <<>>, file |-> <<>>]
  BY DEF Init
<1>3. <<>> \in Seq(Byte) /\ <<>> \in Seq(Seq(Seq(Byte))) /\ Len(<<>>) = 0 /\ <<>> \o <<>> = <<>>
  OBVIOUS
<1>4. TypeOK
  <2>1. out \in [buff : Seq(Byte), file : Seq(Byte)] /\ out.buff = <<>>
    BY <1>2, <1>3
  <2>2. Len(out.buff) <= Size
    BY <1>1, <2>1
  <2> QED BY <1>3, <2>1, <2>2 DEF Init, TypeOK
<1>5. Promise!Init
  BY <1>2, <1>3 DEF Init, Promise!Init
<1> QED BY <1>4, <1>5

(* Every step of the writer is one of the promise, or changes nothing it sees. *)
LEMMA Step ==
  ASSUME TypeOK, [Next]_vars
  PROVE  /\ TypeOK'
         /\ [Promise!Next]_<<out.file \o out.buff, out.file, deleted>>
PROOF
<1>1. CASE Cell
  BY <1>1, CellStep DEF Promise!Next
<1>2. CASE CellPrepend
  BY <1>2, PrependStep
<1>3. CASE Flush
  BY <1>3, FlushStep DEF Promise!Next
<1>4. CASE Delete
  BY <1>4, DeleteStep DEF Promise!Next
<1>5. CASE UNCHANGED vars
  BY <1>5 DEF vars, TypeOK
<1> QED BY <1>1, <1>2, <1>3, <1>4, <1>5 DEF Next

(* The output buffer is never written past its end, whatever the sizes of buffer
   and cells (zsv_output_buff_write). *)
THEOREM WriterTypeCorrect == Spec => []TypeOK
PROOF
<1>1. Init => TypeOK
  BY InitFacts
<1>2. TypeOK /\ [Next]_vars => TypeOK'
  BY Step
<1> QED BY <1>1, <1>2, PTL DEF Spec

(* The file gets what is written in order, once, and all of it at a flush and at
   the end (zsv_output_buff_write, zsv_writer_flush, zsv_writer_delete). *)
THEOREM WriterKeepsText == Spec => ImplementsCsvOutput
PROOF
<1>1. Init => Promise!Init
  BY InitFacts
<1>2. TypeOK /\ [Next]_vars => [Promise!Next]_<<out.file \o out.buff, out.file, deleted>>
  BY Step
<1> QED BY <1>1, <1>2, WriterTypeCorrect, PTL DEF Spec, ImplementsCsvOutput, Promise!Spec

=============================================================================
