------------------------- MODULE VectorScan_proofs --------------------------
(***************************************************************************)
(* The vector search keeps its promise for every vector size and every     *)
(* chunk: VectorScan implements ByteScan.                                  *)
(***************************************************************************)
EXTENDS VectorScan, TLAPS

NoSpecial(from, to) == \A q \in from .. to - 1 : ~Special(q)

(* Every special of the vector at mask_last_start that has not been handled has
   its bit in the mask, which is all that is true of a mask that was found
   further on, too: the first vector then has no special at all. *)
MaskInv ==
  /\ mask_last_start + VectorBytes <= bytes_read
  /\ \A b \in mask : passed <= mask_last_start + b - 1
  /\ \A q \in passed .. mask_last_start + VectorBytes - 1 :
       Special(q) => q >= mask_last_start /\ q - mask_last_start + 1 \in mask

IInv ==
  /\ TypeOK
  /\ passed <= i /\ NoSpecial(passed, i)
  /\ skip_next_delim => passed = i /\ i < bytes_read /\ buff[i] = "quote"
  /\ pc \in {"byte", "done"} => ~skip_next_delim
  /\ pc = "byte" => mask = {} /\ i < bytes_read
  /\ pc = "done" => i = bytes_read
  /\ pc = "vector" =>
       /\ mask = {} /\ mask_last_start = i /\ i + VectorBytes <= bytes_read
       /\ total_bytes = 0 \/ total_bytes >= VectorBytes
       /\ \A q \in i .. i + total_bytes - 1 : ~Matched(q)
  /\ pc = "bits" => mask # {}
  /\ mask # {} => MaskInv

(* The scan starts with nothing passed over. *)
LEMMA InitIInv == Init => IInv
PROOF
<1> SUFFICES ASSUME Init PROVE IInv
  OBVIOUS
<1>1. PICK n \in 0 .. MaxBytes : buff \in [0 .. n - 1 -> Bytes] /\ bytes_read = n
  BY DEF Init
<1>2. TypeOK
  <2>1. i \in 0 .. n /\ n \in Nat /\ <<>> \in Seq([at : Nat, skipped : BOOLEAN])
    BY <1>1, VectorAssumption DEF Init
  <2>2. /\ bytes_read \in 0 .. MaxBytes /\ buff \in [0 .. bytes_read - 1 -> Bytes]
        /\ i \in 0 .. bytes_read /\ passed = i /\ 0 \in 0 .. bytes_read
    BY <1>1, <2>1 DEF Init
  <2> QED BY <2>1, <2>2 DEF Init, TypeOK
<1>3. passed <= i /\ NoSpecial(passed, i)
  BY <1>1, VectorAssumption DEF Init, NoSpecial
<1> QED BY <1>2, <1>3 DEF Init, IInv

-----------------------------------------------------------------------------
(* Handling byte q, which is the first special from passed on unless it is no
   special at all, keeps the promise and what the loop relies on. *)
Handled(q) ==
  /\ i' = q + 1 /\ pc' = "loop"
  /\ passed' \in 0 .. bytes_read /\ passed' <= i' /\ (\A x \in passed' .. q : ~Special(x))
  /\ skip_next_delim' \in BOOLEAN
  /\ skip_next_delim' => passed' = i' /\ i' < bytes_read /\ buff[i'] = "quote"
  /\ handled' \in Seq([at : Nat, skipped : BOOLEAN])
  /\ passed' = q + 1 \/ (passed' = passed /\ ~Special(q))
  /\ (Promise!VisitSpecial \/ Promise!SkipSecondQuote) \/ UNCHANGED <<passed, skip_next_delim, handled>>

LEMMA VisitByteFacts ==
  ASSUME TypeOK, NEW q \in 0 .. bytes_read - 1, passed <= q, NoSpecial(passed, q),
         ~skip_next_delim, VisitByte(q), pc # "done", UNCHANGED <<buff, bytes_read>>
  PROVE  Handled(q)
PROOF
<1>1. /\ DOMAIN buff = 0 .. bytes_read - 1 /\ bytes_read \in Nat /\ passed \in 0 .. bytes_read
      /\ q \in Nat /\ q < bytes_read /\ handled \in Seq([at : Nat, skipped : BOOLEAN])
  BY VectorAssumption DEF TypeOK
<1>2. i' = q + 1 /\ pc' = "loop"
  BY DEF VisitByte
<1>3. CASE ~Special(q) /\ UNCHANGED <<passed, handled, skip_next_delim>>
  BY <1>1, <1>2, <1>3 DEF Handled, NoSpecial
<1>4. CASE /\ Special(q) /\ Handle(q, FALSE)
           /\ \/ UNCHANGED skip_next_delim
              \/ EscapesNext(q) /\ skip_next_delim' = TRUE
  <2>1. passed' = q + 1 /\ handled' = Append(handled, [at |-> q, skipped |-> FALSE])
    BY <1>4 DEF Handle
  <2>2. handled' \in Seq([at : Nat, skipped : BOOLEAN])
    BY <1>1, <2>1
  <2>3. \/ skip_next_delim' = FALSE
        \/ /\ skip_next_delim' = TRUE
           /\ q + 1 < bytes_read /\ buff[q] = "quote" /\ buff[q + 1] = "quote"
    <3>1. skip_next_delim = FALSE
      BY DEF TypeOK
    <3> QED BY <1>4, <3>1 DEF EscapesNext
  <2>4. Promise!VisitSpecial
    <3>1. q \in DOMAIN buff /\ q >= passed
          /\ \A p \in DOMAIN buff : passed <= p /\ p < q => ~Promise!Special(p)
      BY <1>1 DEF NoSpecial, Special, Promise!Special
    <3>2. Promise!Handle(q, FALSE)
      BY <1>2, <1>4, <2>1 DEF Special, Promise!Special, Promise!Handle
    <3>3. skip_next_delim' \in Promise!MaySkipBehind(q)
      BY <1>1, <2>3 DEF Promise!MaySkipBehind
    <3> QED BY <3>1, <3>2, <3>3 DEF Promise!VisitSpecial
  <2>5. passed' \in 0 .. bytes_read /\ passed' <= i' /\ passed' = i'
    BY <1>1, <1>2, <2>1
  <2>6. \A x \in passed' .. q : ~Special(x)
    BY <1>1, <2>1
  <2>7. skip_next_delim' \in BOOLEAN
        /\ (skip_next_delim' => i' < bytes_read /\ buff[i'] = "quote")
    BY <1>2, <2>3
  <2> QED BY <1>2, <2>1, <2>2, <2>4, <2>5, <2>6, <2>7 DEF Handled
<1> QED BY <1>3, <1>4 DEF VisitByte

(* The same for a byte that is skipped, the second quote of a pair. *)
LEMMA SkipByteFacts ==
  ASSUME TypeOK, NEW q \in 0 .. bytes_read - 1, passed = q, buff[q] = "quote",
         skip_next_delim, SkipByte(q), pc # "done", UNCHANGED <<buff, bytes_read>>
  PROVE  Handled(q)
PROOF
<1>1. /\ DOMAIN buff = 0 .. bytes_read - 1 /\ bytes_read \in Nat
      /\ q \in Nat /\ q < bytes_read /\ handled \in Seq([at : Nat, skipped : BOOLEAN])
  BY VectorAssumption DEF TypeOK
<1>2. /\ i' = q + 1 /\ pc' = "loop" /\ passed' = q + 1 /\ skip_next_delim' = FALSE
      /\ handled' = Append(handled, [at |-> q, skipped |-> TRUE])
  BY DEF SkipByte, Handle
<1>3. handled' \in Seq([at : Nat, skipped : BOOLEAN])
  BY <1>1, <1>2
<1>4. Promise!SkipSecondQuote
  BY <1>1, <1>2 DEF Promise!SkipSecondQuote, Promise!Handle, Promise!Special
<1>5. Promise!VisitSpecial \/ Promise!SkipSecondQuote
  BY <1>4
<1>6. \A x \in passed' .. q : ~Special(x)
  BY <1>1, <1>2
<1>7. passed' \in 0 .. bytes_read /\ passed' <= i'
  BY <1>1, <1>2
<1> QED BY <1>2, <1>3, <1>5, <1>6, <1>7 DEF Handled

(* The loop goes on behind a byte, and the next search has as much to go by. *)
LEMMA AfterByte ==
  ASSUME IInv, pc # "done", NEW q \in 0 .. bytes_read - 1, Handled(q),
         UNCHANGED <<buff, bytes_read, total_bytes>>, mask_last_start' \in 0 .. bytes_read,
         mask' \subseteq 1 .. VectorBytes, mask' # {} => MaskInv'
  PROVE  IInv' /\ [Promise!Next]_(Promise!vars)
PROOF
<1>1. TypeOK /\ bytes_read \in Nat /\ q \in Nat /\ q < bytes_read
  BY VectorAssumption DEF IInv, TypeOK
<1>2. TypeOK'
  BY <1>1 DEF TypeOK, Handled
<1>3. NoSpecial(passed, i)'
  BY <1>1 DEF NoSpecial, Handled, Special
<1>4. IInv'
  BY <1>2, <1>3 DEF IInv, Handled
<1>5. [Promise!Next]_(Promise!vars)
  BY DEF Handled, Promise!Next, Promise!vars
<1> QED BY <1>4, <1>5

(* A byte near the end of the chunk. *)
LEMMA TailByteStep ==
  ASSUME IInv, TailByte
  PROVE  IInv' /\ [Promise!Next]_(Promise!vars)
PROOF
<1>1. /\ TypeOK /\ i \in 0 .. bytes_read - 1 /\ pc = "loop" /\ mask' = {}
      /\ UNCHANGED <<buff, bytes_read, total_bytes>> /\ mask_last_start' \in 0 .. bytes_read
      /\ skip_next_delim \in BOOLEAN /\ passed <= i /\ NoSpecial(passed, i)
  BY DEF IInv, TypeOK, TailByte
<1>2. Handled(i)
  <2>1. CASE skip_next_delim
    <3>1. SkipByte(i) /\ passed = i /\ buff[i] = "quote"
      BY <2>1 DEF TailByte, IInv
    <3> QED BY <1>1, <2>1, <3>1, SkipByteFacts
  <2>2. CASE ~skip_next_delim
    <3>1. VisitByte(i)
      BY <2>2 DEF TailByte
    <3> QED BY <1>1, <2>2, <3>1, VisitByteFacts
  <2> QED BY <2>1, <2>2
<1> QED BY <1>1, <1>2, AfterByte

(* The byte behind the last vector: that it is not skipped does no harm. *)
LEMMA ByteBehindVectorsStep ==
  ASSUME IInv, ByteBehindVectors
  PROVE  IInv' /\ [Promise!Next]_(Promise!vars)
PROOF
<1>1. /\ TypeOK /\ i \in 0 .. bytes_read - 1 /\ pc = "byte" /\ mask' = {}
      /\ UNCHANGED <<buff, bytes_read, total_bytes>> /\ mask_last_start' \in 0 .. bytes_read
      /\ ~skip_next_delim /\ passed <= i /\ NoSpecial(passed, i) /\ VisitByte(i)
  BY DEF IInv, TypeOK, ByteBehindVectors
<1>2. Handled(i)
  BY <1>1, VisitByteFacts
<1> QED BY <1>1, <1>2, AfterByte

(* The bit taken off is that of the first special that is left in the vector, or
   that of a plain byte in front of all specials that are left. *)
LEMMA NextBitStep ==
  ASSUME IInv, NextBit
  PROVE  IInv' /\ [Promise!Next]_(Promise!vars)
PROOF
<1>1. PICK b \in LowestBits :
        IF skip_next_delim THEN SkipByte(mask_last_start + b - 1)
        ELSE VisitByte(mask_last_start + b - 1)
  BY DEF NextBit
<1> DEFINE q == mask_last_start + b - 1
<1>2. /\ b \in mask /\ \A c \in mask : b <= c
      /\ mask' = mask \ LowestBits /\ b \notin mask'
  BY DEF LowestBits, NextBit
<1>3. /\ TypeOK /\ MaskInv /\ pc # "done" /\ skip_next_delim \in BOOLEAN
      /\ UNCHANGED <<buff, bytes_read, mask_last_start, total_bytes>>
      /\ mask \subseteq 1 .. VectorBytes /\ mask_last_start \in 0 .. bytes_read
      /\ mask' \subseteq mask
  BY <1>2 DEF IInv, TypeOK, NextBit
<1>4. /\ VectorBytes \in Nat /\ bytes_read \in Nat /\ mask_last_start \in Nat /\ b \in Nat
      /\ b >= 1 /\ b <= VectorBytes /\ passed \in Nat
  BY <1>2, <1>3, VectorAssumption DEF TypeOK
<1>5. q \in 0 .. bytes_read - 1 /\ passed <= q
  BY <1>2, <1>3, <1>4 DEF MaskInv
<1>6. NoSpecial(passed, q)
  <2> SUFFICES ASSUME NEW x \in passed .. q - 1, Special(x) PROVE FALSE
    BY DEF NoSpecial
  <2>1. x \in passed .. mask_last_start + VectorBytes - 1 /\ x \in Nat
    BY <1>4, <1>5
  <2>2. x - mask_last_start + 1 \in mask
    BY <1>3, <2>1 DEF MaskInv
  <2> QED BY <1>2, <1>4, <2>1, <2>2
<1>7. skip_next_delim => passed = q /\ buff[q] = "quote"
  <2> SUFFICES ASSUME skip_next_delim PROVE passed = q /\ buff[q] = "quote"
    OBVIOUS
  <2>1. passed < bytes_read /\ buff[passed] = "quote"
    BY DEF IInv
  <2>2. Special(passed)
    BY <1>3, <1>4, <2>1 DEF Special, TypeOK
  <2>3. passed \in passed .. mask_last_start + VectorBytes - 1
    BY <1>4, <1>5
  <2>4. passed - mask_last_start + 1 \in mask
    BY <1>3, <2>2, <2>3 DEF MaskInv
  <2>5. b <= passed - mask_last_start + 1
    BY <1>2, <2>4
  <2>6. passed = q
    BY <1>4, <1>5, <2>5
  <2> QED BY <2>1, <2>6
<1>8. Handled(q)
  <2>1. CASE skip_next_delim
    BY <1>1, <1>3, <1>5, <1>7, <2>1, SkipByteFacts
  <2>2. CASE ~skip_next_delim
    BY <1>1, <1>3, <1>5, <1>6, <2>2, VisitByteFacts
  <2> QED BY <2>1, <2>2
<1>9. passed' \in Nat /\ (passed' = q + 1 \/ (passed' = passed /\ ~Special(q)))
  BY <1>4, <1>8 DEF Handled
<1>10. MaskInv'
  <2>1. ASSUME NEW c \in mask' PROVE passed' <= mask_last_start + c - 1
    <3>1. c \in mask /\ c # b /\ b <= c /\ c \in Nat
      BY <1>2, <1>3, <2>1
    <3> QED BY <1>4, <1>5, <1>9, <3>1
  <2>2. ASSUME NEW x \in passed' .. mask_last_start + VectorBytes - 1, Special(x)
        PROVE  x >= mask_last_start /\ x - mask_last_start + 1 \in mask'
    <3>1. x \in passed .. mask_last_start + VectorBytes - 1 /\ x # q /\ x \in Nat
      BY <1>4, <1>5, <1>9, <2>2
    <3>2. x >= mask_last_start /\ x - mask_last_start + 1 \in mask
      BY <1>3, <2>2, <3>1 DEF MaskInv
    <3>3. x - mask_last_start + 1 # b
      BY <1>4, <3>1
    <3>4. x - mask_last_start + 1 \notin LowestBits
      BY <1>2, <1>4, <3>1, <3>2, <3>3 DEF LowestBits
    <3> QED BY <1>2, <3>2, <3>4
  <2> QED BY <1>3, <2>1, <2>2 DEF MaskInv, Special
<1> QED BY <1>3, <1>5, <1>8, <1>10, AfterByte

-----------------------------------------------------------------------------
(* vec_delims passes over vectors without a special, and the quote that is to be
   skipped is in the first of them. *)
LEMMA SearchStep ==
  ASSUME IInv, StartSearch \/ NextVector \/ VectorFound
  PROVE  IInv' /\ UNCHANGED Promise!vars
PROOF
<1>1. /\ TypeOK /\ bytes_read \in Nat /\ i \in Nat /\ total_bytes \in Nat /\ passed \in Nat
      /\ VectorBytes \in Nat /\ VectorBytes > 0 /\ DOMAIN buff = 0 .. bytes_read - 1
  BY VectorAssumption DEF IInv, TypeOK
<1>2. UNCHANGED <<buff, bytes_read, skip_next_delim, passed, handled>> /\ pc # "done" /\ pc' # "done"
  BY DEF StartSearch, NextVector, VectorFound
<1>3. UNCHANGED Promise!vars
  BY <1>2 DEF Promise!vars
<1>4. CASE StartSearch
  <2>1. /\ pc' = "vector" /\ i' = i /\ mask' = {} /\ mask_last_start' = i /\ total_bytes' = 0
        /\ i + VectorBytes <= bytes_read
    BY <1>1, <1>4 DEF StartSearch, bytes_chunk_end
  <2>2. TypeOK'
    BY <1>1, <1>2, <2>1 DEF TypeOK
  <2>3. NoSpecial(passed, i)' /\ passed' <= i'
    BY <1>2, <2>1 DEF IInv, NoSpecial, Special
  <2>4. (\A q \in i .. i + total_bytes - 1 : ~Matched(q))'
    BY <1>1, <2>1
  <2>5. (skip_next_delim => passed = i /\ i < bytes_read /\ buff[i] = "quote")'
    BY <1>2, <2>1 DEF IInv
  <2> QED BY <1>2, <1>3, <2>1, <2>2, <2>3, <2>4, <2>5 DEF IInv
<1>5. CASE NextVector
  <2>1. /\ pc = "vector" /\ pc' = "vector" /\ i' = i /\ mask' = mask
        /\ mask_last_start' = mask_last_start /\ total_bytes' = total_bytes + VectorBytes
        /\ i + total_bytes + VectorBytes <= bytes_read /\ VectorMask = {}
    BY <1>5 DEF NextVector, VectorLeft
  <2>2. TypeOK'
    BY <1>1, <1>2, <2>1 DEF TypeOK
  <2>3. ASSUME NEW q \in i .. i + total_bytes' - 1 PROVE ~Matched(q)
    <3>1. CASE q < i + total_bytes
      BY <1>1, <2>1, <3>1 DEF IInv
    <3>2. CASE q >= i + total_bytes
      <4> DEFINE b == q - i - total_bytes + 1
      <4>1. b \in 1 .. VectorBytes /\ i + total_bytes + b - 1 = q
        BY <1>1, <2>1, <3>2
      <4>2. b \notin VectorMask
        BY <2>1
      <4> QED BY <4>1, <4>2 DEF VectorMask
    <3> QED BY <1>1, <2>1, <3>1, <3>2
  <2>4. NoSpecial(passed, i)' /\ passed' <= i'
    BY <1>2, <2>1 DEF IInv, NoSpecial, Special
  <2>5. (\A q \in i .. i + total_bytes - 1 : ~Matched(q))'
    BY <1>2, <2>1, <2>3 DEF Matched
  <2>6. (skip_next_delim => passed = i /\ i < bytes_read /\ buff[i] = "quote")'
    BY <1>2, <2>1 DEF IInv
  <2>7. mask' = {} /\ mask_last_start' = i' /\ i' + VectorBytes <= bytes_read'
        /\ total_bytes' >= VectorBytes
    BY <1>1, <1>2, <2>1 DEF IInv
  <2> QED BY <1>2, <1>3, <2>1, <2>2, <2>4, <2>5, <2>6, <2>7 DEF IInv
<1>6. CASE VectorFound
  <2>1. /\ pc = "vector" /\ pc' = "bits" /\ i' = i + total_bytes /\ mask' = VectorMask
        /\ mask_last_start' = i /\ total_bytes' = total_bytes
        /\ i + total_bytes + VectorBytes <= bytes_read /\ VectorMask # {}
        /\ \A q \in i .. i + total_bytes - 1 : ~Matched(q)
        /\ total_bytes = 0 \/ total_bytes >= VectorBytes
    BY <1>6 DEF VectorFound, VectorLeft, IInv
  <2>2. TypeOK'
    BY <1>1, <1>2, <2>1 DEF TypeOK, VectorMask
  <2>3. passed <= i /\ NoSpecial(passed, i)
    BY DEF IInv
  <2>4. NoSpecial(passed, i)'
    BY <1>1, <1>2, <2>1, <2>3 DEF NoSpecial, Special, Matched
  <2>5. skip_next_delim => total_bytes = 0
    <3> SUFFICES ASSUME skip_next_delim PROVE total_bytes = 0
      OBVIOUS
    <3>1. i < bytes_read /\ buff[i] = "quote"
      BY DEF IInv
    <3>2. Matched(i)
      BY <1>1, <3>1 DEF Matched
    <3> QED BY <1>1, <2>1, <3>2
  <2>6. MaskInv'
    <3>1. ASSUME NEW b \in VectorMask PROVE passed <= i + b - 1
      BY <1>1, <2>3, <3>1 DEF VectorMask
    <3>2. ASSUME NEW q \in passed .. i + VectorBytes - 1, Special(q)
          PROVE  q >= i /\ q - i + 1 \in VectorMask
      <4>1. q \in Nat /\ q >= i
        BY <1>1, <2>3, <3>2 DEF NoSpecial
      <4>2. Matched(q)
        BY <3>2 DEF Matched, Special
      <4>3. total_bytes = 0
        BY <1>1, <2>1, <4>1, <4>2
      <4>4. q - i + 1 \in 1 .. VectorBytes /\ i + total_bytes + (q - i + 1) - 1 = q
        BY <1>1, <4>1, <4>3
      <4> QED BY <4>1, <4>2, <4>4 DEF VectorMask
    <3> QED BY <1>1, <1>2, <2>1, <3>1, <3>2 DEF MaskInv, Special
  <2>7. (skip_next_delim => passed = i /\ i < bytes_read /\ buff[i] = "quote")'
    BY <1>1, <1>2, <2>1, <2>5 DEF IInv
  <2>8. passed' <= i'
    BY <1>1, <1>2, <2>1, <2>3
  <2> QED BY <1>2, <1>3, <2>1, <2>2, <2>4, <2>6, <2>7, <2>8 DEF IInv
<1> QED BY <1>3, <1>4, <1>5, <1>6

(* No vector is left. *)
LEMMA VectorsEndStep ==
  ASSUME IInv, VectorsEnd
  PROVE  IInv' /\ [Promise!Next]_(Promise!vars)
PROOF
<1>1. /\ TypeOK /\ bytes_read \in Nat /\ i \in Nat /\ total_bytes \in Nat /\ passed \in Nat
      /\ VectorBytes \in Nat /\ VectorBytes > 0 /\ DOMAIN buff = 0 .. bytes_read - 1
      /\ skip_next_delim \in BOOLEAN
  BY VectorAssumption DEF IInv, TypeOK
<1>2. /\ UNCHANGED <<buff, bytes_read, skip_next_delim, passed, handled, mask, mask_last_start,
                     total_bytes>>
      /\ pc = "vector" /\ i' = i + total_bytes /\ pc' = IF i' = bytes_read THEN "done" ELSE "byte"
      /\ ~(i + total_bytes + VectorBytes <= bytes_read)
  BY DEF VectorsEnd, VectorLeft
<1>3. /\ mask = {} /\ i + VectorBytes <= bytes_read /\ i + total_bytes <= bytes_read
      /\ \A q \in i .. i + total_bytes - 1 : ~Matched(q)
      /\ passed <= i /\ NoSpecial(passed, i)
  BY <1>2 DEF IInv, TypeOK
<1>4. ~skip_next_delim
  <2> SUFFICES ASSUME skip_next_delim PROVE FALSE
    OBVIOUS
  <2>1. i < bytes_read /\ buff[i] = "quote"
    BY DEF IInv
  <2>2. Matched(i)
    BY <1>1, <2>1 DEF Matched
  <2> QED BY <1>1, <1>2, <1>3, <2>2
<1>5. NoSpecial(passed, i)'
  BY <1>1, <1>2, <1>3 DEF NoSpecial, Special, Matched
<1>6. TypeOK'
  BY <1>1, <1>2, <1>3 DEF TypeOK
<1>7. IInv'
  BY <1>1, <1>2, <1>3, <1>4, <1>5, <1>6 DEF IInv
<1>8. CASE i' = bytes_read
  <2>1. \A p \in DOMAIN buff : p >= passed => ~Promise!Special(p)
    BY <1>1, <1>2, <1>5, <1>8 DEF NoSpecial, Special, Promise!Special
  <2> QED BY <1>2, <1>4, <1>7, <1>8, <2>1 DEF Promise!End, Promise!Next
<1>9. CASE i' # bytes_read
  BY <1>2, <1>7, <1>9 DEF Promise!vars
<1> QED BY <1>8, <1>9

(* The last byte of the chunk has been handled. *)
LEMMA ScanEndsStep ==
  ASSUME IInv, ScanEnds
  PROVE  IInv' /\ [Promise!Next]_(Promise!vars)
PROOF
<1>1. /\ TypeOK /\ bytes_read \in Nat /\ i = bytes_read /\ passed \in Nat
      /\ DOMAIN buff = 0 .. bytes_read - 1 /\ skip_next_delim \in BOOLEAN
      /\ NoSpecial(passed, i)
  BY VectorAssumption DEF IInv, TypeOK, ScanEnds
<1>2. /\ UNCHANGED <<buff, bytes_read, i, skip_next_delim, passed, handled, mask,
                     mask_last_start, total_bytes>>
      /\ pc = "loop" /\ pc' = "done"
  BY DEF ScanEnds
<1>3. ~skip_next_delim
  BY <1>1 DEF IInv
<1>4. TypeOK'
  BY <1>1, <1>2 DEF TypeOK
<1>5. IInv'
  BY <1>1, <1>2, <1>3, <1>4 DEF IInv, NoSpecial, Special, MaskInv
<1>6. \A p \in DOMAIN buff : p >= passed => ~Promise!Special(p)
  BY <1>1 DEF NoSpecial, Special, Promise!Special
<1> QED BY <1>2, <1>3, <1>5, <1>6 DEF Promise!End, Promise!Next

(* Every step keeps the invariant, and is a step of ByteScan or none. *)
LEMMA Step == IInv /\ [Next]_vars => IInv' /\ [Promise!Next]_(Promise!vars)
PROOF
<1> SUFFICES ASSUME IInv, [Next]_vars PROVE IInv' /\ [Promise!Next]_(Promise!vars)
  OBVIOUS
<1>1. CASE UNCHANGED vars
  <2>1. IInv'
    BY <1>1 DEF vars, IInv, TypeOK, NoSpecial, Special, Matched, MaskInv
  <2> QED BY <1>1, <2>1 DEF vars, Promise!vars
<1>2. CASE StartSearch \/ NextVector \/ VectorFound
  BY <1>2, SearchStep
<1>3. CASE TailByte
  BY <1>3, TailByteStep
<1>4. CASE VectorsEnd
  BY <1>4, VectorsEndStep
<1>5. CASE ByteBehindVectors
  BY <1>5, ByteBehindVectorsStep
<1>6. CASE NextBit
  BY <1>6, NextBitStep
<1>7. CASE ScanEnds
  BY <1>7, ScanEndsStep
<1> QED BY <1>1, <1>2, <1>3, <1>4, <1>5, <1>6, <1>7 DEF Next

(* EndsAtEnd and the types hold for every vector size: no vector and no byte
   beyond the chunk is read, and the scan stops right behind its last byte. *)
THEOREM SearchStaysInChunk == Spec => [](TypeOK /\ EndsAtEnd)
PROOF
<1>1. IInv => TypeOK /\ EndsAtEnd
  BY DEF IInv, EndsAtEnd
<1> QED BY <1>1, InitIInv, Step, PTL DEF Spec

(* VectorScan implements ByteScan for every vector size and every chunk: the
   scanner sees each special once, in order, and skips second quotes only
   (zsv_scan_delim.c:105-132). *)
THEOREM SearchFindsAll == Spec => ImplementsByteScan
PROOF
<1>1. Init => Promise!Init
  BY VectorAssumption DEF Init, Promise!Init, Bytes
<1> QED BY <1>1, InitIInv, Step, PTL DEF Spec, ImplementsByteScan, Promise!Spec

=============================================================================
