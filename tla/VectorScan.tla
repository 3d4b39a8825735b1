----------------------------- MODULE VectorScan -----------------------------
(***************************************************************************)
(* How the delimiter scanner finds the next special of a chunk: vec_delims *)
(* compares a vector of bytes at a time and leaves a mask of the specials  *)
(* in it, whose bits the loop of zsv_scan_delim takes off one by one; near *)
(* the end of the chunk the loop goes byte by byte.                        *)
(* src/src/zsv_scan_delim.c and src/src/vector_delim.c.                    *)
(*                                                                         *)
(* What the loop does with a special is ZsvScan's subject; here it may ask *)
(* for the byte behind a quote to be skipped.                              *)
(***************************************************************************)
EXTENDS Integers, Sequences

CONSTANTS
  VectorBytes,   \* VECTOR_BYTES
  MaxBytes       \* bound: bytes in the chunk

ASSUME VectorAssumption == VectorBytes \in Nat \ {0} /\ MaxBytes \in Nat

(* Plain bytes; bytes that only the mask takes for a special (NUL, with
   opts.no_quotes); delimiters and line ends; quotes. *)
Bytes == {"plain", "matched", "special", "quote"}

VARIABLES
  buff,              \* the chunk
  bytes_read,        \* its length
  i,                 \* the cursor of zsv_scan_delim
  mask,              \* the bits that are set, from 1 as NEXT_BIT counts them
  mask_last_start,
  skip_next_delim,
  total_bytes,       \* the local of vec_delims
  pc,                \* "loop": at the for; "vector": in vec_delims; "bits",
                     \* "byte": behind it, with or without a mask
  passed,            \* history: one past the last byte handled
  handled            \* history: the bytes handled

vars == <<buff, bytes_read, i, mask, mask_last_start, skip_next_delim,
          total_bytes, pc, passed, handled>>

Special(q) == q \in DOMAIN buff /\ buff[q] \in {"special", "quote"}
Matched(q) == q \in DOMAIN buff /\ buff[q] # "plain"

(* The offsets a vector can start at. *)
bytes_chunk_end == IF bytes_read >= VectorBytes THEN bytes_read - VectorBytes + 1 ELSE 0

(* The bits that NEXT_BIT may find: the lowest, if any is set. *)
LowestBits == {b \in mask : \A c \in mask : b <= c}

-----------------------------------------------------------------------------
Init ==
  /\ \E n \in 0 .. MaxBytes : buff \in [0 .. n - 1 -> Bytes] /\ bytes_read = n
  /\ i \in 0 .. bytes_read          \* behind the partial row
  /\ mask = {} /\ mask_last_start = 0 /\ skip_next_delim = FALSE
  /\ total_bytes = 0 /\ pc = "loop"
  /\ passed = i /\ handled = <<>>

(* The scanner handles byte q, and the loop goes on behind it. *)
Handle(q, skipped) ==
  /\ handled' = Append(handled, [at |-> q, skipped |-> skipped])
  /\ passed' = q + 1

EscapesNext(q) == buff[q] = "quote" /\ q + 1 < bytes_read /\ buff[q + 1] = "quote"

VisitByte(q) ==
  /\ i' = q + 1 /\ pc' = "loop"
  /\ \/ /\ ~Special(q)
        /\ UNCHANGED <<passed, handled, skip_next_delim>>
     \/ /\ Special(q) /\ Handle(q, FALSE)
        /\ UNCHANGED skip_next_delim
     \/ /\ Special(q) /\ EscapesNext(q) /\ Handle(q, FALSE)
        /\ skip_next_delim' = TRUE

SkipByte(q) ==
  /\ i' = q + 1 /\ pc' = "loop"
  /\ Handle(q, TRUE)
  /\ skip_next_delim' = FALSE

(* No mask is left: the next search starts here. *)
StartSearch_NoStart ==
  /\ pc = "loop" /\ i < bytes_read /\ mask = {}
  /\ i < bytes_chunk_end
  /\ total_bytes' = 0 /\ pc' = "vector"
  /\ UNCHANGED <<buff, bytes_read, i, mask, mask_last_start, skip_next_delim, passed, handled>>

StartSearch ==
  /\ pc = "loop" /\ i < bytes_read /\ mask = {}
  /\ i < bytes_chunk_end
  /\ mask_last_start' = i
  /\ total_bytes' = 0 /\ pc' = "vector"
  /\ UNCHANGED <<buff, bytes_read, i, mask, skip_next_delim, passed, handled>>

(* Fewer bytes are left than a vector has. *)
TailByte ==
  /\ pc = "loop" /\ i < bytes_read /\ mask = {}
  /\ i >= bytes_chunk_end
  /\ mask_last_start' = i
  /\ IF skip_next_delim THEN SkipByte(i) ELSE VisitByte(i)
  /\ UNCHANGED <<buff, bytes_read, mask, total_bytes>>

(* vec_delims: the bits of the vector at i + total_bytes. *)
VectorMask == {b \in 1 .. VectorBytes : Matched(i + total_bytes + b - 1)}

(* Its loop runs over the n / VectorBytes vectors that fit. *)
VectorLeft == i + total_bytes + VectorBytes <= bytes_read

NextVector ==
  /\ pc = "vector" /\ VectorLeft /\ VectorMask = {}
  /\ total_bytes' = total_bytes + VectorBytes
  /\ UNCHANGED <<buff, bytes_read, i, mask, mask_last_start, skip_next_delim, pc, passed, handled>>

(* The bits count from the vector they were found in; the loop takes them to
   count from mask_last_start, where the search began. *)
VectorFound ==
  /\ pc = "vector" /\ VectorLeft /\ VectorMask # {}
  /\ mask' = VectorMask
  /\ i' = i + total_bytes /\ pc' = "bits"
  /\ UNCHANGED <<buff, bytes_read, mask_last_start, skip_next_delim, total_bytes, passed, handled>>

(* Faulty: the loop ends when the vectors do. *)
VectorsEnd_Early ==
  /\ pc = "vector" /\ ~VectorLeft
  /\ i' = i + total_bytes
  /\ pc' = "done"
  /\ UNCHANGED <<buff, bytes_read, mask, mask_last_start, skip_next_delim, total_bytes,
                 passed, handled>>

VectorsEnd ==
  /\ pc = "vector" /\ ~VectorLeft
  /\ i' = i + total_bytes
  /\ pc' = IF i' = bytes_read THEN "done" ELSE "byte"
  /\ UNCHANGED <<buff, bytes_read, mask, mask_last_start, skip_next_delim, total_bytes,
                 passed, handled>>

(* Behind the last vector the byte at hand is not skipped. *)
ByteBehindVectors ==
  /\ pc = "byte"
  /\ VisitByte(i)
  /\ UNCHANGED <<buff, bytes_read, mask, mask_last_start, total_bytes>>

(* Faulty: the bit stays set. *)
NextBit_KeepBit ==
  /\ pc = "bits" \/ (pc = "loop" /\ i < bytes_read)
  /\ \E b \in LowestBits :
       LET q == mask_last_start + b - 1
       IN  IF skip_next_delim THEN SkipByte(q) ELSE VisitByte(q)
  /\ UNCHANGED <<buff, bytes_read, mask, mask_last_start, total_bytes>>

NextBit ==
  /\ pc = "bits" \/ (pc = "loop" /\ i < bytes_read)
  /\ \E b \in LowestBits :
       LET q == mask_last_start + b - 1
       IN  IF skip_next_delim THEN SkipByte(q) ELSE VisitByte(q)
  /\ mask' = mask \ LowestBits
  /\ UNCHANGED <<buff, bytes_read, mask_last_start, total_bytes>>

ScanEnds ==
  /\ pc = "loop" /\ i >= bytes_read
  /\ pc' = "done"
  /\ UNCHANGED <<buff, bytes_read, i, mask, mask_last_start, skip_next_delim,
                 total_bytes, passed, handled>>

Next ==
  \/ StartSearch \/ TailByte \/ NextVector \/ VectorFound \/ VectorsEnd
  \/ ByteBehindVectors \/ NextBit \/ ScanEnds

Spec == Init /\ [][Next]_vars

(* The whole scan is one call of zsv_scan_delim: it does not stop by itself. *)
FairSpec == Spec /\ WF_vars(Next)

-----------------------------------------------------------------------------
(* The search never leaves the chunk, and bits are those of one vector. *)
TypeOK ==
  /\ bytes_read \in 0 .. MaxBytes
  /\ buff \in [0 .. bytes_read - 1 -> Bytes]
  /\ i \in 0 .. bytes_read
  /\ mask \subseteq 1 .. VectorBytes
  /\ mask_last_start \in 0 .. bytes_read
  /\ skip_next_delim \in BOOLEAN
  /\ total_bytes \in 0 .. bytes_read /\ (pc = "vector" => i + total_bytes <= bytes_read)
  /\ pc \in {"loop", "vector", "bits", "byte", "done"}
  /\ passed \in 0 .. bytes_read
  /\ handled \in Seq([at : Nat, skipped : BOOLEAN])

Promise == INSTANCE ByteScan WITH next <- passed, skip <- skip_next_delim, ended <- pc = "done"

(* Whatever vectors the specials lie in, and although the bits of a mask found
   behind the first vector are applied to the wrong bytes, every special is
   handled once, from the left, and a skip hits the second quote of its pair. *)
ImplementsByteScan == Promise!Spec

(* The scan ends with its cursor behind the last byte, where the next chunk goes
   on: scanned_length, set from it, is the length of the chunk. *)
EndsAtEnd == pc = "done" => i = bytes_read

(* The scan ends: each search, also one that goes back, leads to a byte further
   on than the last. *)
Terminates == <>(pc = "done")

=============================================================================
