----------------------------- MODULE Utf8Repair -----------------------------
(***************************************************************************)
(* A command with --malformed-utf8-encoding: bytes of a cell that make no  *)
(* character of UTF-8 are replaced, or removed, where they stand in the    *)
(* parser's buffer.  src/src/zsv_strencode.c.                              *)
(*                                                                         *)
(* A byte is what it is for UTF-8: "a", one that is a character; "2" and   *)
(* "3", the first of two and of three; "c", a further one; "x", none of    *)
(* these.                                                                  *)
(***************************************************************************)
EXTENDS Integers, Sequences, SequencesExt

CONSTANT Utf8Inputs    \* bound: the cells

VARIABLES
  opts,                \* what a byte is replaced with: <<>> or one character
  input,
  at,                  \* i2
  data,                \* s: the bytes where the cell is
  written,             \* new_len
  pc                   \* "scan", "done"

vars == <<opts, input, at, data, written, pc>>

(* ZSV_UTF8_CHARLEN; 0 for its -1 *)
CharLen(c) == CASE c = "a" -> 1 [] c = "2" -> 2 [] c = "3" -> 3 [] OTHER -> 0

Init ==
  /\ opts \in {<<>>, <<"a">>} /\ input \in Utf8Inputs
  /\ at = 0 /\ data = input /\ written = 0 /\ pc = "scan"

(* The bytes that a character which begins here has, as far as they are there. *)
ValidBytes(s, i) ==
  LET char == SubSeq(s, i + 1, i + CharLen(s[i + 1]))
      bad  == {n \in 2 .. Len(char) : char[n] # "c"}
  IN  IF bad = {} THEN Len(char) ELSE Min(bad) - 1

(* s with these bytes at new_len *)
Put(s, bytes) ==
  [n \in DOMAIN s |-> IF n \in written + 1 .. written + Len(bytes) THEN bytes[n - written] ELSE s[n]]

(* Faulty: a character that is cut short takes as many bytes as it should have. *)
Malformed_Whole(s, i) == IF CharLen(s[i + 1]) = 0 \/ i + CharLen(s[i + 1]) > Len(s) THEN 1 ELSE CharLen(s[i + 1])

(* How many bytes are replaced: one if the first byte cannot begin a character, or
   not in what is left, and else those up to the one that does not belong. *)
Malformed(s, i) == IF CharLen(s[i + 1]) = 0 \/ i + CharLen(s[i + 1]) > Len(s) THEN 1 ELSE ValidBytes(s, i)

(* All bytes of a character are here. *)
Complete(s, i) ==
  LET clen == CharLen(s[i + 1])
  IN  clen > 0 /\ i + clen <= Len(s) /\ ValidBytes(s, i) = clen

CopyChar ==
  /\ pc = "scan" /\ at < Len(data) /\ Complete(data, at)
  /\ LET clen == CharLen(data[at + 1])
     IN  /\ data' = Put(data, SubSeq(data, at + 1, at + clen))
         /\ written' = written + clen /\ at' = at + clen
  /\ UNCHANGED <<opts, input, pc>>

ReplaceBytes ==
  /\ pc = "scan" /\ at < Len(data) /\ ~Complete(data, at)
  /\ LET n == Malformed(data, at)
     IN  /\ data' = IF opts = <<>> THEN data ELSE Put(data, [k \in 1 .. n |-> opts[1]])
         /\ written' = written + n * Len(opts) /\ at' = at + n
  /\ UNCHANGED <<opts, input, pc>>

Finish ==
  /\ pc = "scan" /\ at = Len(data) /\ pc' = "done"
  /\ UNCHANGED <<opts, input, at, data, written>>

Next == CopyChar \/ ReplaceBytes \/ Finish

Spec == Init /\ [][Next]_vars

-----------------------------------------------------------------------------
(* What is promised. *)

(* The byte is part of a character that is complete. *)
InChar(k) ==
  \E l \in 1 .. k :
    LET end == l + CharLen(input[l]) - 1
    IN  k <= end /\ end <= Len(input) /\ \A j \in l + 1 .. end : input[j] = "c"

(* Every byte of a complete character stays, in its place among the others; of those that
   make none each is replaced, or none is left. *)
KeepsCharacters ==
  pc = "done" =>
    SubSeq(data, 1, written)
      = FlattenSeq([k \in DOMAIN input |-> IF InChar(k) THEN <<input[k]>> ELSE opts])

=============================================================================
