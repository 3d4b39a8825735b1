------------------------------ MODULE ByteScan ------------------------------
(***************************************************************************)
(* What the search for specials promises to the rest of the delimiter      *)
(* scanner: the specials of the chunk are handled one after the other,     *)
(* from the left, and none is left out.  When the scanner has asked for    *)
(* the next byte to be passed over, it is the quote behind the one at hand *)
(* that is passed over, and nothing else.                                  *)
(***************************************************************************)
EXTENDS Integers, Sequences

CONSTANT MaxBytes   \* bound: bytes in the chunk

VARIABLES
  buff,      \* the chunk: byte q at offset q
  next,      \* everything before this offset has been handled
  skip,      \* the special at next is the second quote of a pair
  handled,   \* the specials handled so far, and whether they were passed over
  ended

vars == <<buff, next, skip, handled, ended>>

Special(q) == buff[q] \in {"special", "quote"}

(* Whether a pair of quotes escapes a quote depends on the cell it is in. *)
MaySkipBehind(q) ==
  IF buff[q] = "quote" /\ q + 1 \in DOMAIN buff /\ buff[q + 1] = "quote"
  THEN BOOLEAN ELSE {FALSE}

Handle(q, skipped) ==
  /\ Special(q)
  /\ handled' = Append(handled, [at |-> q, skipped |-> skipped])
  /\ next' = q + 1
  /\ UNCHANGED <<buff, ended>>

VisitSpecial ==
  /\ ~skip
  /\ \E q \in DOMAIN buff :
       /\ q >= next
       /\ \A p \in DOMAIN buff : next <= p /\ p < q => ~Special(p)
       /\ Handle(q, FALSE)
       /\ skip' \in MaySkipBehind(q)

SkipSecondQuote ==
  /\ skip
  /\ next \in DOMAIN buff /\ buff[next] = "quote"
  /\ Handle(next, TRUE)
  /\ skip' = FALSE

End ==
  /\ ~skip
  /\ \A p \in DOMAIN buff : p >= next => ~Special(p)
  /\ ended' = TRUE
  /\ UNCHANGED <<buff, next, skip, handled>>

Init ==
  /\ \E n \in 0 .. MaxBytes : buff \in [0 .. n - 1 -> {"plain", "matched", "special", "quote"}]
  /\ next \in Nat
  /\ skip = FALSE /\ handled = <<>> /\ ended = FALSE

Next == ~ended /\ (VisitSpecial \/ SkipSecondQuote \/ End)

Spec == Init /\ [][Next]_vars

=============================================================================
