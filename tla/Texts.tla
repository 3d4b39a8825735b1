------------------------------- MODULE Texts -------------------------------
(* Texts as sequences of characters, as far as the commands look into them:
   "X" is the upper case of "x".  src/app/utils/string.c.                    *)
EXTENDS Naturals, Sequences, FiniteSetsExt

Lower(c) == IF c = "X" THEN "x" ELSE c

(* zsv_stricmp and zsv_strincmp find no difference. *)
SameName(s, t) == Len(s) = Len(t) /\ \A n \in DOMAIN s : Lower(s[n]) = Lower(t[n])

(* zsv_strtrim: where the text without the spaces around it begins, and the text. *)
Trimmed(s) ==
  LET Text == {n \in DOMAIN s : s[n] # " "}
  IN  IF Text = {} THEN [first |-> Len(s) + 1, text |-> <<>>]
      ELSE [first |-> Min(Text), text |-> SubSeq(s, Min(Text), Max(Text))]

=============================================================================
