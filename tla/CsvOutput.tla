----------------------------- MODULE CsvOutput -----------------------------
(***************************************************************************)
(* What a CSV writer promises of the file behind it: the text it is given  *)
(* reaches the file in order, all of it and once, late or soon, and at the *)
(* latest when the writer is flushed or deleted.                           *)
(***************************************************************************)
EXTENDS Sequences, SequencesExt

CONSTANT LineEnd   \* what deleting a writer adds to a text that has begun

VARIABLES
  text,      \* what has been written
  file,      \* the part of it that has reached the file
  deleted

Init == text = <<>> /\ file = <<>> /\ deleted = FALSE

(* More text; some of what is there so far may go to the file. *)
Write ==
  /\ ~deleted /\ UNCHANGED deleted
  /\ IsPrefix(text, text')
  /\ IsPrefix(file, file') /\ IsPrefix(file', text')

Flush ==
  /\ ~deleted /\ file' = text
  /\ UNCHANGED <<text, deleted>>

Delete ==
  /\ ~deleted /\ deleted' = TRUE
  /\ text' \in {text, text \o LineEnd} /\ file' = text'

Next == Write \/ Flush \/ Delete

Spec == Init /\ [][Next]_<<text, file, deleted>>

=============================================================================
