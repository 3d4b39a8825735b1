----------------------------- MODULE JsonWriter -----------------------------
(***************************************************************************)
(* The writer of JSON: it knows how deep it is, the bracket that closes    *)
(* each level and how many values the level has, and writes commas and     *)
(* colons from that, through a buffer.                                     *)
(* src/app/external/json_writer-1.0/jsonwriter.c.                          *)
(*                                                                         *)
(* A writer is [file, buff, overrun, close, counts, just_wrote_key]; what  *)
(* it writes are tokens, and each but the long texts takes one place of    *)
(* the buffer.  Left out: white space, the escapes in strings, numbers.    *)
(***************************************************************************)
EXTENDS Integers, Sequences

CONSTANTS
  MaxNesting,    \* JSONWRITER_MAX_NESTING
  JsonBuffSize,  \* JSONWRITER_OUTPUT_BUFF_SIZE
  LongTexts      \* texts that are longer than the buffer

NewWriter == [ file |-> <<>>, buff |-> <<>>,
               overrun |-> FALSE,               \* bytes were written behind the buffer
               close |-> <<>>, counts |-> <<>>, just_wrote_key |-> FALSE ]

Depth(w) == Len(w.close)

(* jsonwriter_output_buff_flush *)
Flush(w) == [w EXCEPT !.file = @ \o w.buff, !.buff = <<>>]

(* jsonwriter_output_buff_write: a text that is longer than the buffer is written to
   the file, and then copied to the buffer all the same, as the code does not return. *)
BuffWrite(w, token) ==
  LET long == token \in LongTexts
      room == IF long \/ Len(w.buff) = JsonBuffSize THEN Flush(w) ELSE w
      v    == IF long THEN [room EXCEPT !.file = Append(@, token), !.overrun = TRUE] ELSE room
  IN  [v EXCEPT !.buff = Append(@, token)]

(* Faulty: a key is counted, and so is the value behind it. *)
Indent_Twice(w) ==
  LET n == Depth(w)
      comma == IF n > 0 /\ w.counts[n] > 0 THEN BuffWrite(w, ",") ELSE w
      v == IF n = 0 THEN w ELSE [comma EXCEPT !.counts[n] = @ + 1]
  IN  IF w.just_wrote_key THEN [BuffWrite(v, ":") EXCEPT !.just_wrote_key = FALSE] ELSE v

(* jsonwriter_indent, before a value: a colon behind a key, or else a comma behind
   another value. *)
Indent(w) ==
  LET n == Depth(w)
      comma == IF n > 0 /\ w.counts[n] > 0 THEN BuffWrite(w, ",") ELSE w
  IN  IF w.just_wrote_key THEN [BuffWrite(w, ":") EXCEPT !.just_wrote_key = FALSE]
      ELSE IF n = 0 THEN w ELSE [comma EXCEPT !.counts[n] = @ + 1]

Put(w, token) == BuffWrite(Indent(w), token)

(* jsonwriter_strn and the other values *)
Str(w, s) == IF Depth(w) < MaxNesting THEN Put(w, s) ELSE w

(* jsonwriter_object_key *)
Key(w, name) ==
  IF Depth(w) < MaxNesting THEN [Put(w, name) EXCEPT !.just_wrote_key = TRUE] ELSE w

(* jsonwriter_go_deeper *)
GoDeeper(w, open, close) ==
  IF Depth(w) >= MaxNesting - 1 THEN w
  ELSE LET v == Put(w, open)
       IN  [v EXCEPT !.close = Append(@, close), !.counts = Append(@, 0)]

StartObject(w) == GoDeeper(w, "{", "}")
StartArray(w) == GoDeeper(w, "[", "]")

(* jsonwriter_end_aux for any bracket; a key without a value gets its colon. *)
End(w) ==
  IF Depth(w) = 0 THEN w
  ELSE LET n == Depth(w)
           v == [w EXCEPT !.close = SubSeq(@, 1, n - 1), !.counts = SubSeq(@, 1, n - 1),
                          !.just_wrote_key = FALSE]
       IN  BuffWrite(IF w.just_wrote_key THEN BuffWrite(v, ":") ELSE v, w.close[n])

(* jsonwriter_end_array, jsonwriter_end_object: only the level that is open *)
EndOf(w, bracket) == IF Depth(w) > 0 /\ w.close[Depth(w)] = bracket THEN End(w) ELSE w
EndArray(w) == EndOf(w, "]")
EndObject(w) == EndOf(w, "}")

(* jsonwriter_end_all; more levels than there may be *)
EndAll(w) == LET f[n \in 0 .. MaxNesting] == IF n = 0 THEN w ELSE End(f[n - 1]) IN f[MaxNesting]

=============================================================================
