-------------------------------- MODULE Desc --------------------------------
(***************************************************************************)
(* zsv desc: of each column the number of cells, the shortest and longest, *)
(* whether they are unique, and some examples.  src/app/desc.c.  One step  *)
(* is a row, its cells and then its end.                                   *)
(*                                                                         *)
(* Left out: percentages, -o, -b, and memory that runs out.                *)
(***************************************************************************)
EXTENDS Integers, Sequences, SequencesExt, Texts

CONSTANTS
  DescMaxCols,         \* -C
  MaxEnum,             \* ZSV_DESC_MAX_ENUM_DEFAULT
  MaxExamples,         \* ZSV_DESC_MAX_EXAMPLE_COUNT
  DescOptions,         \* bound: what the command may be called with
  DescInputs           \* bound: the rows of the input

VARIABLES opts, input, at,
  data,                \* struct zsv_desc_data
  written, pc          \* "rows", "done"

vars == <<opts, input, at, data, written, pc>>

Lowered(s) == [n \in DOMAIN s |-> Lower(s[n])]

NewColumn(name) ==
  [ name |-> name, total_count |-> 0, mblank |-> 0, lo |-> 0, hi |-> 0, examples |-> <<>>,
    not_unique |-> FALSE, unique_values |-> {},
    not_unique_ci |-> FALSE, unique_values_ci |-> {}, ci_count |-> 0, not_enum |-> FALSE ]

Init ==
  /\ opts \in DescOptions /\ input \in DescInputs
  /\ at = 0 /\ written = <<>> /\ pc = "rows"
  /\ data = [columns |-> <<>>, done |-> FALSE]

(* zsv_desc_cell, zsv_desc_row on the header: as many columns as the limit are none. *)
HeaderRow ==
  /\ pc = "rows" /\ at = 0 /\ at < Len(input)
  /\ LET names == IF Len(input[1]) < DescMaxCols THEN input[1] ELSE <<>>
     IN  data' = [columns |-> [ix \in DOMAIN names |-> NewColumn(Trimmed(names[ix]).text)],
                  done |-> opts.header_only]
  /\ at' = 1 /\ UNCHANGED <<opts, input, written, pc>>

(* An example has how often it was seen again, whatever its case.  With -q that is
   only counted until there are enough examples. *)
AddExample(col, text) ==
  LET same == {n \in DOMAIN col.examples : SameName(col.examples[n].value, text)}
  IN  IF Len(col.examples) >= MaxExamples /\ opts.quick THEN col
      ELSE IF same # {} THEN [col EXCEPT !.examples[Min(same)].count = @ + 1]
      ELSE IF Len(col.examples) < MaxExamples
      THEN [col EXCEPT !.examples = Append(@, [value |-> text, count |-> 0])] ELSE col

(* zsv_desc_column_update_unique.  The values are dropped with the first that is
   seen again. *)
AddUnique(col, text) ==
  IF ~opts.all \/ col.not_unique THEN col
  ELSE IF text \in col.unique_values
  THEN [col EXCEPT !.not_unique = TRUE, !.unique_values = {}]
  ELSE [col EXCEPT !.unique_values = @ \cup {text}]

(* Faulty: the values are dropped as soon as there are too many. *)
AddUniqueCi_Early(col, text) ==
  LET lc == Lowered(text)
  IN  IF ~opts.all THEN col
      ELSE IF lc \in col.unique_values_ci THEN [col EXCEPT !.not_unique_ci = TRUE]
      ELSE IF col.ci_count >= MaxEnum
      THEN [col EXCEPT !.unique_values_ci = {lc}, !.ci_count = 1]
      ELSE [col EXCEPT !.unique_values_ci = @ \cup {lc}, !.ci_count = @ + 1]

(* Whatever its case: the values are dropped when there are too many and one is
   seen again. *)
AddUniqueCi(col, text) ==
  LET lc == Lowered(text)
  IN  IF ~opts.all \/ (col.not_unique_ci /\ col.not_enum) THEN col
      ELSE IF lc \notin col.unique_values_ci
      THEN [col EXCEPT !.unique_values_ci = @ \cup {lc}, !.ci_count = @ + 1]
      ELSE IF col.ci_count > MaxEnum
      THEN [col EXCEPT !.not_unique_ci = TRUE, !.unique_values_ci = {}, !.not_enum = TRUE]
      ELSE [col EXCEPT !.not_unique_ci = TRUE]

(* zsv_desc_cell *)
Cell(col, cell) ==
  LET text == Trimmed(cell).text
      len  == Len(text)
      seen == [col EXCEPT !.total_count = @ + 1]
  IN  IF len = 0 THEN [seen EXCEPT !.mblank = @ + 1]
      ELSE AddUniqueCi(AddUnique(AddExample(
             [seen EXCEPT !.lo = IF @ = 0 THEN len ELSE Min({@, len}), !.hi = Max({@, len})],
             text), text), text)

DataRow ==
  /\ pc = "rows" /\ at > 0 /\ at < Len(input)
  /\ LET row == input[at + 1]
     IN  data' = IF data.done THEN data
                 ELSE [data EXCEPT !.columns = [ix \in DOMAIN @ |-> IF ix \in DOMAIN row
                                                                    THEN Cell(@[ix], row[ix]) ELSE @[ix]]]
  /\ at' = at + 1 /\ UNCHANGED <<opts, input, written, pc>>

(* zsv_desc_print; an example that was seen once is printed without its number. *)
PrintColumns ==
  /\ pc = "rows" /\ at = Len(input)
  /\ LET Line(col) ==
           IF opts.header_only THEN [name |-> col.name]
           ELSE [ name |-> col.name, lo |-> col.lo, hi |-> col.hi, count |-> col.total_count,
                  unique |-> IF opts.all THEN ~col.not_unique ELSE FALSE,
                  unique_ci |-> IF opts.all THEN ~col.not_unique_ci ELSE FALSE,
                  blank |-> col.mblank,
                  examples |-> [n \in DOMAIN col.examples |->
                                  [value |-> col.examples[n].value, seen |-> col.examples[n].count + 1]] ]
     IN  written' = [ix \in DOMAIN data.columns |-> Line(data.columns[ix])]
  /\ pc' = "done" /\ UNCHANGED <<opts, input, at, data>>

Next == HeaderRow \/ DataRow \/ PrintColumns

Spec == Init /\ [][Next]_vars

-----------------------------------------------------------------------------
(* What is promised: what is printed of a column is true of its cells, also when
   the values seen so far were dropped or the examples were full. *)

TextsOf(ix) == FlattenSeq([n \in DOMAIN input |->
                 IF n = 1 \/ ix \notin DOMAIN input[n] THEN <<>> ELSE <<Trimmed(input[n][ix]).text>>])

Describes ==
  \A ix \in DOMAIN written :
    LET w     == written[ix]
        texts == SelectSeq(TextsOf(ix), LAMBDA t : t # <<>>)
        Seen(n) == Cardinality({m \in DOMAIN texts : SameName(texts[m], texts[n])})
        First(n) == \A m \in 1 .. n - 1 : ~SameName(texts[m], texts[n])
        firsts == SetToSortSeq({n \in DOMAIN texts : First(n)}, <)
    IN  ~opts.header_only =>
          /\ w.count = Len(TextsOf(ix)) /\ w.blank = w.count - Len(texts)
          /\ w.lo = (IF texts = <<>> THEN 0 ELSE Min({Len(texts[n]) : n \in DOMAIN texts}))
          /\ w.hi = Max({0} \cup {Len(texts[n]) : n \in DOMAIN texts})
          /\ opts.all => /\ w.unique <=> \A m, n \in DOMAIN texts : texts[m] = texts[n] => m = n
                         /\ w.unique_ci <=> \A n \in DOMAIN texts : Seen(n) = 1
          /\ Len(w.examples) = Min({MaxExamples, Len(firsts)})
          /\ \A k \in DOMAIN w.examples :
               /\ w.examples[k].value = texts[firsts[k]]
               /\ ~opts.quick => w.examples[k].seen = Seen(firsts[k])

=============================================================================
