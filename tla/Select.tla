------------------------------- MODULE Select -------------------------------
(***************************************************************************)
(* zsv select: columns of the input are chosen from its header, rows by    *)
(* number, by chance and by content, and the cells are cleaned on the way. *)
(* src/app/select.c; src/app/select-pull.c is the same over zsv_next_row,  *)
(* with fewer options.                                                     *)
(*                                                                         *)
(* Cells are cleaned where they lie, in the buffer of the parser, and the  *)
(* parser gives the same place and length whenever it is asked for a cell. *)
(*                                                                         *)
(* Left out: the spelling of options (see FixedScan for --fixed-auto), the *)
(* columns that -N and --prepend-header put in front, what the writer does *)
(* with a cell (CsvWriter), that -e leaves cells alone that came without   *)
(* quotes, progress messages, and memory that runs out.                    *)
(***************************************************************************)
EXTENDS Integers, Sequences, SequencesExt, Texts

CONSTANTS
  MaxCols,             \* opts->max_columns
  SelectOptions,       \* bound: what the command may be called with
  SelectInputs         \* bound: the rows of the input, header first

(* A text is a sequence of characters: letters, " ", "\r", "\n" and "\\". *)

VARIABLES
  opts, input,
  at,                  \* rows delivered so far
  data,                \* struct zsv_select_data
  written,             \* rows written, with the number of the row they come from
  pc                   \* "rows", "done"

vars == <<opts, input, at, data, written, pc>>

-----------------------------------------------------------------------------
(* Cleaning.  What a function leaves in memory behind a text that it has made
   shorter is what was there before. *)

Over(mem, first, s) ==
  [n \in DOMAIN mem |-> IF n \in first .. first + Len(s) - 1 THEN s[n - first + 1] ELSE mem[n]]

IsSpace(c) == c \in {" ", "\r", "\n"}

(* zsv_strunescape_backslash looks for a backslash in all but the last byte. *)
Unescaped(s) ==
  LET Pair(n) == s[n] = "\\" /\ n < Len(s) /\ s[n + 1] \in {"n", "r"}
      (* the second half of a pair is not the start of another *)
      Kept == {n \in DOMAIN s : n = 1 \/ ~Pair(n - 1)}
      At(n) == IF Pair(n) THEN IF s[n + 1] = "n" THEN "\n" ELSE "\r" ELSE s[n]
  IN  [k \in 1 .. Cardinality(Kept) |->
         At(CHOOSE n \in Kept : Cardinality({m \in Kept : m <= n}) = k)]

(* zsv_strwhite: white before a character is one space, or one line end if there
   is any in it and flags allow; white at the end is dropped. *)
Whitened(s, no_newline) ==
  LET Gap(n) == {m \in 1 .. n - 1 : \A k \in m .. n - 1 : IsSpace(s[k])}
      White(n) == IF ~no_newline /\ \E m \in Gap(n) : s[m] # " " THEN <<"\n">> ELSE <<" ">>
  IN  FoldLeftDomain(LAMBDA t, n : IF IsSpace(s[n]) THEN t
                                   ELSE t \o (IF Gap(n) = {} THEN <<>> ELSE White(n)) \o <<s[n]>>,
                     <<>>, s)

(* The first CR LF becomes what -e says; the bytes behind move up by one. *)
PairJoined(o, s) ==
  LET pairs == {n \in 1 .. Len(s) - 1 : s[n] = "\r" /\ s[n + 1] = "\n"}
  IN  IF pairs = {} THEN s
      ELSE SubSeq(s, 1, Min(pairs) - 1) \o <<o.lineend>> \o SubSeq(s, Min(pairs) + 2, Len(s))

(* x.text is made s, at `first' of x.mem. *)
Placed(x, first, s) == [mem |-> Over(x.mem, first, s), first |-> first, text |-> s]

TrimmedIn(x) ==
  LET t == Trimmed(x.text) IN Placed(x, x.first + t.first - 1, t.text)

Cleaned(o, x, cleaning) ==
  CASE cleaning = "unescape"  -> Placed(x, x.first, Unescaped(x.text))
    [] cleaning = "trim"      -> TrimmedIn(x)
    [] cleaning = "white"     -> Placed(x, x.first, Whitened(x.text, o.white = "no newline"))
    [] cleaning = "pairs"     -> FoldLeft(LAMBDA y, c : Placed(y, y.first, PairJoined(o, y.text)), x, x.text)
    [] cleaning = "line ends" -> Placed(x, x.first, [n \in DOMAIN x.text |->
                                   IF x.text[n] \in {"\r", "\n"} THEN o.lineend ELSE x.text[n]])
    [] cleaning = "last trim" -> TrimmedIn(x)

(* With line ends replaced a text is trimmed even under --no-trim. *)
Asked(o, cleaning) ==
  CASE cleaning = "unescape"  -> o.unescape
    [] cleaning = "trim"      -> o.trim
    [] cleaning = "white"     -> o.white # "no"
    [] cleaning = "last trim" -> o.lineend # "no" /\ ~o.trim
    [] OTHER                  -> o.lineend # "no"

(* zsv_select_cell_clean: what is in memory afterwards, and the text. *)
CellClean(o, mem) ==
  FoldLeft(LAMBDA x, cleaning : Cleaned(o, x, cleaning), [mem |-> mem, first |-> 1, text |-> mem],
           SelectSeq(<<"unescape", "trim", "white", "pairs", "line ends", "last trim">>,
                     LAMBDA cleaning : Asked(o, cleaning)))

(* Cells behind the last one are empty. *)
Cell(row, ix) == IF ix \in DOMAIN row THEN row[ix] ELSE <<>>
Read(row, ix) ==
  IF ix \in DOMAIN row
  THEN LET c == CellClean(opts, row[ix]) IN [row |-> [row EXCEPT ![ix] = c.mem], text |-> c.text]
  ELSE [row |-> row, text |-> <<>>]

-----------------------------------------------------------------------------
(* The header: which columns are written. *)

HasName(ix) == ix \in DOMAIN data.header_names

InSpec(spec, ix) ==
  CASE spec.kind = "single" -> ix = spec.lo
    [] spec.kind = "range"  -> ix \in spec.lo .. spec.hi
    [] spec.kind = "from"   -> spec.lo <= ix
    [] OTHER                -> FALSE

ExcludedCurrentHeaderName(names, ix) ==
  \E e \in opts.excluded :
    IF opts.indexes THEN InSpec(e, ix)
    ELSE ix \in DOMAIN names /\ e.kind = "name" /\ SameName(e.name, names[ix])

(* Output columns that have the name of an input column. *)
Named(out2in, names, ix) ==
  {i \in DOMAIN out2in : /\ ix \in DOMAIN names /\ out2in[i].ix \in DOMAIN names
                         /\ SameName(names[ix], names[out2in[i].ix])}

AddOutputCol(out2in, names, ix) ==
  LET found == Named(out2in, names, ix)
  IN  IF Len(out2in) >= MaxCols THEN out2in
      ELSE IF opts.distinct # "no" /\ found # {}
      THEN IF opts.distinct = "merge"
           THEN [out2in EXCEPT ![Min(found)].merge = Append(@, ix)] ELSE out2in
      ELSE IF ExcludedCurrentHeaderName(names, ix) THEN out2in
      ELSE Append(out2in, [ix |-> ix, merge |-> <<>>])

(* The input columns that an argument stands for; none is an error. *)
ColumnIndexSelection(spec, names) ==
  CASE spec.kind = "single" -> <<spec.lo>>
    [] spec.kind = "range"  -> [n \in 1 .. Min({spec.hi, MaxCols - 1}) - spec.lo + 1 |-> spec.lo + n - 1]
    [] spec.kind = "from"   -> [n \in 1 .. Len(names) - spec.lo + 1 |-> spec.lo + n - 1]
    [] OTHER                -> <<>>

FindName(name, names) == {ix \in DOMAIN names : SameName(name, names[ix])}

NotFound(spec, names) ==
  IF opts.indexes THEN spec.kind \notin {"single", "range", "from"}
  ELSE spec.kind # "name" \/ FindName(spec.name, names) = {}

(* All columns in turn, or those of the arguments. *)
ColumnsWanted(names) ==
  IF opts.columns = <<>> THEN [ix \in DOMAIN names |-> ix]
  ELSE IF opts.indexes
  THEN FlattenSeq([k \in DOMAIN opts.columns |-> ColumnIndexSelection(opts.columns[k], names)])
  ELSE [k \in DOMAIN opts.columns |-> Min(FindName(opts.columns[k].name, names))]

Failed(names) == \E k \in DOMAIN opts.columns : NotFound(opts.columns[k], names)

SetOutputColumns(names) ==
  FoldLeft(LAMBDA out2in, ix : AddOutputCol(out2in, names, ix), <<>>, ColumnsWanted(names))

HeaderTexts(row) == [ix \in DOMAIN row |-> CellClean(opts, row[ix]).text]

-----------------------------------------------------------------------------
(* Data rows. *)

HasText(s, t) == t # <<>> /\ \E n \in 0 .. Len(s) - Len(t) : SubSeq(s, n + 1, n + Len(t)) = t

(* Cells are cleaned until one has the text that is looked for. *)
RowSearch(row) ==
  LET searched[ix \in 0 .. Len(row)] ==
        IF ix = 0 THEN [row |-> row, hit |-> FALSE]
        ELSE LET x == searched[ix - 1]
                 r == Read(x.row, ix)
             IN  IF x.hit THEN x
                 ELSE [row |-> r.row, hit |-> \E t \in opts.search : HasText(r.text, t)]
  IN  IF opts.search = {} THEN [row |-> row, hit |-> TRUE] ELSE searched[Len(row)]

(* Faulty: of the columns that have the same name the last one is taken. *)
MergedCell_Last(row, out) ==
  FoldLeft(LAMBDA x, ix : IF Cell(x.row, ix) = <<>> THEN x ELSE Read(x.row, ix),
           Read(row, out.ix), out.merge)

(* The first text that is not empty of the columns that have the same name. *)
MergedCell(row, out) ==
  FoldLeft(LAMBDA x, ix : IF x.text # <<>> THEN x
                          ELSE IF Cell(x.row, ix) = <<>> THEN [x EXCEPT !.text = <<>>]
                          ELSE Read(x.row, ix),
           Read(row, out.ix), out.merge)

OutputDataRow(row, out2in) ==
  FoldLeft(LAMBDA x, out : LET c == MergedCell(x.row, out)
                           IN  [row |-> c.row, cells |-> Append(x.cells, c.text)],
           [row |-> row, cells |-> <<>>], out2in).cells

(* zsv_select_check_exclusions_are_indexes: with -n a name cannot be excluded. *)
Accepted == opts.indexes => \A e \in opts.excluded : e.kind \in {"single", "range", "from"}

Init ==
  /\ opts \in SelectOptions /\ input \in SelectInputs
  /\ Accepted
  /\ at = 0
  /\ data = [ header_names |-> <<>>, out2in |-> <<>>, data_row_count |-> 0,
              skip_data_rows |-> opts.skip, cancelled |-> FALSE, handler |-> "header" ]
  /\ written = <<>> /\ pc = "rows"

Deliver == pc = "rows" /\ at < Len(input) /\ at' = at + 1 /\ UNCHANGED <<opts, input, pc>>

(* The output columns are set and the names of them written, or a column is not
   found and the handler stays what it is. *)
SetHeader(names, columns, handler) ==
  IF Failed(names)
  THEN /\ data' = [data EXCEPT !.header_names = names, !.cancelled = TRUE, !.handler = handler]
       /\ UNCHANGED written
  ELSE \E out2in \in {columns} :
         /\ data' = [data EXCEPT !.header_names = names, !.out2in = out2in, !.handler = "data"]
         /\ written' = IF opts.no_header THEN written
                       ELSE <<[ row |-> 0, cells |->
                                [i \in DOMAIN out2in |->
                                   IF out2in[i].ix \in DOMAIN names
                                   THEN names[out2in[i].ix] ELSE <<>>] ]>>

(* zsv_select_header_row, and zsv_select_header_finish in it.  It remains the
   handler if a column is not found. *)
HeaderRow ==
  /\ Deliver /\ data.handler = "header"
  /\ \E names \in {HeaderTexts(SubSeq(input[at + 1], 1, Min({MaxCols, Len(input[at + 1])})))} :
       IF data.cancelled THEN UNCHANGED <<data, written>> ELSE SetHeader(names, SetOutputColumns(names), "header")

(* The first row of each so many. *)
InSample(every, count) == every > 0 /\ count % every = 1

(* Rows are skipped first, then sampled; sampling by chance may take any. *)
SkipThisRow(count, chance) ==
  \/ data.skip_data_rows > 0
  \/ /\ opts.every > 0 \/ opts.pct
     /\ ~InSample(opts.every, count)
     /\ ~(opts.pct /\ chance)

(* Faulty: the limit is tested with the number of the row before. *)
AtLimit_Late(count) == opts.head > 0 /\ count >= opts.head

(* data_rows_limit is one more than the argument of -H. *)
AtLimit(count) == opts.head > 0 /\ count + 1 >= opts.head

DataRow ==
  /\ Deliver /\ data.handler = "data"
  /\ \E chance \in BOOLEAN, search \in {RowSearch(input[at + 1])} :
       LET count  == data.data_row_count + 1
           passed == input[at + 1] = <<>> \/ data.cancelled
           print  == ~passed /\ ~SkipThisRow(count, chance) /\ search.hit
       IN  /\ chance => opts.pct
           /\ data' = [ data EXCEPT !.data_row_count = count,
                          !.skip_data_rows = IF ~passed /\ @ > 0 THEN @ - 1 ELSE @,
                          !.cancelled = @ \/ (print /\ AtLimit(count)) ]
           /\ written' = IF print
                         THEN Append(written, [row |-> count,
                                               cells |-> OutputDataRow(search.row, data.out2in)])
                         ELSE written

(* Between two chunks: cancelled, interrupted, or at the end of the input. *)
StopReading ==
  /\ pc = "rows" /\ pc' = "done"
  /\ UNCHANGED <<opts, input, at, data, written>>

-----------------------------------------------------------------------------
(* What is promised.  A text read again after it was cleaned may differ: the
   parser gives its old length, and the memory behind the cleaned text. *)

Settled(mem) == CellClean(opts, CellClean(opts, mem).mem).text = CellClean(opts, mem).text

SameColumn(ix, jx, names) == ix \in DOMAIN names /\ jx \in DOMAIN names /\ SameName(names[ix], names[jx])

(* With --distinct the first column of each name. *)
Chosen(k, wanted, names) ==
  /\ ~ExcludedCurrentHeaderName(names, wanted[k])
  /\ opts.distinct = "no"
       \/ ~\E m \in 1 .. k - 1 : /\ SameColumn(wanted[k], wanted[m], names)
                                 /\ ~ExcludedCurrentHeaderName(names, wanted[m])

(* Cells of a row of the input that a written cell may come from, in order. *)
Candidates(k, wanted, names) ==
  IF opts.distinct # "merge" THEN <<wanted[k]>>
  ELSE SelectSeq(SubSeq(wanted, k, Len(wanted)),
                 LAMBDA ix : ix = wanted[k] \/ SameColumn(ix, wanted[k], names))

(* The first of them with something in it. *)
Promised(row, ixs) ==
  LET full == SelectSeq([n \in DOMAIN ixs |-> CellClean(opts, Cell(row, ixs[n])).text], LAMBDA t : t # <<>>)
  IN  IF full = <<>> THEN <<>> ELSE Head(full)

DataWritten == SelectSeq(written, LAMBDA w : w.row > 0)

(* Every row that is written is a row of the input, cut down to the columns chosen
   in their order, with each cell cleaned; columns of one name are merged into the
   first of their texts. *)
WritesColumns ==
  DataWritten # <<>> =>
    \A names \in {HeaderTexts(SubSeq(input[1], 1, Min({MaxCols, Len(input[1])})))} :
      \A wanted \in {ColumnsWanted(names)} :
        LET ks == SelectSeq([k \in DOMAIN wanted |-> k], LAMBDA k : Chosen(k, wanted, names))
        IN  \A w \in ToSet(DataWritten) :
              LET row == input[w.row + 1]
              IN  (\A ix \in DOMAIN row : Settled(row[ix])) =>
                    w.cells = [i \in 1 .. Min({MaxCols, Len(ks)}) |->
                                 Promised(row, Candidates(ks[i], wanted, names))]

(* The rows that may be written: not skipped, in the sample, and with the text that
   is searched for. *)
Eligible(n) ==
  LET row == input[n + 1]
      counted == Cardinality({m \in 1 .. n : input[m + 1] # <<>>})
  IN  /\ row # <<>> /\ counted > opts.skip
      /\ opts.every > 0 => opts.pct \/ InSample(opts.every, n)
      /\ opts.search # {} =>
           \E ix \in DOMAIN row, t \in opts.search : HasText(CellClean(opts, row[ix]).text, t)

(* Rows are written in the order of the input, each once, and all that are eligible
   are written, up to the first whose number reaches the limit of -H. *)
WritesRows ==
  data.handler = "data" =>
    LET numbers == {written[k].row : k \in DOMAIN written} \ {0}
        last    == {n \in 1 .. at - 1 : Eligible(n) /\ opts.head > 0 /\ n + 1 >= opts.head}
    IN  /\ \A m, n \in DOMAIN written : m < n => written[m].row < written[n].row
        /\ \A n \in numbers : Eligible(n)
        /\ ~opts.pct => numbers = {n \in 1 .. at - 1 : Eligible(n) /\ \A m \in last : n <= m}

-----------------------------------------------------------------------------
Next == HeaderRow \/ DataRow \/ StopReading

Spec == Init /\ [][Next]_vars

=============================================================================
