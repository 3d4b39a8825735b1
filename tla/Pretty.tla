------------------------------- MODULE Pretty -------------------------------
(***************************************************************************)
(* zsv pretty: tables in columns of fixed width.  The widths come from the *)
(* first rows of a table, which are kept until there are enough of them; a *)
(* line with nothing in it ends a table.  src/app/pretty.c.                *)
(*                                                                         *)
(* Left out: the "|" that begins and ends a line of markdown and its       *)
(* backslashes, the width of the console, invalid UTF-8, and memory that   *)
(* runs out.                                                               *)
(***************************************************************************)
EXTENDS Integers, Sequences, SequencesExt, Texts

CONSTANTS
  PrettyOptions,       \* bound: what the command may be called with
  PrettyInputs         \* bound: the rows of the input

VARIABLES opts, input, at,
  data,                \* struct zsv_pretty_data
  written,             \* lines, with where on the screen each "|" is
  pc                   \* "rows", "done"

vars == <<opts, input, at, data, written, pc>>

(* utf8proc_charwidth: "w" stands for a wide character; a line end is replaced. *)
CharWidth(c) == IF c = "w" THEN 2 ELSE 1
Width(s) == FoldLeft(LAMBDA sum, c : sum + CharWidth(c), 0, s)

(* Faulty: characters are counted, not how wide they are. *)
UpToWidth_Chars(s, max) == SubSeq(s, 1, Min({max, Len(s)}))

UpToWidth(s, max) ==
  SubSeq(s, 1, Max({n \in 0 .. Len(s) : Width(SubSeq(s, 1, n)) <= max}))

-----------------------------------------------------------------------------
(* Output.  first_column_count changes with the first row of a table. *)

GetWidth(d, ix) == IF ix <= d.used THEN d.widths[ix] ELSE 0

NewLine(row, d) == [ printed |-> 0, stops |-> <<>>, cells |-> <<>>, row |-> row, table |-> d.table,
                     separator |-> FALSE ]

(* zsv_pretty_write_cell.  A width of 0 is the rest of the line. *)
WriteCell(line, s, width, last) ==
  LET room  == opts.line_max - line.printed
      max   == IF width = 0 \/ width > room THEN room ELSE width
      ellipsis == width = max /\ \E n \in 1 .. Len(s) - 1 : Width(SubSeq(s, 1, n)) = width
      shown == UpToWidth(s, IF ellipsis /\ max > 1 THEN max - 1 ELSE max)
      used  == Width(shown) + IF ellipsis /\ shown # <<>> THEN 1 ELSE 0
      padded == opts.markdown_pad \/ (~opts.markdown /\ ~last)
  IN  IF room <= 0 THEN line
      ELSE [line EXCEPT !.printed = @ + Max({IF padded THEN max ELSE 0, used}),
                         !.cells = Append(@, shown)]

ColSpacer(line) ==
  IF line.printed >= opts.line_max THEN line
  ELSE [line EXCEPT !.printed = @ + 1, !.stops = Append(@, line.printed)]

(* zsv_pretty_output_row: one more line, and the data with first_column_count; behind
   the first line of a table of markdown there is another. *)
Output(x, row) ==
  LET d        == x.d
      columns  == Len(row.cells)
      to_print == Max({columns, d.first_column_count})
      align    == ~opts.no_align /\ ~opts.markdown /\ ~opts.markdown_pad
      Put(l, ix) == WriteCell(IF ix > 1 THEN ColSpacer(l) ELSE l,
                              IF ix <= columns THEN row.cells[ix] ELSE <<>>,
                              GetWidth(d, ix), ix = to_print)
      last     == IF align /\ d.first_column_count >= 2 /\ columns > 1 THEN to_print ELSE columns
      line     == IF columns # 1 THEN FoldLeft(Put, NewLine(row.n, d), [ix \in 1 .. last |-> ix])
                  ELSE IF row.cells[1] = <<>> THEN NewLine(row.n, d)
                  ELSE WriteCell(NewLine(row.n, d), row.cells[1], 0, TRUE)
      lines    == IF columns = 1 /\ row.cells[1] = <<>> THEN 0
                  ELSE IF columns > 1 THEN d.table_lines + 1 ELSE d.table_lines
  IN  [ d   |-> [d EXCEPT !.first_column_count = IF align /\ @ < 2 THEN columns ELSE @,
                          !.table_lines = lines],
        out |-> Append(x.out, [line EXCEPT !.separator = (opts.markdown \/ opts.markdown_pad)
                                                         /\ columns > 1 /\ lines = 1]) ]


(* zsv_pretty_output_cache and zsv_pretty_clear_cache *)
OutputCache(d) ==
  LET x == FoldLeft(Output, [d |-> d, out |-> <<>>], d.cache)
  IN  [x EXCEPT !.d.cache = <<>>]

-----------------------------------------------------------------------------
(* Rows. *)

(* The cells of a row that is kept are trimmed, its widths are of the cells as read. *)
Dupe(row) == [row EXCEPT !.cells = [ix \in DOMAIN @ |-> Trimmed(@[ix]).text]]

(* zsv_pretty_update_column_widths; what was allocated before keeps its value. *)
UpdateColumnWidths(d, cells) ==
  LET old(ix) == IF ix \in DOMAIN d.widths THEN d.widths[ix] ELSE opts.width_min
      new(ix) == IF ix \in DOMAIN cells /\ Width(cells[ix]) > old(ix) /\ old(ix) < opts.width_max
                 THEN Min({Width(cells[ix]), opts.width_max}) ELSE old(ix)
  IN  IF Len(cells) < 2 THEN d
      ELSE [d EXCEPT !.widths = [ix \in 1 .. Max({Len(cells), Len(@)}) |-> new(ix)],
                     !.used = Max({@, Len(cells)})]

(* zsv_pretty_reset_column_widths *)
ResetColumnWidths(x) ==
  [x EXCEPT !.d.full = FALSE, !.d.used = 0, !.d.first_column_count = 0, !.d.table = @ + 1,
            !.d.widths = [ix \in DOMAIN @ |-> IF ix <= x.d.used THEN opts.width_min ELSE @[ix]]]

Init ==
  /\ opts \in PrettyOptions /\ input \in PrettyInputs
  /\ at = 0 /\ written = <<>> /\ pc = "rows"
  /\ data = [ cache |-> <<>>, full |-> FALSE, widths |-> <<>>, used |-> 0,
              first_column_count |-> 0, table_lines |-> 0, table |-> 0 ]

(* What has been put into the output. *)
Write(printed) == \E x \in {printed} : data' = x.d /\ written' = written \o x.out

(* zsv_pretty_row of a row with nothing in it, or a single cell outside a table *)
TableEnds(row) == Len(row) < 2 /\ (row[1] = <<>> \/ data.used = 0)

LineBetweenTables ==
  /\ pc = "rows" /\ at < Len(input) /\ TableEnds(input[at + 1])
  /\ \E kept \in {ResetColumnWidths(OutputCache(data))} :
       Write(Output(kept, [n |-> at + 1, cells |-> input[at + 1]]))
  /\ at' = at + 1 /\ UNCHANGED <<opts, input, pc>>

(* zsv_pretty_row, zsv_pretty_add_to_cache *)
KeepRow ==
  /\ pc = "rows" /\ at < Len(input) /\ ~TableEnds(input[at + 1]) /\ ~data.full
  /\ LET kept == [data EXCEPT !.cache = Append(@, Dupe([n |-> at + 1, cells |-> input[at + 1]])),
                              !.full = Len(data.cache) + 1 >= opts.cache_max]
     IN  data' = IF opts.ignore_header_lengths /\ Len(kept.cache) = 1 THEN kept
                 ELSE UpdateColumnWidths(kept, input[at + 1])
  /\ at' = at + 1 /\ UNCHANGED <<opts, input, written, pc>>

PrintRow ==
  /\ pc = "rows" /\ at < Len(input) /\ ~TableEnds(input[at + 1]) /\ data.full
  /\ \E kept \in {OutputCache(data)} :
       Write(Output(kept, [n |-> at + 1, cells |-> input[at + 1]]))
  /\ at' = at + 1 /\ UNCHANGED <<opts, input, pc>>

(* zsv_pretty_flush, zsv_pretty_destroy *)
Flush ==
  /\ pc = "rows" /\ at = Len(input)
  /\ Write(OutputCache(data))
  /\ pc' = "done" /\ UNCHANGED <<opts, input, at>>

Next == LineBetweenTables \/ KeepRow \/ PrintRow \/ Flush

Spec == Init /\ [][Next]_vars

-----------------------------------------------------------------------------
(* What is promised. *)

(* The columns of a table are at the same place in all its lines, and no line is
   longer than the screen, whatever came before the rows were kept or after. *)
Aligned ==
  /\ \A n \in DOMAIN written : written[n].printed <= opts.line_max
  /\ ~opts.markdown =>
       \A m, n \in DOMAIN written :
         written[m].table = written[n].table =>
           \A k \in DOMAIN written[m].stops \cap DOMAIN written[n].stops :
             written[m].stops[k] = written[n].stops[k]

(* Every row read is one line, in order, or is kept; and a row that was kept shows
   its cells whole if no column is as wide as the limit and the line is not full. *)
RowsInOrder ==
  LET Kept == [n \in DOMAIN data.cache |-> data.cache[n].n]
      cells(n) == Dupe([n |-> n, cells |-> input[n]]).cells
  IN  /\ [n \in DOMAIN written |-> written[n].row] \o Kept = [n \in 1 .. at |-> n]
      /\ pc = "done" /\ opts.cache_max >= Len(input) /\ ~opts.ignore_header_lengths =>
           \A n \in DOMAIN written :
             (\A ix \in DOMAIN input[n] : Width(input[n][ix]) <= opts.width_max)
               /\ written[n].printed < opts.line_max /\ input[n] # << <<>> >> =>
             SubSeq(written[n].cells, 1, Len(input[n])) = cells(n)

=============================================================================
