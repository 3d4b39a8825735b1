----------------------------- MODULE SelectPull -----------------------------
(***************************************************************************)
(* zsv select-pull: select as a loop over zsv_next_row.  What is done with *)
(* a header, a row or a cell is written out a second time in               *)
(* src/app/select-pull.c and is the same as in select.c, so it is taken    *)
(* from Select; this module has what differs: who calls, when reading      *)
(* ends, the width of sample_every_n, and that there is no --unescape.     *)
(***************************************************************************)
EXTENDS Select

(* data->sample_every_n is an unsigned char. *)
PullSampleEvery == opts.every % 256

(* zsv_select_add_output_col, zsv_select_set_output_columns *)
PullColumns(names) == SetOutputColumns(names)

(* zsv_select_cell_clean, zsv_select_row_search_hit *)
PullSearch(row) == RowSearch(row)

(* zsv_select_output_data_row *)
PullCells(row) == OutputDataRow(row, data.out2in)

PullSkipRow(count, chance) ==
  \/ data.skip_data_rows > 0
  \/ /\ PullSampleEvery > 0 \/ opts.pct
     /\ ~InSample(PullSampleEvery, count)
     /\ ~(opts.pct /\ chance)

(* The first row is the header, whatever becomes of it. *)
PullHeader ==
  /\ Deliver /\ at = 0
  /\ \E names \in {HeaderTexts(SubSeq(input[1], 1, Min({MaxCols, Len(input[1])})))} :
       SetHeader(names, PullColumns(names), "none")

PullRow ==
  /\ Deliver /\ at > 0
  /\ \E chance \in BOOLEAN, search \in {PullSearch(input[at + 1])} :
       LET count  == data.data_row_count + 1
           print  == ~data.cancelled /\ ~PullSkipRow(count, chance) /\ search.hit
       IN  /\ chance => opts.pct
           /\ data' = [ data EXCEPT !.data_row_count = count,
                          !.skip_data_rows = IF ~data.cancelled /\ @ > 0 THEN @ - 1 ELSE @,
                          !.cancelled = @ \/ (print /\ AtLimit(count)) ]
           /\ written' = IF print THEN Append(written, [row |-> count, cells |-> PullCells(search.row)])
                         ELSE written

(* Neither an interrupt nor a limit ends the loop before the input does. *)
PullEnds ==
  /\ pc = "rows" /\ at = Len(input) /\ pc' = "done"
  /\ UNCHANGED <<opts, input, at, data, written>>

PullInit == Init /\ ~opts.unescape

PullNext == PullHeader \/ PullRow \/ PullEnds

PullSpec == PullInit /\ [][PullNext]_vars

=============================================================================
