--------------------------- MODULE MCRowHandlers ---------------------------
(* The row handlers and their properties, for model checking. *)
EXTENDS RowHandlers

(* The chain with every way to leave it; then with a row limit; then with an
   inserted header. *)
Chained ==
  [ mode : Modes, rows_to_ignore : 0 .. 1, keep_empty_header_rows : BOOLEAN,
    header_span : {1, 2, 3}, max_rows : {0}, insert : {"none"}, overwrite : {FALSE} ]
Limited ==
  [ mode : Modes, rows_to_ignore : 0 .. 1, keep_empty_header_rows : BOOLEAN,
    header_span : {0, 2}, max_rows : {2}, insert : {"none"}, overwrite : {TRUE} ]
Inserted ==
  [ mode : Modes, rows_to_ignore : {0}, keep_empty_header_rows : BOOLEAN,
    header_span : {1, 2}, max_rows : {0}, insert : {"row", "line"}, overwrite : {TRUE} ]
AllOptions == Chained \cup Limited \cup Inserted

RowShapes == {<<FALSE>>, <<TRUE>>, <<TRUE, TRUE>>, <<FALSE, TRUE>>}

=============================================================================
