-------------------------------- MODULE ToDb --------------------------------
(***************************************************************************)
(* zsv 2db: a table in JSON becomes an SQLite database.  It is built in a  *)
(* file beside the output, <output>.tmp, which in the end takes the name   *)
(* of the output.  src/app/2db.c.                                          *)
(*                                                                         *)
(* Two runs have the same output.  One step is one call of the file system *)
(* or of SQLite, and each run may be killed between two of them.  A file   *)
(* is known by who made it, and has its contents whatever its name is.     *)
(*                                                                         *)
(* Left out: types and collations, JSON without the array of rows, a loss  *)
(* of power (synchronous is off), and an insert or a COMMIT that fails, of *)
(* which the one is printed and its row lost, the other not looked at.     *)
(***************************************************************************)
EXTENDS Integers, Sequences, FiniteSets, Functions

CONSTANTS
  BatchSize,           \* ZSV_2DB_DEFAULT_BATCH_SIZE
  ToDbInputs           \* bound: what each run reads: [columns, indexes, rows, torn],
                       \* an index is [on, unique]

Run == {1, 2}
NoFile == 0
Old == 3               \* the file that was there before both runs

VARIABLES
  opts,                \* --overwrite, of each run
  input,               \* of each run
  at,                  \* the rows each run has parsed
  data,                \* what each run keeps, and the temporary file
  written,             \* the file that has the name of the output
  pc                   \* what each run does next; "killed" is a field of data

vars == <<opts, input, at, data, written, pc>>

(* conn: the database each run has open, and the rows of its transaction; db: what is
   committed in the file that a run has made. *)
Empty == [columns |-> <<>>, rows |-> <<>>, indexes |-> <<>>]

Init ==
  /\ opts \in [Run -> BOOLEAN] /\ input \in ToDbInputs
  /\ at = [p \in Run |-> 0]
  /\ written \in {NoFile, Old}
  /\ data = [ tmp     |-> NoFile,
              db      |-> [f \in Run |-> Empty],
              conn    |-> [p \in Run |-> [file |-> NoFile, begun |-> FALSE, inserts |-> <<>>, inserted |-> 0]],
              killed  |-> {}, shared |-> FALSE ]
  /\ pc = [p \in Run |-> "check"]

Step(p, from, to) ==
  /\ pc[p] = from /\ p \notin data.killed
  /\ pc' = [pc EXCEPT ![p] = to]
  /\ UNCHANGED <<opts, input>>

Database(p) == data.db[data.conn[p].file]

(* zsv_2db_new: an existing file is left alone, if it exists now. *)
Check(p) ==
  /\ Step(p, "check", IF written # NoFile /\ ~opts[p] THEN "failed" ELSE "unlink")
  /\ UNCHANGED <<at, data, written>>

(* Another run that still means to rename the temporary file. *)
HasTmp(q) == data.conn[q].file # NoFile /\ pc[q] \notin {"failed", "done"} /\ q \notin data.killed

UnlinkTmp(p) ==
  /\ Step(p, "unlink", "open")
  /\ data' = [data EXCEPT !.tmp = NoFile, !.shared = @ \/ \E q \in Run \ {p} : HasTmp(q)]
  /\ UNCHANGED <<at, written>>

(* sqlite3_open_v2 makes the file, or opens the one that another run has just made. *)
Open(p) ==
  /\ Step(p, "open", "header")
  /\ data' = IF data.tmp = NoFile
             THEN [data EXCEPT !.tmp = p, !.conn[p].file = p]
             ELSE [data EXCEPT !.conn[p].file = data.tmp, !.shared = TRUE]
  /\ UNCHANGED <<at, written>>

(* json_end_map, zsv_2db_finish_header: each column has a name, and there is one. *)
Header(p) ==
  /\ Step(p, "header",
          IF input[p].columns = <<>> \/ "" \in Range(input[p].columns) THEN "failed" ELSE "rows")
  /\ UNCHANGED <<at, data, written>>

(* json_process_value, zsv_2db_insert_row_values: as many values as columns, "" for none. *)
RowValues(json, row) ==
  [j \in DOMAIN json.columns |-> IF j \in DOMAIN row THEN row[j] ELSE ""]
HaveRowData(json, row) == \E j \in DOMAIN json.columns : RowValues(json, row)[j] # ""

(* A transaction of another run keeps SQLite from writing to the file. *)
Busy(p) == \E q \in Run \ {p} : data.conn[q].file = data.conn[p].file /\ data.conn[q].inserts # <<>>

(* zsv_2db_end_transaction *)
Committed(d, p) ==
  LET file == d.conn[p].file
  IN  [d EXCEPT !.db[file].rows = @ \o d.conn[p].inserts, !.conn[p].inserts = <<>>, !.conn[p].begun = FALSE]

(* The process ends with a transaction open. *)
RolledBack(d, p) == [d EXCEPT !.conn[p].inserts = <<>>]

(* zsv_2db_insert_row: the first transaction begins behind a full batch. *)
Inserted(d, p, values) ==
  LET file == d.conn[p].file
      x    == IF d.conn[p].begun THEN [d EXCEPT !.conn[p].inserts = Append(@, values)]
              ELSE [d EXCEPT !.db[file].rows = Append(@, values)]
      y    == [x EXCEPT !.conn[p].inserted = @ + 1]
  IN  IF y.conn[p].inserted % BatchSize = 0 THEN [Committed(y, p) EXCEPT !.conn[p].begun = TRUE] ELSE y

(* The table is made for the first row that is inserted. *)
CreateTable(p) ==
  LET row == input[p].rows[at[p] + 1]
  IN  /\ pc[p] = "rows" /\ at[p] < Len(input[p].rows) /\ HaveRowData(input[p], row) /\ data.conn[p].inserted = 0
      /\ IF Database(p).columns # <<>> \/ Busy(p) \/ ~IsInjective(input[p].columns)
         THEN Step(p, "rows", "failed") /\ UNCHANGED <<at, data, written>>
         ELSE /\ Step(p, "rows", "rows")
              /\ data' = Inserted([data EXCEPT !.db[data.conn[p].file].columns = input[p].columns],
                                  p, RowValues(input[p], row))
              /\ at' = [at EXCEPT ![p] = @ + 1]
              /\ UNCHANGED written

InsertRow(p) ==
  LET row == input[p].rows[at[p] + 1]
  IN  /\ pc[p] = "rows" /\ at[p] < Len(input[p].rows)
      /\ HaveRowData(input[p], row) => data.conn[p].inserted > 0
      /\ Step(p, "rows", "rows")
      /\ data' = IF HaveRowData(input[p], row) THEN Inserted(data, p, RowValues(input[p], row)) ELSE data
      /\ at' = [at EXCEPT ![p] = @ + 1]
      /\ UNCHANGED written

(* yajl_complete_parse *)
EndOfInput(p) ==
  /\ at[p] = Len(input[p].rows)
  /\ Step(p, "rows", IF input[p].torn THEN "failed" ELSE "indexes")
  /\ data' = IF input[p].torn THEN RolledBack(data, p) ELSE data
  /\ UNCHANGED <<at, written>>

Values(rows, column, columns) ==
  [n \in DOMAIN rows |-> rows[n][CHOOSE j \in DOMAIN columns : columns[j] = column]]

(* SQLite makes an index on a column that is there, and a unique one on values that are. *)
CanIndex(ix, columns, rows) ==
  /\ ix.on \in Range(columns)
  /\ ix.unique => IsInjective(Values(rows, ix.on, columns))

(* zsv_2db_add_indexes *)
AddIndexes(p) ==
  LET rows == Database(p).rows \o data.conn[p].inserts
      ixs  == input[p].indexes
      ok   == /\ \A n \in DOMAIN ixs : CanIndex(ixs[n], Database(p).columns, rows)
              /\ ixs # <<>> => ~Busy(p)
  IN  /\ pc[p] = "indexes"
      /\ Step(p, "indexes", IF ok THEN "commit" ELSE "failed")
      /\ data' = IF ok THEN [data EXCEPT !.db[data.conn[p].file].indexes = @ \o ixs]
                 ELSE RolledBack(data, p)
      /\ UNCHANGED <<at, written>>

(* Faulty: the file is closed with a transaction open. *)
Close_RolledBack(d, p) == RolledBack(d, p)

Close(d, p) == Committed(d, p)

(* zsv_2db_finish: the rest is committed, and the file closed. *)
CommitAndClose(p) ==
  /\ Step(p, "commit", "replace")
  /\ data' = Close(data, p)
  /\ UNCHANGED <<at, written>>

UnlinkOutput(p) ==
  /\ Step(p, "replace", "rename")
  /\ written' = NoFile
  /\ UNCHANGED <<at, data>>

(* zsv_replace_file: whatever the temporary file is by now *)
Rename(p) ==
  /\ Step(p, "rename", IF data.tmp = NoFile THEN "failed" ELSE "done")
  /\ IF data.tmp = NoFile THEN UNCHANGED <<data, written>>
     ELSE written' = data.tmp /\ data' = [data EXCEPT !.tmp = NoFile]
  /\ UNCHANGED at

Kill(p) ==
  /\ pc[p] \notin {"failed", "done"} /\ p \notin data.killed
  /\ data' = [RolledBack(data, p) EXCEPT !.killed = @ \cup {p}]
  /\ UNCHANGED <<opts, input, at, written, pc>>

Next ==
  \E p \in Run :
    \/ Check(p) \/ UnlinkTmp(p) \/ Open(p) \/ Header(p) \/ CreateTable(p) \/ InsertRow(p)
    \/ EndOfInput(p) \/ AddIndexes(p) \/ CommitAndClose(p) \/ UnlinkOutput(p) \/ Rename(p) \/ Kill(p)

Spec == Init /\ [][Next]_vars

-----------------------------------------------------------------------------
(* What is promised. *)

(* The rows that are not blank, of the first n. *)
Kept(json) ==
  LET kept[n \in 0 .. Len(json.rows)] ==
        IF n = 0 THEN <<>>
        ELSE IF HaveRowData(json, json.rows[n]) THEN Append(kept[n - 1], RowValues(json, json.rows[n]))
             ELSE kept[n - 1]
  IN  kept

Expected(json) ==
  LET rows == Kept(json)[Len(json.rows)]
  IN  [ columns |-> IF rows = <<>> THEN <<>> ELSE json.columns,
        rows    |-> rows,
        indexes |-> json.indexes ]

Whole(file) ==
  /\ data.db[file] = Expected(input[file])
  /\ ~input[file].torn
  /\ \A n \in DOMAIN input[file].indexes :
       CanIndex(input[file].indexes[n], data.db[file].columns, data.db[file].rows)

(* Whatever is killed, and whenever: under the name of the output there is the old file
   or a database with all rows and indexes of its input.  It is missing only while, or
   after, a run was between its last two calls, and then its database is the temporary
   file, unless another run has begun since.  None of this holds when a run begins while
   another is at work: both use one temporary file. *)
OldOrWhole ==
  ~data.shared =>
    /\ written \in Run => Whole(written)
    /\ \A p \in Run : pc[p] = "rename" =>
         \/ Whole(p) /\ data.tmp = p
         \/ \E q \in Run \ {p} : pc[q] \notin {"check", "unlink"}
    /\ \A p \in Run : pc[p] = "done" => written # NoFile \/ \E q \in Run \ {p} : pc[q] = "rename"

=============================================================================
