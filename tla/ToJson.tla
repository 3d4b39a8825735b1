------------------------------- MODULE ToJson -------------------------------
(***************************************************************************)
(* zsv 2json: rows become arrays, objects, or the schema and the rows of a *)
(* table.  src/app/2json.c.                                                *)
(*                                                                         *)
(* Left out: --from-db, the text of an index clause, and memory that runs  *)
(* out.                                                                    *)
(***************************************************************************)
EXTENDS Integers, Sequences, SequencesExt, JsonWriter

CONSTANTS
  JsonOptions,         \* bound: what the command may be called with
  JsonInputs           \* bound: the rows of the input

VARIABLES opts, input, at,
  data,                \* struct zsv_2json_data
  written, pc          \* "rows", "done"; "undefined" behind the JSON writer's buffer

vars == <<opts, input, at, data, written, pc>>

(* Options that do not go together are refused. *)
Accepted ==
  /\ opts.indexes # <<>> => opts.schema = "database"
  /\ opts.no_header => opts.schema = "none"
  /\ opts.no_empty => opts.schema = "object"

Init ==
  /\ opts \in JsonOptions /\ Accepted /\ input \in JsonInputs
  /\ at = 0 /\ written = <<>> /\ pc = "rows"
  /\ data = [rows_processed |-> 0, headers |-> <<>>, jsw |-> NewWriter]

(* The members "indexes" and its objects; a clause is [name, unique]. *)
Index(w, i) ==
  LET v == Str(Key(StartObject(Key(w, i.name)), "on"), "expr")
  IN  EndObject(IF i.unique THEN Str(Key(v, "unique"), "true") ELSE v)

Indexes(w) ==
  IF opts.indexes = <<>> THEN w
  ELSE EndObject(FoldLeft(Index, StartObject(Key(w, "indexes")), opts.indexes))

(* zsv_2json_row: what a row begins with *)
StartHeader(w) ==
  LET rows == StartArray(w)
      name(v) == IF opts.db_tablename = "none" THEN v ELSE Str(Key(v, "name"), opts.db_tablename)
  IN  CASE opts.schema = "database" -> StartArray(Key(Indexes(name(StartObject(rows))), "columns"))
        [] opts.schema = "object"   -> rows
        [] OTHER                    -> StartArray(rows)

StartRow(w) ==
  CASE opts.schema = "object" -> StartObject(w)
    [] opts.schema = "database" /\ data.rows_processed = 1 -> StartArray(StartArray(w))
    [] OTHER -> StartArray(w)

(* write_header_cell *)
HeaderCell(w, cell) ==
  IF opts.schema = "object" THEN w ELSE End(Str(Key(StartObject(w), "name"), cell))

(* write_data_cell: an object has no cells behind the last header. *)
DataCell(w, cell, ix) ==
  IF opts.schema # "object" THEN Str(w, cell)
  ELSE IF ix \notin DOMAIN data.headers \/ (cell = "" /\ opts.no_empty) THEN w
  ELSE Str(Key(w, data.headers[ix]), cell)

(* What follows once memory behind the buffer was written is not defined. *)
Outcome(w) == IF w.overrun THEN "undefined" ELSE "rows"

HeaderRow ==
  /\ pc = "rows" /\ at < Len(input) /\ data.rows_processed = 0
  /\ LET row   == input[at + 1]
         cells == FoldLeftDomain(
                    LAMBDA w, ix : IF opts.no_header THEN DataCell(w, row[ix], ix) ELSE HeaderCell(w, row[ix]),
                    StartHeader(data.jsw), row)
         arr   == opts.schema # "object"
         v     == IF arr THEN EndArray(cells) ELSE cells
     IN  data' = [ rows_processed |-> 1,
                   headers |-> IF opts.schema = "object" THEN row ELSE <<>>,
                   jsw |-> IF opts.schema = "database" THEN EndObject(v) ELSE v ]
  /\ pc' = Outcome(data'.jsw) /\ at' = at + 1 /\ UNCHANGED <<opts, input, written>>

DataRow ==
  /\ pc = "rows" /\ at < Len(input) /\ data.rows_processed > 0
  /\ LET row   == input[at + 1]
         cells == FoldLeftDomain(LAMBDA w, ix : DataCell(w, row[ix], ix), StartRow(data.jsw), row)
     IN  data' = [data EXCEPT !.rows_processed = @ + 1,
                              !.jsw = IF opts.schema = "object" THEN EndObject(cells) ELSE EndArray(cells)]
  /\ pc' = Outcome(data'.jsw) /\ at' = at + 1 /\ UNCHANGED <<opts, input, written>>

(* jsonwriter_end_all, jsonwriter_delete *)
Finish ==
  /\ pc = "rows" /\ at = Len(input) /\ pc' = "done"
  /\ written' = Flush(EndAll(data.jsw)).file
  /\ UNCHANGED <<opts, input, at, data>>

Next == HeaderRow \/ DataRow \/ Finish

Spec == Init /\ [][Next]_vars

-----------------------------------------------------------------------------
(* What is promised: the JSON text of a value, put together from the texts of its
   parts and not in one go. *)

Listed(parts) ==
  FlattenSeq([n \in DOMAIN parts |-> IF n = 1 THEN parts[n] ELSE <<",">> \o parts[n]])
ArrayText(parts) == <<"[">> \o Listed(parts) \o <<"]">>
ObjectText(members) ==
  <<"{">> \o Listed([n \in DOMAIN members |-> <<members[n].key, ":">> \o members[n].text]) \o <<"}">>
Member(key, text) == [key |-> key, text |-> text]

RowText(row) == ArrayText([ix \in DOMAIN row |-> <<row[ix]>>])
ObjectOf(row) ==
  LET columns == SelectSeq([ix \in DOMAIN row |-> ix],
                           LAMBDA ix : ix \in DOMAIN input[1] /\ ~(opts.no_empty /\ row[ix] = ""))
  IN  ObjectText([k \in DOMAIN columns |-> Member(input[1][columns[k]], <<row[columns[k]]>>)])
NamesText(row) == ArrayText([ix \in DOMAIN row |-> ObjectText(<<Member("name", <<row[ix]>>)>>)])
Each(Text(_)) == [n \in 1 .. Len(input) - 1 |-> Text(input[n + 1])]

IndexText(i) ==
  Member(i.name, ObjectText(<<Member("on", <<"expr">>)>>
                            \o IF i.unique THEN <<Member("unique", <<"true">>)>> ELSE <<>>))
SchemaText ==
  ObjectText( (IF opts.db_tablename = "none" THEN <<>> ELSE <<Member("name", <<opts.db_tablename>>)>>)
              \o (IF opts.indexes = <<>> THEN <<>>
                  ELSE <<Member("indexes", ObjectText([n \in DOMAIN opts.indexes |-> IndexText(opts.indexes[n])]))>>)
              \o <<Member("columns", NamesText(input[1]))>> )

TableText ==
  CASE opts.schema = "object"   -> ArrayText(Each(ObjectOf))
    [] opts.schema = "database" -> ArrayText(<<SchemaText>>
                                     \o IF Len(input) = 1 THEN <<>> ELSE <<ArrayText(Each(RowText))>>)
    [] OTHER -> ArrayText(<<IF opts.no_header THEN RowText(input[1]) ELSE NamesText(input[1])>>
                          \o Each(RowText))

(* The tokens that come out of the buffer one after the other are the text of the
   table: an array of arrays, of objects, or of a schema and the rows if there are
   any.  Without any row nothing is written, not even an empty array.  Only an input
   with a name or cell longer than the buffer may leave what the language defines
   (jsonwriter.c:49-60); nothing is promised of what is written then. *)
WritesTable ==
  /\ pc = "done" => written = IF input = <<>> THEN <<>> ELSE TableText
  /\ pc = "undefined" => \E n \in DOMAIN input : ToSet(input[n]) \cap LongTexts # {}

=============================================================================
