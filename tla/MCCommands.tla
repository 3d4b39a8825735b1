---------------------------- MODULE MCCommands ----------------------------
(***************************************************************************)
(* What each command is run with.  Texts are sequences of characters but   *)
(* in Paste and ToJson, which never look into a cell.                      *)
(***************************************************************************)
EXTENDS Commands, FiniteSets, SequencesExt

x == <<"x">>
y == <<"y">>
z == <<"z">>
empty == <<>>
blank_line == <<empty>>

Tables(headers, rows, n) == { <<>> } \cup { <<h>> \o r : h \in headers, r \in SeqOf(rows, n) }

-----------------------------------------------------------------------------
(* select *)

Plain ==
  [ columns |-> <<>>, indexes |-> FALSE, excluded |-> {}, distinct |-> "no", skip |-> 0,
    head |-> 0, every |-> 0, pct |-> FALSE, search |-> {}, no_header |-> FALSE,
    trim |-> FALSE, white |-> "no", lineend |-> "no", unescape |-> FALSE ]

Named(s) == [kind |-> "name", name |-> s, lo |-> 0, hi |-> 0]
Indexed(kind, lo, hi) == [kind |-> kind, name |-> <<>>, lo |-> lo, hi |-> hi]

ByIndex == { <<>>, <<Indexed("from", 2, 0)>>, <<Indexed("single", 2, 0), Indexed("range", 1, 3)>> }
ByName == { <<>>, <<Named(<<"X">>), Named(y)>>, <<Named(y), Named(y)>>, <<Named(z)>>, <<Indexed("single", 2, 0)>> }

ColumnChoices ==
  { [Plain EXCEPT !.columns = c[2], !.indexes = c[1], !.excluded = e, !.distinct = d, !.no_header = c[1]] :
      c \in ({TRUE} \X ByIndex) \cup ({FALSE} \X ByName),
      e \in { {}, {Named(<<"X">>)}, {Indexed("single", 1, 0)}, {Indexed("single", 3, 0)} },
      d \in {"no", "skip", "merge"} }

RowChoices ==
  { [Plain EXCEPT !.skip = s, !.head = h, !.every = e, !.pct = p, !.search = t] :
      s \in 0 .. 1, h \in {0, 1, 2, 3}, e \in {0, 2}, p \in BOOLEAN, t \in { {}, {y} } }

Cleanings ==
  { [Plain EXCEPT !.trim = t, !.white = w, !.lineend = l, !.unescape = u, !.columns = <<Named(x), Named(x)>>] :
      t \in BOOLEAN, w \in {"no", "yes", "no newline"}, l \in {"no", "|"}, u \in BOOLEAN }

AllSelectOptions == ColumnChoices \cup RowChoices \cup Cleanings

Odd == { <<" ", "x", " ", "\n", "y", " ">>, <<"x", "\r", "\n", "y", "\r", "\n">>, <<"\\", "n", "x", " ">>,
         <<"x", " ", " ", "y">> }
AllSelectInputs ==
  Tables({ <<x, y>>, <<x, <<"X">>, y>> }, { <<x, y>>, blank_line, <<empty, <<"x", "y">>, x>> }, 3)
    \cup { << <<x, y>>, <<t>> >> : t \in Odd }

(* One letter and blanks for the offsets, two kinds of line end for the chunks; the
   last set has first lines with fewer columns than there are offsets, or none. *)
AllFixedOptions == { <<>>, <<1>>, <<0, 2>>, <<2, 1>> }
Strings(chars, lo, hi) == UNION { [1 .. n -> chars] : n \in lo .. hi }
AllFixedInputs ==
  Strings({"a", "\n", "\r"}, 1, 5)
    \cup { <<"a", " ">> \o s \o <<"\n">> : s \in Strings({"a", " ", "\n"}, 1, 4) }
    \cup { <<"a", "\n">> \o s \o <<"a", "\r", "\n", "a", "a", "\n">> : s \in Strings({"a", "\n"}, 0, 2) }
    \cup { s \o <<" ", "\n">> \o t : s \in Strings({"a", " "}, 0, 4),
                                    t \in {<<>>, <<"a", " ", "a", "\n">>} }

-----------------------------------------------------------------------------
(* flatten *)

AllFlattenOptions ==
  [ row_id : {<<>>, <<x>>}, column_name : {<<>>, <<y>>}, value : {<<>>, << <<"y", "z">> >>},
    agg : {<<>>, <<z>>, <<y, z>>}, delimiter : {"comma", "other"} ]
AllFlattenInputs ==
  Tables({ <<x, y, z>>, << <<"X">>, empty, <<"y", "z">> >> },
         { <<x, y, x>>, <<y, y, y>>, <<x, z, z>>, blank_line }, 3)

-----------------------------------------------------------------------------
(* pretty: "w" is two columns wide *)

AllPrettyOptions ==
  { o \in [ markdown : BOOLEAN, markdown_pad : BOOLEAN, no_align : BOOLEAN,
            ignore_header_lengths : BOOLEAN, cache_max : {2, 4}, line_max : {6, 12},
            width_min : {2}, width_max : {3} ] :
      ~(o.markdown /\ o.markdown_pad) /\ (o.no_align => ~o.markdown /\ ~o.markdown_pad) }
AllPrettyInputs ==
  SeqOf({ blank_line, <<x>>, << <<"x", "w">>, y>>, <<x, <<"w", "w", "w">>, <<" ", "y">> >> }, 4) \ {<<>>}

-----------------------------------------------------------------------------
(* stack *)

AllStackOptions == [tab : BOOLEAN, delimiter : {"comma", "tab"}]
StackFiles ==
  [ rows : Tables({ <<x, y>>, <<y, z, <<"X">> >> }, { <<x, y>>, <<empty, empty>>, <<y, x, z>> }, 2)
           \cup { << <<x>> >> },
    delimiter : {"comma", "tab"}, ended : BOOLEAN ]
AllStackInputs ==
  { f \in StackFiles \X StackFiles :
      /\ f[1].ended => Len(f[1].rows) # 2
      /\ f[2].ended /\ Len(f[2].rows) # 2
      /\ f[2].delimiter = "comma" }

-----------------------------------------------------------------------------
(* paste *)

PasteFiles == { <<>> } \cup { <<h>> \o r : h \in {<<"a">>, <<"b", "c">>}, r \in SeqOf({<<"1">>, <<"2", "3", "4">>}, 2) }
AllPasteInputs == SeqOf(PasteFiles, 3) \ {<<>>}

-----------------------------------------------------------------------------
(* desc *)

AllDescOptions == [header_only : BOOLEAN, all : BOOLEAN, quick : BOOLEAN]
AllDescInputs ==
  Tables({ <<x, y>>, <<x, y, z>> }, { <<x, <<"X">> >>, << <<" ", "y">> >>, << <<"X">>, empty, z>>, <<z, z>> }, 4)

-----------------------------------------------------------------------------
(* echo *)

OverwriteAt(row, col) == [row |-> row, col |-> col, str |-> <<"o">>]
AllEchoOptions ==
  [ trim_white : BOOLEAN, trim_columns : BOOLEAN, contiguous : BOOLEAN, skip_until : {<<>>, y},
    overwrites : { <<>>, <<OverwriteAt(1, 0), OverwriteAt(2, 1)>>, <<OverwriteAt(2, 0), OverwriteAt(2, 1)>>,
                   <<OverwriteAt(2, 5), OverwriteAt(3, 0)>>, <<OverwriteAt(0, 1), OverwriteAt(3, 0)>>,
                   <<OverwriteAt(3, 0), OverwriteAt(2, 0)>> } ]
AllEchoInputs ==
  LET Rows == { blank_line, <<empty, empty>>, <<x, y>>, << <<"y", " ">>, <<" ">> >> }
  IN  SeqOf(Rows, 3) \cup { <<<<x, y>>>> \o r : r \in SeqOf(Rows, 3) }

Line(row, col, val) == [row |-> row, col |-> col, val |-> val]
OverwriteFiles ==
  SeqOf({ Line(0, 1, "o"), Line(1, 0, "p"), Line(1, 1, "q"), Line(2, 0, "r"), Line(-1, 1, "s") }, 2)
    \cup { <<Line(1, 0, "p"), Line(1, 1, "q"), Line(2, 0, "r")>>, <<Line(0, 1, "o"), Line(0, 1, "p"), Line(2, 1, "q")>> }
AllOverwritesInputs ==
  [ table : { << <<"h", "i">>, <<"a">>, <<"c", "d">> >> }, file : OverwriteFiles ]

-----------------------------------------------------------------------------
(* serialize *)

AllSerializeOptions ==
  [ filter : {<<>>, x}, case_insensitive : BOOLEAN, entire : BOOLEAN, position : BOOLEAN,
    id : {1, 2}, add : {<<>>, <<y>>} ]
AllSerializeInputs ==
  Tables({ <<x, y>>, <<x, y, z>>, <<empty, x>>, <<y, <<"Column">> >> },
         { <<x, y, x>>, <<y>>, <<y, <<"X", "z">> >>, blank_line }, 2)

-----------------------------------------------------------------------------
(* 2tsv, 2json *)

Chars == {"a", "\t", "\n", "\\"}
TsvRows(n) == SeqOf(SeqOf(Chars, n), 2) \ {<<>>}
AllTsvInputs == SeqOf(TsvRows(1), 2) \cup {<<row>> : row \in TsvRows(3)}

AllJsonOptions ==
  [ schema : {"none", "object", "database"}, no_header : BOOLEAN, no_empty : BOOLEAN,
    db_tablename : {"none", "t"},
    indexes : {<<>>, <<[name |-> "i", unique |-> TRUE], [name |-> "j", unique |-> FALSE]>>} ]
AllJsonInputs ==
  Tables({ <<"x">>, <<"x", "y">> }, { <<"1", "", "3">>, <<"">>, <<"1", "2">> }, 3)
    \cup { << <<"x">>, <<"1", "long">> >>, << <<"long">>, <<"1">> >> }

-----------------------------------------------------------------------------
(* --malformed-utf8-encoding *)

AllUtf8Inputs == SeqOf({"a", "2", "3", "c", "x"}, 5)

-----------------------------------------------------------------------------
(* 2db: the first run reads any of these, the second a good table or a torn one *)

Json(columns, indexes, rows) == [columns |-> columns, indexes |-> indexes, rows |-> rows, torn |-> FALSE]
On(column, unique) == [on |-> column, unique |-> unique]
Good == Json(<<"a", "b">>, <<On("a", TRUE)>>, << <<"1">>, <<"">>, <<"2", "1", "3">>, <<"", "1">> >>)
Torn == [Good EXCEPT !.torn = TRUE]
FirstJson ==
  { Good, Torn, Json(<<"a", "b">>, <<On("b", FALSE), On("a", TRUE)>>, << <<"1">>, <<"1", "2">> >>),
    Json(<<"a">>, <<>>, << <<"">> >>), Json(<<"a">>, <<On("a", FALSE)>>, <<>>),
    Json(<<"a", "">>, <<>>, << <<"1">> >>), Json(<<"a", "a">>, <<>>, << <<"1">> >>) }
AllToDbInputs == { <<first, second>> : first \in FirstJson, second \in {Good, Torn} }

=============================================================================
