----------------------------- MODULE MCCompare -----------------------------
(* Inputs and options of zsv compare, for model checking. *)
EXTENDS Compare, SequencesExt

CONSTANTS id, v, a, a2, b, B, none, MaxRows

AllTexts == {id, v, a, a2, b, B, none}

(* B is b in another case, and comes before a in SQLite's order; a and a2 are
   numbers within the tolerance. *)
CaseOf(t) == CASE t \in {b, B} -> 2 [] t = a -> 1 [] t = a2 -> 3 [] OTHER -> 0
ByteOf(t) == CASE t = B -> 1 [] t = a -> 2 [] t = b -> 3 [] t = a2 -> 4 [] OTHER -> 0

SameText(s, t) == CaseOf(s) = CaseOf(t)
CloseTexts(s, t) == {s, t} = {a, a2}

Place(key, Of(_)) ==
  CASE key = <<>>   -> 0
    [] Len(key) = 1 -> 5 * Of(key[1])
    [] OTHER        -> 5 * Of(key[1]) + Of(key[2])
OrderOfKey(key) == Place(key, CaseOf)
SqlOrderOfKey(key) == Place(key, ByteOf)

(* Columns in another order, a column that is twice there, one that is not. *)
AllHeaders ==
  { [i \in Input |-> IF i = 1 THEN <<id, v>> ELSE h] : h \in {<<v, id>>, <<id, v, v>>} }
    \cup { [i \in Input |-> IF i = 2 THEN <<id, v>> ELSE <<id>>] }

AllKeys == { <<>>, <<id>>, <<id, v>> }
IdKey == { <<id>> }

AddedV == { <<v, 0>>, <<B, 0>> }

Cells == {<<a, a>>, <<b, a2>>, <<B, b>>, <<b>>}

Total(f) == FoldFunctionOnSet(LAMBDA s, n : Len(s) + n, 0, f, Input)

FirstOrNone == { {}, {1} }

AllRows == {f \in [Input -> SeqOf(Cells, 2)] : Total(f) <= MaxRows}

=============================================================================
