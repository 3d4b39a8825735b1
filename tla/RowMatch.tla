------------------------------ MODULE RowMatch ------------------------------
(***************************************************************************)
(* What comparing several inputs by key promises: the rows of each input   *)
(* are gone through once and in order, each step takes one row of some     *)
(* inputs, all with one key, and no row is left at the end.  If the keys   *)
(* of every input ascend then a step leaves out only inputs that have no   *)
(* row with its key left.                                                  *)
(***************************************************************************)
EXTENDS Integers, Sequences

CONSTANT Input

VARIABLES
  left,     \* the keys, as numbers, of each input's rows that are still to come
  phase

Ascending(s) == \A m, n \in DOMAIN s : m <= n => s[m] <= s[n]

Init == left \in [Input -> Seq(Nat)] /\ phase = "start"

(* Nothing is compared, for reasons that show before the first row. *)
Refuse == phase = "start" /\ phase' = "over" /\ UNCHANGED left

Begin == phase = "start" /\ phase' = "matching" /\ UNCHANGED left

Match(group, key) ==
  /\ phase = "matching" /\ UNCHANGED phase
  /\ group # {}
  /\ \A i \in group : left[i] # <<>> /\ Head(left[i]) = key
  /\ (\A i \in Input : Ascending(left[i])) =>
       \A i \in Input : \A n \in DOMAIN left[i] :
         key <= left[i][n] /\ (left[i][n] = key => i \in group)
  /\ left' = [i \in Input |-> IF i \in group THEN Tail(left[i]) ELSE left[i]]

KeysAhead == UNION {{left[i][n] : n \in DOMAIN left[i]} : i \in Input}

Finish ==
  /\ phase = "matching" /\ phase' = "over"
  /\ \A i \in Input : left[i] = <<>>
  /\ UNCHANGED left

Next ==
  \/ Refuse \/ Begin \/ Finish
  \/ \E group \in SUBSET Input, key \in KeysAhead : Match(group, key)

Spec == Init /\ [][Next]_<<left, phase>>

=============================================================================
