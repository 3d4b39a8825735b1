--------------------------- MODULE Compare_proofs ---------------------------
(* Proofs about the matching of rows in zsv compare.                         *)
EXTENDS Compare, TLAPS

InputState == [pos : Nat, row_loaded : BOOLEAN, done : BOOLEAN, row : Seq(Text)]

(* What TypeOK says of one input. *)
InStep(i, input) ==
  /\ input \in InputState
  /\ input.pos <= Len(rows[i])
  /\ input.row_loaded => input.pos > 0 /\ input.row = rows[i][input.pos] /\ ~input.done
  /\ input.done => input.pos = Len(rows[i])

(* The two updates of an input. *)
LEMMA UpdateFacts ==
  ASSUME NEW s \in InputState, NEW r \in Seq(Text)
  PROVE  /\ LET over == [s EXCEPT !.done = TRUE, !.row = r]
            IN  /\ over \in InputState /\ over.pos = s.pos
                /\ over.row_loaded = s.row_loaded /\ over.done = TRUE
         /\ LET used == [s EXCEPT !.row_loaded = FALSE]
            IN  /\ used \in InputState /\ used.pos = s.pos /\ used.row_loaded = FALSE
                /\ used.done = s.done
  BY DEF InputState

(* The rank of a key is a number. *)
LEMMA KeyOrderIsNat ==
  ASSUME header \in Headers, keys \in Keys, NEW i \in Input, NEW row \in Seq(Text)
  PROVE  KeyOrder(KeyIn(i, row)) \in Nat
<1>1. \A c : ValueIn(i, row, c) \in Text
  BY CompareAssumption DEF ValueIn, CellIn
<1>2. KeyIn(i, row) \in [DOMAIN keys -> Text]
  BY <1>1 DEF KeyIn
<1>. QED  BY <1>2, CompareAssumption

(* An input is advanced by one row, or is over. *)
LEMMA AdvanceFacts ==
  ASSUME TypeOK, NEW i \in Input
  PROVE  /\ InStep(i, Advanced[i])
         /\ Advanced[i].row_loaded =>
              /\ Taken(i) + 1 = Advanced[i].pos
              /\ Taken(i) + 1 \in 1 .. Len(rows[i])
              /\ Advanced[i].row = rows[i][Taken(i) + 1]
         /\ ~Advanced[i].row_loaded =>
              Advanced[i].done /\ Advanced[i].pos = Len(rows[i]) /\ Taken(i) = Len(rows[i])
<1> DEFINE input == inputs[i]
           next  == [pos |-> input.pos + 1, row_loaded |-> TRUE, done |-> FALSE,
                     row |-> rows[i][input.pos + 1]]
           kept  == IF i \in unended THEN input.row ELSE <<>>
           over  == [input EXCEPT !.done = TRUE, !.row = kept]
<1>1. input \in InputState /\ InStep(i, input)
  BY DEF TypeOK, InStep, InputState
<1>2. rows[i] \in Seq(Seq(Text))
  BY CompareAssumption DEF TypeOK
<1>3. Advanced[i] = IF input.done \/ input.row_loaded THEN input
                    ELSE IF input.pos < Len(rows[i]) THEN next ELSE over
  BY DEF Advanced, AdvancedInput, HasNext
<1>4. CASE input.done \/ input.row_loaded
  <2>1. Advanced[i] = input
    BY <1>3, <1>4
  <2>. QED  BY <1>1, <1>2, <1>4, <2>1 DEF InStep, InputState, Taken
<1>5. CASE ~(input.done \/ input.row_loaded) /\ input.pos < Len(rows[i])
  <2>1. Advanced[i] = next
    BY <1>3, <1>5
  <2>2. input.pos \in Nat /\ input.pos + 1 \in 1 .. Len(rows[i])
    BY <1>1, <1>2, <1>5 DEF InputState
  <2>3. next \in InputState
    BY <1>2, <2>2 DEF InputState
  <2>4. Taken(i) = input.pos
    BY <1>5 DEF Taken
  <2>. QED  BY <1>2, <2>1, <2>2, <2>3, <2>4 DEF InStep
<1>6. CASE ~(input.done \/ input.row_loaded) /\ ~(input.pos < Len(rows[i]))
  <2>1. Advanced[i] = over
    BY <1>3, <1>6
  <2>2. input.pos \in Nat /\ input.pos = Len(rows[i])
    BY <1>1, <1>2, <1>6 DEF InputState, InStep
  <2>3. over \in InputState /\ over.pos = input.pos /\ over.row_loaded = FALSE /\ over.done = TRUE
    <3>1. input.row \in Seq(Text) /\ <<>> \in Seq(Text)
      BY <1>1 DEF InputState
    <3>2. kept \in Seq(Text)
      BY <3>1
    <3> HIDE DEF kept, input
    <3>3. /\ over \in InputState /\ over.pos = input.pos
          /\ over.row_loaded = input.row_loaded /\ over.done = TRUE
      BY <1>1, <3>2, UpdateFacts
    <3>4. input.row_loaded = FALSE
      BY <1>1, <1>6 DEF InputState
    <3>. QED  BY <3>3, <3>4
  <2>4. Taken(i) = input.pos
    BY <1>6 DEF Taken
  <2>. QED  BY <1>2, <2>1, <2>2, <2>3, <2>4 DEF InStep
<1>. QED  BY <1>4, <1>5, <1>6

(* The inputs of a group are those with the smallest key, and all of them. *)
LEMMA GroupFacts ==
  ASSUME NEW now, NEW order \in SortedInputs(now),
         \A i \in Input : KeyRank(now, i) \in Nat,
         \E i \in Input : now[i].row_loaded
  PROVE  /\ order[1] \in Group(now, order)
         /\ Group(now, order) \subseteq Input
         /\ \A i \in Group(now, order) :
              now[i].row_loaded /\ KeyRank(now, i) = KeyRank(now, order[1])
         /\ \A i \in Input : now[i].row_loaded =>
              /\ KeyRank(now, order[1]) <= KeyRank(now, i)
              /\ KeyRank(now, i) = KeyRank(now, order[1]) => i \in Group(now, order)
<1> DEFINE Rank(i) == KeyRank(now, i)
           Loaded(i) == now[i].row_loaded
           Before(n) == \E m \in n .. InputCount :
                          /\ Loaded(order[m])
                          /\ \A k \in 1 .. m : Loaded(order[k]) => Rank(order[k]) = Rank(order[1])
<1>1. /\ order \in [Input -> Input]
      /\ \A i \in Input : \E n \in Input : order[n] = i
      /\ \A m, n \in Input : m <= n /\ Loaded(order[n]) =>
           Loaded(order[m]) /\ Rank(order[m]) <= Rank(order[n])
  BY DEF SortedInputs
<1>2. Group(now, order) = {order[n] : n \in {n \in Input : Before(n)}}
  BY DEF Group
<1>3. InputCount \in Nat /\ 1 \in Input /\ \A n \in Input : n \in Nat /\ 1 <= n
  BY CompareAssumption DEF Input
<1>4. \A i \in Input : Rank(i) \in Nat
  OBVIOUS
<1> HIDE DEF Rank, Loaded
<1>5. Loaded(order[1])
  <2>1. PICK i \in Input : Loaded(i)
    BY DEF Loaded
  <2>2. PICK n \in Input : order[n] = i
    BY <1>1
  <2>. QED  BY <1>1, <1>3, <2>1, <2>2
<1>6. ASSUME NEW i \in Group(now, order)
      PROVE  i \in Input /\ Loaded(i) /\ Rank(i) = Rank(order[1])
  <2>1. PICK n \in Input : Before(n) /\ i = order[n]
    BY <1>2
  <2>2. PICK m \in n .. InputCount :
          /\ Loaded(order[m])
          /\ \A k \in 1 .. m : Loaded(order[k]) => Rank(order[k]) = Rank(order[1])
    BY <2>1
  <2>3. m \in Input /\ n <= m /\ n \in 1 .. m
    BY <1>3, <2>2 DEF Input
  <2>4. Loaded(order[n])
    BY <1>1, <2>2, <2>3
  <2>. QED  BY <1>1, <2>1, <2>2, <2>3, <2>4
<1>7. ASSUME NEW i \in Input, Loaded(i)
      PROVE  /\ Rank(order[1]) <= Rank(i)
             /\ Rank(i) = Rank(order[1]) => i \in Group(now, order)
  <2>1. PICK n \in Input : order[n] = i
    BY <1>1
  <2>2. Rank(order[1]) <= Rank(i)
    BY <1>1, <1>3, <1>7, <2>1
  <2>3. ASSUME Rank(i) = Rank(order[1])
        PROVE  Before(n)
    <3>1. ASSUME NEW k \in 1 .. n, Loaded(order[k])
          PROVE  Rank(order[k]) = Rank(order[1])
      <4>1. k \in Input /\ k <= n /\ 1 <= k
        BY <1>3 DEF Input
      <4>2. Rank(order[1]) <= Rank(order[k]) /\ Rank(order[k]) <= Rank(order[n])
        BY <1>1, <1>3, <1>7, <2>1, <3>1, <4>1
      <4>3. Rank(order[1]) \in Nat /\ Rank(order[k]) \in Nat
        BY <1>1, <1>3, <1>4, <4>1
      <4>. QED  BY <2>1, <2>3, <4>2, <4>3
    <3>2. n \in n .. InputCount
      BY <1>3 DEF Input
    <3>. QED  BY <1>7, <2>1, <3>1, <3>2
  <2>. QED  BY <1>2, <2>1, <2>2, <2>3
<1>8. order[1] \in Group(now, order)
  BY <1>1, <1>3, <1>5, <1>7
<1>. QED  BY <1>6, <1>7, <1>8 DEF Rank, Loaded

(* One step, whatever it is, leaves every input in step with its rows. *)
LEMMA AdvanceKeepsType ==
  ASSUME TypeOK, NEW group \in SUBSET Input, inputs' = Used(Advanced, group),
         UNCHANGED given, pc' = "comparing"
  PROVE  TypeOK'
<1>1. ASSUME NEW i \in Input
      PROVE  InStep(i, inputs'[i])
  <2>1. InStep(i, Advanced[i])
    BY AdvanceFacts
  <2>2. inputs'[i] = IF i \in group THEN [Advanced[i] EXCEPT !.row_loaded = FALSE] ELSE Advanced[i]
    BY DEF Used
  <2>3. Advanced[i] \in InputState /\ Advanced[i].row \in Seq(Text)
    BY <2>1 DEF InStep, InputState
  <2> DEFINE used == [Advanced[i] EXCEPT !.row_loaded = FALSE]
  <2>4. used \in InputState /\ used.pos = Advanced[i].pos /\ used.row_loaded = FALSE
        /\ used.done = Advanced[i].done
    BY <2>3, UpdateFacts
  <2>. QED  BY <2>1, <2>2, <2>4 DEF InStep
<1>2. inputs' = [i \in Input |-> inputs'[i]]
  BY DEF Used
<1>3. inputs' \in [Input -> InputState]
  BY <1>1, <1>2 DEF InStep
<1>. QED  BY <1>1, <1>3 DEF TypeOK, InStep, InputState, given

(* Type correctness: whatever the inputs, sorted or not, the row in hand is that of
   its position and no input is over before its last row (zsv_compare_advance). *)
THEOREM CompareTypeCorrect == Spec => []TypeOK
<1>1. ASSUME Init
      PROVE  TypeOK
  <2>1. \A i \in Input : header[i] \in Seq(Text) /\ <<>> \in Seq(Text) /\ rows[i] \in Seq(Seq(Text))
    BY <1>1, CompareAssumption DEF Init
  <2>2. \A i \in Input : inputs[i] \in InputState
    BY <1>1, <2>1 DEF Init, InputState
  <2>3. inputs \in [Input -> InputState]
    BY <1>1, <2>2 DEF Init
  <2>. QED  BY <1>1, <2>1, <2>3, CompareAssumption DEF Init, TypeOK, InputState
<1>2. ASSUME TypeOK, [Next]_vars
      PROVE  TypeOK'
  <2>1. CASE SetUp
    BY <1>2, <2>1 DEF SetUp, TypeOK, given
  <2>2. CASE CompareRows
    <3>1. PICK order \in SortedInputs(Advanced) : inputs' = Used(Advanced, Group(Advanced, order))
      BY <2>2 DEF CompareRows
    <3>2. Group(Advanced, order) \subseteq Input
      BY <3>1 DEF Group, SortedInputs
    <3>3. UNCHANGED given /\ pc' = "comparing"
      BY <2>2 DEF CompareRows
    <3>. QED  BY <1>2, <3>1, <3>2, <3>3, AdvanceKeepsType
  <2>3. CASE NoMoreInput
    <3>1. \A i \in Input : InStep(i, Advanced[i]) /\ Advanced[i].done
      BY <1>2, <2>3, AdvanceFacts DEF NoMoreInput
    <3>2. Advanced \in [Input -> InputState]
      BY <3>1 DEF Advanced, InStep
    <3>. QED  BY <1>2, <2>3, <3>1, <3>2 DEF NoMoreInput, TypeOK, InStep, InputState, given
  <2>4. CASE UNCHANGED vars
    BY <1>2, <2>4 DEF TypeOK, vars
  <2>. QED  BY <1>2, <2>1, <2>2, <2>3, <2>4 DEF Next
<1>. QED  BY <1>1, <1>2, PTL DEF Spec

-----------------------------------------------------------------------------
(* The keys left of an input that is not used stay as they are; of one that is,
   the first goes. *)
LEMMA KeysLeftFacts ==
  ASSUME TypeOK, NEW group \in SUBSET Input, inputs' = Used(Advanced, group),
         UNCHANGED given, \A i \in group : Advanced[i].row_loaded,
         NEW i \in Input
  PROVE  /\ KeysLeft(i) \in Seq(Nat)
         /\ KeysLeft(i)' = IF i \in group THEN Tail(KeysLeft(i)) ELSE KeysLeft(i)
         /\ Advanced[i].row_loaded =>
              KeysLeft(i) # <<>> /\ Head(KeysLeft(i)) = KeyRank(Advanced, i)
         /\ ~Advanced[i].row_loaded => KeysLeft(i) = <<>>
<1> DEFINE taken == Taken(i)
           key(n) == KeyOrder(KeyIn(i, rows[i][n]))
           count  == Len(rows[i])
<1>1. rows[i] \in Seq(Seq(Text)) /\ header \in Headers /\ keys \in Keys
  BY CompareAssumption DEF TypeOK
<1>2. inputs[i] \in InputState /\ inputs[i].pos <= count
        /\ (inputs[i].row_loaded => inputs[i].pos > 0)
  BY DEF TypeOK, InputState
<1>3. count \in Nat /\ taken \in 0 .. count
  BY <1>1, <1>2 DEF Taken, InputState
<1>4. \A n \in 1 .. count : key(n) \in Nat
  BY <1>1, KeyOrderIsNat
<1>5. InStep(i, Advanced[i])
      /\ (Advanced[i].row_loaded =>
            /\ taken + 1 = Advanced[i].pos
            /\ taken + 1 \in 1 .. count
            /\ Advanced[i].row = rows[i][taken + 1])
      /\ (~Advanced[i].row_loaded => Advanced[i].pos = count /\ taken = count)
  BY AdvanceFacts
<1>6. Taken(i)' = IF i \in group THEN taken + 1 ELSE taken
  <2>1. inputs'[i] = IF i \in group THEN [Advanced[i] EXCEPT !.row_loaded = FALSE] ELSE Advanced[i]
    BY DEF Used
  <2>2. [Advanced[i] EXCEPT !.row_loaded = FALSE].pos = Advanced[i].pos
        /\ [Advanced[i] EXCEPT !.row_loaded = FALSE].row_loaded = FALSE
    BY <1>5 DEF InStep, InputState
  <2>. QED  BY <1>3, <1>5, <2>1, <2>2 DEF Taken
<1>7. \A n : key(n)' = key(n)
  BY DEF KeyIn, ValueIn, CellIn, KeyColumn, HasColumn, Column, given
<1> HIDE DEF key, taken, count
<1>8. KeysLeft(i) = [n \in 1 .. count - taken |-> key(taken + n)]
  BY DEF KeysLeft, key, taken, count
<1>9. KeysLeft(i)' = [n \in 1 .. count - Taken(i)' |-> key(Taken(i)' + n)]
  BY <1>7 DEF KeysLeft, key, count, given
<1>10. KeysLeft(i) \in Seq(Nat) /\ Len(KeysLeft(i)) = count - taken
  BY <1>3, <1>4, <1>8
<1>11. ASSUME Advanced[i].row_loaded
       PROVE  KeysLeft(i) # <<>> /\ Head(KeysLeft(i)) = KeyRank(Advanced, i)
  <2>1. count - taken >= 1
    BY <1>3, <1>5, <1>11
  <2>2. KeysLeft(i) # <<>> /\ Head(KeysLeft(i)) = key(taken + 1)
    BY <1>3, <1>8, <1>10, <2>1
  <2>. QED  BY <1>5, <1>11, <2>2 DEF KeyRank, key
<1>12. KeysLeft(i)' = IF i \in group THEN Tail(KeysLeft(i)) ELSE KeysLeft(i)
  <2>1. CASE i \in group
    <3>1. Advanced[i].row_loaded /\ Taken(i)' = taken + 1 /\ taken + 1 \in 1 .. count
      BY <1>5, <1>6, <2>1
    <3>2. Tail(KeysLeft(i)) = [n \in 1 .. count - taken - 1 |-> key(taken + (n + 1))]
      BY <1>3, <1>8, <1>10, <3>1
    <3>3. \A n \in 1 .. count - taken - 1 : taken + (n + 1) = (taken + 1) + n
      BY <1>3
    <3>. QED  BY <1>3, <1>9, <2>1, <3>1, <3>2, <3>3
  <2>2. CASE i \notin group
    BY <1>6, <1>8, <1>9, <2>2
  <2>. QED  BY <2>1, <2>2
<1>13. ~Advanced[i].row_loaded => KeysLeft(i) = <<>>
  BY <1>3, <1>5, <1>8, <1>10
<1>. QED  BY <1>10, <1>11, <1>12, <1>13

(* What is left of an input is a sequence of numbers. *)
LEMMA KeysLeftType ==
  ASSUME TypeOK, NEW i \in Input
  PROVE  KeysLeft(i) \in Seq(Nat)
<1> DEFINE key(n) == KeyOrder(KeyIn(i, rows[i][n]))
           taken  == Taken(i)
<1>1. rows[i] \in Seq(Seq(Text)) /\ header \in Headers /\ keys \in Keys
  BY CompareAssumption DEF TypeOK
<1>2. inputs[i] \in InputState /\ inputs[i].pos <= Len(rows[i])
        /\ (inputs[i].row_loaded => inputs[i].pos > 0)
  BY DEF TypeOK, InputState
<1>3. Len(rows[i]) \in Nat /\ Taken(i) \in 0 .. Len(rows[i])
  BY <1>1, <1>2 DEF Taken, InputState
<1>4. \A n \in 1 .. Len(rows[i]) : key(n) \in Nat
  BY <1>1, KeyOrderIsNat
<1>5. KeysLeft(i) = [n \in 1 .. Len(rows[i]) - taken |-> key(taken + n)]
  BY DEF KeysLeft
<1>6. taken \in 0 .. Len(rows[i])
  BY <1>3
<1> HIDE DEF key, taken
<1>. QED  BY <1>3, <1>4, <1>5, <1>6

(* A step of the loop takes the first row of each input of the group. *)
LEMMA StepOfLeft ==
  ASSUME TypeOK, NEW group \in SUBSET Input, inputs' = Used(Advanced, group),
         UNCHANGED given, \A i \in group : Advanced[i].row_loaded
  PROVE  [i \in Input |-> KeysLeft(i)]'
           = [i \in Input |-> IF i \in group THEN Tail(KeysLeft(i)) ELSE KeysLeft(i)]
  BY KeysLeftFacts

(* A group is what RowMatch lets a step take. *)
LEMMA CompareRowsMatches ==
  ASSUME TypeOK, CompareRows
  PROVE  \E group \in SUBSET Input, key \in Promise!KeysAhead : Promise!Match(group, key)
<1> DEFINE Left(i) == KeysLeft(i)
           now     == Advanced
<1>1. PICK order \in SortedInputs(now) : inputs' = Used(now, Group(now, order))
  BY DEF CompareRows
<1> DEFINE group == Group(now, order)
           Rank(i) == KeyRank(now, i)
           key   == Rank(order[1])
<1>2. \A i \in Input : Rank(i) \in Nat
  <2>. SUFFICES ASSUME NEW i \in Input
                PROVE  Rank(i) \in Nat
    OBVIOUS
  <2>1. now[i].row \in Seq(Text) /\ header \in Headers /\ keys \in Keys
    BY AdvanceFacts DEF InStep, InputState, TypeOK
  <2>. QED  BY <2>1, KeyOrderIsNat DEF KeyRank
<1>3. /\ order[1] \in group /\ group \subseteq Input
      /\ \A i \in group : now[i].row_loaded /\ Rank(i) = key
      /\ \A i \in Input : now[i].row_loaded =>
           key <= Rank(i) /\ (Rank(i) = key => i \in group)
  <2>1. \E i \in Input : now[i].row_loaded
    BY DEF CompareRows
  <2>. QED  BY <1>1, <1>2, <2>1, GroupFacts
<1>4. UNCHANGED given
  BY DEF CompareRows
<1> HIDE DEF group, now
<1>5. \A i \in Input :
        /\ Left(i) \in Seq(Nat)
        /\ now[i].row_loaded => Left(i) # <<>> /\ Head(Left(i)) = Rank(i)
        /\ ~now[i].row_loaded => Left(i) = <<>>
  BY <1>1, <1>3, <1>4, KeysLeftFacts DEF group, now
<1>6. [i \in Input |-> KeysLeft(i)]'
        = [i \in Input |-> IF i \in group THEN Tail(Left(i)) ELSE Left(i)]
  BY <1>1, <1>3, <1>4, StepOfLeft DEF group, now
<1> HIDE DEF Left, Rank
<1>7. ASSUME NEW i \in Input, NEW n \in DOMAIN Left(i), Promise!Ascending(Left(i))
      PROVE  key <= Left(i)[n] /\ (Left(i)[n] = key => i \in group)
  <2>1. Left(i) \in Seq(Nat) /\ Left(i) # <<>> /\ 1 \in DOMAIN Left(i) /\ 1 <= n
    BY <1>5, <1>7
  <2>2. now[i].row_loaded /\ Left(i)[1] = Rank(i)
    BY <1>5, <2>1
  <2>3. Left(i)[1] <= Left(i)[n]
    BY <1>7, <2>1 DEF Promise!Ascending
  <2>4. key \in Nat /\ Rank(i) \in Nat /\ Left(i)[n] \in Nat
    BY <1>2, <1>3, <2>1
  <2>. QED  BY <1>3, <2>2, <2>3, <2>4
<1>8. key \in Promise!KeysAhead
  <2>1. order[1] \in Input /\ Left(order[1]) # <<>> /\ Left(order[1])[1] = key
        /\ 1 \in DOMAIN Left(order[1])
    BY <1>3, <1>5
  <2>. QED  BY <2>1 DEF Promise!KeysAhead, Left
<1>9. pc = "comparing" /\ pc' = "comparing"
  BY DEF CompareRows
<1>10. Promise!Match(group, key)
  <2>1. group # {} /\ \A i \in group : Left(i) # <<>> /\ Head(Left(i)) = key
    BY <1>3, <1>5
  <2>2. (\A i \in Input : Promise!Ascending(Left(i))) =>
           \A i \in Input : \A n \in DOMAIN Left(i) :
             key <= Left(i)[n] /\ (Left(i)[n] = key => i \in group)
    BY <1>7
  <2>. QED  BY <1>3, <1>6, <1>9, <2>1, <2>2 DEF Promise!Match, Left
<1>. QED  BY <1>3, <1>8, <1>10

(* Every row of every input is reported once, in order, with rows that have its
   key; and if each input is sorted a row is never reported without that of another
   input with the same key.  It is so whatever qsort does with inputs whose keys
   are the same (zsv_compare_next). *)
THEOREM CompareMatchesRows == Spec => ImplementsRowMatch
<1>1. ASSUME Init, TypeOK
      PROVE  Promise!Init
  BY <1>1, KeysLeftType DEF Init, Promise!Init
<1>2. ASSUME TypeOK, [Next]_vars
      PROVE  [Promise!Next]_<<[i \in Input |-> KeysLeft(i)],
               CASE pc = "start" -> "start" [] pc = "comparing" -> "matching" [] OTHER -> "over">>
  <2> DEFINE left  == [i \in Input |-> KeysLeft(i)]
             phase == CASE pc = "start" -> "start" [] pc = "comparing" -> "matching" [] OTHER -> "over"
  <2>1. CASE SetUp
    <3>1. left' = left
      BY <2>1 DEF SetUp, given, KeysLeft, Taken, KeyIn, ValueIn, CellIn, KeyColumn, HasColumn, Column
    <3>2. pc = "start" /\ pc' \in {"failed", "comparing"}
      BY <2>1 DEF SetUp
    <3>. QED  BY <3>1, <3>2 DEF Promise!Next, Promise!Refuse, Promise!Begin
  <2>2. CASE CompareRows
    BY <1>2, <2>2, CompareRowsMatches DEF Promise!Next
  <2>3. CASE NoMoreInput
    <3>1. inputs' = Used(Advanced, {}) /\ UNCHANGED given
      BY <2>3 DEF NoMoreInput, Used, Advanced
    <3>2. \A i \in Input : KeysLeft(i) = <<>> /\ KeysLeft(i)' = KeysLeft(i)
      BY <1>2, <2>3, <3>1, KeysLeftFacts DEF NoMoreInput
    <3>3. pc = "comparing" /\ pc' = "finished"
      BY <2>3 DEF NoMoreInput
    <3>. QED  BY <3>2, <3>3 DEF Promise!Next, Promise!Finish
  <2>4. CASE UNCHANGED vars
    BY <2>4 DEF vars, KeysLeft, Taken, KeyIn, ValueIn, CellIn, KeyColumn, HasColumn, Column
  <2>. QED  BY <1>2, <2>1, <2>2, <2>3, <2>4 DEF Next
<1>. QED  BY <1>1, <1>2, CompareTypeCorrect, PTL DEF Spec, ImplementsRowMatch, Promise!Spec

-----------------------------------------------------------------------------
(* After set-up every input has every key column. *)
KeysFound == \A i \in Input, k \in DOMAIN keys : HasColumn(i, KeyColumn(k))

ReportInv ==
  /\ pc \in {"comparing", "finished"} => KeysFound
  /\ pc \in {"start", "failed"} => printed.group = {}
  /\ printed.group \subseteq Input
  /\ ReportsRows

(* What depends on the inputs only does not change. *)
LEMMA GivenFacts ==
  ASSUME UNCHANGED given
  PROVE  /\ \A i, c : HasColumn(i, c)' = HasColumn(i, c)
         /\ \A k : KeyColumn(k)' = KeyColumn(k)
         /\ KeyColumns' = KeyColumns /\ OutputColumns' = OutputColumns
         /\ \A c : AddedFrom(c)' = AddedFrom(c)
         /\ \A i, row, c : ValueIn(i, row, c)' = ValueIn(i, row, c)
         /\ KeysFound' = KeysFound
         /\ \A i, c : HasColumn(i, c) =>
              Value(i, c)' = ValueIn(i, rows[i][inputs'[i].pos], c)
  BY DEF given, HasColumn, Column, KeyColumn, KeyColumns, OutputColumns, AddedFrom, ValueIn,
         CellIn, KeysFound, Value, Row

(* The values an input has in a report of its group. *)
LEMMA ReportedValue ==
  ASSUME TypeOK, UNCHANGED given, NEW group \in SUBSET Input, inputs' = Used(Advanced, group),
         NEW i \in group, Advanced[i].row_loaded
  PROVE  /\ \A c : HasColumn(i, c) => Value(i, c)' = ValueIn(i, Advanced[i].row, c)
         /\ \A c : ValueIn(i, Advanced[i].row, c) \in Text
<1>1. i \in Input /\ InStep(i, Advanced[i]) /\ Advanced[i].row = rows[i][Advanced[i].pos]
  BY AdvanceFacts DEF InStep
<1>2. inputs'[i].pos = Advanced[i].pos
  BY <1>1, UpdateFacts DEF Used, InStep, InputState
<1>3. Advanced[i].row \in Seq(Text)
  BY <1>1 DEF InStep, InputState
<1>4. \A c : ValueIn(i, Advanced[i].row, c) \in Text
  BY <1>3, CompareAssumption DEF ValueIn, CellIn
<1>. QED  BY <1>1, <1>2, <1>4, GivenFacts

(* A report stays true of the rows in hand while these stay the same. *)
LEMMA ReportKept ==
  ASSUME ReportInv, UNCHANGED <<given, printed>>,
         \A i \in Input : inputs'[i].pos = inputs[i].pos
  PROVE  ReportsRows' /\ printed'.group \subseteq Input
<1>0. \A i \in printed.group : i \in Input /\ Row(i)' = Row(i)
  BY DEF ReportInv, given, Row
<1>a. \A i \in printed.group : \A c : Value(i, c)' = Value(i, c)
  BY <1>0, SMTT(30) DEF given, Value, Column
<1>1. /\ \A i \in printed.group : \A c : Value(i, c)' = Value(i, c)
      /\ \A i \in printed.group : KeyOf(i)' = KeyOf(i)
  BY <1>a, SMTT(30) DEF given, KeyOf, KeyColumn
<1>2. /\ \A i, c : HasColumn(i, c)' = HasColumn(i, c)
      /\ KeyColumns' = KeyColumns /\ OutputColumns' = OutputColumns
      /\ \A c : AddedFrom(c)' = AddedFrom(c)
  BY GivenFacts
<1>3. ReportsRows /\ printed.group \subseteq Input /\ printed' = printed
  BY DEF ReportInv
<1>. QED  BY <1>1, <1>2, <1>3 DEF ReportsRows, Reported

LEMMA ReportStep ==
  ASSUME TypeOK, ReportInv, CompareRows
  PROVE  ReportsRows' /\ printed'.group \subseteq Input
<1> DEFINE now == Advanced
<1>0. UNCHANGED given /\ pc = "comparing" /\ KeysFound
  BY DEF CompareRows, ReportInv
<1>1. PICK order \in SortedInputs(now) :
        /\ printed' = PrintRow(now, Group(now, order), order[1])
        /\ inputs' = Used(now, Group(now, order))
  BY DEF CompareRows
<1> DEFINE group == Group(now, order)
           first == order[1]
           V(i, c) == ValueIn(i, now[i].row, c)
<1>2. \A i \in Input : KeyRank(now, i) \in Nat
  <2>. SUFFICES ASSUME NEW i \in Input
                PROVE  KeyRank(now, i) \in Nat
    OBVIOUS
  <2>1. now[i].row \in Seq(Text) /\ header \in Headers /\ keys \in Keys
    BY AdvanceFacts DEF InStep, InputState, TypeOK
  <2>. QED  BY <2>1, KeyOrderIsNat DEF KeyRank
<1>3. /\ first \in group /\ group \subseteq Input
      /\ \A i \in group : now[i].row_loaded /\ KeyRank(now, i) = KeyRank(now, first)
  <2>1. \E i \in Input : now[i].row_loaded
    BY DEF CompareRows
  <2>. QED  BY <1>1, <1>2, <2>1, GroupFacts
<1> HIDE DEF group, now, first
<1>4. \A i \in group : \A c : /\ HasColumn(i, c) => Value(i, c)' = V(i, c)
                              /\ V(i, c) \in Text
  BY <1>0, <1>1, <1>3, ReportedValue DEF group, now
<1>5. /\ printed'.group = group
      /\ printed'.key = KeyIn(first, now[first].row)
      /\ printed'.differs =
           [ c \in {c \in OutputColumns \ KeyColumns : Different(now, group, first, c)} |->
               [ i \in Input |-> IF i \in group THEN V(i, c) ELSE Blank ] ]
      /\ printed'.added = [ c \in AddedColumns |-> {V(i, c) : i \in AddedFrom(c)} ]
  BY <1>1 DEF PrintRow, group, first
<1> HIDE DEF V
<1>6. \A c : Different(now, group, first, c) <=>
        \E i \in group \ {first} :
          HasColumn(i, c) /\ ~Same(V(first, c), V(i, c)) /\ ~Close(V(first, c), V(i, c))
  BY DEF Different, V
<1>7. /\ \A i, c : HasColumn(i, c)' = HasColumn(i, c)
      /\ KeyColumns' = KeyColumns /\ OutputColumns' = OutputColumns
      /\ \A c : AddedFrom(c)' = AddedFrom(c)
  BY <1>0, GivenFacts
<1>8. Reported' = {c \in OutputColumns \ KeyColumns : Different(now, group, first, c)}
  BY <1>5 DEF Reported
<1>9. ASSUME NEW i \in group
      PROVE  KeyOrder(KeyOf(i))' = KeyOrder(printed'.key)
  <2>1. KeyOf(i)' = KeyIn(i, now[i].row)
    BY <1>0, <1>3, <1>4, <1>9, GivenFacts DEF KeyOf, KeyIn, V, KeysFound, given
  <2>. QED  BY <1>3, <1>5, <2>1 DEF KeyRank
<1>10. ASSUME NEW c \in Reported', NEW i \in group, HasColumn(i, c)
       PROVE  printed'.differs[c][i] = Value(i, c)'
  BY <1>3, <1>4, <1>5, <1>8, <1>10
<1>11. ASSUME NEW c \in AddedColumns, NEW i \in AddedFrom(c) \cap group
       PROVE  printed'.added[c] = {Value(i, c)'}
  <2>1. ASSUME NEW m \in AddedFrom(c)
        PROVE  m = i
    <3>1. /\ m \in Input /\ HasColumn(m, c) /\ \A n \in 1 .. m - 1 : ~HasColumn(n, c)
          /\ i \in Input /\ HasColumn(i, c) /\ \A n \in 1 .. i - 1 : ~HasColumn(n, c)
      BY <1>11, <2>1 DEF AddedFrom
    <3>2. m \in Nat /\ i \in Nat /\ m >= 1 /\ i >= 1
      BY <3>1, CompareAssumption DEF Input
    <3>. QED  BY <3>1, <3>2
  <2>2. HasColumn(i, c) /\ i \in group
    BY <1>11 DEF AddedFrom
  <2>. QED  BY <1>4, <1>5, <2>1, <2>2
<1>12. ASSUME NEW c, NEW i \in group, NEW m \in group,
              HasColumn(i, c), HasColumn(m, c), ~Same(V(i, c), V(m, c)),
              ~Different(now, group, first, c)
       PROVE  Close(V(first, c), V(i, c)) \/ Close(V(first, c), V(m, c))
  <2>1. V(i, c) \in Text /\ V(m, c) \in Text /\ V(first, c) \in Text
    BY <1>3, <1>4
  <2>2. \/ i = first \/ Same(V(first, c), V(i, c)) \/ Close(V(first, c), V(i, c))
    BY <1>6, <1>12
  <2>3. \/ m = first \/ Same(V(first, c), V(m, c)) \/ Close(V(first, c), V(m, c))
    BY <1>6, <1>12
  <2>4. Same(V(first, c), V(first, c))
    BY <2>1, CompareAssumption
  <2>5. ~(Same(V(first, c), V(i, c)) /\ Same(V(first, c), V(m, c)))
    BY <1>12, <2>1, CompareAssumption
  <2>. QED  BY <2>2, <2>3, <2>4, <2>5
<1>13. ASSUME NEW c, Different(now, group, first, c)
       PROVE  \E i \in group : HasColumn(i, c) /\ ~Same(V(first, c), V(i, c))
                               /\ ~Close(V(first, c), V(i, c))
  BY <1>6, <1>13
<1> DEFINE common == {c \in OutputColumns \ KeyColumns : \A i \in group : HasColumn(i, c)}
<1>14. ASSUME NEW c \in common \cap Reported'
       PROVE  \E i, m \in group : ~Same(Value(i, c)', Value(m, c)') /\ ~Close(Value(i, c)', Value(m, c)')
  BY <1>3, <1>4, <1>8, <1>13
<1>15. ASSUME NEW c \in common \ Reported', NEW i \in group, NEW m \in group,
              ~Same(Value(i, c)', Value(m, c)'), ~Close(Value(i, c)', Value(m, c)')
       PROVE  \E n \in group : Close(Value(n, c)', Value(i, c)') \/ Close(Value(n, c)', Value(m, c)')
  BY <1>3, <1>4, <1>8, <1>12, <1>15
<1>. QED
  BY <1>3, <1>5, <1>7, <1>9, <1>10, <1>11, <1>14, <1>15 DEF ReportsRows

(* A report is about the rows in hand (zsv_compare_print_row, out2in): see
   ReportsRows. *)
THEOREM CompareReports == Spec => []ReportsRows
<1>1. ASSUME Init
      PROVE  ReportInv
  BY <1>1 DEF Init, ReportInv, ReportsRows
<1>2. ASSUME TypeOK, ReportInv, [Next]_vars
      PROVE  ReportInv'
  <2>1. CASE SetUp
    <3>1. UNCHANGED given /\ printed' = printed
      BY <2>1 DEF SetUp
    <3>2. printed.group = {}
      BY <1>2, <2>1 DEF SetUp, ReportInv
    <3>3. pc' \in {"comparing", "failed"} /\ (pc' = "comparing" => KeysFound)
      BY <2>1 DEF SetUp, KeysFound
    <3>. QED  BY <3>1, <3>2, <3>3, GivenFacts DEF ReportInv, ReportsRows
  <2>2. CASE CompareRows
    <3>1. UNCHANGED given /\ pc = "comparing" /\ pc' = "comparing"
      BY <2>2 DEF CompareRows
    <3>2. ReportsRows' /\ printed'.group \subseteq Input
      BY <1>2, <2>2, ReportStep
    <3>. QED  BY <1>2, <3>1, <3>2, GivenFacts DEF ReportInv
  <2>3. CASE NoMoreInput
    <3>1. UNCHANGED given /\ pc = "comparing" /\ pc' = "finished" /\ printed' = printed
      BY <2>3 DEF NoMoreInput
    <3>2. ASSUME NEW i \in Input
          PROVE  inputs'[i].pos = inputs[i].pos
      <4>1. ~Advanced[i].row_loaded /\ inputs' = Advanced
        BY <2>3 DEF NoMoreInput
      <4>2. Advanced[i].pos = Len(rows[i]) /\ Taken(i) = Len(rows[i])
        BY <1>2, <4>1, AdvanceFacts
      <4>3. inputs[i].pos \in Nat /\ inputs[i].pos <= Len(rows[i]) /\ Len(rows[i]) \in Nat
        BY <1>2, CompareAssumption DEF TypeOK
      <4>. QED  BY <4>1, <4>2, <4>3 DEF Taken
    <3>. QED  BY <1>2, <3>1, <3>2, ReportKept, GivenFacts DEF ReportInv
  <2>4. CASE UNCHANGED vars
    <3>1. UNCHANGED <<given, inputs, printed, pc>>
      BY <2>4 DEF vars, given
    <3>. QED  BY <1>2, <3>1, ReportKept, GivenFacts DEF ReportInv
  <2>. QED  BY <1>2, <2>1, <2>2, <2>3, <2>4 DEF Next
<1>3. ReportInv => ReportsRows
  BY DEF ReportInv
<1>. QED  BY <1>1, <1>2, <1>3, CompareTypeCorrect, PTL DEF Spec

=============================================================================
