--------------------------- MODULE Commands_proofs ---------------------------
(***************************************************************************)
(* Proofs about the commands, for every value of their constants: each     *)
(* takes the invariant of its command from ProvedCommands_proofs, and      *)
(* shows that a run of zsv with that command keeps it.                     *)
(***************************************************************************)
EXTENDS Commands, ProvedCommands_proofs

(* Whatever is killed and whenever, under the name of the output of 2db there is the
   old file or a database with all rows and indexes of its input. *)
THEOREM DatabaseIsWhole == Spec => []DbOldOrWhole
PROOF
<1> DEFINE I == command = "2db" => DbInv
<1>1. Init => I
  BY DbInitIsGood DEF Init
<1>2. I /\ [Next]_vars => I'
  <2>1. CASE Next
    BY <2>1, DbNextIsGood DEF Next
  <2>2. CASE UNCHANGED vars
    <3>1. command' = command /\ UNCHANGED <<opts, input, at, data, written, pc>>
      BY <2>2 DEF vars
    <3> QED BY <3>1, DbNextIsGood
  <2> QED BY <2>1, <2>2
<1>3. I => DbOldOrWhole
  BY DbGoodIsWhole DEF DbOldOrWhole
<1> QED BY <1>1, <1>2, <1>3, PTL DEF Spec

(* Whatever cells are asked for, and in whatever order, each has its own value or that of
   its line in the file of overwrites, and asked for in order each has that of its line. *)
THEOREM OverwritesAreUsed == Spec => []OverwrittenWhereListed
PROOF
<1> DEFINE I == command = "echo --overwrite" => OwInv
<1>1. Init => I
  BY OwInitIsRight DEF Init
<1>2. I /\ [Next]_vars => I'
  <2>1. CASE Next
    BY <2>1, OwNextIsRight DEF Next
  <2>2. CASE UNCHANGED vars
    <3>1. command' = command /\ UNCHANGED <<opts, input, at, data, written, pc>>
      BY <2>2 DEF vars
    <3> QED BY <3>1, OwNextIsRight
  <2> QED BY <2>1, <2>2
<1>3. I => OverwrittenWhereListed
  BY OwInvIsPromise DEF OverwrittenWhereListed
<1> QED BY <1>1, <1>2, <1>3, PTL DEF Spec

(* zsv select and select-pull write the rows that are eligible, each once and in order, up
   to the limit of -H; of a sample by chance, no others than these. *)
THEOREM RowsAreSelected == Spec => []SelectWritesRows
PROOF
<1> DEFINE I == /\ command = "select" => SelInv
                /\ command = "select-pull" /\ opts.every < 256 =>
                     SelInv /\ (at = 0 <=> data.handler = "header")
<1>1. Init => I
  <2>1. ASSUME Select!Init  PROVE  SelInv /\ (at = 0 <=> data.handler = "header")
    BY <2>1, SelInitIsRight DEF Select!Init
  <2>2. Init /\ command = "select" => Select!Init
    BY DEF Init
  <2>3. Init /\ command = "select-pull" => Select!PullInit
    BY DEF Init
  <2>4. Select!PullInit => Select!Init
    BY DEF Select!PullInit
  <2> QED BY <2>1, <2>2, <2>3, <2>4
<1>2. I /\ [Next]_vars => I'
  <2>1. SUFFICES ASSUME I, [Next]_vars  PROVE  I'
    OBVIOUS
  <2>2. command' = command
    BY <2>1 DEF Next, vars
  <2>3. CASE command = "select"
    <3>1. Select!Next \/ UNCHANGED <<opts, input, at, data, written, pc>>
      BY <2>1, <2>3 DEF Next, vars
    <3> QED BY <2>1, <2>2, <2>3, <3>1, SelNextIsRight
  <2>4. CASE command = "select-pull"
    <3>1. Select!PullNext \/ UNCHANGED <<opts, input, at, data, written, pc>>
      BY <2>1, <2>4 DEF Next, vars
    <3>2. opts' = opts
      BY <3>1 DEF Select!PullNext, Select!PullHeader, Select!PullRow, Select!PullEnds, Select!Deliver
    <3> QED BY <2>1, <2>2, <2>4, <3>1, <3>2, PullNextIsRight
  <2> QED BY <2>2, <2>3, <2>4
<1>3. I => SelectWritesRows
  BY SelInvIsPromise DEF SelectWritesRows
<1> QED BY <1>1, <1>2, <1>3, PTL DEF Spec

(* zsv paste gives each file columns of its own, which never move, and has a row for every
   row of the longest file, with "empty" cells where a file has no more. *)
THEOREM FilesSideBySide == Spec => []PasteSideBySide
PROOF
<1> DEFINE I == command = "paste" => PasteInv
<1>1. Init => I
  BY PasteInitIsRight DEF Init
<1>2. I /\ [Next]_vars => I'
  <2>1. CASE Next
    BY <2>1, PasteNextIsRight DEF Next
  <2>2. CASE UNCHANGED vars
    <3>1. command' = command /\ UNCHANGED <<opts, input, at, data, written, pc>>
      BY <2>2 DEF vars
    <3> QED BY <3>1, PasteNextIsRight
  <2> QED BY <2>1, <2>2
<1>3. I => PasteSideBySide
  BY PasteInvIsPromise DEF PasteSideBySide
<1> QED BY <1>1, <1>2, <1>3, PTL DEF Spec

(* Whatever bytes are malformed around them, the characters of a cell stay as they are and in
   their order, and each other byte is replaced or dropped, as asked for. *)
THEOREM CharactersAreKept == Spec => []Utf8KeepsCharacters
PROOF
<1> DEFINE I == command = "2tsv --malformed-utf8-encoding" => Utf8Inv
<1>1. Init => I
  BY Utf8InitIsRight DEF Init
<1>2. I /\ [Next]_vars => I'
  <2>1. CASE Next
    BY <2>1, Utf8NextIsRight DEF Next
  <2>2. CASE UNCHANGED vars
    <3>1. command' = command /\ UNCHANGED <<opts, input, at, data, written, pc>>
      BY <2>2 DEF vars
    <3> QED BY <3>1, Utf8NextIsRight
  <2> QED BY <2>1, <2>2
<1>3. I => Utf8KeepsCharacters
  BY Utf8InvIsPromise DEF Utf8KeepsCharacters
<1> QED BY <1>1, <1>2, <1>3, PTL DEF Spec

(* What zsv serialize writes of a table whose rows have ids of their own is enough to put the
   table together again: each cell but the id has exactly one tuple with its id and the name of
   its column, the empty name for the first column when another has the ids. *)
THEOREM TablesAreRebuilt == Spec => []SerializeRebuilds
PROOF
<1> DEFINE I == command = "serialize" => SerInv
<1>1. Init => I
  BY SerInitIsRight DEF Init
<1>2. I /\ [Next]_vars => I'
  <2>1. CASE Next
    BY <2>1, SerNextIsRight DEF Next
  <2>2. CASE UNCHANGED vars
    <3>1. command' = command /\ UNCHANGED <<opts, input, at, data, written, pc>>
      BY <2>2 DEF vars
    <3> QED BY <3>1, SerNextIsRight
  <2> QED BY <2>1, <2>2
<1>3. I => SerializeRebuilds
  BY SerInvIsPromise DEF SerializeRebuilds
<1> QED BY <1>1, <1>2, <1>3, PTL DEF Spec

=============================================================================
