--------------------------- MODULE ProvedCommands ---------------------------
(***************************************************************************)
(* The commands whose promises are proved, each in a module of its own.    *)
(* They are apart from the others of Commands so that their proofs see     *)
(* nothing else.                                                           *)
(***************************************************************************)
EXTENDS Integers, Sequences

CONSTANTS
  MaxCols, SelectOptions, SelectInputs,
  PasteInputs,
  Utf8Inputs,
  SerializeOptions, SerializeInputs,
  OverwritesInputs,
  BatchSize, ToDbInputs

VARIABLES command, opts, input, at, data, written, pc

vars == <<command, opts, input, at, data, written, pc>>

Select    == INSTANCE SelectPull     \* with all of Select
Paste     == INSTANCE Paste
Utf8      == INSTANCE Utf8Repair
Serialize == INSTANCE Serialize
Overwrite == INSTANCE Overwrites
ToDb      == INSTANCE ToDb

(* What 2db is run with: a JSON document for each of two runs. *)
Documents == [ columns : Seq(STRING), indexes : Seq([on : STRING, unique : BOOLEAN]),
               rows : Seq(Seq(STRING)), torn : BOOLEAN ]

(* What a parser with overwrites is given: a table, and the lines of the file. *)
OverwriteLines == [row : Nat \cup {Overwrite!None}, col : Nat \cup {Overwrite!None}, val : STRING]

(* What select is called with: how many rows it skips, and one more than it may number
   (-H), or 0.  The parser gives it no row without a cell. *)
ASSUME SelectAssumption ==
  /\ \A o \in SelectOptions :
       /\ o.skip \in Nat /\ o.head \in Nat /\ o.every \in Nat /\ o.pct \in BOOLEAN
  /\ SelectInputs \subseteq Seq(Seq(Seq(STRING)) \ {<<>>})

(* Files are pasted if there is one. *)
ASSUME PasteAssumption == PasteInputs \subseteq Seq(Seq(Seq(STRING))) \ {<<>>}

(* The bytes of cells. *)
ASSUME Utf8Assumption == Utf8Inputs \subseteq Seq(STRING)

(* Further columns that serialize is to write, by name. *)
ASSUME SerializeAssumption ==
  /\ \A o \in SerializeOptions : o.add \in Seq(Seq(STRING))
  /\ SerializeInputs \subseteq Seq(Seq(Seq(STRING)))

ASSUME OverwritesAssumption ==
  OverwritesInputs \subseteq [table : Seq(Seq(STRING)), file : Seq(OverwriteLines)]

ASSUME ToDbAssumption == BatchSize \in Nat \ {0} /\ ToDbInputs \subseteq [ToDb!Run -> Documents]

=============================================================================
