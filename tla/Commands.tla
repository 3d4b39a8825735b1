------------------------------ MODULE Commands ------------------------------
(***************************************************************************)
(* One run of zsv: the command line names a command, main() of             *)
(* src/app/cli.c calls its function, and that reads the rows of the input. *)
(* Each command has a module of its own; they share their variables, and   *)
(* opts, data and written are what the module of the command says.         *)
(***************************************************************************)
EXTENDS ProvedCommands

CONSTANTS
  Commands,            \* bound: the commands that are run
  MaxOutputCols, FlattenOptions, FlattenInputs,
  PrettyOptions, PrettyInputs,
  StackOptions, StackInputs,
  DescMaxCols, MaxEnum, MaxExamples, DescOptions, DescInputs,
  EchoOptions, EchoInputs,
  TsvBuffSize, TsvInputs,
  MaxNesting, JsonBuffSize, LongTexts, JsonOptions, JsonInputs,
  VectorBytes, BuffSize, FixedOptions, FixedInputs

Flatten   == INSTANCE Flatten
Pretty    == INSTANCE Pretty
Stack     == INSTANCE Stack
Desc      == INSTANCE Desc
Echo      == INSTANCE Echo
ToTsv     == INSTANCE ToTsv
ToJson    == INSTANCE ToJson
Fixed     == INSTANCE FixedScan

Init ==
  /\ command \in Commands
  /\ \/ command = "select" /\ Select!Init
     \/ command = "select-pull" /\ Select!PullInit
     \/ command = "select --fixed" /\ Fixed!Init
     \/ command = "flatten" /\ Flatten!Init
     \/ command = "pretty" /\ Pretty!Init
     \/ command = "stack" /\ Stack!Init
     \/ command = "paste" /\ Paste!Init
     \/ command = "desc" /\ Desc!Init
     \/ command = "echo" /\ Echo!Init
     \/ command = "echo --overwrite" /\ Overwrite!Init
     \/ command = "serialize" /\ Serialize!Init
     \/ command = "2tsv" /\ ToTsv!Init
     \/ command = "2json" /\ ToJson!Init
     \/ command = "2tsv --malformed-utf8-encoding" /\ Utf8!Init
     \/ command = "2db" /\ ToDb!Init

Next ==
  /\ UNCHANGED command
  /\ \/ command = "select" /\ Select!Next
     \/ command = "select-pull" /\ Select!PullNext
     \/ command = "select --fixed" /\ Fixed!Next
     \/ command = "flatten" /\ Flatten!Next
     \/ command = "pretty" /\ Pretty!Next
     \/ command = "stack" /\ Stack!Next
     \/ command = "paste" /\ Paste!Next
     \/ command = "desc" /\ Desc!Next
     \/ command = "echo" /\ Echo!Next
     \/ command = "echo --overwrite" /\ Overwrite!Next
     \/ command = "serialize" /\ Serialize!Next
     \/ command = "2tsv" /\ ToTsv!Next
     \/ command = "2json" /\ ToJson!Next
     \/ command = "2tsv --malformed-utf8-encoding" /\ Utf8!Next
     \/ command = "2db" /\ ToDb!Next

Spec == Init /\ [][Next]_vars

-----------------------------------------------------------------------------
(* What each command promises; the modules say it in words. *)

(* zsv select, and select-pull: a row written has the columns chosen of its row,
   cleaned. *)
SelectWritesColumns == command \in {"select", "select-pull"} => Select!WritesColumns
(* zsv select, and select-pull: the rows that are eligible, each once and in order.  Of
   the number of --sample-every, select-pull keeps no more than an unsigned char. *)
SelectWritesRows ==
  command = "select" \/ (command = "select-pull" /\ opts.every < 256) => Select!WritesRows
(* zsv select --fixed: a line is a row, however the input comes, and no word is cut,
   where the input is parsed with offsets: of that, see Outcome in FixedScan. *)
FixedRows == command = "select --fixed" => Fixed!FixedRows
(* zsv flatten: one row for each block of rows with one id. *)
FlattenRowPerBlock == command = "flatten" => Flatten!RowPerBlock
(* zsv pretty: the columns of a table are at one place in all its lines, and each row
   is one line, in order. *)
PrettyAligned == command = "pretty" => Pretty!Aligned /\ Pretty!RowsInOrder
(* zsv stack: a value is under the name that it has in its file. *)
StackUnderItsName == command = "stack" => Stack!UnderItsName
(* zsv paste: a file stays in its columns, and no row of any is lost. *)
PasteSideBySide == command = "paste" => Paste!SideBySide
(* zsv desc: what is printed of a column is true of its cells. *)
DescDescribes == command = "desc" => Desc!Describes
(* zsv echo: a cell is overwritten if and only if there is an overwrite for it. *)
EchoOverwritten == command = "echo" => Echo!Overwritten
(* zsv echo --overwrite <file>: a cell has the value of the line for it, if there is
   one, and never of another line. *)
OverwrittenWhereListed == command = "echo --overwrite" => Overwrite!OverwrittenWhereListed
(* zsv serialize: the table can be put together again from its tuples; if the ids are
   not in the first column, the cells of that one are found under an empty name. *)
SerializeRebuilds == command = "serialize" => Serialize!Rebuilds
(* zsv 2tsv: read back, the output is the rows of the input. *)
TsvReadsBack == command = "2tsv" => ToTsv!ReadsBack
(* zsv 2json: the output is one JSON value, with every cell of the table; nothing for
   an input without rows, and not promised if a text is longer than the buffer. *)
JsonWritesTable == command = "2json" => ToJson!WritesTable
(* Any command with --malformed-utf8-encoding: the characters of a cell stay. *)
Utf8KeepsCharacters == command = "2tsv --malformed-utf8-encoding" => Utf8!KeepsCharacters
(* zsv 2db: the output is the old file or a whole database, whatever is killed. *)
DbOldOrWhole == command = "2db" => ToDb!OldOrWhole

=============================================================================
