---------------------------- MODULE PropertyFiles ----------------------------
(***************************************************************************)
(* The properties saved with a data file (src/app/prop.c, mv.c, rm.c,       *)
(* utils/cache.c, utils/prop.c, utils/dirs*.c): <dir>/.zsv/data/<name>/     *)
(* holds props.json, with the header's row span (d) and the rows to skip    *)
(* (R) that every other command loads before it parses the file.            *)
(*                                                                         *)
(* One command at a time changes the files, one system call a step; it may  *)
(* be killed between two of them.  Meanwhile another command loads          *)
(* properties.  Between commands the user makes and deletes files.  A file  *)
(* that is open stays readable when its name goes: names refer to inodes.   *)
(***************************************************************************)
EXTENDS Integers, FiniteSets, PropertyGuess

CONSTANTS Name,           \* paths of data files
          Dir, DirOf,     \* directories, and the one each name is in
          Data,           \* data files that may exist
          RowsOf,         \* their first rows, as prop.c counts them
          Inode,          \* inodes of the files below .zsv
          Commands,       \* the commands given, records of CommandType
          MaxCommands, MaxCrashes,
          NoData, NoInode,
          Reverted        \* what owns properties after `mv --cache` has moved back a file

ASSUME DirAssumption == DirOf \in [Name -> Dir]
ASSUME NoneAssumption == NoData \notin Data /\ Reverted \notin Data /\ NoInode \notin Inode
ASSUME InodeAssumption == Inode \subseteq Nat
ASSUME RowsAssumption == RowsOf \in [Data -> Seq(RowCount)]
ASSUME BoundAssumption == MaxCommands \in Nat /\ MaxCrashes \in Nat

ArgNone == -1                \* ZSV_PROP_ARG_NONE, _AUTO and _REMOVE
ArgAuto == -2
ArgRemove == -3

(* Values of an option and of a property; the names of the files in a cache *)
(* directory: the properties, the temporary file of a save, that of a copy  *)
Option == Nat \cup {ArgNone, ArgAuto, ArgRemove}
Value == Nat \cup {ArgNone}
Entry == {"props", "props.~zsv", "props.temp"}

(* What is in a file: the values it holds, or what the operation named has  *)
(* written of it so far, which no JSON parser takes                         *)
Content == [by : {"whole", "set", "copy", "import"}, d : Value, R : Value]
Whole(d, R) == [by |-> "whole", d |-> d, R |-> R]
Torn(op) == [by |-> op, d |-> ArgNone, R |-> ArgNone]

CommandType ==
    [op : {"set", "clear", "clean", "copy", "export", "import", "mv", "rm"},
     name : Name, to : Name, d : Option, R : Option,
     save : BOOLEAN, force : BOOLEAN, cacheOnly : BOOLEAN, keep : BOOLEAN]

ASSUME CommandAssumption == Commands \subseteq CommandType

VARIABLES
    file,       \* the data under each name
    root,       \* directories with a .zsv/data
    dir,        \* names with a cache directory
    entry,      \* the files in it
    disk,       \* contents of the inodes
    archive,    \* the file --export writes and --import reads
    job,        \* the command under way
    reader,     \* another command that loads properties
    owner,      \* the data for which a name's properties were given, or Reverted
    trusted,    \* nothing was killed, or deleted behind the program's back
    commands, crashes

fs == <<file, root, dir, entry, disk, archive>>
ghosts == <<owner, trusted>>
counts == <<commands, crashes>>
vars == <<fs, job, reader, ghosts, counts>>

Archive == [by : {"none", "torn", "whole"}, props : BOOLEAN, content : Content]
Archived(by, props, content) == [by |-> by, props |-> props, content |-> content]

Idle(err) == [pc |-> "idle", err |-> err]
Job == [pc : {"idle"}, err : BOOLEAN]
         \cup [pc : {"mkdir", "open", "write", "replace", "export", "file",
                     "cache", "revert", "unlink", "scan", "empty"},
               cmd : Commands, content : Content, at : Name, todo : SUBSET Name]

Init ==
    /\ file \in {f \in [Name -> Data \cup {NoData}] :
                   \A n, m \in Name : f[n] = f[m] /\ n # m => f[n] = NoData}
    /\ root = [v \in Dir |-> FALSE]
    /\ dir = [n \in Name |-> FALSE]
    /\ entry = [n \in Name |-> [e \in Entry |-> NoInode]]
    /\ disk = [i \in Inode |-> Whole(ArgNone, ArgNone)]
    /\ archive = Archived("none", FALSE, Whole(ArgNone, ArgNone))
    /\ job = Idle(FALSE)
    /\ reader = [pc |-> "idle", inode |-> NoInode, err |-> FALSE]
    /\ owner = [n \in Name |-> NoData]
    /\ trusted = TRUE
    /\ commands = 0 /\ crashes = 0

-----------------------------------------------------------------------------
(* The file system: external, as the commands use it.                       *)

Exists(n) == file[n] # NoData
Has(n, e) == entry[n][e] # NoInode
Props(n) == disk[entry[n]["props"]]

Used == {entry[n][e] : n \in Name, e \in Entry} \cup {reader.inode}

(* fopen(.., "wb") finds the inode of the name, or makes a new one (of      *)
(* those that are free, the least: they are alike)                          *)
Opened(n, e, i) ==
    IF Has(n, e) THEN i = entry[n][e]
    ELSE i \notin Used /\ \A j \in Inode \ Used : i <= j

(* rename(): the name e of n is taken over by what `from` named             *)
Renamed(n, from, e) ==
    [entry EXCEPT ![n] = [@ EXCEPT ![e] = entry[n][from], ![from] = NoInode]]

MoveData(from, to) ==
    file' = [file EXCEPT ![to] = file[from], ![from] = NoData]

-----------------------------------------------------------------------------
(* How a command begins, goes on and ends.                                  *)

Begin(op, c) ==
    /\ job.pc = "idle" /\ commands < MaxCommands
    /\ c.op = op
    /\ commands' = commands + 1
    /\ UNCHANGED crashes

Running(pc) == job.pc = pc /\ UNCHANGED counts

Goto(c, pc, content, at) ==
    job' = [pc |-> pc, cmd |-> c, content |-> content, at |-> at, todo |-> {}]

GoOn(pc) == job' = [job EXCEPT !.pc = pc]

End(err) == job' = Idle(err)

NoContent == Whole(ArgNone, ArgNone)

-----------------------------------------------------------------------------
(* prop with -d, -R, --auto: execute_default, merge_and_save_properties.    *)

Guessing(c) == ArgAuto \in {c.d, c.R}
Specified(c) == c.d >= 0 \/ c.R >= 0
Removing(c) == ArgRemove \in {c.d, c.R}

Saves(c) == c.save \/ Specified(c) \/ Removing(c)
Overwriting(c) == c.force \/ Specified(c) \/ Removing(c)

(* Faulty: only what the command names is saved. *)
Kept_Named(option, saved) == IF option = ArgRemove THEN ArgNone ELSE option

(* merge_properties: what an option says, else what the file said; a value  *)
(* removed is not kept                                                      *)
Kept(option, saved) ==
    CASE option = ArgNone -> saved
      [] option = ArgRemove -> ArgNone
      [] OTHER -> option

Merged(c, found, guess) ==
    Whole(Kept(IF c.d = ArgAuto THEN guess.d ELSE c.d, found.d),
          Kept(IF c.R = ArgAuto THEN guess.R ELSE c.R, found.R))

Printed(content) == content.d # ArgNone \/ content.R # ArgNone

(* What zsv_cache_load_props finds saved for n                              *)
Loaded(n) == IF Has(n, "props") THEN Props(n) ELSE NoContent

(* -d and -R test for a value of -1 as for any other: saving without        *)
(* --overwrite fails if anything is saved already, unless the guess is 0    *)
SetRefused(c, guess) ==
    LET found == Loaded(c.name)
        d == IF c.d = ArgAuto THEN guess.d ELSE c.d
        R == IF c.R = ArgAuto THEN guess.R ELSE c.R
    IN  \/ Guessing(c) /\ (Specified(c) \/ Removing(c))
        \/ Guessing(c) /\ ~Exists(c.name)
        \/ found.by # "whole"
        \/ Saves(c) /\ ~Overwriting(c)
             /\ ((found.d # ArgNone /\ d # 0) \/ (found.R # ArgNone /\ R # 0))

Set(c) ==
    LET guess == IF Exists(c.name) THEN Guess(RowsOf[file[c.name]])
                 ELSE [d |-> 1, R |-> 0]
    IN  /\ Begin("set", c)
        /\ IF SetRefused(c, guess) \/ ~Saves(c) THEN End(SetRefused(c, guess))
           ELSE Goto(c, "mkdir", Merged(c, Loaded(c.name), guess), c.name)
        /\ UNCHANGED <<fs, reader, ghosts>>

(* The directory is made, a file opened for writing (truncated if it is     *)
(* there), the contents written                                             *)
MakeDir ==
    /\ Running("mkdir")
    /\ root' = [root EXCEPT ![DirOf[job.at]] = TRUE]
    /\ dir' = [dir EXCEPT ![job.at] = TRUE]
    /\ GoOn("open")
    /\ UNCHANGED <<file, entry, disk, archive, reader, ghosts>>

(* Faulty: a save writes to props.json itself. *)
Target_InPlace(op) == IF op = "copy" THEN "props.temp" ELSE "props"

(* A save writes to props.json.~zsv, a copy to props.json.temp, an import   *)
(* to props.json itself                                                     *)
Target(op) == CASE op = "set" -> "props.~zsv"
                [] op = "copy" -> "props.temp"
                [] OTHER -> "props"

(* An import gives the name its new properties at once, the others when     *)
(* they put the file they wrote in place                                    *)
Given(n, op) == owner' = IF Target(op) = "props" THEN [owner EXCEPT ![n] = file[n]]
                         ELSE owner

Open ==
    /\ Running("open")
    /\ \E i \in Inode :
         /\ Opened(job.at, Target(job.cmd.op), i)
         /\ entry' = [entry EXCEPT ![job.at] = [@ EXCEPT ![Target(job.cmd.op)] = i]]
         /\ disk' = [disk EXCEPT ![i] = Torn(job.cmd.op)]
    /\ Given(job.at, job.cmd.op)
    /\ GoOn("write")
    /\ UNCHANGED <<file, root, dir, archive, reader, trusted>>

Written == disk' = [disk EXCEPT ![entry[job.at][Target(job.cmd.op)]] = job.content]

(* Nothing is written when no value is kept                                 *)
Write ==
    /\ Running("write") /\ job.cmd.op # "import"
    /\ IF job.cmd.op = "set" /\ ~Printed(job.content) THEN UNCHANGED disk ELSE Written
    /\ GoOn("replace")
    /\ UNCHANGED <<file, root, dir, entry, archive, reader, ghosts>>

ImportWrite ==
    /\ Running("write") /\ job.cmd.op = "import"
    /\ Written
    /\ End(FALSE)
    /\ UNCHANGED <<file, root, dir, entry, archive, reader, ghosts>>

(* The file written takes the place of props.json; when no value is kept,   *)
(* props.json is removed and the empty temporary file stays                 *)
Replace ==
    LET n == job.at IN
    /\ Running("replace")
    /\ IF job.cmd.op = "copy" \/ Printed(job.content)
       THEN /\ entry' = Renamed(n, Target(job.cmd.op), "props")
            /\ owner' = [owner EXCEPT ![n] = file[n]]
       ELSE /\ entry' = IF Removing(job.cmd)
                        THEN [entry EXCEPT ![n] = [@ EXCEPT !["props"] = NoInode]]
                        ELSE entry
            /\ UNCHANGED owner
    /\ End(FALSE)
    /\ UNCHANGED <<file, root, dir, disk, archive, reader, trusted>>

-----------------------------------------------------------------------------
(* prop --copy, --export and --import.                                      *)

(* Without --overwrite both files must be there; if the other one has       *)
(* properties nothing is copied, and the command still returns 0            *)
Copy(c) ==
    LET missing == ~c.force /\ ~(Exists(c.name) /\ Exists(c.to))
        conflict == ~c.force /\ Has(c.to, "props")
    IN  /\ Begin("copy", c)
        /\ IF missing \/ conflict \/ ~Has(c.name, "props") THEN End(missing)
           ELSE Goto(c, "mkdir", Props(c.name), c.to)
        /\ UNCHANGED <<fs, reader, ghosts>>

(* The archive is opened, then written; what is no JSON leaves it empty     *)
Export(c) ==
    /\ Begin("export", c)
    /\ archive' = Archived("torn", FALSE, NoContent)
    /\ Goto(c, "export", Loaded(c.name), c.name)
    /\ UNCHANGED <<file, root, dir, entry, disk, reader, ghosts>>

ExportWrite ==
    LET fits == job.content.by = "whole" IN
    /\ Running("export")
    /\ archive' = Archived("whole", fits /\ Has(job.at, "props"),
                           IF fits THEN job.content ELSE NoContent)
    /\ End(~fits)
    /\ UNCHANGED <<file, root, dir, entry, disk, reader, ghosts>>

(* What --import needs before it reads: the data file and the archive       *)
ImportOpens(c) == (c.force \/ Exists(c.name)) /\ archive.by # "none"

(* A torn archive is reported and passes for an empty one.  Without         *)
(* --overwrite and with a cache directory, props.json is looked for: if it  *)
(* is there that is an error, and if not the errno of the look is one       *)
Import(c) ==
    LET refused == \/ ~ImportOpens(c)
                   \/ ~c.force /\ archive.props /\ dir[c.name]
    IN  /\ Begin("import", c)
        /\ IF refused \/ ~archive.props THEN End(refused)
           ELSE Goto(c, "mkdir", archive.content, c.name)
        /\ UNCHANGED <<fs, reader, ghosts>>

-----------------------------------------------------------------------------
(* mv.                                                                      *)

(* Faulty: the destination may be there. *)
Mv_Over(c) ==
    LET refused == \/ ~c.cacheOnly /\ ~Exists(c.name)
                   \/ dir[c.name] /\ dir[c.to]
    IN  /\ Begin("mv", c)
        /\ IF refused THEN End(TRUE)
           ELSE IF ~c.cacheOnly THEN Goto(c, "file", NoContent, c.name)
           ELSE IF dir[c.name] THEN Goto(c, "cache", NoContent, c.name)
           ELSE End(FALSE)
        /\ UNCHANGED <<fs, reader, ghosts>>

Mv(c) ==
    LET refused == \/ ~c.cacheOnly /\ (~Exists(c.name) \/ Exists(c.to))
                   \/ dir[c.name] /\ dir[c.to]
    IN  /\ Begin("mv", c)
        /\ IF refused THEN End(TRUE)
           ELSE IF ~c.cacheOnly THEN Goto(c, "file", NoContent, c.name)
           ELSE IF dir[c.name] THEN Goto(c, "cache", NoContent, c.name)
           ELSE End(FALSE)
        /\ UNCHANGED <<fs, reader, ghosts>>

MoveFile ==
    /\ Running("file")
    /\ MoveData(job.cmd.name, job.cmd.to)
    /\ IF dir[job.cmd.name] THEN GoOn("cache") ELSE End(FALSE)
    /\ UNCHANGED <<root, dir, entry, disk, archive, reader, ghosts>>

(* The directory moves only to where a .zsv/data is, which nothing made     *)
MoveCache ==
    LET from == job.cmd.name
        to == job.cmd.to
    IN  /\ Running("cache")
        /\ IF root[DirOf[to]]
           THEN /\ dir' = [dir EXCEPT ![from] = FALSE, ![to] = TRUE]
                /\ entry' = [entry EXCEPT ![to] = entry[from], ![from] = entry[to]]
                /\ owner' = [owner EXCEPT ![to] = IF job.cmd.cacheOnly THEN file[to]
                                                  ELSE owner[from]]
                /\ End(FALSE)
           ELSE GoOn("revert") /\ UNCHANGED <<dir, entry, owner>>
        /\ UNCHANGED <<file, root, disk, archive, reader, trusted>>

(* Faulty: the file is not moved back. *)
Revert_Not ==
    /\ Running("revert")
    /\ End(TRUE)
    /\ UNCHANGED <<fs, reader, ghosts>>

(* The file is moved back, with --cache too, when it was not moved: then    *)
(* whatever is at the destination takes the place of the source             *)
Revert ==
    /\ Running("revert")
    /\ IF Exists(job.cmd.to) THEN MoveData(job.cmd.to, job.cmd.name)
       ELSE UNCHANGED file
    /\ owner' = IF job.cmd.cacheOnly /\ Exists(job.cmd.to)
                THEN [owner EXCEPT ![job.cmd.name] = Reverted] ELSE owner
    /\ End(TRUE)
    /\ UNCHANGED <<root, dir, entry, disk, archive, reader, trusted>>

-----------------------------------------------------------------------------
(* rm, prop --clear and prop --clean.                                       *)

(* With --keep the cache is removed just the same; a file that is not there *)
(* is an error, with --force too                                            *)
Rm(c) ==
    /\ Begin("rm", c)
    /\ IF c.cacheOnly /\ c.keep THEN End(TRUE)
       ELSE IF ~c.cacheOnly THEN Goto(c, "unlink", NoContent, c.name)
       ELSE IF dir[c.name] THEN Goto(c, "empty", NoContent, c.name)
       ELSE End(FALSE)
    /\ UNCHANGED <<fs, reader, ghosts>>

Unlink ==
    /\ Running("unlink")
    /\ file' = [file EXCEPT ![job.at] = NoData]
    /\ IF Exists(job.at) /\ dir[job.at] THEN GoOn("empty") ELSE End(~Exists(job.at))
    /\ UNCHANGED <<root, dir, entry, disk, archive, reader, ghosts>>

Clear(c) ==
    /\ Begin("clear", c)
    /\ IF dir[c.name] THEN Goto(c, "empty", NoContent, c.name) ELSE End(FALSE)
    /\ UNCHANGED <<fs, reader, ghosts>>

(* --clean goes through the cache directories of one directory              *)
Clean(c) ==
    /\ Begin("clean", c)
    /\ job' = [pc |-> "scan", cmd |-> c, content |-> NoContent, at |-> c.name,
               todo |-> {n \in Name : DirOf[n] = DirOf[c.name] /\ dir[n]}]
    /\ UNCHANGED <<fs, reader, ghosts>>

(* Faulty: the cache of any name is an orphan. *)
Orphan_Any(n) == dir[n]

Orphan(n) == ~Exists(n)

Scan ==
    /\ Running("scan")
    /\ IF job.todo = {} THEN End(FALSE)
       ELSE \E n \in job.todo :
              job' = [job EXCEPT !.todo = @ \ {n}, !.at = n,
                                 !.pc = IF Orphan(n) THEN "empty" ELSE "scan"]
    /\ UNCHANGED <<fs, reader, ghosts>>

(* zsv_remove_dir_recursive: each file, then the directory                  *)
Empty ==
    LET n == job.at
        left == {e \in Entry : Has(n, e)}
    IN  /\ Running("empty")
        /\ \/ \E e \in left :
                /\ entry' = [entry EXCEPT ![n] = [@ EXCEPT ![e] = NoInode]]
                /\ UNCHANGED <<dir, job>>
           \/ /\ left = {}
              /\ dir' = [dir EXCEPT ![n] = FALSE]
              /\ IF job.cmd.op = "clean" THEN GoOn("scan") ELSE End(FALSE)
              /\ UNCHANGED entry
        /\ UNCHANGED <<file, root, disk, archive, reader, ghosts>>

-----------------------------------------------------------------------------
(* A command that loads the properties of its input                         *)
(* (zsv_new_with_properties) while another one runs.                        *)

LoadOpen(n) ==
    /\ reader.pc = "idle" /\ Has(n, "props")
    /\ reader' = [pc |-> "read", inode |-> entry[n]["props"], err |-> FALSE]
    /\ UNCHANGED <<fs, job, ghosts, counts>>

LoadRead ==
    /\ reader.pc = "read"
    /\ reader' = [pc |-> "idle", inode |-> NoInode,
                  err |-> disk[reader.inode].by # "whole"]
    /\ UNCHANGED <<fs, job, ghosts, counts>>

-----------------------------------------------------------------------------
(* The environment: external.                                               *)

Crash ==
    /\ job.pc # "idle" /\ crashes < MaxCrashes
    /\ crashes' = crashes + 1
    /\ End(TRUE)
    /\ trusted' = FALSE
    /\ UNCHANGED <<fs, reader, owner, commands>>

UserCreates(n, x) ==
    /\ job.pc = "idle" /\ ~Exists(n) /\ \A m \in Name : file[m] # x
    /\ file' = [file EXCEPT ![n] = x]
    /\ UNCHANGED <<root, dir, entry, disk, archive, job, reader, ghosts, counts>>

UserDeletes(n) ==
    /\ job.pc = "idle" /\ Exists(n)
    /\ file' = [file EXCEPT ![n] = NoData]
    /\ trusted' = FALSE
    /\ UNCHANGED <<root, dir, entry, disk, archive, job, reader, owner, counts>>

-----------------------------------------------------------------------------
Starts ==
    \E c \in Commands :
        \/ Set(c) \/ Copy(c) \/ Export(c) \/ Import(c)
        \/ Mv(c) \/ Rm(c) \/ Clear(c) \/ Clean(c)

Steps ==
    \/ MakeDir \/ Open \/ Write \/ Replace \/ ImportWrite \/ ExportWrite
    \/ MoveFile \/ MoveCache \/ Revert
    \/ Unlink \/ Scan \/ Empty

Environment ==
    \/ \E n \in Name : LoadOpen(n) \/ UserDeletes(n)
    \/ \E n \in Name, x \in Data : UserCreates(n, x)
    \/ LoadRead \/ Crash

Next == Starts \/ Steps \/ Environment

Spec == Init /\ [][Next]_vars
=============================================================================
