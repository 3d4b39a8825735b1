------------------------- MODULE PropertyFilesProps -------------------------
(***************************************************************************)
(* What the commands on a file and its saved properties owe their user.     *)
(***************************************************************************)
EXTENDS PropertyFiles

(* Every variable keeps its type.                                           *)
TypeOK ==
    /\ file \in [Name -> Data \cup {NoData}]
    /\ root \in [Dir -> BOOLEAN] /\ dir \in [Name -> BOOLEAN]
    /\ entry \in [Name -> [Entry -> Inode \cup {NoInode}]]
    /\ disk \in [Inode -> Content]
    /\ archive \in Archive
    /\ job \in Job
    /\ reader \in [pc : {"idle", "read"}, inode : Inode \cup {NoInode}, err : BOOLEAN]
    /\ owner \in [Name -> Data \cup {NoData, Reverted}] /\ trusted \in BOOLEAN
    /\ commands \in 0..MaxCommands /\ crashes \in 0..MaxCrashes

(* Whatever was killed in the middle of whatever, a props.json under its    *)
(* name holds a whole set of properties; and no command that loads it while *)
(* another one replaces, copies, moves or removes it reads half a file.     *)
(* Only --import, which writes in place, tears it.                          *)
WholeProps ==
    /\ \A n \in Name : Has(n, "props") => Props(n).by \in {"whole", "import"}
    /\ reader.pc = "read" => disk[reader.inode].by \in {"whole", "import"}

(* A data file is gone from every name only by rm, or by the user's hand.   *)
(* The one exception is the file that `mv --cache` moves back without       *)
(* having moved one.                                                        *)
Held(x) == \E n \in Name : file[n] = x

FilesKept ==
    [][\A x \in Data : Held(x) /\ ~Held(x)' =>
         \/ job.pc = "unlink"
         \/ job.pc = "idle"
         \/ job.pc = "revert" /\ job.cmd.cacheOnly]_vars

(* `mv --cache` moves the cache and never the file (the usage text of mv).  *)
CacheOnlyLeavesFiles ==
    [][job.pc # "idle" /\ job.cmd.op = "mv" /\ job.cmd.cacheOnly
         => UNCHANGED file]_vars

(* Between commands, as long as none was killed and nothing was deleted     *)
(* behind their back, the properties under a name are those given to the    *)
(* file of that name (or to the name before it had a file): no move,        *)
(* failed move or removal leaves them where another file would be parsed    *)
(* with them.  The one exception is a `mv --cache` that fails and moves     *)
(* back a file that it has not moved (mv.c:103): the file of the            *)
(* destination is then parsed with the properties of the name it was moved  *)
(* to, wherever they are moved, until they are removed or others are given  *)
(* (the run mv_cache shows that step).                                      *)
OwnProperties ==
    trusted /\ job.pc = "idle" =>
        \A n \in Name : Has(n, "props") /\ owner[n] \in Data => file[n] = owner[n]

(* Saving one value keeps the other one: what prop replaces props.json by   *)
(* has, of each property not named by the command, what was saved before    *)
(* (a read, a temporary file and a rename apart).                           *)
Saved(n) ==
    /\ job.pc = "replace" /\ job.cmd.op = "set" /\ job.at = n
    /\ job'.pc = "idle" /\ ~job'.err

MergeKeeps ==
    [][\A n \in Name :
         Saved(n) =>
             LET old == Loaded(n)
                 new == Loaded(n)'
             IN  /\ job.cmd.d = ArgNone => new.d = old.d
                 /\ job.cmd.R = ArgNone => new.R = old.R
                 /\ job.cmd.d = ArgRemove => new.d = ArgNone
                 /\ job.cmd.R = ArgRemove => new.R = ArgNone]_vars

(* Properties go away only from a name a command was told to remove or to   *)
(* move; and --clean takes those of no name that has a file.                *)
PropsKept ==
    [][\A n \in Name : Has(n, "props") /\ ~Has(n, "props")' =>
         /\ job.pc # "idle"
         /\ \/ job.cmd.op \in {"rm", "clear", "mv"} /\ n = job.cmd.name
            \/ job.cmd.op = "set" /\ n = job.cmd.name /\ Removing(job.cmd)
            \/ job.cmd.op = "clean" /\ ~Exists(n)]_vars

(* The guess of --auto: the header does not begin with a blank row, unless  *)
(* there is no other, and has no row of data in it after its first; the     *)
(* row after a header of several rows looks like data, if there is one.     *)
GuessedHeader(rows) ==
    LET g == Guess(rows)
        n == Len(Detected(rows))
    IN  /\ g.d >= 1 /\ g.R <= n
        /\ g.R < n => ~Blank(rows[g.R + 1])
        /\ \A i \in g.R + 2..g.R + g.d : i <= n => ~LooksLikeData(rows, i)
        /\ g.d > 1 /\ g.R + g.d < n => LooksLikeData(rows, g.R + g.d + 1)

GuessesHeader ==
    job.pc = "mkdir" /\ job.cmd.op = "set" /\ Guessing(job.cmd) =>
        GuessedHeader(RowsOf[file[job.at]])
=============================================================================
