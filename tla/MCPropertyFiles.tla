--------------------------- MODULE MCPropertyFiles ---------------------------
(***************************************************************************)
(* Three names in two directories, two data files, the commands that meet   *)
(* each other.                                                              *)
(***************************************************************************)
EXTENDS PropertyFilesProps, TLC

CONSTANTS a, b, c, x, y

MCName == {a, b, c}
MCDirOf == a :> 1 @@ b :> 1 @@ c :> 2

Row(cols, null, like) == [cols |-> cols, null |-> null, like |-> like]

(* A blank row, two of text, one of data; and data from the second row on   *)
MCRowsOf ==
    x :> <<Row(2, 2, 0), Row(2, 0, 0), Row(2, 0, 0), Row(2, 0, 1)>> @@
    y :> <<Row(3, 0, 0), Row(3, 1, 2)>>

Command(op, name, to) ==
    [op |-> op, name |-> name, to |-> to, d |-> ArgNone, R |-> ArgNone,
     save |-> FALSE, force |-> FALSE, cacheOnly |-> FALSE, keep |-> FALSE]

Sets == {[Command("set", a, a) EXCEPT !.d = 2],
         [Command("set", a, a) EXCEPT !.d = ArgRemove],
         [Command("set", a, a) EXCEPT !.R = ArgAuto, !.save = TRUE],
         [Command("set", a, a) EXCEPT !.d = ArgAuto, !.R = ArgAuto, !.save = TRUE, !.force = TRUE],
         [Command("set", b, b) EXCEPT !.R = 1],
         [Command("set", c, c) EXCEPT !.R = 1]}
Others == {Command("copy", a, b), [Command("copy", b, a) EXCEPT !.force = TRUE],
           Command("export", a, a), Command("import", b, b),
           [Command("import", a, a) EXCEPT !.force = TRUE],
           Command("clean", a, a)}
Moves == {Command("mv", a, b), Command("mv", a, c), Command("mv", c, a),
          [Command("mv", a, c) EXCEPT !.cacheOnly = TRUE]}
Removals == {Command("rm", a, a), [Command("rm", b, b) EXCEPT !.keep = TRUE],
             [Command("rm", a, a) EXCEPT !.cacheOnly = TRUE], Command("clear", b, b)}

MCCommandSet == Sets \cup Others \cup Moves \cup Removals
=============================================================================
