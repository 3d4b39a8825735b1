------------------------- MODULE PropertyFiles_proofs -------------------------
(***************************************************************************)
(* Proofs about the guess of `prop --auto` and about saved properties.      *)
(***************************************************************************)
EXTENDS PropertyFilesProps, TLAPS, WellFoundedInduction

(* A set of numbers that is not empty has a least one. *)
LEMMA MinIsLeast ==
  ASSUME NEW S, S \subseteq Nat, S # {}
  PROVE  Min(S) \in S /\ \A k \in S : Min(S) <= k
<1> DEFINE less == {p \in Nat \X Nat : p[1] < p[2]}
<1>1. less = OpToRel(<, Nat)
  BY Zenon DEF OpToRel
<1>2. IsWellFoundedOn(less, Nat)
  BY <1>1, NatLessThanWellFounded
<1> HIDE DEF less
<1>3. PICK m \in S : \A k \in S : ~(<<k, m>> \in less)
  BY <1>2, WFMin
<1>4. \A j, k \in Nat : j < k => <<j, k>> \in less
  BY DEF less
<1>5. ASSUME NEW k \in S  PROVE  m <= k
  <2>1. k \in Nat /\ m \in Nat
    OBVIOUS
  <2>2. ~(k < m)
    BY <1>3, <1>4, <2>1, Zenon
  <2>. QED  BY <2>1, <2>2
<1>. QED  BY <1>5 DEF Min

(* The rows that are looked at are the first of the file. *)
LEMMA DetectedRows ==
  ASSUME NEW rows \in Seq(RowCount)
  PROVE  /\ Detected(rows) \in Seq(RowCount)
         /\ Len(Detected(rows)) <= Len(rows)
         /\ \A i \in 1..Len(Detected(rows)) : Detected(rows)[i] = rows[i]
<1> DEFINE n == Min({Len(rows), DetectRowMax})
<1>1. n \in {Len(rows), 10} /\ n <= Len(rows)
  BY MinIsLeast, SMTT(30) DEF DetectRowMax
<1>2. n \in 0..Len(rows)
  BY <1>1
<1>3. Detected(rows) = SubSeq(rows, 1, n)
  BY DEF Detected
<1> HIDE DEF n
<1>. QED  BY <1>2, <1>3

(* The row after those skipped is not blank. *)
LEMMA SkipFacts ==
  ASSUME NEW rows \in Seq(RowCount)
  PROVE  /\ GuessSkip(rows) \in 0..Len(rows)
         /\ GuessSkip(rows) < Len(rows) => ~Blank(rows[GuessSkip(rows) + 1])
<1> DEFINE first == {i \in 1..Len(rows) :
                       ~Blank(rows[i]) /\ (i < Len(rows) => ~Blank(rows[i + 1]))}
           S == {i - 1 : i \in first} \cup {Len(rows)}
<1>1. S \subseteq Nat /\ S # {}
  OBVIOUS
<1>2. GuessSkip(rows) = Min(S)
  BY DEF GuessSkip
<1>3. Min(S) \in S /\ \A k \in S : Min(S) <= k
  BY <1>1, MinIsLeast
<1>. QED  BY <1>2, <1>3

(* The header ends at the first row of data behind its first row, or with the
   rows that were looked at. *)
LEMMA SpanFacts ==
  ASSUME NEW rows \in Seq(RowCount)
  PROVE  LET skip == GuessSkip(rows)
             span == GuessSpan(rows)
         IN  /\ span \in Nat \ {0}
             /\ \A i \in skip + 2..skip + span : i <= Len(rows) => ~LooksLikeData(rows, i)
             /\ span > 1 /\ skip + span < Len(rows) => LooksLikeData(rows, skip + span + 1)
<1> DEFINE skip == GuessSkip(rows)
           ends == {i \in skip + 2..Len(rows) : LooksLikeData(rows, i)}
           all  == IF skip < Len(rows) THEN Len(rows) - skip ELSE 1
           S    == {i - 1 - skip : i \in ends} \cup {all}
           span == Min(S)
<1>1. skip \in 0..Len(rows)
  BY SkipFacts
<1> HIDE DEF skip
<1>2. all \in Nat \ {0}
  BY <1>1
<1>3. S \subseteq Nat \ {0} /\ S # {}
  BY <1>1, <1>2
<1>4. span \in S /\ \A k \in S : span <= k
  BY <1>3, MinIsLeast
<1>5. GuessSpan(rows) = IF span = Len(rows) THEN 1 ELSE span
  BY DEF GuessSpan, skip
<1>6. \A i \in skip + 2..skip + span : i <= Len(rows) => ~LooksLikeData(rows, i)
  <2> SUFFICES ASSUME NEW i \in skip + 2..skip + span, i <= Len(rows), LooksLikeData(rows, i)
               PROVE  FALSE
    OBVIOUS
  <2>1. span \in Nat
    BY <1>3, <1>4
  <2>2. i \in ends
    BY <1>1, <2>1
  <2>3. span <= i - 1 - skip
    BY <1>4, <2>2
  <2> HIDE DEF span
  <2>. QED  BY <1>1, <2>1, <2>3
<1>7. span > 1 /\ skip + span < Len(rows) => LooksLikeData(rows, skip + span + 1)
  <2> SUFFICES ASSUME span > 1, skip + span < Len(rows)
               PROVE  LooksLikeData(rows, skip + span + 1)
    OBVIOUS
  <2>1. span # all
    BY <1>1
  <2>2. PICK i \in ends : span = i - 1 - skip
    BY <1>4, <2>1
  <2>3. i = skip + span + 1
    BY <1>1, <2>2
  <2>. QED  BY <2>2, <2>3
<1>8. span \in Nat \ {0}
  BY <1>3, <1>4
<1> HIDE DEF span
<1>. QED  BY <1>1, <1>5, <1>6, <1>7, <1>8 DEF skip

(* --auto guesses a header that does not begin with a blank row and has data in
   none of its further rows, whatever the rows of the file are
   (guess_properties, detect_properties). *)
THEOREM GuessIsAHeader == \A rows \in Seq(RowCount) : GuessedHeader(rows)
<1> SUFFICES ASSUME NEW rows \in Seq(RowCount)
             PROVE  GuessedHeader(rows)
  OBVIOUS
<1> DEFINE seen == Detected(rows)
           skip == GuessSkip(seen)
           span == GuessSpan(seen)
<1>1. /\ seen \in Seq(RowCount) /\ Len(seen) <= Len(rows)
      /\ \A i \in 1..Len(seen) : seen[i] = rows[i]
  BY DetectedRows
<1> HIDE DEF seen
<1>2. skip \in 0..Len(seen) /\ (skip < Len(seen) => ~Blank(seen[skip + 1]))
  BY <1>1, SkipFacts
<1>3. /\ span \in Nat \ {0}
      /\ \A i \in skip + 2..skip + span : i <= Len(seen) => ~LooksLikeData(seen, i)
      /\ span > 1 /\ skip + span < Len(seen) => LooksLikeData(seen, skip + span + 1)
  BY <1>1, SpanFacts
<1>4. \A i \in 2..Len(seen) : LooksLikeData(seen, i) = LooksLikeData(rows, i)
  BY <1>1 DEF LooksLikeData
<1>5. Guess(rows) = [d |-> span, R |-> skip]
  BY DEF Guess, seen
<1> HIDE DEF skip, span
<1>6. span >= 1 /\ skip <= Len(seen)
  BY <1>1, <1>2, <1>3
<1>7. skip < Len(seen) => ~Blank(rows[skip + 1])
  BY <1>1, <1>2
<1>8. \A i \in skip + 2..skip + span : i <= Len(seen) => ~LooksLikeData(rows, i)
  <2> SUFFICES ASSUME NEW i \in skip + 2..skip + span, i <= Len(seen)
               PROVE  ~LooksLikeData(rows, i)
    OBVIOUS
  <2>1. i \in 2..Len(seen)
    BY <1>1, <1>2, <1>3
  <2>. QED  BY <1>3, <1>4, <2>1
<1>9. span > 1 /\ skip + span < Len(seen) => LooksLikeData(rows, skip + span + 1)
  <2> SUFFICES ASSUME span > 1, skip + span < Len(seen)
               PROVE  LooksLikeData(rows, skip + span + 1)
    OBVIOUS
  <2>1. skip + span + 1 \in 2..Len(seen)
    BY <1>1, <1>2, <1>3
  <2>. QED  BY <1>3, <1>4, <2>1
<1>. QED  BY <1>5, <1>6, <1>7, <1>8, <1>9 DEF GuessedHeader, seen
-----------------------------------------------------------------------------

Writing == {"mkdir", "open", "write", "replace"}
Complete == {"whole", "import"}

(* What the command under way relies on. *)
JobInv ==
  /\ archive.content.by \in Complete
  /\ job.pc \in Writing =>
       job.cmd.op \in {"set", "copy", "import"} /\ job.content.by \in Complete
  /\ job.pc \in {"write", "replace"} => Has(job.at, Target(job.cmd.op))
  /\ job.pc = "replace" =>
       /\ job.cmd.op # "import"
       /\ job.cmd.op = "copy" \/ Printed(job.content) =>
            disk[entry[job.at][Target(job.cmd.op)]].by \in Complete
  /\ job.pc = "file" => Exists(job.cmd.name) /\ ~Exists(job.cmd.to)
  /\ job.pc \in {"cache", "revert"} /\ ~job.cmd.cacheOnly =>
       ~Exists(job.cmd.name) /\ job.cmd.name # job.cmd.to

(* No inode has two names, and one that is read was props.json's. *)
InodesApart ==
  /\ \A n, m \in Name : \A e, f \in Entry :
       Has(n, e) /\ entry[n][e] = entry[m][f] => n = m /\ e = f
  /\ reader.pc = "read" =>
       /\ reader.inode \in Inode
       /\ \A n \in Name : \A e \in Entry : entry[n][e] = reader.inode => e = "props"
  /\ reader.pc = "idle" => reader.inode = NoInode

IInv == TypeOK /\ JobInv /\ InodesApart /\ WholeProps

Steady == {"mkdir", "open", "write", "replace", "export", "file", "cache", "revert",
           "unlink", "scan", "empty"}
Active == [pc : Steady, cmd : Commands, content : Content, at : Name, todo : SUBSET Name]

(* A command under way has all its fields; going on changes the first of them. *)
LEMMA ActiveFacts ==
  ASSUME NEW j \in Job, j.pc # "idle", NEW pc \in Steady
  PROVE  /\ j \in Active /\ j.pc \in Steady
         /\ [j EXCEPT !.pc = pc] \in Job
         /\ [j EXCEPT !.pc = pc] = [pc |-> pc, cmd |-> j.cmd, content |-> j.content,
                                    at |-> j.at, todo |-> j.todo]
  BY DEF Job, Active, Steady

(* What is found saved, and what is kept of it. *)
LEMMA LoadedFacts ==
  ASSUME TypeOK, NEW n \in Name
  PROVE  /\ Loaded(n) \in Content
         /\ Has(n, "props") => Props(n) \in Content /\ Props(n) = Loaded(n)
         /\ WholeProps => Loaded(n).by \in Complete
<1>1. entry[n]["props"] \in Inode \cup {NoInode}
  BY DEF TypeOK, Entry
<1>2. NoContent \in Content /\ NoContent.by = "whole"
  BY DEF NoContent, Whole, Content, Value, ArgNone
<1>. QED  BY <1>1, <1>2 DEF Loaded, Has, Props, TypeOK, WholeProps, Complete

LEMMA MergedFacts ==
  ASSUME NEW c \in Commands, NEW found \in Content, NEW d \in Nat, NEW R \in Nat
  PROVE  Merged(c, found, [d |-> d, R |-> R]) \in Content
         /\ Merged(c, found, [d |-> d, R |-> R]).by = "whole"
<1>1. c.d \in Option /\ c.R \in Option
  BY CommandAssumption DEF CommandType
<1>2. found.d \in Value /\ found.R \in Value
  BY DEF Content
<1>3. ASSUME NEW option \in Option, option # ArgAuto, NEW saved \in Value
      PROVE  Kept(option, saved) \in Value
  <2>1. CASE option = ArgNone
    BY <2>1 DEF Kept, ArgNone, ArgRemove
  <2>2. CASE option = ArgRemove
    BY <2>2 DEF Kept, Value, ArgNone, ArgRemove
  <2>3. CASE option \in Nat
    BY <2>3 DEF Kept, Value, ArgNone, ArgRemove
  <2>. QED  BY <1>3, <2>1, <2>2, <2>3 DEF Option
<1> DEFINE dOption == IF c.d = ArgAuto THEN d ELSE c.d
           ROption == IF c.R = ArgAuto THEN R ELSE c.R
<1>4. dOption \in Option /\ dOption # ArgAuto /\ ROption \in Option /\ ROption # ArgAuto
  BY <1>1 DEF Option, ArgAuto
<1>5. Merged(c, found, [d |-> d, R |-> R]) = Whole(Kept(dOption, found.d), Kept(ROption, found.R))
  BY DEF Merged
<1> HIDE DEF dOption, ROption
<1>6. Kept(dOption, found.d) \in Value /\ Kept(ROption, found.R) \in Value
  BY <1>2, <1>3, <1>4
<1>. QED  BY <1>5, <1>6 DEF Whole, Content

(* What --auto finds are numbers. *)
LEMMA GuessFacts ==
  ASSUME TypeOK, NEW n \in Name, Exists(n)
  PROVE  LET guess == Guess(RowsOf[file[n]])
         IN  guess = [d |-> guess.d, R |-> guess.R] /\ guess.d \in Nat /\ guess.R \in Nat
<1> DEFINE seen == Detected(RowsOf[file[n]])
<1>1. RowsOf[file[n]] \in Seq(RowCount)
  BY RowsAssumption DEF TypeOK, Exists
<1>2. seen \in Seq(RowCount)
  BY <1>1, DetectedRows
<1>3. GuessSpan(seen) \in Nat /\ GuessSkip(seen) \in Nat
  BY <1>2, SpanFacts, SkipFacts
<1>. QED  BY <1>3 DEF Guess

-----------------------------------------------------------------------------

(* Files that stay as they are keep what is said of them. *)
LEMMA SameFiles ==
  ASSUME InodesApart, WholeProps, UNCHANGED <<entry, disk, reader>>
  PROVE  InodesApart' /\ WholeProps'
  BY DEF InodesApart, WholeProps, Has, Props

LEMMA InitInv == Init => IInv
<1> SUFFICES ASSUME Init  PROVE  IInv
  OBVIOUS
<1>1. Whole(ArgNone, ArgNone) \in Content
  BY DEF Whole, Content, Value
<1>2. TypeOK
  BY <1>1, BoundAssumption DEF Init, TypeOK, Archive, Archived, Job, Idle
<1>3. \A n \in Name, e \in Entry : ~Has(n, e)
  BY DEF Init, Has
<1>4. JobInv
  BY DEF Init, JobInv, Archived, Idle, Whole, Complete, Writing
<1>5. InodesApart /\ WholeProps
  BY <1>3 DEF Init, InodesApart, WholeProps, Entry
<1>. QED  BY <1>2, <1>4, <1>5 DEF IInv

(* A command begins. *)
LEMMA StartStep ==
  ASSUME IInv, Starts
  PROVE  IInv'
<1>1. PICK c \in Commands :
        Set(c) \/ Copy(c) \/ Export(c) \/ Import(c) \/ Mv(c) \/ Rm(c) \/ Clear(c) \/ Clean(c)
  BY DEF Starts
<1>2. UNCHANGED <<file, root, dir, entry, disk, reader, ghosts, crashes>>
      /\ commands' = commands + 1 /\ commands < MaxCommands
  BY <1>1 DEF Set, Copy, Export, Import, Mv, Rm, Clear, Clean, Begin, fs
<1>3. /\ c.name \in Name /\ c.to \in Name /\ NoContent \in Content /\ NoContent.by = "whole"
      /\ c.cacheOnly \in BOOLEAN /\ c.force \in BOOLEAN
  BY CommandAssumption DEF CommandType, NoContent, Whole, Content, Value, ArgNone
<1>4. ASSUME NEW err \in BOOLEAN, job' = Idle(err)
      PROVE  job' \in Job /\ job'.pc = "idle"
  BY <1>4 DEF Job, Idle
<1>5. ASSUME NEW pc \in Steady, NEW content \in Content, NEW n \in Name, Goto(c, pc, content, n)
      PROVE  /\ job' \in Job /\ job'.pc = pc /\ job'.cmd = c
             /\ job'.content = content /\ job'.at = n
  BY <1>5 DEF Job, Goto, Steady
<1> DEFINE Good == /\ job' \in Job /\ archive' \in Archive /\ archive'.content.by \in Complete
                   /\ job'.pc \in {"idle", "mkdir", "export", "file", "cache", "unlink",
                                   "empty", "scan"}
                   /\ job'.pc = "mkdir" => job'.cmd.op \in {"set", "copy", "import"}
                                            /\ job'.content.by \in Complete
                   /\ job'.pc = "file" => Exists(job'.cmd.name) /\ ~Exists(job'.cmd.to)
                   /\ job'.pc = "cache" => job'.cmd.cacheOnly
<1>6. archive \in Archive /\ archive.content \in Content /\ archive.content.by \in Complete
  BY DEF IInv, TypeOK, Archive, JobInv
<1>7. ASSUME Set(c)  PROVE  Good
  <2> DEFINE guess == IF Exists(c.name) THEN Guess(RowsOf[file[c.name]]) ELSE [d |-> 1, R |-> 0]
             content == Merged(c, Loaded(c.name), guess)
  <2>1. content \in Content /\ content.by = "whole"
    <3>1. guess = [d |-> guess.d, R |-> guess.R] /\ guess.d \in Nat /\ guess.R \in Nat
      BY <1>3, GuessFacts DEF IInv
    <3>2. Loaded(c.name) \in Content
      BY <1>3, LoadedFacts DEF IInv
    <3> HIDE DEF guess
    <3>. QED  BY <3>1, <3>2, MergedFacts
  <2>2. archive' = archive /\ c.op = "set"
    BY <1>7 DEF Set, Begin, fs
  <2>3. ASSUME End(SetRefused(c, guess))
       PROVE  Good
    <3>1. SetRefused(c, guess) \in BOOLEAN
      BY DEF SetRefused
    <3> HIDE DEF guess
    <3>2. job' = Idle(SetRefused(c, guess))
      BY <2>3 DEF End
    <3>. QED  BY <1>4, <1>6, <2>2, <3>1, <3>2
  <2>4. ASSUME Goto(c, "mkdir", content, c.name)
       PROVE  Good
    <3> HIDE DEF content
    <3>1. /\ job' \in Job /\ job'.pc = "mkdir" /\ job'.cmd = c /\ job'.content = content
      BY <1>3, <1>5, <2>1, <2>4 DEF Steady
    <3>. QED  BY <1>6, <2>1, <2>2, <3>1 DEF Complete
  <2>5. Good
    BY <1>7, <2>3, <2>4 DEF Set
  <2>. QED  BY <2>5
<1>8. ASSUME Copy(c)  PROVE  Good
  <2>1. archive' = archive /\ c.op = "copy"
    BY <1>8 DEF Copy, Begin, fs
  <2> DEFINE missing == ~c.force /\ ~(Exists(c.name) /\ Exists(c.to))
  <2>2. ASSUME End(missing)  PROVE  Good
    BY <1>4, <1>6, <2>1, <2>2 DEF End
  <2>3. ASSUME Has(c.name, "props") /\ Goto(c, "mkdir", Props(c.name), c.to)
       PROVE  Good
    <3>1. Props(c.name) \in Content /\ Props(c.name).by \in Complete
      BY <1>3, <2>3, LoadedFacts DEF IInv
    <3>. QED  BY <1>3, <1>5, <1>6, <2>1, <2>3, <3>1 DEF Steady
  <2>. QED  BY <1>8, <2>2, <2>3 DEF Copy
<1>9. ASSUME Export(c)  PROVE  Good
  <2>1. archive' \in Archive /\ archive'.content.by \in Complete
    BY <1>3, <1>9 DEF Export, Archived, Archive, Complete
  <2>2. Loaded(c.name) \in Content
    BY <1>3, LoadedFacts DEF IInv
  <2>. QED  BY <1>3, <1>5, <1>9, <2>1, <2>2, ZenonT(60) DEF Export, Steady
<1>10. ASSUME Import(c)  PROVE  Good
  <2>1. archive' = archive /\ c.op = "import"
    BY <1>10 DEF Import, Begin, fs
  <2>2. ASSUME Goto(c, "mkdir", archive.content, c.name)
       PROVE  Good
    BY <1>3, <1>5, <1>6, <2>1, <2>2 DEF Steady
  <2>3. ASSUME \E err \in BOOLEAN : End(err)
       PROVE  Good
    BY <1>4, <1>6, <2>1, <2>3 DEF End
  <2>. QED  BY <1>10, <2>2, <2>3 DEF Import
<1>11. ASSUME Mv(c)  PROVE  Good
  <2>1. archive' = archive
    BY <1>11 DEF Mv, fs
  <2>2. ASSUME \E err \in BOOLEAN : End(err)
       PROVE  Good
    BY <1>4, <1>6, <2>1, <2>2 DEF End
  <2>3. ASSUME /\ ~c.cacheOnly /\ Exists(c.name) /\ ~Exists(c.to)
             /\ Goto(c, "file", NoContent, c.name)
       PROVE  Good
    BY <1>3, <1>5, <1>6, <2>1, <2>3 DEF Steady
  <2>4. ASSUME c.cacheOnly /\ Goto(c, "cache", NoContent, c.name)
       PROVE  Good
    BY <1>3, <1>5, <1>6, <2>1, <2>4 DEF Steady
  <2>. QED  BY <1>11, <2>2, <2>3, <2>4 DEF Mv
<1>12. ASSUME Rm(c) \/ Clear(c)  PROVE  Good
  <2>1. archive' = archive
    BY <1>12 DEF Rm, Clear, fs
  <2>2. ASSUME \E err \in BOOLEAN : End(err)
       PROVE  Good
    BY <1>4, <1>6, <2>1, <2>2 DEF End
  <2>3. ASSUME Goto(c, "unlink", NoContent, c.name) \/ Goto(c, "empty", NoContent, c.name)
       PROVE  Good
    BY <1>3, <1>5, <1>6, <2>1, <2>3 DEF Steady
  <2>. QED  BY <1>12, <2>2, <2>3 DEF Rm, Clear
<1>13. ASSUME Clean(c)  PROVE  Good
  <2>1. archive' = archive /\ job'.pc = "scan"
    BY <1>13 DEF Clean, fs
  <2>2. job' \in Job
    BY <1>3, <1>13 DEF Clean, Job
  <2>. QED  BY <1>6, <2>1, <2>2
<1>14. Good
  BY <1>1, <1>7, <1>8, <1>9, <1>10, <1>11, <1>12, <1>13
<1>15. TypeOK'
  BY <1>2, <1>14, BoundAssumption DEF IInv, TypeOK, ghosts
<1>16. JobInv'
  BY <1>2, <1>14 DEF JobInv, Exists, Writing
<1>. QED  BY <1>2, <1>15, <1>16, SameFiles DEF IInv

(* The command under way goes on, or ends. *)
LEMMA GoOnFacts ==
  ASSUME TypeOK, job.pc # "idle", NEW pc \in Steady, GoOn(pc)
  PROVE  /\ job' \in Job /\ job'.pc = pc /\ job'.cmd = job.cmd
         /\ job'.content = job.content /\ job'.at = job.at
<1>1. job \in Job
  BY DEF TypeOK
<1>. QED  BY <1>1, ActiveFacts DEF GoOn

LEMMA EndFacts ==
  ASSUME NEW err \in BOOLEAN, End(err)
  PROVE  job' \in Job /\ job'.pc = "idle"
  BY DEF End, Idle, Job

LEMMA JobFacts ==
  ASSUME TypeOK, job.pc # "idle"
  PROVE  /\ job.cmd \in Commands /\ job.content \in Content /\ job.at \in Name
         /\ job.pc \in Steady
         /\ job.cmd.name \in Name /\ job.cmd.to \in Name
         /\ job.cmd.cacheOnly \in BOOLEAN
         /\ Target(job.cmd.op) \in Entry
         /\ job.cmd.op = "set" => Target(job.cmd.op) = "props.~zsv"
         /\ job.cmd.op = "copy" => Target(job.cmd.op) = "props.temp"
         /\ job.cmd.op \notin {"set", "copy"} => Target(job.cmd.op) = "props"
<1>1. job \in Active /\ job.pc \in Steady
  BY ActiveFacts DEF TypeOK, Steady
<1>2. job.cmd \in Commands /\ job.content \in Content /\ job.at \in Name
  BY <1>1 DEF Active
<1>3. job.cmd.name \in Name /\ job.cmd.to \in Name /\ job.cmd.cacheOnly \in BOOLEAN
  BY <1>2, CommandAssumption DEF CommandType
<1>. QED  BY <1>1, <1>2, <1>3 DEF Target, Entry

LEMMA MakeDirStep ==
  ASSUME IInv, MakeDir
  PROVE  IInv'
<1>1. /\ job.pc = "mkdir" /\ GoOn("open")
      /\ root' = [root EXCEPT ![DirOf[job.at]] = TRUE] /\ dir' = [dir EXCEPT ![job.at] = TRUE]
      /\ UNCHANGED <<file, entry, disk, archive, reader, owner, trusted, commands, crashes>>
  BY DEF MakeDir, Running, ghosts, counts
<1>2. /\ job' \in Job /\ job'.pc = "open" /\ job'.cmd = job.cmd
      /\ job'.content = job.content /\ job'.at = job.at
  BY <1>1, GoOnFacts DEF IInv, Steady
<1>3. job.at \in Name
  BY <1>1, JobFacts DEF IInv
<1>4. TypeOK'
  BY <1>1, <1>2, <1>3 DEF IInv, TypeOK
<1>5. JobInv'
  BY <1>1, <1>2 DEF IInv, JobInv, Writing
<1>. QED  BY <1>1, <1>4, <1>5, SameFiles DEF IInv

(* The file opened is named by no other name, and not read. *)
LEMMA OpenStep ==
  ASSUME IInv, Open
  PROVE  IInv'
<1> DEFINE n == job.at
           op == job.cmd.op
           target == Target(job.cmd.op)
<1>1. PICK i \in Inode :
        /\ Opened(n, target, i)
        /\ entry' = [entry EXCEPT ![n] = [entry[n] EXCEPT ![target] = i]]
        /\ disk' = [disk EXCEPT ![i] = Torn(op)]
  BY DEF Open
<1>2. /\ job.pc = "open" /\ GoOn("write") /\ Given(n, op)
      /\ UNCHANGED <<file, root, dir, archive, reader, trusted, commands, crashes>>
  BY DEF Open, Running, counts
<1>3. /\ job' \in Job /\ job'.pc = "write" /\ job'.cmd = job.cmd
      /\ job'.content = job.content /\ job'.at = job.at
  BY <1>2, GoOnFacts DEF IInv, Steady
<1>4. /\ n \in Name /\ target \in Entry
      /\ op \in {"set", "copy", "import"} /\ (op = "import" \/ target # "props")
  BY <1>2, JobFacts DEF IInv, JobInv, Writing
<1>5. i # NoInode /\ Torn(op) \in Content /\ Torn(op).by = op
  BY <1>4, NoneAssumption DEF Torn, Content, Value
<1>6. owner' \in [Name -> Data \cup {NoData, Reverted}]
  BY <1>2, <1>4 DEF Given, IInv, TypeOK
<1>7. entry \in [Name -> [Entry -> Inode \cup {NoInode}]] /\ disk \in [Inode -> Content]
  BY DEF IInv, TypeOK
<1> HIDE DEF n, op, target
<1>8. /\ \A m \in Name : m # n => entry'[m] = entry[m]
      /\ \A e \in Entry : e # target => entry'[n][e] = entry[n][e]
      /\ entry'[n][target] = i
      /\ entry' \in [Name -> [Entry -> Inode \cup {NoInode}]]
  BY <1>1, <1>4, <1>7
<1>9. \A m \in Name, e \in Entry : entry[m][e] = i => m = n /\ e = target
  BY <1>1, <1>4, <1>5 DEF Opened, Used, IInv, InodesApart, Has
<1>10. \A k \in Inode : k # i => disk'[k] = disk[k]
  BY <1>1, <1>7
<1>11. disk'[i] = Torn(op) /\ disk' \in [Inode -> Content]
  BY <1>1, <1>5, <1>7
<1>12. TypeOK'
  BY <1>2, <1>3, <1>6, <1>8, <1>11 DEF IInv, TypeOK
<1>13. Has(job.at, Target(job.cmd.op))'
  BY <1>3, <1>5, <1>8 DEF Has, n, target
<1>14. JobInv'
  BY <1>2, <1>3, <1>13 DEF IInv, JobInv, Writing
<1>15. reader.pc = "read" => reader.inode # i \/ target = "props"
  BY <1>1, <1>4, <1>5 DEF Opened, Used, IInv, InodesApart, Has
<1>16. \A m \in Name, e \in Entry : entry'[m][e] = entry[m][e] \/ (m = n /\ e = target)
  BY <1>8
<1>17. InodesApart'
  <2>1. ASSUME NEW m \in Name, NEW k \in Name, NEW e \in Entry, NEW f \in Entry,
               entry'[m][e] # NoInode, entry'[m][e] = entry'[k][f]
        PROVE  m = k /\ e = f
    BY <2>1, <1>8, <1>9, <1>16 DEF IInv, InodesApart, Has
  <2>2. ASSUME reader.pc = "read", NEW m \in Name, NEW e \in Entry, entry'[m][e] = reader.inode
        PROVE  e = "props"
    BY <2>2, <1>8, <1>15, <1>16 DEF IInv, InodesApart
  <2>. QED  BY <1>2, <2>1, <2>2 DEF IInv, InodesApart, Has
<1>18. WholeProps'
  <2>1. ASSUME NEW m \in Name, entry'[m]["props"] # NoInode
        PROVE  disk'[entry'[m]["props"]].by \in Complete
    <3>1. entry'[m]["props"] \in Inode
      BY <2>1, <1>8 DEF Entry
    <3>2. CASE entry'[m]["props"] = i
      <4>1. target = "props" /\ op = "import"
        BY <3>2, <1>4, <1>8, <1>9, <1>16 DEF Entry
      <4>. QED  BY <3>2, <4>1, <1>5, <1>11 DEF Complete
    <3>3. CASE entry'[m]["props"] # i
      <4>1. entry'[m]["props"] = entry[m]["props"]
        BY <3>3, <1>8, <1>16 DEF Entry
      <4>. QED  BY <2>1, <3>1, <3>3, <4>1, <1>10 DEF IInv, WholeProps, Has, Props, Complete
    <3>. QED  BY <3>2, <3>3
  <2>2. ASSUME reader.pc = "read"
        PROVE  disk'[reader.inode].by \in Complete
    <3>1. reader.inode \in Inode
      BY <2>2 DEF IInv, InodesApart
    <3>2. CASE reader.inode = i
      BY <2>2, <3>2, <1>4, <1>5, <1>11, <1>15, JobFacts, <1>2 DEF Complete, IInv, target, op
    <3>3. CASE reader.inode # i
      BY <2>2, <3>1, <3>3, <1>10 DEF IInv, WholeProps, Complete
    <3>. QED  BY <3>2, <3>3
  <2>. QED  BY <1>2, <2>1, <2>2 DEF WholeProps, Has, Props, Complete
<1>. QED  BY <1>12, <1>14, <1>17, <1>18 DEF IInv

(* What is written is complete, or not yet in place. *)
LEMMA WriteStep ==
  ASSUME IInv, Write \/ ImportWrite
  PROVE  IInv'
<1> DEFINE n == job.at
           op == job.cmd.op
           target == Target(job.cmd.op)
           i == entry[job.at][Target(job.cmd.op)]
<1>1. /\ job.pc = "write"
      /\ UNCHANGED <<file, root, dir, entry, archive, reader, owner, trusted, commands, crashes>>
      /\ \/ disk' = disk /\ op # "copy" /\ ~Printed(job.content)
         \/ disk' = [disk EXCEPT ![i] = job.content]
      /\ IF op = "import" THEN End(FALSE) ELSE GoOn("replace")
  BY DEF Write, ImportWrite, Written, Running, counts, ghosts
<1>2. /\ n \in Name /\ target \in Entry /\ job.content \in Content
      /\ job.content.by \in Complete
      /\ op \in {"set", "copy", "import"} /\ (op = "import" <=> target = "props")
  BY <1>1, JobFacts DEF IInv, JobInv, Writing
<1>3. entry \in [Name -> [Entry -> Inode \cup {NoInode}]] /\ disk \in [Inode -> Content]
  BY DEF IInv, TypeOK
<1>4. i \in Inode /\ Has(n, target)
  BY <1>1, <1>2, <1>3 DEF IInv, JobInv, Has
<1>5. /\ disk' \in [Inode -> Content]
      /\ \A k \in Inode : disk'[k] = disk[k] \/ disk'[k].by \in Complete
      /\ op = "copy" \/ Printed(job.content) => disk'[i].by \in Complete
  BY <1>1, <1>2, <1>3, <1>4
<1> HIDE DEF n, op, target, i
<1>6. job' \in Job
  <2>1. ASSUME GoOn("replace")  PROVE  job' \in Job
    BY <1>1, <2>1, GoOnFacts DEF IInv, Steady
  <2>. QED  BY <1>1, <2>1, EndFacts
<1>7. TypeOK'
  BY <1>1, <1>5, <1>6 DEF IInv, TypeOK
<1>8. JobInv'
  <2>1. CASE target = "props"
    <3>1. job'.pc = "idle"
      BY <1>1, <1>2, <2>1, EndFacts
    <3>. QED  BY <1>1, <3>1 DEF IInv, JobInv, Writing
  <2>2. CASE target # "props"
    <3>1. /\ job'.pc = "replace" /\ job'.cmd = job.cmd
          /\ job'.content = job.content /\ job'.at = job.at
      BY <1>1, <1>2, <2>2, GoOnFacts DEF IInv, Steady
    <3>2. Has(job.at, Target(job.cmd.op))' /\ op # "import"
      BY <1>1, <1>2, <1>4, <2>2, <3>1 DEF Has, n, target
    <3>3. (job.cmd.op = "copy" \/ Printed(job.content) =>
             disk[entry[job.at][Target(job.cmd.op)]].by \in Complete)'
      BY <1>1, <1>5, <3>1 DEF op, i, Printed
    <3>. QED  BY <1>1, <1>2, <3>1, <3>2, <3>3 DEF IInv, JobInv, Writing, op
  <2>. QED  BY <2>1, <2>2
<1>9. InodesApart'
  BY <1>1 DEF IInv, InodesApart, Has
<1>10. WholeProps'
  <2>1. ASSUME NEW m \in Name, Has(m, "props")
        PROVE  disk'[entry[m]["props"]].by \in Complete
    <3>1. entry[m]["props"] \in Inode /\ disk[entry[m]["props"]].by \in Complete
      BY <2>1, <1>3 DEF IInv, WholeProps, Has, Props, Entry, Complete
    <3>. QED  BY <3>1, <1>5
  <2>2. ASSUME reader.pc = "read"  PROVE  disk'[reader.inode].by \in Complete
    <3>1. reader.inode \in Inode /\ disk[reader.inode].by \in Complete
      BY <2>2 DEF IInv, InodesApart, WholeProps, Complete
    <3>. QED  BY <3>1, <1>5
  <2>. QED  BY <1>1, <2>1, <2>2 DEF WholeProps, Has, Props, Complete
<1>. QED  BY <1>7, <1>8, <1>9, <1>10 DEF IInv

(* Renaming or removing files of one name keeps inodes apart. *)
LEMMA ReplaceStep ==
  ASSUME IInv, Replace
  PROVE  IInv'
<1> DEFINE n == job.at
           target == Target(job.cmd.op)
           placed == job.cmd.op = "copy" \/ Printed(job.content)
<1>1. /\ job.pc = "replace" /\ End(FALSE)
      /\ UNCHANGED <<file, root, dir, disk, archive, reader, trusted, commands, crashes>>
      /\ placed => /\ entry' = Renamed(n, target, "props")
                   /\ owner' = [owner EXCEPT ![n] = file[n]]
      /\ ~placed => /\ UNCHANGED owner
                    /\ \/ UNCHANGED entry
                       \/ entry' = [entry EXCEPT ![n] = [@ EXCEPT !["props"] = NoInode]]
  BY DEF Replace, Running, counts
<1>2. /\ n \in Name /\ target \in Entry /\ target # "props" /\ Has(n, target)
      /\ placed => disk[entry[n][target]].by \in Complete
  BY <1>1, JobFacts DEF IInv, JobInv, Writing
<1>3. entry \in [Name -> [Entry -> Inode \cup {NoInode}]] /\ disk \in [Inode -> Content]
  BY DEF IInv, TypeOK
<1>4. job' \in Job /\ job'.pc = "idle"
  BY <1>1, EndFacts
<1>5. owner' \in [Name -> Data \cup {NoData, Reverted}]
  BY <1>1, <1>2 DEF IInv, TypeOK
<1> HIDE DEF n, target, placed
<1>6. entry' \in [Name -> [Entry -> Inode \cup {NoInode}]]
  BY <1>1, <1>2, <1>3 DEF Renamed, Entry
<1>7. TypeOK'
  BY <1>1, <1>4, <1>5, <1>6 DEF IInv, TypeOK
<1>8. JobInv'
  BY <1>1, <1>4 DEF IInv, JobInv, Writing
<1>9. /\ \A m \in Name, e \in Entry :
           \/ entry'[m][e] = entry[m][e]
           \/ entry'[m][e] = NoInode
           \/ m = n /\ e = "props" /\ placed /\ entry'[m][e] = entry[n][target]
      /\ placed => entry'[n][target] = NoInode /\ entry'[n]["props"] = entry[n][target]
  BY <1>1, <1>2, <1>3 DEF Renamed, Entry
<1>10. InodesApart'
  <2>1. ASSUME NEW m \in Name, NEW k \in Name, NEW e \in Entry, NEW f \in Entry,
               entry'[m][e] # NoInode, entry'[m][e] = entry'[k][f]
        PROVE  m = k /\ e = f
    BY <2>1, <1>2, <1>9 DEF IInv, InodesApart, Has
  <2>2. ASSUME reader.pc = "read", NEW m \in Name, NEW e \in Entry, entry'[m][e] = reader.inode
        PROVE  e = "props"
    BY <2>2, <1>9, NoneAssumption DEF IInv, InodesApart
  <2>. QED  BY <1>1, <2>1, <2>2 DEF IInv, InodesApart, Has
<1>11. WholeProps'
  <2>1. ASSUME NEW m \in Name, entry'[m]["props"] # NoInode
        PROVE  disk[entry'[m]["props"]].by \in Complete
    BY <2>1, <1>2, <1>9 DEF IInv, WholeProps, Has, Props, Entry, Complete
  <2>. QED  BY <1>1, <2>1 DEF IInv, WholeProps, Has, Props, Complete
<1>. QED  BY <1>7, <1>8, <1>10, <1>11 DEF IInv

(* Steps that leave the files of the caches alone. *)
LEMMA FileStep ==
  ASSUME IInv, ExportWrite \/ MoveFile \/ Revert \/ Unlink \/ Scan
  PROVE  IInv'
<1>1. /\ job.pc \in {"export", "file", "revert", "unlink", "scan"}
      /\ UNCHANGED <<root, dir, entry, disk, reader, trusted, commands, crashes>>
      /\ owner' = owner \/ owner' = [owner EXCEPT ![job.cmd.name] = Reverted]
  BY DEF ExportWrite, MoveFile, Revert, Unlink, Scan, Running, ghosts, counts, fs, IInv, TypeOK
<1>2. job.cmd.name \in Name /\ job.cmd.to \in Name /\ job.at \in Name
  BY <1>1, JobFacts DEF IInv
<1>3. file' \in [Name -> Data \cup {NoData}]
  BY <1>2 DEF ExportWrite, MoveFile, Revert, Unlink, Scan, fs, MoveData, IInv, TypeOK
<1>4. archive' \in Archive /\ archive'.content.by \in Complete
  <2>1. CASE ExportWrite
    <3>1. job.content \in Content /\ NoContent \in Content /\ NoContent.by = "whole"
      BY <1>1, JobFacts DEF IInv, NoContent, Whole, Content, Value
    <3>. QED  BY <2>1, <3>1 DEF ExportWrite, Archived, Archive, Complete, Has
  <2>2. CASE archive' = archive
    BY <2>2 DEF IInv, TypeOK, JobInv
  <2>. QED  BY <2>1, <2>2 DEF MoveFile, Revert, Unlink, Scan, fs
<1>5. /\ job' \in Job
      /\ \/ job'.pc \in {"idle", "empty", "scan"}
         \/ job'.pc = "cache" /\ job'.cmd = job.cmd /\ MoveFile
  <2>1. ASSUME MoveFile
        PROVE  job' \in Job /\ (job'.pc = "idle" \/ (job'.pc = "cache" /\ job'.cmd = job.cmd))
    BY <1>1, <2>1, GoOnFacts, EndFacts DEF MoveFile, IInv, Steady
  <2>2. ASSUME Unlink  PROVE  job' \in Job /\ job'.pc \in {"idle", "empty"}
    <3>1. CASE GoOn("empty")
      BY <1>1, <3>1, GoOnFacts DEF IInv, Steady
    <3>2. CASE End(~Exists(job.at))
      <4>1. CASE Exists(job.at)
        BY <3>2, <4>1, EndFacts DEF End
      <4>2. CASE ~Exists(job.at)
        BY <3>2, <4>2, EndFacts DEF End
      <4>. QED  BY <4>1, <4>2
    <3>. QED  BY <2>2, <3>1, <3>2 DEF Unlink
  <2>3. ASSUME ExportWrite  PROVE  job' \in Job /\ job'.pc = "idle"
    <3>1. CASE job.content.by = "whole"
      BY <2>3, <3>1, EndFacts DEF ExportWrite, End
    <3>2. CASE job.content.by # "whole"
      BY <2>3, <3>2, EndFacts DEF ExportWrite, End
    <3>. QED  BY <3>1, <3>2
  <2>4. ASSUME Revert  PROVE  job' \in Job /\ job'.pc = "idle"
    BY <2>4, EndFacts DEF Revert
  <2>5. ASSUME Scan  PROVE  job' \in Job /\ job'.pc \in {"idle", "empty", "scan"}
    <3>1. CASE job.todo = {}
      BY <2>5, <3>1, EndFacts DEF Scan
    <3>2. CASE job.todo # {}
      <4>1. job \in Active
        BY <1>1, ActiveFacts DEF IInv, TypeOK, Steady
      <4>2. PICK m \in job.todo :
              job' = [job EXCEPT !.todo = @ \ {m}, !.at = m,
                                 !.pc = IF Orphan(m) THEN "empty" ELSE "scan"]
        BY <2>5, <3>2 DEF Scan
      <4>. QED  BY <4>1, <4>2 DEF Active, Job, Steady
    <3>. QED  BY <3>1, <3>2
  <2>. QED  BY <2>1, <2>2, <2>3, <2>4, <2>5
<1>6. TypeOK'
  <2>1. owner' \in [Name -> Data \cup {NoData, Reverted}]
    BY <1>1, <1>2 DEF IInv, TypeOK
  <2>. QED  BY <1>1, <1>3, <1>4, <1>5, <2>1 DEF IInv, TypeOK
<1>7. ASSUME MoveFile
      PROVE  file'[job.cmd.name] = NoData /\ job.cmd.name # job.cmd.to
  <2>1. Exists(job.cmd.name) /\ ~Exists(job.cmd.to)
    BY <1>7 DEF MoveFile, Running, IInv, JobInv
  <2>2. job.cmd.name # job.cmd.to
    BY <2>1
  <2>. QED  BY <1>2, <1>7, <2>2 DEF MoveFile, MoveData, IInv, TypeOK
<1>8. JobInv'
  <2>1. CASE job'.pc \in {"idle", "empty", "scan"}
    BY <1>4, <2>1 DEF JobInv, Writing
  <2>2. CASE job'.pc = "cache" /\ job'.cmd = job.cmd /\ MoveFile
    BY <1>4, <1>7, <2>2 DEF JobInv, Writing, Exists
  <2>. QED  BY <1>5, <2>1, <2>2
<1>. QED  BY <1>1, <1>6, <1>8, SameFiles DEF IInv

(* A cache that moves takes its inodes with it. *)
LEMMA MoveCacheStep ==
  ASSUME IInv, MoveCache
  PROVE  IInv'
<1> DEFINE from == job.cmd.name
           to == job.cmd.to
<1>1. /\ job.pc = "cache"
      /\ UNCHANGED <<file, root, disk, archive, reader, trusted, commands, crashes>>
  BY DEF MoveCache, Running, counts
<1>2. /\ from \in Name /\ to \in Name
      /\ ~job.cmd.cacheOnly => ~Exists(from) /\ from # to
  BY <1>1, JobFacts DEF IInv, JobInv
<1>3. /\ entry \in [Name -> [Entry -> Inode \cup {NoInode}]]
      /\ owner \in [Name -> Data \cup {NoData, Reverted}] /\ file \in [Name -> Data \cup {NoData}]
      /\ dir \in [Name -> BOOLEAN]
  BY DEF IInv, TypeOK
<1>4. CASE ~root[DirOf[to]]
  <2>1. GoOn("revert") /\ UNCHANGED <<dir, entry, owner>>
    BY <1>4 DEF MoveCache
  <2>2. job' \in Job /\ job'.pc = "revert" /\ job'.cmd = job.cmd
    BY <1>1, <2>1, GoOnFacts DEF IInv, Steady
  <2>3. TypeOK'
    BY <1>1, <2>1, <2>2 DEF IInv, TypeOK
  <2>4. JobInv'
    BY <1>1, <1>2, <2>2 DEF IInv, JobInv, Writing, Exists
  <2>. QED  BY <1>1, <2>1, <2>3, <2>4, SameFiles DEF IInv
<1>5. CASE root[DirOf[to]]
  <2>1. /\ dir' = [dir EXCEPT ![from] = FALSE, ![to] = TRUE]
        /\ entry' = [entry EXCEPT ![to] = entry[from], ![from] = entry[to]]
        /\ owner' = [owner EXCEPT ![to] = IF job.cmd.cacheOnly THEN file[to]
                                          ELSE owner[from]]
        /\ End(FALSE)
    BY <1>5 DEF MoveCache
  <2>2. job' \in Job /\ job'.pc = "idle"
    BY <2>1, EndFacts
  <2> HIDE DEF from, to
  <2>3. /\ entry' \in [Name -> [Entry -> Inode \cup {NoInode}]]
        /\ entry'[from] = entry[to] /\ entry'[to] = entry[from]
        /\ \A m \in Name : m \notin {from, to} => entry'[m] = entry[m]
    BY <1>2, <1>3, <2>1
  <2>4. owner' \in [Name -> Data \cup {NoData, Reverted}] /\ dir' \in [Name -> BOOLEAN]
    BY <1>2, <1>3, <2>1
  <2>5. TypeOK'
    BY <1>1, <2>2, <2>3, <2>4 DEF IInv, TypeOK
  <2>6. JobInv'
    BY <1>1, <2>2 DEF IInv, JobInv, Writing
  <2> DEFINE was(m) == IF m = from THEN to ELSE IF m = to THEN from ELSE m
  <2>7. \A m \in Name : was(m) \in Name /\ entry'[m] = entry[was(m)]
    BY <1>2, <2>3
  <2>8. \A m, k \in Name : was(m) = was(k) => m = k
    OBVIOUS
  <2> HIDE DEF was
  <2>9. InodesApart'
    <3>1. ASSUME NEW m \in Name, NEW k \in Name, NEW e \in Entry, NEW f \in Entry,
                 entry'[m][e] # NoInode, entry'[m][e] = entry'[k][f]
          PROVE  m = k /\ e = f
      BY <3>1, <2>7, <2>8 DEF IInv, InodesApart, Has
    <3>2. ASSUME reader.pc = "read", NEW m \in Name, NEW e \in Entry, entry'[m][e] = reader.inode
          PROVE  e = "props"
      BY <3>2, <2>7 DEF IInv, InodesApart
    <3>. QED  BY <1>1, <3>1, <3>2 DEF IInv, InodesApart, Has
  <2>10. WholeProps'
    <3>1. ASSUME NEW m \in Name, entry'[m]["props"] # NoInode
          PROVE  disk[entry'[m]["props"]].by \in Complete
      BY <3>1, <2>7 DEF IInv, WholeProps, Has, Props, Complete
    <3>. QED  BY <1>1, <3>1 DEF IInv, WholeProps, Has, Props, Complete
  <2>. QED  BY <2>5, <2>6, <2>9, <2>10 DEF IInv
<1>. QED  BY <1>4, <1>5

(* A file removed leaves the others apart. *)
LEMMA EmptyStep ==
  ASSUME IInv, Empty
  PROVE  IInv'
<1> DEFINE n == job.at
<1>1. /\ job.pc = "empty"
      /\ UNCHANGED <<file, root, disk, archive, reader, owner, trusted, commands, crashes>>
  BY DEF Empty, Running, counts, ghosts
<1>2. n \in Name
  BY <1>1, JobFacts DEF IInv
<1>3. /\ entry \in [Name -> [Entry -> Inode \cup {NoInode}]] /\ dir \in [Name -> BOOLEAN]
  BY DEF IInv, TypeOK
<1>4. \/ /\ \E e \in Entry : entry' = [entry EXCEPT ![n] = [entry[n] EXCEPT ![e] = NoInode]]
         /\ UNCHANGED <<dir, job>>
      \/ /\ dir' = [dir EXCEPT ![n] = FALSE] /\ UNCHANGED entry
         /\ GoOn("scan") \/ End(FALSE)
  BY DEF Empty
<1> HIDE DEF n
<1>5. /\ entry' \in [Name -> [Entry -> Inode \cup {NoInode}]]
      /\ \A m \in Name, e \in Entry : entry'[m][e] \in {entry[m][e], NoInode}
  <2>1. CASE entry' = entry
    BY <1>3, <2>1
  <2>2. CASE \E e \in Entry : entry' = [entry EXCEPT ![n] = [entry[n] EXCEPT ![e] = NoInode]]
    <3>1. PICK e \in Entry : entry' = [entry EXCEPT ![n] = [entry[n] EXCEPT ![e] = NoInode]]
      BY <2>2
    <3>2. entry' \in [Name -> [Entry -> Inode \cup {NoInode}]]
      BY <1>2, <1>3, <3>1
    <3>3. ASSUME NEW m \in Name, NEW f \in Entry
          PROVE  entry'[m][f] \in {entry[m][f], NoInode}
      BY <1>2, <1>3, <3>1
    <3>. QED  BY <3>2, <3>3
  <2>. QED  BY <1>4, <2>1, <2>2
<1>6. job' \in Job /\ job'.pc \in {"idle", "scan", "empty"}
  BY <1>1, <1>4, GoOnFacts, EndFacts DEF IInv, TypeOK, Steady
<1>7. dir' \in [Name -> BOOLEAN]
  <2>1. dir' = dir \/ dir' = [dir EXCEPT ![n] = FALSE]
    BY <1>4
  <2>. QED  BY <1>2, <1>3, <2>1
<1>8. TypeOK'
  BY <1>1, <1>5, <1>6, <1>7 DEF IInv, TypeOK
<1>9. JobInv'
  BY <1>1, <1>6 DEF IInv, JobInv, Writing
<1>10. InodesApart'
  <2>1. ASSUME NEW m \in Name, NEW k \in Name, NEW e \in Entry, NEW f \in Entry,
               entry'[m][e] # NoInode, entry'[m][e] = entry'[k][f]
        PROVE  m = k /\ e = f
    BY <2>1, <1>5 DEF IInv, InodesApart, Has
  <2>2. ASSUME reader.pc = "read", NEW m \in Name, NEW e \in Entry, entry'[m][e] = reader.inode
        PROVE  e = "props"
    BY <2>2, <1>5, NoneAssumption DEF IInv, InodesApart
  <2>. QED  BY <1>1, <2>1, <2>2 DEF IInv, InodesApart, Has
<1>11. WholeProps'
  <2>1. ASSUME NEW m \in Name, entry'[m]["props"] # NoInode
        PROVE  disk[entry'[m]["props"]].by \in Complete
    BY <2>1, <1>5 DEF IInv, WholeProps, Has, Props, Complete, Entry
  <2>. QED  BY <1>1, <2>1 DEF IInv, WholeProps, Has, Props, Complete
<1>. QED  BY <1>8, <1>9, <1>10, <1>11 DEF IInv

(* Another command loads properties. *)
LEMMA LoadStep ==
  ASSUME IInv, (\E n \in Name : LoadOpen(n)) \/ LoadRead
  PROVE  IInv'
<1>1. UNCHANGED <<file, root, dir, entry, disk, archive, job, owner, trusted, commands, crashes>>
  BY DEF LoadOpen, LoadRead, fs, ghosts, counts
<1>2. JobInv'
  BY <1>1 DEF IInv, JobInv, Has, Exists
<1>3. CASE \E n \in Name : LoadOpen(n)
  <2>1. PICK n \in Name : LoadOpen(n)
    BY <1>3
  <2>2. /\ Has(n, "props")
        /\ reader' = [pc |-> "read", inode |-> entry[n]["props"], err |-> FALSE]
    BY <2>1 DEF LoadOpen
  <2>3. entry[n]["props"] \in Inode
    BY <2>2 DEF IInv, TypeOK, Has, Entry
  <2>4. TypeOK'
    BY <1>1, <2>2, <2>3 DEF IInv, TypeOK
  <2>5. InodesApart'
    BY <1>1, <2>2, <2>3 DEF IInv, InodesApart, Has, Entry
  <2>6. WholeProps'
    BY <1>1, <2>2 DEF IInv, WholeProps, Has, Props
  <2>. QED  BY <1>2, <2>4, <2>5, <2>6 DEF IInv
<1>4. CASE LoadRead
  <2>1. reader' = [pc |-> "idle", inode |-> NoInode, err |-> disk[reader.inode].by # "whole"]
    BY <1>4 DEF LoadRead
  <2>2. reader'.err \in BOOLEAN
    BY <2>1
  <2>3. TypeOK'
    BY <1>1, <2>1, <2>2 DEF IInv, TypeOK
  <2>4. InodesApart' /\ WholeProps'
    BY <1>1, <2>1 DEF IInv, InodesApart, WholeProps, Has, Props
  <2>. QED  BY <1>2, <2>3, <2>4 DEF IInv
<1>. QED  BY <1>3, <1>4

(* Crash, UserCreates and UserDeletes leave no command under way. *)
LEMMA UserStep ==
  ASSUME IInv,
         \/ Crash
         \/ \E n \in Name : UserDeletes(n)
         \/ \E n \in Name, x \in Data : UserCreates(n, x)
  PROVE  IInv'
<1>1. /\ UNCHANGED <<root, dir, entry, disk, archive, reader, owner, commands>>
      /\ trusted' = FALSE \/ trusted' = trusted
      /\ crashes' = crashes \/ (crashes < MaxCrashes /\ crashes' = crashes + 1)
  BY DEF Crash, UserDeletes, UserCreates, fs, ghosts, counts
<1>2. file' \in [Name -> Data \cup {NoData}]
  BY DEF Crash, UserDeletes, UserCreates, fs, IInv, TypeOK
<1>3. job' \in Job /\ job'.pc = "idle"
  BY EndFacts DEF Crash, UserDeletes, UserCreates, IInv, TypeOK
<1>4. crashes' \in 0..MaxCrashes
  <2>1. crashes \in 0..MaxCrashes /\ MaxCrashes \in Nat
    BY BoundAssumption DEF IInv, TypeOK
  <2>. QED  BY <1>1, <2>1
<1>5. TypeOK'
  BY <1>1, <1>2, <1>3, <1>4 DEF IInv, TypeOK
<1>6. JobInv'
  BY <1>1, <1>3 DEF IInv, JobInv, Writing
<1>. QED  BY <1>1, <1>5, <1>6, SameFiles DEF IInv

LEMMA InvStep ==
  ASSUME IInv, [Next]_vars
  PROVE  IInv'
<1>1. CASE UNCHANGED vars
  BY <1>1 DEF vars, fs, ghosts, counts, IInv, TypeOK, JobInv, InodesApart, WholeProps,
              Has, Props, Exists
<1>2. CASE Starts
  BY <1>2, StartStep
<1>3. CASE Steps
  BY <1>3, MakeDirStep, OpenStep, WriteStep, ReplaceStep, FileStep, MoveCacheStep, EmptyStep
  DEF Steps
<1>4. CASE Environment
  BY <1>4, LoadStep, UserStep DEF Environment
<1>. QED  BY <1>1, <1>2, <1>3, <1>4 DEF Next

LEMMA Invariance == Spec => []IInv
  BY InitInv, InvStep, PTL DEF Spec

(* Every variable of the files and their caches keeps its type. *)
THEOREM PropertyTypeCorrect == Spec => []TypeOK
<1>1. IInv => TypeOK
  BY DEF IInv
<1>. QED  BY Invariance, <1>1, PTL

(* However many names, commands and crashes there are, what stands as props.json
   holds a whole set of properties or what --import was writing, and so does
   what another command has opened to load (merge_and_save_properties,
   zsv_new_with_properties). *)
THEOREM PropsAreWhole == Spec => []WholeProps
<1>1. IInv => WholeProps
  BY DEF IInv
<1>. QED  BY Invariance, <1>1, PTL

-----------------------------------------------------------------------------
(* What each step does to the data files.                                   *)

(* A rename onto a name without a file, or back, loses no data. *)
LEMMA MoveKeeps ==
  ASSUME IInv, NEW from \in Name, NEW to \in Name, from # to, ~Exists(to),
         MoveData(from, to), NEW x \in Data, Held(x)
  PROVE  Held(x)'
<1>1. file \in [Name -> Data \cup {NoData}] /\ x # NoData
  BY NoneAssumption DEF IInv, TypeOK
<1>2. PICK n \in Name : file[n] = x
  BY DEF Held
<1>3. n # to
  BY <1>1, <1>2 DEF Exists
<1>4. file'[to] = file[from] /\ \A m \in Name : m \notin {from, to} => file'[m] = file[m]
  BY <1>1 DEF MoveData
<1>. QED  BY <1>2, <1>3, <1>4 DEF Held

LEMMA FilesStep ==
  ASSUME IInv, Next, NEW x \in Data, Held(x), ~Held(x)'
  PROVE  \/ job.pc = "unlink"
         \/ job.pc = "idle"
         \/ job.pc = "revert" /\ job.cmd.cacheOnly
<1>1. ~UNCHANGED file
  BY DEF Held
<1>2. CASE Starts
  BY <1>2 DEF Starts, Set, Copy, Export, Import, Mv, Rm, Clear, Clean, Begin
<1>3. CASE Environment
  BY <1>1, <1>3 DEF Environment, LoadOpen, LoadRead, Crash, UserCreates, UserDeletes, fs
<1>4. CASE Steps
  <2>1. MoveFile \/ Revert \/ Unlink
    BY <1>1, <1>4 DEF Steps, MakeDir, Open, Write, ImportWrite, Replace, ExportWrite, MoveCache, Scan,
                    Empty, fs
  <2>2. CASE Unlink
    BY <2>2 DEF Unlink, Running
  <2>3. CASE MoveFile
    <3>1. job.pc = "file" /\ MoveData(job.cmd.name, job.cmd.to)
      BY <2>3 DEF MoveFile, Running
    <3>2. Exists(job.cmd.name) /\ ~Exists(job.cmd.to)
      BY <3>1 DEF IInv, JobInv
    <3>3. job.cmd.name # job.cmd.to
      BY <3>2
    <3>4. job.cmd.name \in Name /\ job.cmd.to \in Name
      BY <3>1, JobFacts DEF IInv
    <3>. QED  BY <3>1, <3>2, <3>3, <3>4, MoveKeeps
  <2>4. CASE Revert
    <3>1. job.pc = "revert" /\ MoveData(job.cmd.to, job.cmd.name)
      BY <1>1, <2>4 DEF Revert, Running
    <3>2. job.cmd.name \in Name /\ job.cmd.to \in Name
      BY <3>1, JobFacts DEF IInv
    <3>3. ~job.cmd.cacheOnly => ~Exists(job.cmd.name) /\ job.cmd.name # job.cmd.to
      BY <3>1 DEF IInv, JobInv
    <3>. QED  BY <3>1, <3>2, <3>3, MoveKeeps
  <2>. QED  BY <2>1, <2>2, <2>3, <2>4
<1>. QED  BY <1>2, <1>3, <1>4 DEF Next

(* No move, failed move, copy or save loses a data file, whatever commands and
   crashes came before (mv.c, prop.c). *)
THEOREM FilesAreKept == Spec => FilesKept
<1> DEFINE Allowed == \/ job.pc = "unlink"
                      \/ job.pc = "idle"
                      \/ job.pc = "revert" /\ job.cmd.cacheOnly
           Keeps == \A x \in Data : Held(x) /\ ~Held(x)' => Allowed
<1>1. IInv /\ [Next]_vars => [Keeps]_vars
  BY FilesStep
<1>. QED  BY Invariance, <1>1, PTL DEF Spec, FilesKept
-----------------------------------------------------------------------------
(* What each step does to the caches.                                       *)

(* Only cache directories hold files; and the command under way is where    *)
(* its kind may be, at the name it was given or at an orphan.               *)
CacheInv ==
  /\ \A n \in Name, e \in Entry : Has(n, e) => dir[n]
  /\ job.pc \in {"open", "write", "replace"} => dir[job.at]
  /\ job.pc \in Writing /\ job.cmd.op = "set" => job.at = job.cmd.name
  /\ job.pc = "mkdir" /\ job.cmd.op = "set" /\ Guessing(job.cmd) => Exists(job.at)
  /\ job.pc \in {"file", "cache", "revert"} => job.cmd.op = "mv"
  /\ job.pc = "file" => ~dir[job.cmd.name] \/ ~dir[job.cmd.to]
  /\ job.pc = "cache" => dir[job.cmd.name] /\ ~dir[job.cmd.to]
  /\ job.pc = "unlink" => job.cmd.op = "rm" /\ job.at = job.cmd.name
  /\ job.pc = "scan" => job.cmd.op = "clean"
  /\ job.pc = "empty" => \/ job.cmd.op \in {"rm", "clear"} /\ job.at = job.cmd.name
                         \/ job.cmd.op = "clean" /\ ~Exists(job.at)

LEMMA CacheInit == Init => CacheInv
  BY DEF Init, CacheInv, Has, Idle, Writing

(* Between commands only what is said of the directories is left. *)
LEMMA CacheIdle ==
  ASSUME CacheInv, UNCHANGED <<dir, entry>>, job'.pc = "idle"
  PROVE  CacheInv'
  BY DEF CacheInv, Has, Writing

(* A command begins at the name it was given. *)
LEMMA CacheStart ==
  ASSUME CacheInv, Starts
  PROVE  CacheInv'
<1>1. PICK c \in Commands :
        Set(c) \/ Copy(c) \/ Export(c) \/ Import(c) \/ Mv(c) \/ Rm(c) \/ Clear(c) \/ Clean(c)
  BY DEF Starts
<1>2. UNCHANGED <<file, dir, entry>>
  BY <1>1 DEF Set, Copy, Export, Import, Mv, Rm, Clear, Clean, fs
<1>3. ASSUME NEW err, End(err)  PROVE  CacheInv'
  BY <1>2, <1>3, CacheIdle DEF End, Idle
<1>4. ASSUME NEW pc, NEW content, NEW n, Goto(c, pc, content, n)
      PROVE  job'.pc = pc /\ job'.cmd = c /\ job'.at = n
  BY <1>4 DEF Goto
<1>5. CASE Set(c)
  <2> DEFINE guess == IF Exists(c.name) THEN Guess(RowsOf[file[c.name]]) ELSE [d |-> 1, R |-> 0]
             content == Merged(c, Loaded(c.name), guess)
             refused == SetRefused(c, guess)
  <2>1. c.op = "set" /\ (End(refused) \/ (~refused /\ Goto(c, "mkdir", content, c.name)))
    BY <1>5 DEF Set, Begin
  <2>2. ~refused /\ Guessing(c) => Exists(c.name)
    BY DEF SetRefused
  <2> HIDE DEF content, refused
  <2>3. ASSUME ~refused, Goto(c, "mkdir", content, c.name)  PROVE  CacheInv'
    <3>1. job'.pc = "mkdir" /\ job'.cmd = c /\ job'.at = c.name
      BY <1>4, <2>3
    <3>. QED  BY <1>2, <2>1, <2>2, <2>3, <3>1 DEF CacheInv, Has, Exists, Writing
  <2>. QED  BY <1>3, <2>1, <2>3
<1>6. CASE Copy(c) \/ Import(c)
  <2>1. c.op # "set" /\ ((\E err : End(err)) \/ \E content, n : Goto(c, "mkdir", content, n))
    BY <1>6 DEF Copy, Import, Begin
  <2>2. ASSUME NEW content, NEW n, Goto(c, "mkdir", content, n)  PROVE  CacheInv'
    <3>1. job'.pc = "mkdir" /\ job'.cmd = c
      BY <1>4, <2>2
    <3>. QED  BY <1>2, <2>1, <3>1 DEF CacheInv, Has
  <2>. QED  BY <1>3, <2>1, <2>2
<1>7. CASE Export(c)
  <2>1. job'.pc = "export"
    BY <1>4, <1>7 DEF Export
  <2>. QED  BY <1>2, <2>1 DEF CacheInv, Has, Writing
<1>8. CASE Mv(c)
  <2>1. /\ c.op = "mv"
        /\ \/ \E err : End(err)
           \/ Goto(c, "file", NoContent, c.name) /\ (~dir[c.name] \/ ~dir[c.to])
           \/ Goto(c, "cache", NoContent, c.name) /\ dir[c.name] /\ ~dir[c.to]
    BY <1>8 DEF Mv, Begin
  <2>2. ASSUME Goto(c, "file", NoContent, c.name), ~dir[c.name] \/ ~dir[c.to]
        PROVE  CacheInv'
    <3>1. job'.pc = "file" /\ job'.cmd = c
      BY <1>4, <2>2
    <3>. QED  BY <1>2, <2>1, <2>2, <3>1 DEF CacheInv, Has, Writing
  <2>3. ASSUME Goto(c, "cache", NoContent, c.name), dir[c.name], ~dir[c.to]
        PROVE  CacheInv'
    <3>1. job'.pc = "cache" /\ job'.cmd = c
      BY <1>4, <2>3
    <3>. QED  BY <1>2, <2>1, <2>3, <3>1 DEF CacheInv, Has, Writing
  <2>. QED  BY <1>3, <2>1, <2>2, <2>3
<1>9. CASE Rm(c) \/ Clear(c)
  <2>1. \/ \E err : End(err)
        \/ c.op = "rm" /\ Goto(c, "unlink", NoContent, c.name)
        \/ c.op \in {"rm", "clear"} /\ Goto(c, "empty", NoContent, c.name)
    BY <1>9 DEF Rm, Clear, Begin
  <2>2. ASSUME c.op = "rm", Goto(c, "unlink", NoContent, c.name)
        PROVE  CacheInv'
    <3>1. job'.pc = "unlink" /\ job'.cmd = c /\ job'.at = c.name
      BY <1>4, <2>2
    <3>. QED  BY <1>2, <2>2, <3>1 DEF CacheInv, Has, Writing
  <2>3. ASSUME c.op \in {"rm", "clear"}, Goto(c, "empty", NoContent, c.name)
        PROVE  CacheInv'
    <3>1. job'.pc = "empty" /\ job'.cmd = c /\ job'.at = c.name
      BY <1>4, <2>3
    <3>. QED  BY <1>2, <2>3, <3>1 DEF CacheInv, Has, Writing
  <2>. QED  BY <1>3, <2>1, <2>2, <2>3
<1>10. CASE Clean(c)
  <2>1. job'.pc = "scan" /\ job'.cmd = c /\ c.op = "clean"
    BY <1>10 DEF Clean, Begin
  <2>. QED  BY <1>2, <2>1 DEF CacheInv, Has, Writing
<1>. QED  BY <1>1, <1>5, <1>6, <1>7, <1>8, <1>9, <1>10

(* A save, a copy or an import goes on in the directory it made. *)
LEMMA CacheWriting ==
  ASSUME IInv, CacheInv, MakeDir \/ Open \/ Write \/ ImportWrite \/ Replace
  PROVE  CacheInv'
<1>1. job.at \in Name /\ Target(job.cmd.op) \in Entry /\ job.pc # "idle"
  BY JobFacts DEF IInv, MakeDir, Open, Write, ImportWrite, Replace, Running
<1>2. /\ dir \in [Name -> BOOLEAN]
      /\ entry \in [Name -> [Entry -> Inode \cup {NoInode}]]
  BY DEF IInv, TypeOK
<1>3. CASE MakeDir
  <2>1. /\ job.pc = "mkdir" /\ GoOn("open") /\ UNCHANGED entry
        /\ dir' = [dir EXCEPT ![job.at] = TRUE]
    BY <1>3 DEF MakeDir, Running
  <2>2. job'.pc = "open" /\ job'.cmd = job.cmd /\ job'.at = job.at
    BY <1>1, <2>1, GoOnFacts DEF IInv, Steady
  <2>3. dir'[job.at] /\ \A n \in Name : dir[n] => dir'[n]
    BY <1>1, <1>2, <2>1
  <2>. QED  BY <2>1, <2>2, <2>3 DEF CacheInv, Has, Writing
<1>4. CASE Open
  <2>1. /\ job.pc = "open" /\ GoOn("write") /\ UNCHANGED dir
        /\ \E i \in Inode :
             entry' = [entry EXCEPT ![job.at] = [@ EXCEPT ![Target(job.cmd.op)] = i]]
    BY <1>4 DEF Open, Running
  <2>2. job'.pc = "write" /\ job'.cmd = job.cmd /\ job'.at = job.at
    BY <1>1, <2>1, GoOnFacts DEF IInv, Steady
  <2>3. \A n \in Name, e \in Entry : entry'[n][e] = entry[n][e] \/ n = job.at
    BY <1>1, <1>2, <2>1
  <2>4. \A n \in Name, e \in Entry : Has(n, e)' => dir[n]
    BY <2>1, <2>3 DEF CacheInv, Has
  <2>. QED  BY <2>1, <2>2, <2>4 DEF CacheInv, Writing
<1>5. CASE Write
  <2>1. job.pc = "write" /\ GoOn("replace") /\ UNCHANGED <<dir, entry>>
    BY <1>5 DEF Write, Running
  <2>2. job'.pc = "replace" /\ job'.cmd = job.cmd /\ job'.at = job.at
    BY <1>1, <2>1, GoOnFacts DEF IInv, Steady
  <2>. QED  BY <2>1, <2>2 DEF CacheInv, Has, Writing
<1>6. CASE ImportWrite
  BY <1>6, CacheIdle DEF ImportWrite, End, Idle
<1>7. CASE Replace
  <2>1. job.pc = "replace" /\ job'.pc = "idle" /\ UNCHANGED dir
    BY <1>7 DEF Replace, Running, End, Idle
  <2>2. \A n \in Name, e \in Entry : entry'[n][e] = entry[n][e] \/ n = job.at
    BY <1>1, <1>2, <1>7 DEF Replace, Renamed
  <2>3. \A n \in Name, e \in Entry : Has(n, e)' => dir[n]
    BY <2>1, <2>2 DEF CacheInv, Has
  <2>. QED  BY <2>1, <2>3 DEF CacheInv, Writing
<1>. QED  BY <1>3, <1>4, <1>5, <1>6, <1>7

(* A cache that moves leaves no file behind, since there was none where it goes. *)
LEMMA CacheMoving ==
  ASSUME IInv, CacheInv, MoveFile \/ MoveCache \/ Revert
  PROVE  CacheInv'
<1>1. job.cmd.name \in Name /\ job.cmd.to \in Name /\ job.pc # "idle"
  BY JobFacts DEF IInv, MoveFile, MoveCache, Revert, Running
<1>2. /\ dir \in [Name -> BOOLEAN]
      /\ entry \in [Name -> [Entry -> Inode \cup {NoInode}]]
  BY DEF IInv, TypeOK
<1>3. CASE MoveFile
  <2>1. /\ job.pc = "file" /\ UNCHANGED <<dir, entry>>
        /\ (dir[job.cmd.name] /\ GoOn("cache")) \/ End(FALSE)
    BY <1>3 DEF MoveFile, Running
  <2>2. ASSUME dir[job.cmd.name], GoOn("cache")  PROVE  CacheInv'
    <3>1. job'.pc = "cache" /\ job'.cmd = job.cmd
      BY <1>1, <2>2, GoOnFacts DEF IInv, Steady
    <3>. QED  BY <2>1, <2>2, <3>1 DEF CacheInv, Has, Writing
  <2>. QED  BY <2>1, <2>2, CacheIdle DEF End, Idle
<1>4. CASE MoveCache /\ ~root[DirOf[job.cmd.to]]
  <2>1. job.pc = "cache" /\ GoOn("revert") /\ UNCHANGED <<dir, entry>>
    BY <1>4 DEF MoveCache, Running
  <2>2. job'.pc = "revert" /\ job'.cmd = job.cmd
    BY <1>1, <2>1, GoOnFacts DEF IInv, Steady
  <2>. QED  BY <2>1, <2>2 DEF CacheInv, Has, Writing
<1>5. CASE MoveCache /\ root[DirOf[job.cmd.to]]
  <2> DEFINE from == job.cmd.name
             to == job.cmd.to
  <2>1. /\ job.pc = "cache" /\ job'.pc = "idle"
        /\ dir' = [dir EXCEPT ![from] = FALSE, ![to] = TRUE]
        /\ entry' = [entry EXCEPT ![to] = entry[from], ![from] = entry[to]]
    BY <1>5 DEF MoveCache, Running, End, Idle
  <2>2. dir[from] /\ ~dir[to] /\ from # to
    BY <2>1 DEF CacheInv
  <2> HIDE DEF from, to
  <2>3. ASSUME NEW n \in Name, NEW e \in Entry, Has(n, e)'
        PROVE  dir'[n]
    <3>1. CASE n = from
      <4>1. entry'[n][e] = entry[to][e]
        BY <1>1, <1>2, <2>1, <2>2, <3>1 DEF from, to
      <4>. QED  BY <1>1, <2>2, <2>3, <4>1 DEF CacheInv, Has, to
    <3>2. CASE n = to
      BY <1>1, <1>2, <2>1, <3>2 DEF to
    <3>3. CASE n \notin {from, to}
      BY <1>1, <1>2, <2>1, <2>3, <3>3 DEF CacheInv, Has, from, to
    <3>. QED  BY <3>1, <3>2, <3>3
  <2>. QED  BY <2>1, <2>3 DEF CacheInv, Writing
<1>6. CASE Revert
  BY <1>6, CacheIdle DEF Revert, End, Idle
<1>. QED  BY <1>3, <1>4, <1>5, <1>6

(* What is emptied is the cache of the name given, or of no file. *)
LEMMA CacheRemoving ==
  ASSUME IInv, CacheInv, Unlink \/ Scan \/ Empty
  PROVE  CacheInv'
<1>1. job.at \in Name /\ job.pc # "idle"
  <2>1. job.pc \in {"unlink", "scan", "empty"}
    BY Zenon DEF Unlink, Scan, Empty, Running
  <2>. QED  BY <2>1, JobFacts DEF IInv
<1>2. /\ dir \in [Name -> BOOLEAN]
      /\ entry \in [Name -> [Entry -> Inode \cup {NoInode}]]
  BY DEF IInv, TypeOK
<1>3. CASE Unlink
  <2>1. /\ job.pc = "unlink" /\ UNCHANGED <<dir, entry>>
        /\ GoOn("empty") \/ \E err : End(err)
    BY <1>3 DEF Unlink, Running
  <2>2. ASSUME GoOn("empty")  PROVE  CacheInv'
    <3>1. job'.pc = "empty" /\ job'.cmd = job.cmd /\ job'.at = job.at
      BY <1>1, <2>2, GoOnFacts DEF IInv, Steady
    <3>. QED  BY <2>1, <3>1 DEF CacheInv, Has, Writing
  <2>. QED  BY <2>1, <2>2, CacheIdle DEF End, Idle
<1>4. CASE Scan
  <2>1. job.pc = "scan" /\ UNCHANGED <<file, dir, entry>>
    BY <1>4, Zenon DEF Scan, Running, fs
  <2>2. CASE job.todo = {}
    BY <1>4, <2>1, <2>2, CacheIdle DEF Scan, End, Idle
  <2>3. CASE job.todo # {}
    <3>1. job \in Active
      BY <1>1, ActiveFacts DEF IInv, TypeOK, Steady
    <3>2. PICK n \in job.todo :
            job' = [job EXCEPT !.todo = @ \ {n}, !.at = n,
                               !.pc = IF Orphan(n) THEN "empty" ELSE "scan"]
      BY <1>4, <2>3, Zenon DEF Scan
    <3>3. /\ job'.cmd = job.cmd /\ job'.at = n
          /\ job'.pc = IF Orphan(n) THEN "empty" ELSE "scan"
      BY <3>1, <3>2 DEF Active
    <3>. QED  BY <2>1, <3>3 DEF CacheInv, Has, Writing, Orphan, Exists
  <2>. QED  BY <2>2, <2>3
<1>5. CASE Empty
  <2>1. job.pc = "empty" /\ UNCHANGED file
    BY <1>5 DEF Empty, Running
  <2>2. CASE UNCHANGED <<dir, job>>
    <3>1. \/ \E e \in Entry : entry' = [entry EXCEPT ![job.at] = [entry[job.at] EXCEPT ![e] = NoInode]]
          \/ entry' = entry
      BY <1>5 DEF Empty
    <3>2. \A n \in Name, f \in Entry : entry'[n][f] \in {entry[n][f], NoInode}
      <4>1. CASE entry' = entry
        BY <4>1
      <4>2. CASE \E e \in Entry : entry' = [entry EXCEPT ![job.at] = [entry[job.at] EXCEPT ![e] = NoInode]]
        BY <1>1, <1>2, <4>2
      <4>. QED  BY <3>1, <4>1, <4>2
    <3>3. \A n \in Name, f \in Entry : Has(n, f)' => dir[n]
      BY <3>2 DEF CacheInv, Has
    <3>. QED  BY <2>1, <2>2, <3>3 DEF CacheInv, Writing, Exists
  <2>3. CASE /\ \A e \in Entry : ~Has(job.at, e)
             /\ dir' = [dir EXCEPT ![job.at] = FALSE] /\ UNCHANGED entry
             /\ IF job.cmd.op = "clean" THEN GoOn("scan") ELSE End(FALSE)
    <3>1. \A n \in Name : n # job.at => dir'[n] = dir[n]
      BY <1>1, <1>2, <2>3
    <3>2. \A n \in Name, e \in Entry : Has(n, e)' => dir'[n]
      BY <2>3, <3>1 DEF CacheInv, Has
    <3>3. CASE job.cmd.op = "clean"
      <4>1. job'.pc = "scan" /\ job'.cmd = job.cmd
        BY <1>1, <2>3, <3>3, GoOnFacts DEF IInv, Steady
      <4>. QED  BY <3>2, <3>3, <4>1 DEF CacheInv, Writing
    <3>4. CASE job.cmd.op # "clean"
      <4>1. job'.pc = "idle"
        BY <2>3, <3>4 DEF End, Idle
      <4>. QED  BY <3>2, <4>1 DEF CacheInv, Writing
    <3>. QED  BY <3>3, <3>4
  <2>. QED  BY <1>5, <2>2, <2>3 DEF Empty
<1>. QED  BY <1>3, <1>4, <1>5

LEMMA CacheStep ==
  ASSUME IInv, CacheInv, [Next]_vars
  PROVE  CacheInv'
<1>1. CASE UNCHANGED vars
  BY <1>1 DEF vars, fs, CacheInv, Has, Exists
<1>2. CASE Starts
  BY <1>2, CacheStart
<1>3. CASE Steps
  <2>1. CASE ExportWrite
    BY <2>1, CacheIdle DEF ExportWrite, End, Idle
  <2>. QED  BY <1>3, <2>1, CacheWriting, CacheMoving, CacheRemoving DEF Steps
<1>4. CASE Environment
  <2>1. CASE UNCHANGED <<fs, job>>
    BY <2>1 DEF fs, CacheInv, Has, Exists
  <2>2. CASE UNCHANGED <<dir, entry>> /\ job'.pc = "idle"
    BY <2>2, CacheIdle
  <2>. QED  BY <1>4, <2>1, <2>2
            DEF Environment, LoadOpen, LoadRead, Crash, UserDeletes, UserCreates, fs, End, Idle
<1>. QED  BY <1>1, <1>2, <1>3, <1>4 DEF Next

LEMMA CacheInvariance == Spec => [](IInv /\ CacheInv)
<1>1. Init => IInv /\ CacheInv
  BY InitInv, CacheInit
<1>2. IInv /\ CacheInv /\ [Next]_vars => (IInv /\ CacheInv)'
  BY InvStep, CacheStep
<1>. QED  BY <1>1, <1>2, PTL DEF Spec

(* What --auto saves was guessed from a file, and it is a header of that file,
   whatever its rows are (execute_default, guess_properties). *)
THEOREM SavesAHeader == Spec => []GuessesHeader
<1>1. IInv /\ CacheInv => GuessesHeader
  <2> SUFFICES ASSUME IInv, CacheInv, job.pc = "mkdir", job.cmd.op = "set", Guessing(job.cmd)
               PROVE  GuessedHeader(RowsOf[file[job.at]])
    BY DEF GuessesHeader
  <2>1. job.at \in Name /\ Exists(job.at)
    BY JobFacts DEF IInv, CacheInv
  <2>2. RowsOf[file[job.at]] \in Seq(RowCount)
    BY <2>1, RowsAssumption DEF IInv, TypeOK, Exists
  <2>. QED  BY <2>2, GuessIsAHeader
<1>. QED  BY <1>1, CacheInvariance, PTL

(* A step that takes the properties of a name. *)
LEMMA PropsStep ==
  ASSUME IInv, CacheInv, Next, NEW n \in Name, Has(n, "props"), ~Has(n, "props")'
  PROVE  /\ job.pc # "idle"
         /\ \/ job.cmd.op \in {"rm", "clear", "mv"} /\ n = job.cmd.name
            \/ job.cmd.op = "set" /\ n = job.cmd.name /\ Removing(job.cmd)
            \/ job.cmd.op = "clean" /\ ~Exists(n)
<1>1. /\ entry \in [Name -> [Entry -> Inode \cup {NoInode}]] /\ "props" \in Entry
      /\ entry[n]["props"] # NoInode /\ entry'[n]["props"] = NoInode
  BY DEF IInv, TypeOK, Entry, Has
<1>2. Open \/ Replace \/ MoveCache \/ Empty
  <2>1. ~UNCHANGED entry
    BY <1>1
  <2>2. CASE Starts
    BY <2>1, <2>2 DEF Starts, Set, Copy, Export, Import, Mv, Rm, Clear, Clean, fs
  <2>3. CASE Environment
    BY <2>1, <2>3 DEF Environment, LoadOpen, LoadRead, Crash, UserCreates, UserDeletes, fs
  <2>4. CASE Steps
    BY <2>1, <2>4, Zenon
    DEF Steps, MakeDir, Write, ImportWrite, ExportWrite, MoveFile, Revert, Unlink, Scan, fs
  <2>. QED  BY <2>2, <2>3, <2>4 DEF Next
<1>3. job.pc # "idle"
  BY <1>2 DEF Open, Replace, MoveCache, Empty, Running
<1>4. /\ job.at \in Name /\ job.cmd.name \in Name /\ job.cmd.to \in Name
      /\ Target(job.cmd.op) \in Entry
  BY <1>3, JobFacts DEF IInv
<1>5. CASE Open
  <2>1. PICK i \in Inode :
          entry' = [entry EXCEPT ![job.at] = [@ EXCEPT ![Target(job.cmd.op)] = i]]
    BY <1>5 DEF Open
  <2>2. entry'[n]["props"] \in {entry[n]["props"], i}
    BY <1>1, <1>4, <2>1
  <2>. QED  BY <1>1, <2>2, NoneAssumption
<1>6. CASE Replace
  <2>1. /\ job.pc = "replace"
        /\ \/ entry' = Renamed(job.at, Target(job.cmd.op), "props")
           \/ /\ job.cmd.op # "copy" /\ Removing(job.cmd)
              /\ entry' = [entry EXCEPT ![job.at] = [@ EXCEPT !["props"] = NoInode]]
           \/ entry' = entry
    BY <1>6 DEF Replace, Running
  <2>2. /\ job.cmd.op \in {"set", "copy"} /\ Target(job.cmd.op) # "props"
        /\ Has(job.at, Target(job.cmd.op))
    BY <1>3, <2>1, JobFacts DEF IInv, JobInv, Writing
  <2>3. n = job.at
    BY <1>1, <1>4, <2>1 DEF Renamed
  <2>4. CASE entry' = Renamed(job.at, Target(job.cmd.op), "props")
    <3>1. entry'[n]["props"] = entry[n][Target(job.cmd.op)]
      BY <1>1, <1>4, <2>2, <2>3, <2>4 DEF Renamed
    <3>. QED  BY <1>1, <2>2, <2>3, <3>1 DEF Has
  <2>5. CASE job.cmd.op # "copy" /\ Removing(job.cmd)
    BY <1>3, <2>1, <2>2, <2>3, <2>5 DEF CacheInv, Writing
  <2>. QED  BY <1>1, <2>1, <2>4, <2>5
<1>7. CASE MoveCache
  <2>1. /\ job.pc = "cache"
        /\ \/ entry' = [entry EXCEPT ![job.cmd.to] = entry[job.cmd.name],
                                     ![job.cmd.name] = entry[job.cmd.to]]
           \/ entry' = entry
    BY <1>7 DEF MoveCache, Running
  <2>2. job.cmd.op = "mv" /\ ~dir[job.cmd.to]
    BY <2>1 DEF CacheInv
  <2>3. n # job.cmd.to
    BY <1>1, <2>2 DEF CacheInv, Has
  <2>4. n = job.cmd.name
    BY <1>1, <1>4, <2>1, <2>3
  <2>. QED  BY <1>3, <2>2, <2>4
<1>8. CASE Empty
  <2>1. /\ job.pc = "empty"
        /\ (\E e \in Entry : entry' = [entry EXCEPT ![job.at] = [@ EXCEPT ![e] = NoInode]])
           \/ entry' = entry
    BY <1>8 DEF Empty, Running
  <2>2. n = job.at
    BY <1>1, <1>4, <2>1
  <2>. QED  BY <1>3, <2>1, <2>2 DEF CacheInv
<1>. QED  BY <1>2, <1>5, <1>6, <1>7, <1>8

(* Properties go away from the name a command was told to remove, to clear, to
   move or to save nothing for, and from names without a file under --clean;
   from no other, whatever was killed before (prop.c, mv.c, rm.c). *)
THEOREM PropsAreKept == Spec => PropsKept
<1> DEFINE Allowed(n) ==
             /\ job.pc # "idle"
             /\ \/ job.cmd.op \in {"rm", "clear", "mv"} /\ n = job.cmd.name
                \/ job.cmd.op = "set" /\ n = job.cmd.name /\ Removing(job.cmd)
                \/ job.cmd.op = "clean" /\ ~Exists(n)
           Keeps == \A n \in Name : Has(n, "props") /\ ~Has(n, "props")' => Allowed(n)
<1>1. IInv /\ CacheInv /\ [Next]_vars => [Keeps]_vars
  BY PropsStep
<1>. QED  BY CacheInvariance, <1>1, PTL DEF Spec, PropsKept
-----------------------------------------------------------------------------
(* Whose properties a name has, and what is saved of them.                  *)

(* While nobody interferes, the properties of every name are its own, but   *)
(* for those about to be removed and those whose file has moved ahead.      *)
Rightful(n) == Has(n, "props") /\ owner[n] \in Data => file[n] = owner[n]

OwnInv ==
  /\ job.pc = "revert" => dir[job.cmd.name] /\ ~dir[job.cmd.to]
  /\ trusted => \A n \in Name :
       \/ Rightful(n)
       \/ job.pc = "empty" /\ job.cmd.op # "clean" /\ n = job.at
       \/ job.pc \in {"cache", "revert"} /\ n = job.cmd.name /\ file[job.cmd.to] = owner[n]

(* Most steps change nothing of this. *)
LEMMA OwnSame ==
  ASSUME OwnInv, UNCHANGED <<file, entry, owner, trusted>>,
         job.pc \notin {"cache", "revert", "empty"}, job'.pc # "revert"
  PROVE  OwnInv'
  BY DEF OwnInv, Rightful, Has

LEMMA OwnWriting ==
  ASSUME IInv, OwnInv, Open \/ Replace
  PROVE  OwnInv'
<1>1. job.at \in Name /\ Target(job.cmd.op) \in Entry /\ job.pc \in {"open", "replace"}
  <2>1. job.pc \in {"open", "replace"}
    BY DEF Open, Replace, Running
  <2>. QED  BY <2>1, JobFacts DEF IInv
<1>2. /\ entry \in [Name -> [Entry -> Inode \cup {NoInode}]] /\ "props" \in Entry
      /\ owner \in [Name -> Data \cup {NoData, Reverted}]
  BY DEF IInv, TypeOK, Entry
<1>3. UNCHANGED <<file, trusted>>
  BY DEF Open, Replace
<1>4. job'.pc \in {"write", "idle"}
  <2>1. CASE Open
    <3>1. GoOn("write")
      BY <2>1 DEF Open
    <3>. QED  BY <1>1, <3>1, GoOnFacts DEF IInv, Steady
  <2>2. CASE Replace
    BY <2>2 DEF Replace, End, Idle
  <2>. QED  BY <2>1, <2>2
<1>5. ASSUME NEW n \in Name, n # job.at
      PROVE  entry'[n] = entry[n] /\ owner'[n] = owner[n]
  BY <1>1, <1>2, <1>5 DEF Open, Given, Replace, Renamed
<1>6. \/ owner'[job.at] = file[job.at]
      \/ owner' = owner /\ entry'[job.at]["props"] \in {entry[job.at]["props"], NoInode}
  <2>1. CASE Open
    <3>1. PICK j \in Inode :
            entry' = [entry EXCEPT ![job.at] = [entry[job.at] EXCEPT ![Target(job.cmd.op)] = j]]
      BY <2>1 DEF Open
    <3>2. CASE Target(job.cmd.op) = "props"
      <4>1. owner' = [owner EXCEPT ![job.at] = file[job.at]]
        BY <2>1, <3>2 DEF Open, Given
      <4>2. owner'[job.at] = file[job.at]
        BY <1>1, <1>2, <4>1
      <4>. QED  BY <4>2
    <3>3. CASE Target(job.cmd.op) # "props"
      <4>1. owner' = owner
        BY <2>1, <3>3 DEF Open, Given
      <4>. QED  BY <1>1, <1>2, <3>1, <3>3, <4>1
    <3>. QED  BY <3>2, <3>3
  <2>2. CASE Replace
    <3>1. CASE owner' = [owner EXCEPT ![job.at] = file[job.at]]
      <4>1. owner'[job.at] = file[job.at]
        BY <1>1, <1>2, <3>1
      <4>. QED  BY <4>1
    <3>2. CASE owner' = owner
                /\ (\/ entry' = [entry EXCEPT ![job.at] = [entry[job.at] EXCEPT !["props"] = NoInode]]
                    \/ entry' = entry)
      BY <1>1, <1>2, <3>2
    <3>. QED  BY <2>2, <3>1, <3>2 DEF Replace
  <2>. QED  BY <2>1, <2>2
<1>7. ASSUME trusted, NEW n \in Name  PROVE  Rightful(n)'
  <2>1. Rightful(n)
    BY <1>1, <1>7 DEF OwnInv
  <2>. QED  BY <1>3, <1>5, <1>6, <2>1 DEF Rightful, Has
<1>. QED  BY <1>3, <1>4, <1>7 DEF OwnInv

(* The properties wait at the old name for their file to come back or to be followed. *)
LEMMA OwnMoving ==
  ASSUME IInv, CacheInv, OwnInv, MoveFile \/ MoveCache \/ Revert
  PROVE  OwnInv'
<1>1. job.cmd.name \in Name /\ job.cmd.to \in Name /\ job.pc # "idle"
  BY JobFacts DEF IInv, MoveFile, MoveCache, Revert, Running
<1>2. /\ entry \in [Name -> [Entry -> Inode \cup {NoInode}]] /\ "props" \in Entry
      /\ owner \in [Name -> Data \cup {NoData, Reverted}] /\ file \in [Name -> Data \cup {NoData}]
  BY DEF IInv, TypeOK, Entry
<1>3. CASE MoveFile
  <2>1. /\ job.pc = "file" /\ UNCHANGED <<entry, owner, trusted>>
        /\ MoveData(job.cmd.name, job.cmd.to)
        /\ \/ dir[job.cmd.name] /\ GoOn("cache")
           \/ ~dir[job.cmd.name] /\ End(FALSE)
    BY <1>3 DEF MoveFile, Running, ghosts
  <2>2. ~Exists(job.cmd.to) /\ Exists(job.cmd.name) /\ job.cmd.name # job.cmd.to
    BY <2>1 DEF IInv, JobInv
  <2>3. /\ file'[job.cmd.to] = file[job.cmd.name]
        /\ \A n \in Name : n \notin {job.cmd.name, job.cmd.to} => file'[n] = file[n]
    BY <1>1, <1>2, <2>1, <2>2 DEF MoveData
  <2>4. ASSUME trusted, NEW n \in Name
        PROVE  \/ Rightful(n)'
               \/ dir[job.cmd.name] /\ n = job.cmd.name /\ file'[job.cmd.to] = owner'[n]
    <3>1. Rightful(n)
      BY <2>1, <2>4 DEF OwnInv
    <3>2. CASE n = job.cmd.name
      <4>1. entry'[n] = entry[n] /\ owner'[n] = owner[n] /\ (Has(n, "props") => dir[n])
        BY <1>2, <2>1 DEF CacheInv
      <4>. QED  BY <2>3, <3>1, <3>2, <4>1 DEF Rightful, Has
    <3>3. CASE n # job.cmd.name
      <4>1. entry'[n] = entry[n] /\ owner'[n] = owner[n]
        BY <2>1
      <4>. QED  BY <2>2, <2>3, <3>1, <3>3, <4>1, NoneAssumption DEF Rightful, Has, Exists
    <3>. QED  BY <3>2, <3>3
  <2>5. CASE dir[job.cmd.name] /\ GoOn("cache")
    <3>1. job'.pc = "cache" /\ job'.cmd = job.cmd
      BY <1>1, <2>5, GoOnFacts DEF IInv, Steady
    <3>. QED  BY <2>1, <2>4, <3>1 DEF OwnInv
  <2>6. CASE ~dir[job.cmd.name] /\ End(FALSE)
    BY <2>1, <2>4, <2>6 DEF OwnInv, End, Idle
  <2>. QED  BY <2>1, <2>5, <2>6
<1>4. CASE MoveCache /\ ~root[DirOf[job.cmd.to]]
  <2>1. job.pc = "cache" /\ GoOn("revert") /\ UNCHANGED <<file, dir, entry, owner, trusted>>
    BY <1>4 DEF MoveCache, Running
  <2>2. job'.pc = "revert" /\ job'.cmd = job.cmd
    BY <1>1, <2>1, GoOnFacts DEF IInv, Steady
  <2>. QED  BY <2>1, <2>2 DEF CacheInv, OwnInv, Rightful, Has
<1>5. CASE MoveCache /\ root[DirOf[job.cmd.to]]
  <2> DEFINE from == job.cmd.name
             to == job.cmd.to
  <2>1. /\ job.pc = "cache" /\ job'.pc = "idle" /\ UNCHANGED <<file, trusted>>
        /\ entry' = [entry EXCEPT ![to] = entry[from], ![from] = entry[to]]
        /\ owner' = [owner EXCEPT ![to] = IF job.cmd.cacheOnly THEN file[to] ELSE owner[from]]
    BY <1>5 DEF MoveCache, Running, End, Idle
  <2>2. dir[from] /\ ~dir[to] /\ from # to
    BY <2>1 DEF CacheInv
  <2>3. ~job.cmd.cacheOnly => ~Exists(from)
    BY <2>1 DEF IInv, JobInv
  <2>a. ~Has(to, "props")
    BY <1>1, <1>2, <2>2 DEF CacheInv
  <2>4. ASSUME trusted, NEW n \in Name  PROVE  Rightful(n)'
    <3>0. (n = from /\ file[to] = owner[n]) \/ Rightful(n)
      BY <2>1, <2>4 DEF OwnInv
    <3>1. CASE n = from
      <4>1. entry'[n]["props"] = entry[to]["props"]
        BY <1>1, <1>2, <2>1, <2>2, <3>1
      <4>. QED  BY <2>a, <4>1 DEF Rightful, Has
    <3>2. CASE n = to
      <4>1. entry'[n]["props"] = entry[from]["props"]
        BY <1>1, <1>2, <2>1, <2>2, <3>2
      <4>2. owner'[n] = IF job.cmd.cacheOnly THEN file[to] ELSE owner[from]
        BY <1>1, <1>2, <2>1, <3>2
      <4>3. Rightful(from) \/ file[to] = owner[from]
        BY <1>1, <2>1, <2>4 DEF OwnInv
      <4>. QED  BY <2>1, <2>3, <3>2, <4>1, <4>2, <4>3, NoneAssumption DEF Rightful, Has, Exists
    <3>3. CASE n \notin {from, to}
      <4>1. entry'[n] = entry[n] /\ owner'[n] = owner[n]
        BY <1>1, <1>2, <2>1, <3>3
      <4>. QED  BY <2>1, <3>0, <3>3, <4>1 DEF Rightful, Has
    <3>. QED  BY <3>1, <3>2, <3>3
  <2>. QED  BY <2>1, <2>4 DEF OwnInv
<1>6. CASE Revert
  <2>1. /\ job.pc = "revert" /\ job'.pc = "idle" /\ UNCHANGED <<entry, trusted>>
        /\ IF Exists(job.cmd.to) THEN MoveData(job.cmd.to, job.cmd.name) ELSE UNCHANGED file
        /\ owner' = IF job.cmd.cacheOnly /\ Exists(job.cmd.to)
                    THEN [owner EXCEPT ![job.cmd.name] = Reverted] ELSE owner
    BY <1>6 DEF Revert, Running, End, Idle
  <2>2. ~Has(job.cmd.to, "props")
    BY <1>1, <1>2, <2>1 DEF OwnInv, CacheInv
  <2>3. ASSUME trusted', NEW n \in Name  PROVE  Rightful(n)'
    <3>1. trusted
      BY <2>1, <2>3
    <3>2. (~job.cmd.cacheOnly => ~Exists(job.cmd.name)) /\ job.cmd.name # job.cmd.to
      BY <2>1 DEF IInv, JobInv, OwnInv, CacheInv
    <3>3. Rightful(n) \/ (n = job.cmd.name /\ file[job.cmd.to] = owner[n])
      <4>1. job.pc = "revert"
        BY <2>1
      <4>. QED  BY <3>1, <4>1 DEF OwnInv
    <3>4. CASE ~Exists(job.cmd.to)
      <4>1. UNCHANGED <<file, owner>>
        BY <2>1, <3>4
      <4>. QED  BY <2>1, <3>3, <3>4, <4>1, NoneAssumption DEF Rightful, Has, Exists
    <3>5. CASE Exists(job.cmd.to)
      <4>1. /\ file'[job.cmd.name] = file[job.cmd.to]
            /\ n \notin {job.cmd.name, job.cmd.to} => file'[n] = file[n]
        BY <1>1, <1>2, <2>1, <3>2, <3>5 DEF MoveData
      <4>2. CASE n = job.cmd.to
        BY <2>1, <2>2, <4>2 DEF Rightful, Has
      <4>3. CASE n = job.cmd.name
        <5>1. job.cmd.cacheOnly => owner'[n] \notin Data
          BY <1>1, <1>2, <2>1, <3>5, <4>3, NoneAssumption
        <5>2. ~job.cmd.cacheOnly => owner'[n] = owner[n]
          BY <2>1
        <5>. QED  BY <2>1, <3>2, <3>3, <4>1, <4>3, <5>1, <5>2, NoneAssumption DEF Rightful, Has, Exists
      <4>4. CASE n \notin {job.cmd.name, job.cmd.to}
        <5>1. owner'[n] = owner[n]
          BY <1>1, <1>2, <2>1, <4>4
        <5>. QED  BY <2>1, <3>3, <4>1, <4>4, <5>1 DEF Rightful, Has
      <4>. QED  BY <4>2, <4>3, <4>4
    <3>. QED  BY <3>4, <3>5
  <2>. QED  BY <2>1, <2>3 DEF OwnInv
<1>. QED  BY <1>3, <1>4, <1>5, <1>6

(* What loses its file loses its properties next. *)
LEMMA OwnRemoving ==
  ASSUME IInv, CacheInv, OwnInv, Unlink \/ Empty
  PROVE  OwnInv'
<1>1. job.at \in Name /\ job.pc \in {"unlink", "empty"}
  <2>1. job.pc \in {"unlink", "empty"}
    BY DEF Unlink, Empty, Running
  <2>. QED  BY <2>1, JobFacts DEF IInv
<1>2. /\ entry \in [Name -> [Entry -> Inode \cup {NoInode}]] /\ "props" \in Entry
      /\ file \in [Name -> Data \cup {NoData}]
  BY DEF IInv, TypeOK, Entry
<1>3. CASE Unlink
  <2>1. /\ job.pc = "unlink" /\ UNCHANGED <<entry, owner, trusted>>
        /\ file' = [file EXCEPT ![job.at] = NoData]
        /\ IF Exists(job.at) /\ dir[job.at] THEN GoOn("empty") ELSE End(~Exists(job.at))
    BY <1>3 DEF Unlink, Running, ghosts
  <2>2. \A n \in Name : n # job.at => file'[n] = file[n]
    BY <1>1, <1>2, <2>1
  <2>3. file'[job.at] = NoData
    BY <1>1, <1>2, <2>1
  <2>4. ASSUME trusted, NEW n \in Name
        PROVE  Rightful(n)' \/ (n = job.at /\ Exists(job.at) /\ dir[job.at])
    <3>1. Rightful(n)
      BY <2>1, <2>4 DEF OwnInv
    <3>2. entry'[n] = entry[n] /\ owner'[n] = owner[n] /\ (Has(n, "props") => dir[n])
      BY <1>2, <2>1 DEF CacheInv
    <3>. QED  BY <2>2, <2>3, <3>1, <3>2, NoneAssumption DEF Rightful, Has, Exists
  <2>5. CASE Exists(job.at) /\ dir[job.at]
    <3>1. job'.pc = "empty" /\ job'.cmd = job.cmd /\ job'.at = job.at
      BY <1>1, <2>1, <2>5, GoOnFacts DEF IInv, Steady
    <3>. QED  BY <2>1, <2>4, <3>1 DEF OwnInv, CacheInv
  <2>6. CASE ~(Exists(job.at) /\ dir[job.at])
    BY <2>1, <2>4, <2>6 DEF OwnInv, End, Idle
  <2>. QED  BY <2>5, <2>6
<1>4. CASE Empty
  <2>1. job.pc = "empty" /\ UNCHANGED <<file, owner, trusted>>
    BY <1>4 DEF Empty, Running, ghosts
  <2>2. CASE UNCHANGED job
    <3>1. \/ \E e \in Entry : entry' = [entry EXCEPT ![job.at] = [entry[job.at] EXCEPT ![e] = NoInode]]
          \/ entry' = entry
      BY <1>4 DEF Empty
    <3>2. \A n \in Name : entry'[n]["props"] \in {entry[n]["props"], NoInode}
      <4>1. CASE entry' = entry
        BY <4>1
      <4>2. CASE \E e \in Entry : entry' = [entry EXCEPT ![job.at] = [entry[job.at] EXCEPT ![e] = NoInode]]
        BY <1>1, <1>2, <4>2
      <4>. QED  BY <3>1, <4>1, <4>2
    <3>. QED  BY <2>1, <2>2, <3>2 DEF OwnInv, Rightful, Has
  <2>3. CASE /\ \A e \in Entry : ~Has(job.at, e) /\ UNCHANGED entry
             /\ IF job.cmd.op = "clean" THEN GoOn("scan") ELSE End(FALSE)
    <3>1. job'.pc \in {"scan", "idle"}
      <4>1. CASE GoOn("scan")
        BY <1>1, <4>1, GoOnFacts DEF IInv, Steady
      <4>. QED  BY <2>3, <4>1 DEF End, Idle
    <3>. QED  BY <1>2, <2>1, <2>3, <3>1 DEF OwnInv, Rightful, Has
  <2>. QED  BY <1>2, <1>4, <2>2, <2>3 DEF Empty
<1>. QED  BY <1>3, <1>4

LEMMA OwnStep ==
  ASSUME IInv, CacheInv, OwnInv, [Next]_vars
  PROVE  OwnInv'
<1>1. CASE UNCHANGED <<file, dir, entry, job, owner, trusted>>
  BY <1>1 DEF OwnInv, Rightful, Has
<1>2. CASE Starts
  <2>1. PICK c \in Commands :
          Set(c) \/ Copy(c) \/ Export(c) \/ Import(c) \/ Mv(c) \/ Rm(c) \/ Clear(c) \/ Clean(c)
    BY <1>2 DEF Starts
  <2>2. job.pc = "idle" /\ UNCHANGED <<file, entry, owner, trusted>>
    BY <2>1 DEF Set, Copy, Export, Import, Mv, Rm, Clear, Clean, Begin, fs, ghosts
  <2>3. job'.pc # "revert"
    <3>1. CASE Clean(c)
      BY <3>1 DEF Clean
    <3>2. CASE Export(c)
      BY <3>2 DEF Export, Goto
    <3>3. CASE \/ \E err : End(err)
               \/ \E pc, content, n : pc \in Steady \ {"revert"} /\ Goto(c, pc, content, n)
      BY <3>3 DEF Goto, End, Idle
    <3>4. CASE Set(c) \/ Copy(c) \/ Import(c)
      <4>1. (\E err : End(err)) \/ \E content, n : Goto(c, "mkdir", content, n)
        BY <3>4 DEF Set, Copy, Import
      <4>. QED  BY <3>3, <4>1 DEF Steady
    <3>5. CASE Mv(c) \/ Rm(c) \/ Clear(c)
      <4>1. \/ \E err : End(err)
            \/ \E pc \in {"file", "cache", "unlink", "empty"} : Goto(c, pc, NoContent, c.name)
        BY <3>5 DEF Mv, Rm, Clear
      <4>. QED  BY <3>3, <4>1 DEF Steady
    <3>. QED  BY <2>1, <3>1, <3>2, <3>4, <3>5
  <2>. QED  BY <2>2, <2>3, OwnSame
<1>3. CASE Steps
  <2>1. CASE MakeDir \/ Write \/ ImportWrite \/ ExportWrite \/ Scan
    <3>1. /\ job.pc \in {"mkdir", "write", "export", "scan"}
          /\ UNCHANGED <<file, entry, owner, trusted>>
      BY <2>1, Zenon DEF MakeDir, Write, ImportWrite, ExportWrite, Scan, Running, fs, ghosts
    <3>2. job'.pc # "revert"
      <4>1. CASE Scan
        <5>1. CASE job.todo = {}
          BY <4>1, <5>1 DEF Scan, End, Idle
        <5>2. CASE job.todo # {}
          <6>1. job \in Active
            BY <3>1, ActiveFacts DEF IInv, TypeOK, Steady
          <6>. QED  BY <4>1, <5>2, <6>1 DEF Scan, Active
        <5>. QED  BY <5>1, <5>2
      <4>2. CASE ImportWrite \/ ExportWrite
        BY <4>2 DEF ImportWrite, ExportWrite, End, Idle
      <4>3. CASE MakeDir \/ Write
        <5>1. GoOn("open") \/ GoOn("replace")
          BY <4>3 DEF MakeDir, Write
        <5>. QED  BY <3>1, <5>1, GoOnFacts DEF IInv, Steady
      <4>. QED  BY <2>1, <4>1, <4>2, <4>3
    <3>. QED  BY <3>1, <3>2, OwnSame
  <2>. QED  BY <1>3, <2>1, OwnWriting, OwnMoving, OwnRemoving DEF Steps
<1>4. CASE Environment
  <2>1. CASE \E n \in Name : LoadOpen(n)
    BY <2>1, <1>1 DEF LoadOpen, fs, ghosts
  <2>2. CASE LoadRead
    BY <2>2, <1>1 DEF LoadRead, fs, ghosts
  <2>3. CASE Crash \/ \E n \in Name : UserDeletes(n)
    BY <2>3 DEF Crash, UserDeletes, OwnInv, End, Idle
  <2>4. CASE \E n \in Name, x \in Data : UserCreates(n, x)
    <3>1. PICK n \in Name, x \in Data : UserCreates(n, x)
      BY <2>4
    <3>2. /\ job.pc = "idle" /\ ~Exists(n) /\ UNCHANGED <<entry, owner, trusted, job>>
          /\ file' = [file EXCEPT ![n] = x]
      BY <3>1 DEF UserCreates, ghosts
    <3>3. \A m \in Name : m # n => file'[m] = file[m]
      BY <3>2 DEF IInv, TypeOK
    <3>. QED  BY <3>2, <3>3, NoneAssumption DEF OwnInv, Rightful, Has, Exists
  <2>. QED  BY <1>4, <2>1, <2>2, <2>3, <2>4 DEF Environment
<1>. QED  BY <1>1, <1>2, <1>3, <1>4 DEF Next, vars, fs, ghosts

(* A name has its own properties between commands that nothing has disturbed: no
   move, copy, removal or cleaning gives them to another file, and no failed move but
   one: `mv --cache` that moves back a file it has not moved (mv.c:103), after which
   the name has another's file (mv.c, rm.c, prop.c). *)
THEOREM PropsAreOwn == Spec => []OwnProperties
<1>1. Init => OwnInv
  BY DEF Init, OwnInv, Rightful, Has, Idle, Entry
<1>2. IInv /\ CacheInv /\ OwnInv /\ [Next]_vars => OwnInv'
  BY OwnStep
<1>3. OwnInv => OwnProperties
  BY DEF OwnInv, OwnProperties, Rightful
<1>. QED  BY CacheInvariance, <1>1, <1>2, <1>3, PTL DEF Spec

-----------------------------------------------------------------------------
(* What a save keeps.                                                       *)

(* content is what the options c make of the values found. *)
KeepsOthers(c, found, content) ==
  /\ c.d = ArgNone => content.d = found.d
  /\ c.R = ArgNone => content.R = found.R
  /\ c.d = ArgRemove => content.d = ArgNone
  /\ c.R = ArgRemove => content.R = ArgNone

(* Until it is in place, what is to be saved agrees with what is there.     *)
MergeInv ==
  job.pc \in Writing /\ job.cmd.op = "set" =>
    /\ KeepsOthers(job.cmd, Loaded(job.at), job.content)
    /\ job.pc = "replace" /\ Printed(job.content) =>
         disk[entry[job.at]["props.~zsv"]] = job.content

LEMMA MergedKeeps ==
  ASSUME NEW c, NEW found, NEW guess
  PROVE  KeepsOthers(c, found, Merged(c, found, guess))
<1>1. \A option, saved : /\ option = ArgNone => Kept(option, saved) = saved
                         /\ option = ArgRemove => Kept(option, saved) = ArgNone
  BY DEF Kept, ArgNone, ArgRemove
<1> DEFINE dOption == IF c.d = ArgAuto THEN guess.d ELSE c.d
           ROption == IF c.R = ArgAuto THEN guess.R ELSE c.R
<1>2. /\ Merged(c, found, guess).d = Kept(dOption, found.d)
      /\ Merged(c, found, guess).R = Kept(ROption, found.R)
  BY DEF Merged, Whole
<1>3. /\ c.d \in {ArgNone, ArgRemove} => dOption = c.d
      /\ c.R \in {ArgNone, ArgRemove} => ROption = c.R
  BY DEF ArgNone, ArgAuto, ArgRemove
<1> HIDE DEF dOption, ROption
<1>. QED  BY <1>1, <1>2, <1>3 DEF KeepsOthers

LEMMA MergeStart ==
  ASSUME Starts
  PROVE  MergeInv'
<1>1. PICK c \in Commands :
        Set(c) \/ Copy(c) \/ Export(c) \/ Import(c) \/ Mv(c) \/ Rm(c) \/ Clear(c) \/ Clean(c)
  BY DEF Starts
<1>2. ASSUME NEW err, End(err)  PROVE  MergeInv'
  BY <1>2 DEF End, Idle, MergeInv, Writing
<1>3. ASSUME NEW pc, NEW content, NEW n, Goto(c, pc, content, n)
      PROVE  job'.pc = pc /\ job'.cmd = c /\ job'.content = content /\ job'.at = n
  BY <1>3 DEF Goto
<1>4. CASE Set(c)
  <2> DEFINE guess == IF Exists(c.name) THEN Guess(RowsOf[file[c.name]]) ELSE [d |-> 1, R |-> 0]
             content == Merged(c, Loaded(c.name), guess)
             refused == SetRefused(c, guess)
  <2>1. /\ UNCHANGED <<entry, disk>>
        /\ End(refused) \/ Goto(c, "mkdir", content, c.name)
    BY <1>4 DEF Set, Begin, fs
  <2>2. KeepsOthers(c, Loaded(c.name), content)
    BY MergedKeeps
  <2> HIDE DEF content, refused
  <2>3. ASSUME Goto(c, "mkdir", content, c.name)  PROVE  MergeInv'
    <3>1. job'.pc = "mkdir" /\ job'.cmd = c /\ job'.content = content /\ job'.at = c.name
      BY <1>3, <2>3
    <3>2. Loaded(c.name)' = Loaded(c.name)
      BY <2>1 DEF Loaded, Has, Props
    <3>. QED  BY <2>2, <3>1, <3>2 DEF MergeInv
  <2>. QED  BY <1>2, <2>1, <2>3
<1>5. CASE ~Set(c) /\ c.op # "set"
  <2>1. CASE Clean(c)
    BY <2>1 DEF Clean, MergeInv, Writing
  <2>2. CASE Export(c)
    <3>1. job'.pc = "export"
      BY <1>3, <2>2 DEF Export
    <3>. QED  BY <3>1 DEF MergeInv, Writing
  <2>3. CASE Copy(c) \/ Import(c) \/ Mv(c) \/ Rm(c) \/ Clear(c)
    <3>1. (\E err : End(err)) \/ (\E pc, content, n : Goto(c, pc, content, n))
      BY <2>3 DEF Copy, Import, Mv, Rm, Clear
    <3>2. ASSUME NEW pc, NEW content, NEW n, Goto(c, pc, content, n)  PROVE  MergeInv'
      <4>1. job'.cmd = c
        BY <1>3, <3>2
      <4>. QED  BY <1>5, <4>1 DEF MergeInv
    <3>. QED  BY <1>2, <3>1, <3>2
  <2>. QED  BY <1>1, <1>5, <2>1, <2>2, <2>3
<1>6. Set(c) \/ c.op # "set"
  BY <1>1 DEF Copy, Export, Import, Mv, Rm, Clear, Clean, Begin
<1>. QED  BY <1>4, <1>5, <1>6

(* The file that is written is not the one that is found. *)
LEMMA MergeWriting ==
  ASSUME IInv, MergeInv, job.cmd.op = "set", MakeDir \/ Open \/ Write
  PROVE  MergeInv'
<1>1. job.pc \in {"mkdir", "open", "write"}
  BY DEF MakeDir, Open, Write, Running
<1>2. KeepsOthers(job.cmd, Loaded(job.at), job.content)
  BY <1>1 DEF MergeInv, Writing
<1>3. job.at \in Name /\ Target(job.cmd.op) = "props.~zsv"
  BY <1>1, JobFacts DEF IInv
<1>4. /\ entry \in [Name -> [Entry -> Inode \cup {NoInode}]]
      /\ "props" \in Entry /\ "props.~zsv" \in Entry /\ disk \in [Inode -> Content]
  BY DEF IInv, TypeOK, Entry
<1> DEFINE n == job.at
           found == entry[n]["props"]
<1>5. ASSUME GoOn("open") \/ GoOn("write") \/ GoOn("replace")
      PROVE  job'.cmd = job.cmd /\ job'.content = job.content /\ job'.at = n
  BY <1>1, <1>5, GoOnFacts DEF IInv, Steady
<1>6. ASSUME job'.at = job.at, entry'[job.at]["props"] = found,
             found # NoInode => disk'[found] = disk[found]
      PROVE  Loaded(n)' = Loaded(n)
  BY <1>6 DEF Loaded, Has, Props
<1>7. CASE MakeDir
  <2>1. GoOn("open") /\ UNCHANGED <<entry, disk>>
    BY <1>7 DEF MakeDir
  <2>2. Loaded(n)' = Loaded(n)
    BY <1>5, <1>6, <2>1
  <2>3. job'.pc = "open"
    BY <1>1, <2>1, GoOnFacts DEF IInv, Steady
  <2>. QED  BY <1>2, <1>5, <2>1, <2>2, <2>3 DEF MergeInv
<1>8. CASE Open
  <2>1. PICK j \in Inode :
          /\ Opened(n, "props.~zsv", j)
          /\ entry' = [entry EXCEPT ![n] = [entry[n] EXCEPT !["props.~zsv"] = j]]
          /\ disk' = [disk EXCEPT ![j] = Torn(job.cmd.op)]
    BY <1>3, <1>8 DEF Open
  <2>2. GoOn("write")
    BY <1>8 DEF Open
  <2>3. found # NoInode => found # j
    <3>1. CASE Has(n, "props.~zsv")
      BY <1>3, <1>4, <2>1, <3>1 DEF IInv, InodesApart, Opened, Has
    <3>2. CASE ~Has(n, "props.~zsv")
      BY <1>3, <1>4, <2>1, <3>2 DEF Opened, Used
    <3>. QED  BY <3>1, <3>2
  <2>4. found # NoInode => found \in Inode
    BY <1>3, <1>4
  <2>5. entry'[job.at]["props"] = found
    BY <1>3, <1>4, <2>1
  <2>6. Loaded(n)' = Loaded(n)
    BY <1>4, <1>5, <1>6, <2>1, <2>2, <2>3, <2>4, <2>5
  <2>7. job'.pc = "write"
    BY <1>1, <2>2, GoOnFacts DEF IInv, Steady
  <2>. QED  BY <1>2, <1>5, <2>2, <2>6, <2>7 DEF MergeInv
<1>9. CASE Write
  <2> DEFINE j == entry[n]["props.~zsv"]
  <2>1. /\ job.pc = "write" /\ GoOn("replace") /\ UNCHANGED entry
        /\ \/ ~Printed(job.content) /\ UNCHANGED disk
           \/ disk' = [disk EXCEPT ![j] = job.content]
    BY <1>3, <1>9 DEF Write, Written, Running
  <2>2. j \in Inode
    BY <1>3, <1>4, <2>1 DEF IInv, JobInv, Has
  <2>3. found # NoInode => found \in Inode /\ found # j
    BY <1>3, <1>4 DEF IInv, InodesApart, Has
  <2>4. Loaded(n)' = Loaded(n)
    BY <1>4, <1>5, <1>6, <2>1, <2>3
  <2>5. Printed(job.content) => disk'[j] = job.content
    BY <1>4, <2>1, <2>2
  <2>6. job'.pc = "replace"
    BY <1>1, <2>1, GoOnFacts DEF IInv, Steady
  <2> HIDE DEF j, n, found
  <2>7. entry'[n]["props.~zsv"] = j
    BY <2>1 DEF j
  <2>. QED  BY <1>2, <1>5, <2>1, <2>4, <2>5, <2>6, <2>7 DEF MergeInv, n
<1>. QED  BY <1>7, <1>8, <1>9

LEMMA MergeStep ==
  ASSUME IInv, MergeInv, [Next]_vars
  PROVE  MergeInv'
<1>1. CASE UNCHANGED <<entry, disk, job>>
  BY <1>1 DEF MergeInv, Loaded, Has, Props
<1>2. ASSUME job'.pc \notin Writing  PROVE  MergeInv'
  BY <1>2 DEF MergeInv
<1>3. CASE Steps
  <2>1. job.pc # "idle"
    BY <1>3, Zenon DEF Steps, MakeDir, Open, Write, Replace, ImportWrite, ExportWrite, MoveFile,
                MoveCache, Revert, Unlink, Scan, Empty, Running
  <2>2. ASSUME NEW pc \in Steady, GoOn(pc)  PROVE  job'.pc = pc /\ job'.cmd = job.cmd
    BY <2>1, <2>2, GoOnFacts DEF IInv
  <2>3. CASE MakeDir \/ Open \/ Write
    <3>1. job'.cmd = job.cmd
      <4>1. GoOn("open") \/ GoOn("write") \/ GoOn("replace")
        BY <2>3 DEF MakeDir, Open, Write
      <4>. QED  BY <2>2, <4>1 DEF Steady
    <3>. QED  BY <2>3, <3>1, MergeWriting DEF MergeInv
  <2>4. CASE Replace \/ ImportWrite \/ ExportWrite \/ Revert
    BY <1>2, <2>4 DEF Replace, ImportWrite, ExportWrite, Revert, End, Idle, Writing
  <2>5. CASE MoveFile \/ MoveCache \/ Unlink
    <3>1. GoOn("cache") \/ GoOn("revert") \/ GoOn("empty") \/ \E err : End(err)
      BY <2>5 DEF MoveFile, MoveCache, Unlink
    <3>2. CASE \E err : End(err)
      BY <1>2, <3>2 DEF End, Idle, Writing
    <3>3. CASE GoOn("cache") \/ GoOn("revert") \/ GoOn("empty")
      BY <1>2, <2>2, <3>3 DEF Steady, Writing
    <3>. QED  BY <3>1, <3>2, <3>3
  <2>6. CASE Scan
    <3>1. CASE job.todo = {}
      BY <1>2, <2>6, <3>1 DEF Scan, End, Idle, Writing
    <3>2. CASE job.todo # {}
      <4>1. job \in Active
        BY <2>1, ActiveFacts DEF IInv, TypeOK, Steady
      <4>2. job'.pc \in {"empty", "scan"}
        BY <2>6, <3>2, <4>1 DEF Scan, Active
      <4>. QED  BY <1>2, <4>2 DEF Writing
    <3>. QED  BY <3>1, <3>2
  <2>7. CASE Empty
    <3>1. job.pc = "empty" /\ (UNCHANGED job \/ GoOn("scan") \/ End(FALSE))
      BY <2>7 DEF Empty, Running
    <3>2. CASE GoOn("scan")
      BY <1>2, <2>2, <3>2 DEF Steady, Writing
    <3>. QED  BY <1>2, <3>1, <3>2 DEF End, Idle, Writing
  <2>. QED  BY <1>3, <2>3, <2>4, <2>5, <2>6, <2>7 DEF Steps
<1>4. CASE Environment
  <2>1. CASE UNCHANGED <<fs, job>>
    BY <1>1, <2>1 DEF fs
  <2>2. CASE UNCHANGED <<entry, disk, job>>
    BY <1>1, <2>2
  <2>3. CASE Crash
    BY <1>2, <2>3 DEF Crash, End, Idle, Writing
  <2>. QED  BY <1>4, <2>1, <2>2, <2>3 DEF Environment, LoadOpen, LoadRead, UserDeletes, UserCreates
<1>5. CASE UNCHANGED vars
  BY <1>1, <1>5 DEF vars, fs
<1>. QED  BY <1>3, <1>4, <1>5, MergeStart DEF Next

(* The step that puts properties in place. *)
LEMMA SavedStep ==
  ASSUME IInv, MergeInv, Next, NEW n \in Name, Saved(n)
  PROVE  KeepsOthers(job.cmd, Loaded(n), Loaded(n)')
<1>1. /\ job.pc = "replace" /\ job.cmd.op = "set" /\ job.at = n
      /\ job'.pc = "idle" /\ ~job'.err
  BY DEF Saved
<1>2. Replace
  <2>1. ~Starts
    BY <1>1 DEF Starts, Set, Copy, Export, Import, Mv, Rm, Clear, Clean, Begin
  <2>2. ~Environment
    BY <1>1 DEF Environment, LoadOpen, LoadRead, Crash, UserCreates, UserDeletes, End, Idle
  <2>3. Steps => Replace
    BY <1>1 DEF Steps, MakeDir, Open, Write, ImportWrite, ExportWrite, MoveFile, MoveCache, Revert,
                Unlink, Scan, Empty, Running
  <2>. QED  BY <2>1, <2>2, <2>3 DEF Next
<1>3. /\ KeepsOthers(job.cmd, Loaded(n), job.content)
      /\ Printed(job.content) => disk[entry[n]["props.~zsv"]] = job.content
  BY <1>1 DEF MergeInv, Writing
<1>4. /\ entry \in [Name -> [Entry -> Inode \cup {NoInode}]]
      /\ "props" \in Entry /\ "props.~zsv" \in Entry /\ Target(job.cmd.op) = "props.~zsv"
      /\ Has(n, "props.~zsv") /\ UNCHANGED disk
  BY <1>1, <1>2, JobFacts DEF IInv, TypeOK, JobInv, Entry, Replace
<1>5. CASE Printed(job.content)
  <2>1. entry' = Renamed(n, "props.~zsv", "props")
    BY <1>1, <1>2, <1>4, <1>5 DEF Replace
  <2>2. entry'[n]["props"] = entry[n]["props.~zsv"]
    BY <1>4, <2>1 DEF Renamed
  <2>3. Loaded(n)' = job.content
    BY <1>3, <1>4, <1>5, <2>2 DEF Loaded, Has, Props
  <2>. QED  BY <1>3, <2>3
<1>6. CASE ~Printed(job.content)
  <2>1. job.content.d = ArgNone /\ job.content.R = ArgNone
    BY <1>6 DEF Printed
  <2>2. CASE Removing(job.cmd)
    <3>1. entry' = [entry EXCEPT ![n] = [entry[n] EXCEPT !["props"] = NoInode]]
      BY <1>1, <1>2, <1>6, <2>2 DEF Replace
    <3>2. entry'[n]["props"] = NoInode
      BY <1>4, <3>1
    <3>3. Loaded(n)'.d = ArgNone /\ Loaded(n)'.R = ArgNone
      BY <3>2 DEF Loaded, Has, NoContent, Whole
    <3>. QED  BY <1>3, <2>1, <3>3 DEF KeepsOthers
  <2>3. CASE ~Removing(job.cmd)
    <3>1. entry' = entry
      BY <1>1, <1>2, <1>6, <2>3 DEF Replace
    <3>2. Loaded(n)' = Loaded(n)
      BY <1>4, <3>1 DEF Loaded, Has, Props
    <3>. QED  BY <2>3, <3>2 DEF KeepsOthers, Removing
  <2>. QED  BY <2>2, <2>3
<1>. QED  BY <1>5, <1>6

(* A value that a command does not name is what it was, and one it removes is gone,
   whatever was read, written or killed on the way (merge_and_save_properties). *)
THEOREM MergesProps == Spec => MergeKeeps
<1> DEFINE Merges == \A n \in Name :
             Saved(n) =>
               LET old == Loaded(n)
                   new == Loaded(n)'
               IN  /\ job.cmd.d = ArgNone => new.d = old.d
                   /\ job.cmd.R = ArgNone => new.R = old.R
                   /\ job.cmd.d = ArgRemove => new.d = ArgNone
                   /\ job.cmd.R = ArgRemove => new.R = ArgNone
<1>1. Init => MergeInv
  BY DEF Init, MergeInv, Idle, Writing
<1>2. IInv /\ MergeInv /\ [Next]_vars => MergeInv'
  BY MergeStep
<1>3. IInv /\ MergeInv /\ [Next]_vars => [Merges]_vars
  BY SavedStep DEF KeepsOthers
<1>. QED  BY Invariance, <1>1, <1>2, <1>3, PTL DEF Spec, MergeKeeps
=============================================================================
