--------------------------- MODULE WriteBatchProofs ---------------------------
(***************************************************************************)
(* Proofs about WriteBatch, for any files, links, spellings and number of  *)
(* entries.                                                                *)
(*                                                                         *)
(* What is on the disk comes from the entries that are reported as applied *)
(* or left a piece behind (Sources), an applied write goes only when       *)
(* another entry writes to the same file (StillThere), and old lines only  *)
(* by a replacement (OldKept).  When every path is absolute, passing the   *)
(* check up front means that no two entries had the same key on the disk   *)
(* as it was (Distinct): a file that was there has one key, and one that   *)
(* was not goes by its spelling.  A hash edit needs a file that was there  *)
(* (OldLines).                                                             *)
(***************************************************************************)
EXTENDS WriteBatch, SequenceTheorems, TLAPS

\* The stages of a call.
Stages ==
    /\ tasks \subseteq HashEntries
    /\ \A i \in tasks : report[i] = "none"
    /\ phase = "check" =>
         at = 1 /\ tasks = {} /\ disk = before /\ \A i \in DOMAIN files : report[i] = "none"
    /\ phase \in {"check", "direct", "batch"} => \A i \in HashEntries : report[i] = "none"
    /\ phase = "batch" => at > Len(files)
    /\ phase \in {"hash", "ok"} => \A i \in DOMAIN files : report[i] # "none" \/ i \in tasks
    /\ phase = "ok" => tasks = {}
    /\ phase = "error" => \A i \in DOMAIN files : report[i] # "applied"

Untouched ==
    /\ phase = "error" => disk = before
    /\ DirectEntries = {} /\ (\A i \in DOMAIN files : report[i] # "applied")
       => disk = before

WasThere(f) == before[Links[f]] # Absent

\* The mark k in file f is entry i's: its write, in the file it names or copied
\* from there by a hash edit of a link to it, or the piece that a failed write
\* in place left.
IsOf(k, i, f) ==
    /\ \/ k = i /\ report[i] = "applied" /\ (files[i].mode = "hash" => WasThere(f))
       \/ k = -i /\ report[i] = "failed" /\ files[i].mode # "hash"
    /\ Links[Target(i)] = Links[f]
    /\ Target(i) = f \/ WasThere(f)

Sources == \A f \in Files : \A k \in disk[f] \ {0} : \E i \in DOMAIN files : IsOf(k, i, f)

OldLines == \A f \in Files : 0 \in disk[f] => WasThere(f)

Replaced(f) == \E i \in DOMAIN files : /\ files[i].mode = "replace" /\ Target(i) = f
                                      /\ report[i] = "applied"
OldKept == \A f \in Files : 0 \in before[f] \ disk[f] => Replaced(f)

Alone(i) == \A j \in DOMAIN files : ~SameFile(i, j)
StillThere == \A i \in DOMAIN files : report[i] = "applied" /\ Alone(i) => i \in disk[Target(i)]

Absolute == \A i \in DOMAIN files : files[i].path[1] # NoRoot
KeyBefore(i) == LET f == Place(files[i].path)
                IN IF WasThere(f) THEN Links[f] ELSE files[i].path
Distinct ==
    Absolute /\ phase \notin {"check", "error"} =>
      \A i, j \in DOMAIN files : KeyBefore(i) = KeyBefore(j) => i = j

BatchIInv == /\ TypeOK /\ Stages /\ Untouched /\ Sources /\ OldLines /\ OldKept
             /\ StillThere /\ Distinct

-----------------------------------------------------------------------------

LEMMA FilesBasics ==
  ASSUME TypeOK
  PROVE  /\ Len(files) \in Nat /\ Len(files) <= MaxEntries /\ DOMAIN files = 1 .. Len(files)
         /\ MaxEntries \in Nat
         /\ \A i \in DOMAIN files : /\ i \in Nat /\ i # 0 /\ i \in 1 .. MaxEntries
                                    /\ files[i].path \in Paths /\ files[i].fault \in {"none", "shape", "scope"}
  <1>1. Len(files) \in Nat /\ DOMAIN files = 1 .. Len(files) /\ \A i \in DOMAIN files : files[i] \in Entries
    BY LenProperties DEF TypeOK
  <1>2. Len(files) <= MaxEntries /\ MaxEntries \in Nat
    BY <1>1, NamesAssumption DEF TypeOK
  <1>3. \A i \in DOMAIN files : i \in Nat /\ i # 0 /\ i \in 1 .. MaxEntries
    BY <1>1, <1>2
  <1> QED
    BY <1>1, <1>2, <1>3 DEF Entries

LEMMA TargetIsFile ==
  ASSUME TypeOK, NEW i \in DOMAIN files
  PROVE  /\ Target(i) \in Files /\ Place(InCwd(files[i].path)) \in Files
         /\ Links[Target(i)] \in Files
         /\ files[i].path[1] # NoRoot =>
              Target(i) = Place(files[i].path) /\ InCwd(files[i].path) = files[i].path
         /\ ~Linked(files[i].path) /\ files[i].path[1] # NoRoot =>
              Place(files[i].path) = files[i].path
  <1>1. files[i].path \in (DirNames \union {NoRoot}) \X Names
    BY FilesBasics, NamesAssumption
  <1>2. PICK d \in DirNames \union {NoRoot}, n \in Names : files[i].path = <<d, n>>
    BY <1>1
  <1>3. Cwd \in DirNames /\ root \in DirNames \union {NoRoot}
    BY NamesAssumption DEF TypeOK
  <1>4. \A e \in DirNames : Place(<<e, n>>) \in Files
    BY <1>2, NamesAssumption DEF Place, Files, Dirs
  <1>5. Target(i) \in Files /\ Place(InCwd(files[i].path)) \in Files
    BY <1>2, <1>3, <1>4 DEF Target, Resolve, InCwd
  <1>6. ~Linked(files[i].path) => Place(files[i].path) = files[i].path
    BY <1>2 DEF Linked, Place
  <1> QED
    BY <1>5, <1>6, NamesAssumption DEF Target, Resolve, InCwd

LEMMA BatchInit == Init => BatchIInv
  <1> SUFFICES ASSUME Init PROVE BatchIInv
    OBVIOUS
  <1> USE DEF Init
  <1>1. files \in Seq(Entries) /\ Len(files) \in 1 .. MaxEntries /\ DOMAIN files = 1 .. Len(files)
    <2>1. PICK n \in 1 .. MaxEntries : files \in [1 .. n -> Entries]
      OBVIOUS
    <2>2. n \in Nat
      BY <2>1, NamesAssumption
    <2> QED
      BY <2>1, <2>2, SeqDef, LenProperties
  <1>2. /\ before \in [Files -> {{0}, Absent}] /\ disk = before
        /\ disk \in [Files -> SUBSET (-MaxEntries .. MaxEntries)]
    BY NamesAssumption DEF Absent
  <1>3. \A i \in DOMAIN files : i \in Nat /\ ~(i < 1)
    BY <1>1
  <1>4. TypeOK
    <2>1. 1 \in 1 .. MaxEntries + 1
      BY NamesAssumption
    <2> QED
      BY <1>1, <1>2, <1>3, <2>1 DEF TypeOK
  <1>5. Stages /\ Untouched /\ StillThere /\ Distinct
    BY DEF Stages, HashEntries, Untouched, StillThere, Distinct
  <1>6. Sources /\ OldLines /\ OldKept
    <2>1. \A f \in Files : disk[f] \ {0} = {} /\ (0 \in disk[f] => f \in MayExist)
      BY <1>2 DEF Absent
    <2>2. \A f \in MayExist : Links[f] = f
      BY NamesAssumption
    <2> QED
      BY <1>2, <2>1, <2>2 DEF Sources, OldLines, OldKept, WasThere, Absent
  <1> QED
    BY <1>4, <1>5, <1>6 DEF BatchIInv

-----------------------------------------------------------------------------
(* Every step reports, or writes for one entry and reports on it.          *)

\* A step that writes nothing.
PlainStep ==
    /\ disk' = disk
    /\ \A i \in DOMAIN files : /\ report'[i] = "applied" <=> report[i] = "applied"
                               /\ report[i] # "none" => report'[i] = report[i]

\* Entry i's write is made: on what its file holds, or what the link leads to.
WriteStep(i) ==
    /\ i \in DOMAIN files /\ report[i] = "none" /\ report' = [report EXCEPT ![i] = "applied"]
    /\ i \in DirectEntries => files[i].mode # "hash"
    /\ \E c \in SUBSET (-MaxEntries .. MaxEntries) :
         /\ disk' = [disk EXCEPT ![Target(i)] = c] /\ i \in c
         /\ 0 \in disk[Target(i)] \ c => files[i].mode = "replace"
         /\ \/ files[i].mode # "hash" /\ c \subseteq disk[Target(i)] \union {i}
            \/ /\ 0 \in disk[Links[Target(i)]]
               /\ c \subseteq disk[Links[Target(i)]] \union {i}

\* A piece of entry i's write is left behind.
PieceStep(i) ==
    /\ i \in DirectEntries /\ files[i].mode # "hash" /\ report[i] = "none"
    /\ report' = [report EXCEPT ![i] = "failed"]
    /\ disk' = [disk EXCEPT ![Target(i)] = @ \union {-i}]

LEMMA StepKinds ==
  ASSUME BatchIInv, Next
  PROVE  /\ UNCHANGED <<root, files, before>>
         /\ PlainStep \/ (\E i : WriteStep(i)) \/ (\E i : PieceStep(i))
  <1> USE DEF BatchIInv, TypeOK, Stages, PlainStep
  <1>0. \A i \in DOMAIN files : i \in -MaxEntries .. MaxEntries
    <2>1. MaxEntries \in Nat /\ \A i \in DOMAIN files : i \in 1 .. MaxEntries
      BY FilesBasics
    <2> QED
      BY <2>1
  <1>1. CASE Check
    BY <1>1 DEF Check, call
  <1>2. CASE Direct
    <2>1. at \in DirectEntries /\ at \in DOMAIN files /\ report[at] = "none"
      <3>1. at \in DOMAIN files /\ at \notin tasks
        BY <1>2 DEF Direct, DirectEntries
      <3>2. at \in Nat /\ ~(at < at)
        BY <3>1, FilesBasics
      <3> QED
        BY <1>2, <3>1, <3>2 DEF Direct
    <2>2. files[at].fault = "none" => files[at].mode # "hash"
      BY <2>1 DEF DirectEntries, HashEntries
    <2>3. CASE files[at].fault = "none" /\ Writable(at) /\ Reported(at, "applied")
               /\ disk' = [disk EXCEPT ![Target(at)] = Written(at)]
      <3>1. Target(at) \in Files /\ at \in -MaxEntries .. MaxEntries
        BY <1>0, <2>1, TargetIsFile
      <3>2. at \in Written(at) /\ Written(at) \subseteq disk[Target(at)] \union {at}
        BY DEF Written
      <3>3. Written(at) \in SUBSET (-MaxEntries .. MaxEntries)
        BY <3>1, <3>2
      <3>4. 0 \in disk[Target(at)] \ Written(at) => files[at].mode = "replace"
        <4>1. files[at] \in Entries
          BY <2>1
        <4>2. files[at].mode \in Modes
          BY <4>1 DEF Entries
        <4>3. files[at].mode = "create" => disk[Target(at)] = {}
          BY <2>3 DEF Writable, IsAbsent, Absent
        <4> QED
          BY <2>2, <2>3, <4>2, <4>3 DEF Written, Modes
      <3>5. WriteStep(at)
        BY <2>1, <2>2, <2>3, <3>2, <3>3, <3>4 DEF WriteStep, Reported
      <3> QED
        BY <1>2, <3>5 DEF Direct, call
    <2>4. CASE UNCHANGED disk /\ Reported(at, "failed")
      BY <1>2, <2>1, <2>4 DEF Direct, Reported, call
    <2>5. CASE files[at].fault = "none" /\ PieceWritten(at) /\ Reported(at, "failed")
      <3>1. PieceStep(at)
        BY <2>1, <2>2, <2>5 DEF PieceStep, PieceWritten, Reported
      <3> QED
        BY <1>2, <3>1 DEF Direct, call
    <2> QED
      BY <1>2, <2>3, <2>4, <2>5 DEF Direct, NothingWritten
  <1>3. CASE SetAside
    BY <1>3 DEF SetAside, call
  <1>4. CASE LoopEnds
    BY <1>4 DEF LoopEnds, call
  <1>5. CASE BatchRefused
    BY <1>5 DEF BatchRefused, call
  <1>6. CASE BatchStarts
    BY <1>6 DEF BatchStarts, call
  <1>7. CASE BatchEnds
    BY <1>7 DEF BatchEnds, call
  <1>8. ASSUME NEW i \in DOMAIN files, ApplyOne(i)
        PROVE  /\ UNCHANGED <<root, files, before>>
               /\ PlainStep \/ (\E j : WriteStep(j)) \/ (\E j : PieceStep(j))
    <2>1. report[i] = "none" /\ i \in HashEntries
      BY <1>8 DEF ApplyOne
    <2>2. CASE Verifies(i) /\ Reported(i, "applied")
               /\ disk' = [disk EXCEPT ![Target(i)] = Edited(i)]
      <3>1. Links[Target(i)] \in Files /\ i \in -MaxEntries .. MaxEntries
        BY <1>0, TargetIsFile
      <3>2. /\ i \in Edited(i) /\ Edited(i) \subseteq disk[Links[Target(i)]] \union {i}
            /\ 0 \in disk[Links[Target(i)]] /\ 0 \in Edited(i)
        BY <2>2 DEF Edited, Verifies
      <3>3. Edited(i) \in SUBSET (-MaxEntries .. MaxEntries)
        BY <3>1, <3>2
      <3>4. i \notin DirectEntries
        BY <2>1 DEF DirectEntries
      <3>5. WriteStep(i)
        BY <2>1, <2>2, <3>2, <3>3, <3>4 DEF WriteStep, Reported
      <3> QED
        BY <1>8, <3>5 DEF ApplyOne, call
    <2>3. CASE UNCHANGED disk /\ Reported(i, "failed")
      BY <1>8, <2>1, <2>3 DEF ApplyOne, Reported, call
    <2> QED
      BY <1>8, <2>2, <2>3 DEF ApplyOne
  <1> QED
    BY <1>1, <1>2, <1>3, <1>4, <1>5, <1>6, <1>7, <1>8 DEF Next

-----------------------------------------------------------------------------
(* The stages.                                                             *)

LEMMA DiskTypes ==
  ASSUME BatchIInv, Next
  PROVE  disk' \in [Files -> SUBSET (-MaxEntries .. MaxEntries)]
  <1>1. CASE PlainStep
    BY <1>1 DEF PlainStep, BatchIInv, TypeOK
  <1>2. CASE \E i : WriteStep(i)
    BY <1>2 DEF WriteStep, BatchIInv, TypeOK
  <1>3. ASSUME NEW i, PieceStep(i) PROVE disk' \in [Files -> SUBSET (-MaxEntries .. MaxEntries)]
    <2>1. i \in 1 .. MaxEntries /\ MaxEntries \in Nat
      BY <1>3, FilesBasics DEF PieceStep, DirectEntries, BatchIInv
    <2>2. -i \in -MaxEntries .. MaxEntries
      BY <2>1
    <2> QED
      BY <1>3, <2>2 DEF PieceStep, BatchIInv, TypeOK
  <1> QED
    BY <1>1, <1>2, <1>3, StepKinds

LEMMA StagesStep ==
  ASSUME BatchIInv, Next
  PROVE  TypeOK' /\ Stages'
  <1> USE DEF BatchIInv, TypeOK, Stages
  <1>0. /\ DOMAIN files = 1 .. Len(files) /\ Len(files) \in Nat /\ Len(files) <= MaxEntries
        /\ MaxEntries \in Nat /\ at \in Nat
        /\ HashEntries \subseteq DOMAIN files /\ DirectEntries = DOMAIN files \ HashEntries
    BY FilesBasics DEF HashEntries, DirectEntries
  <1>1. disk' \in [Files -> SUBSET (-MaxEntries .. MaxEntries)] /\ UNCHANGED <<root, files, before>>
    BY DiskTypes, StepKinds
  <1>2. HashEntries' = HashEntries
    BY <1>1 DEF HashEntries
  <1>3. CASE Check
    <2>1. \A i \in DOMAIN files : ~(i < 1)
      BY <1>0
    <2> QED
      BY <1>0, <1>1, <1>2, <1>3, <2>1 DEF Check
  \* The loop reaches an entry and has reported it or set it aside.
  <1>4. CASE Direct \/ SetAside
    <2>1. /\ at \in DOMAIN files /\ phase = "direct" /\ phase' = "direct" /\ at' = at + 1
          /\ UNCHANGED <<root, files, before>>
      BY <1>0, <1>4 DEF Direct, SetAside, call
    <2>2. \A i \in DOMAIN files : i < at' <=> i < at \/ i = at
      BY <1>0, <2>1
    <2>3. at' \in 1 .. MaxEntries + 1
      BY <1>0, <2>1
    <2>4. CASE Direct
      <3>1. \E r \in {"applied", "failed"} : report' = [report EXCEPT ![at] = r]
        BY <2>4 DEF Direct, Reported
      <3>2. tasks' = tasks /\ at \notin HashEntries
        BY <1>0, <2>4 DEF Direct
      <3> QED
        BY <1>0, <1>1, <1>2, <2>1, <2>2, <2>3, <3>1, <3>2
    <2>5. CASE SetAside
      <3>1. report' = report /\ tasks' = tasks \union {at} /\ at \in HashEntries
        BY <2>5 DEF SetAside
      <3> QED
        BY <1>0, <1>1, <1>2, <2>1, <2>2, <2>3, <3>1
    <2> QED
      BY <1>4, <2>4, <2>5
  <1>5. CASE LoopEnds
    <2>1. at > Len(files) /\ phase = "direct" /\ UNCHANGED <<at, tasks, report>>
          /\ phase' = IF tasks = {} THEN "ok" ELSE "batch"
      BY <1>5 DEF LoopEnds
    <2>2. \A i \in DOMAIN files : i < at
      BY <1>0, <2>1
    <2>3. \A i \in DOMAIN files : report[i] # "none" \/ i \in tasks
      BY <2>1, <2>2
    <2> QED
      BY <1>0, <1>1, <1>2, <2>1, <2>3
  <1>6. CASE BatchRefused
    <2>1. /\ phase = "batch" /\ tasks' = {} /\ at' = at /\ phase' \in {"ok", "error"}
          /\ phase' = "error" => DirectEntries = {}
          /\ report' = [i \in DOMAIN files |-> IF i \in tasks THEN "failed" ELSE report[i]]
      BY <1>6 DEF BatchRefused, Fold
    <2>2. \A i \in DOMAIN files : i < at
      BY <1>0, <2>1
    <2>3. \A i \in DOMAIN files : report[i] # "none" \/ i \in tasks
      BY <2>1, <2>2
    <2> QED
      BY <1>0, <1>1, <1>2, <2>1, <2>3
  <1>7. CASE BatchStarts
    <2>1. /\ phase = "batch" /\ phase' = "hash" /\ UNCHANGED <<at, tasks, report>>
      BY <1>7 DEF BatchStarts
    <2>2. \A i \in DOMAIN files : i < at
      BY <1>0, <2>1
    <2>3. \A i \in DOMAIN files : report[i] # "none" \/ i \in tasks
      BY <2>1, <2>2
    <2> QED
      BY <1>0, <1>1, <1>2, <2>1, <2>3
  <1>8. ASSUME NEW i \in DOMAIN files, ApplyOne(i) PROVE TypeOK' /\ Stages'
    <2>1. /\ phase = "hash" /\ phase' = "hash" /\ at' = at /\ tasks' = tasks \ {i}
          /\ \E r \in {"applied", "failed"} : report' = [report EXCEPT ![i] = r]
      BY <1>8 DEF ApplyOne, Reported
    <2> QED
      BY <1>0, <1>1, <1>2, <2>1
  <1>9. CASE BatchEnds
    <2>1. /\ phase = "hash" /\ tasks = {} /\ phase' \in {"ok", "error"} /\ UNCHANGED <<at, tasks, report>>
          /\ phase' = "error" => DirectEntries = {} /\ \A i \in HashEntries : report[i] # "applied"
      BY <1>9 DEF BatchEnds, Fold
    <2> QED
      BY <1>0, <1>1, <1>2, <2>1
  <1> QED
    BY <1>3, <1>4, <1>5, <1>6, <1>7, <1>8, <1>9 DEF Next

-----------------------------------------------------------------------------
(* What is on the disk.                                                    *)

LEMMA DiskStep ==
  ASSUME BatchIInv, Next
  PROVE  Sources' /\ OldLines' /\ OldKept' /\ StillThere'
  <1> USE DEF BatchIInv, TypeOK
  <1>1. UNCHANGED <<root, files, before>>
    BY StepKinds
  <1>2. /\ \A i : Target(i)' = Target(i) /\ Alone(i)' = Alone(i)
        /\ \A f : WasThere(f)' = WasThere(f)
    BY <1>1 DEF Target, Resolve, Alone, SameFile, WasThere
  <1>3. ASSUME \A i \in DOMAIN files : report[i] # "none" => report'[i] = report[i]
        PROVE  /\ \A k, f : \A i \in DOMAIN files : IsOf(k, i, f) => IsOf(k, i, f)'
               /\ \A f : Replaced(f) => Replaced(f)'
    BY <1>1, <1>2, <1>3 DEF IsOf, Replaced
  <1>4. CASE PlainStep
    <2>1. Sources' /\ OldKept'
      BY <1>1, <1>3, <1>4 DEF PlainStep, Sources, OldKept
    <2>2. OldLines' /\ StillThere'
      BY <1>1, <1>2, <1>4 DEF PlainStep, OldLines, StillThere
    <2> QED
      BY <2>1, <2>2
  <1>5. ASSUME NEW i, WriteStep(i) PROVE Sources' /\ OldLines' /\ OldKept' /\ StillThere'
    <2>1. /\ i \in DOMAIN files /\ report[i] = "none" /\ report' = [report EXCEPT ![i] = "applied"]
          /\ i \in Nat /\ i # 0
      BY <1>5, FilesBasics DEF WriteStep
    <2>2. PICK c \in SUBSET (-MaxEntries .. MaxEntries) :
            /\ disk' = [disk EXCEPT ![Target(i)] = c] /\ i \in c
            /\ 0 \in disk[Target(i)] \ c => files[i].mode = "replace"
            /\ \/ files[i].mode # "hash" /\ c \subseteq disk[Target(i)] \union {i}
               \/ /\ 0 \in disk[Links[Target(i)]]
                  /\ c \subseteq disk[Links[Target(i)]] \union {i}
      BY <1>5 DEF WriteStep
    <2>3. Target(i) \in Files /\ Links[Target(i)] \in Files /\ Links[Links[Target(i)]] = Links[Target(i)]
      BY <2>1, TargetIsFile, NamesAssumption
    <2>4. \A k \in DOMAIN files : report[k] # "none" => report'[k] = report[k]
      BY <2>1
    <2>5. 0 \in disk[Links[Target(i)]] => WasThere(Target(i))
      BY <2>3 DEF OldLines, WasThere
    <2>6. IsOf(i, i, Target(i))'
      BY <1>1, <1>2, <2>1, <2>2, <2>5 DEF IsOf
    <2>7. \A k \in c \ {0} : \E j \in DOMAIN files : IsOf(k, j, Target(i))'
      <3> SUFFICES ASSUME NEW k \in c \ {0}, k # i
                   PROVE  \E j \in DOMAIN files : IsOf(k, j, Target(i))'
        BY <2>1, <2>6
      <3>1. CASE k \in disk[Target(i)]
        <4>1. PICK j \in DOMAIN files : IsOf(k, j, Target(i))
          BY <2>3, <3>1 DEF Sources
        <4> QED
          BY <1>1, <1>2, <2>4, <4>1 DEF IsOf
      <3>2. CASE k \in disk[Links[Target(i)]] /\ 0 \in disk[Links[Target(i)]]
        <4>1. PICK j \in DOMAIN files : IsOf(k, j, Links[Target(i)])
          BY <2>3, <3>2 DEF Sources
        <4>2. IsOf(k, j, Target(i))
          BY <2>3, <2>5, <3>2, <4>1 DEF IsOf
        <4> QED
          BY <1>1, <1>2, <2>4, <4>2 DEF IsOf
      <3> QED
        BY <2>2, <3>1, <3>2
    <2>8. Sources'
      <3> SUFFICES ASSUME NEW f \in Files, NEW k \in disk'[f] \ {0}
                   PROVE  \E j \in DOMAIN files : IsOf(k, j, f)'
        BY <1>1, <1>2 DEF Sources
      <3>1. CASE f = Target(i)
        BY <1>2, <2>2, <2>3, <2>7, <3>1
      <3>2. CASE f # Target(i)
        <4>1. PICK j \in DOMAIN files : IsOf(k, j, f)
          BY <2>2, <3>2 DEF Sources
        <4> QED
          BY <1>1, <1>2, <2>4, <4>1 DEF IsOf
      <3> QED
        BY <3>1, <3>2
    <2>9. OldLines'
      <3>1. 0 \in c => WasThere(Target(i))
        BY <2>1, <2>2, <2>3 DEF OldLines, WasThere
      <3> QED
        BY <1>2, <2>2, <2>3, <3>1 DEF OldLines
    <2>10. OldKept'
      <3> SUFFICES ASSUME NEW f \in Files, 0 \in before[f] \ disk'[f] PROVE Replaced(f)'
        BY <1>1 DEF OldKept
      <3>1. CASE 0 \notin disk[f]
        BY <1>3, <2>4, <3>1 DEF OldKept
      <3>2. CASE 0 \in disk[f]
        <4>1. f = Target(i) /\ files[i].mode = "replace"
          BY <2>2, <2>3, <3>2
        <4> QED
          BY <1>1, <1>2, <2>1, <4>1 DEF Replaced
      <3> QED
        BY <3>1, <3>2
    <2>11. StillThere'
      <3> SUFFICES ASSUME NEW k \in DOMAIN files, report'[k] = "applied", Alone(k)
                   PROVE  k \in disk'[Target(k)]
        BY <1>1, <1>2 DEF StillThere
      <3>1. CASE k = i
        BY <2>2, <2>3, <3>1
      <3>2. CASE k # i
        <4>1. Target(k) # Target(i)
          BY <2>1, <3>2 DEF Alone, SameFile
        <4>2. Target(k) \in Files
          BY TargetIsFile
        <4> QED
          BY <2>1, <2>2, <3>2, <4>1, <4>2 DEF StillThere
      <3> QED
        BY <3>1, <3>2
    <2> QED
      BY <2>8, <2>9, <2>10, <2>11
  <1>6. ASSUME NEW i, PieceStep(i) PROVE Sources' /\ OldLines' /\ OldKept' /\ StillThere'
    <2>1. /\ i \in DOMAIN files /\ report[i] = "none" /\ report' = [report EXCEPT ![i] = "failed"]
          /\ files[i].mode # "hash" /\ i \in Nat /\ i # 0
      BY <1>6, FilesBasics DEF PieceStep, DirectEntries
    <2>2. /\ disk' = [disk EXCEPT ![Target(i)] = @ \union {-i}] /\ Target(i) \in Files
          /\ -i # 0
      BY <1>6, <2>1, TargetIsFile DEF PieceStep
    <2>3. \A k \in DOMAIN files : report[k] # "none" => report'[k] = report[k]
      BY <2>1
    <2>4. IsOf(-i, i, Target(i))'
      BY <1>1, <1>2, <2>1 DEF IsOf
    <2>5. Sources'
      <3> SUFFICES ASSUME NEW f \in Files, NEW k \in disk'[f] \ {0}
                   PROVE  \E j \in DOMAIN files : IsOf(k, j, f)'
        BY <1>1, <1>2 DEF Sources
      <3>1. CASE k \in disk[f]
        <4>1. PICK j \in DOMAIN files : IsOf(k, j, f)
          BY <3>1 DEF Sources
        <4> QED
          BY <1>1, <1>2, <2>3, <4>1 DEF IsOf
      <3>2. CASE k \notin disk[f]
        <4>1. f = Target(i) /\ k = -i
          BY <2>2, <3>2
        <4> QED
          BY <1>2, <2>1, <2>4, <4>1
      <3> QED
        BY <3>1, <3>2
    <2>6. \A f \in Files : disk[f] \subseteq disk'[f] /\ (0 \in disk'[f] => 0 \in disk[f])
      BY <2>2
    <2>7. OldLines' /\ OldKept'
      BY <1>1, <1>2, <1>3, <2>3, <2>6 DEF OldLines, OldKept
    <2>8. StillThere'
      <3> SUFFICES ASSUME NEW k \in DOMAIN files, report'[k] = "applied", Alone(k)
                   PROVE  k \in disk'[Target(k)]
        BY <1>1, <1>2 DEF StillThere
      <3>1. report[k] = "applied" /\ Target(k) \in Files
        BY <2>1, TargetIsFile
      <3> QED
        BY <2>6, <3>1 DEF StillThere
    <2> QED
      BY <2>5, <2>7, <2>8
  <1> QED
    BY <1>4, <1>5, <1>6, StepKinds

\* Nothing is written before something is reported as applied, but by entries
\* that are not hash edits; a call that has such entries is no error.
LEMMA UntouchedStep ==
  ASSUME BatchIInv, Next, Stages'
  PROVE  Untouched'
  <1> USE DEF BatchIInv, TypeOK
  <1>1. UNCHANGED <<root, files, before>>
    BY StepKinds
  <1>2. DirectEntries' = DirectEntries /\ DirectEntries \subseteq DOMAIN files
    BY <1>1 DEF DirectEntries, HashEntries
  <1>3. CASE PlainStep
    <2>1. disk' = disk /\ \A i \in DOMAIN files : report'[i] # "applied" => report[i] # "applied"
      BY <1>3 DEF PlainStep
    <2>2. phase' = "error" => phase = "error" \/ disk = before
      <3>1. ASSUME phase' = "error", phase # "error" PROVE disk = before
        <4>1. CASE Check
          BY <4>1 DEF Check, Stages
        <4>2. CASE BatchRefused \/ BatchEnds
          <5>1. DirectEntries = {}
            BY <3>1, <4>2 DEF BatchRefused, BatchEnds, Fold
          <5>2. \A i \in DOMAIN files : report'[i] # "applied"
            BY <1>1, <3>1 DEF Stages
          <5> QED
            BY <2>1, <5>1, <5>2 DEF Untouched
        <4> QED
          BY <3>1, <4>1, <4>2
             DEF Next, Direct, SetAside, LoopEnds, BatchStarts, ApplyOne
      <3> QED
        BY <3>1
    <2> QED
      BY <1>1, <1>2, <2>1, <2>2 DEF Untouched
  <1>4. CASE (\E i : WriteStep(i)) \/ (\E i : PieceStep(i))
    <2>1. ASSUME NEW i, WriteStep(i) PROVE \E j \in DOMAIN files : report'[j] = "applied"
      BY <2>1 DEF WriteStep
    <2>2. ASSUME NEW i, PieceStep(i) PROVE DirectEntries # {}
      BY <2>2 DEF PieceStep
    <2>3. phase' # "error"
      <3>1. CASE Direct \/ \E i \in DOMAIN files : ApplyOne(i)
        BY <3>1 DEF Direct, ApplyOne
      <3>2. CASE Check \/ SetAside \/ LoopEnds \/ BatchStarts \/ BatchRefused \/ BatchEnds
        <4>1. disk' = disk
          BY <3>2 DEF Check, SetAside, LoopEnds, BatchStarts, BatchRefused, BatchEnds
        <4>2. \A i \in DOMAIN files :
                (report'[i] = "applied" => report[i] = "applied")
                /\ (report[i] = "none" /\ report'[i] = "failed" => i \in tasks)
          BY <3>2 DEF Check, SetAside, LoopEnds, BatchStarts, BatchRefused, BatchEnds
        <4>3. \A i : ~WriteStep(i)
          BY <4>2 DEF WriteStep
        <4>4. \A i : ~PieceStep(i)
          BY <1>2, <4>2 DEF PieceStep, Stages, DirectEntries
        <4> QED
          BY <1>4, <4>3, <4>4
      <3> QED
        BY <3>1, <3>2 DEF Next
    <2> QED
      BY <1>1, <1>2, <1>4, <2>1, <2>2, <2>3 DEF Untouched
  <1> QED
    BY <1>3, <1>4, StepKinds

LEMMA DistinctStep ==
  ASSUME BatchIInv, Next
  PROVE  Distinct'
  <1> USE DEF BatchIInv, TypeOK
  <1>1. UNCHANGED <<root, files, before>>
    BY StepKinds
  <1>2. Absolute' = Absolute /\ \A i : KeyBefore(i)' = KeyBefore(i)
    BY <1>1 DEF Absolute, KeyBefore, WasThere, Place
  <1>3. CASE phase # "check"
    <2>1. phase' \notin {"check", "error"} => phase \notin {"check", "error"}
      BY <1>3 DEF Next, Check, Direct, SetAside, LoopEnds, BatchRefused, BatchStarts, BatchEnds, ApplyOne
    <2> QED
      BY <1>1, <1>2, <2>1 DEF Distinct
  <1>4. CASE phase = "check"
    <2>1. Check
      BY <1>4 DEF Next, Direct, SetAside, LoopEnds, BatchRefused, BatchStarts, BatchEnds, ApplyOne
    <2>2. phase' # "error" => ~Repeated
      BY <2>1 DEF Check
    <2>3. Absolute => \A i \in DOMAIN files : Key(files[i].path) = KeyBefore(i)
      <3> SUFFICES ASSUME Absolute, NEW i \in DOMAIN files PROVE Key(files[i].path) = KeyBefore(i)
        OBVIOUS
      <3>1. InCwd(files[i].path) = files[i].path
        BY TargetIsFile DEF Absolute
      <3>2. disk = before
        BY <1>4 DEF Stages
      <3> QED
        BY <3>1, <3>2 DEF Key, KeyBefore, Exists, IsAbsent, WasThere
    <2> QED
      BY <1>1, <1>2, <2>2, <2>3 DEF Distinct, Repeated
  <1> QED
    BY <1>3, <1>4

-----------------------------------------------------------------------------

\* What a batch has left untouched, staged or written, for any paths, lines and
\* number of entries: the inductive invariant of tilth_write.
THEOREM BatchInvariant == Spec => []BatchIInv
  <1>1. Init => BatchIInv
    BY BatchInit
  <1>2. BatchIInv /\ [Next]_vars => BatchIInv'
    <2> SUFFICES ASSUME BatchIInv, [Next]_vars PROVE BatchIInv'
      OBVIOUS
    <2>1. CASE Next
      BY <2>1, StagesStep, UntouchedStep, DiskStep, DistinctStep DEF BatchIInv
    <2>2. CASE UNCHANGED vars
      <3> USE <2>2 DEF vars, call, BatchIInv
      <3>1. TypeOK' /\ Stages' /\ Untouched'
        BY DEF TypeOK, Stages, DirectEntries, HashEntries, Untouched
      <3>2. /\ \A i : Target(i)' = Target(i) /\ Alone(i)' = Alone(i) /\ KeyBefore(i)' = KeyBefore(i)
            /\ \A f : WasThere(f)' = WasThere(f) /\ Replaced(f)' = Replaced(f)
            /\ \A k, i, f : IsOf(k, i, f)' = IsOf(k, i, f)
        BY DEF Target, Resolve, Alone, SameFile, KeyBefore, WasThere, Replaced, IsOf
      <3>3. Sources' /\ OldLines' /\ OldKept' /\ StillThere' /\ Distinct'
        BY <3>2 DEF Sources, OldLines, OldKept, StillThere, Distinct, Absolute
      <3> QED
        BY <3>1, <3>3
    <2> QED
      BY <2>1, <2>2
  <1> QED
    BY <1>1, <1>2, PTL DEF Spec

\* Types; the loop has reported on, or set aside, exactly what it has passed.
THEOREM BatchTypeCorrect == Spec => []TypeOK
  BY BatchInvariant, PTL DEF BatchIInv

\* A call that fails as a whole has written nothing.
THEOREM ErrorsMeanUntouched == Spec => []ErrorMeansUntouched
  <1>1. BatchIInv => ErrorMeansUntouched
    BY DEF BatchIInv, Untouched, ErrorMeansUntouched
  <1> QED
    BY <1>1, BatchInvariant, PTL

\* The answer has a verdict on every entry, and it is what the disk holds; old
\* lines go only by a replacement it reports.
THEOREM AnswersMatchDisk == Spec => []AnswerMatchesDisk
  <1>1. BatchIInv => AnswerMatchesDisk
    <2> SUFFICES ASSUME BatchIInv, phase = "ok"
                 PROVE  /\ \A i \in DOMAIN files :
                             /\ report[i] # "none"
                             /\ Alone(i) => (report[i] = "applied") = (i \in disk[Target(i)])
                        /\ \A f \in Files : 0 \in before[f] \ disk[f] => Replaced(f)
      BY DEF AnswerMatchesDisk, Alone, Replaced
    <2> USE DEF BatchIInv
    <2>1. ASSUME NEW i \in DOMAIN files, i \in disk[Target(i)] PROVE report[i] = "applied"
      <3>1. i \in Nat /\ i # 0 /\ Target(i) \in Files
        BY FilesBasics, TargetIsFile
      <3>2. PICK j \in DOMAIN files : IsOf(i, j, Target(i))
        BY <2>1, <3>1 DEF Sources
      <3>3. j \in Nat /\ j # 0
        BY FilesBasics
      <3> QED
        BY <3>1, <3>2, <3>3 DEF IsOf
    <2>2. \A f \in Files : 0 \in before[f] \ disk[f] => Replaced(f)
      BY DEF OldKept
    <2> QED
      BY <2>1, <2>2 DEF Stages, StillThere
  <1> QED
    BY <1>1, BatchInvariant, PTL

\* With absolute paths two entries for one existing file do not pass the check
\* up front; only a file that was not there, named through a link to its
\* directory, holds the writes of two, and neither of them is a hash edit.
THEOREM AbsolutePathsDoNotRace == Spec => []AbsolutePathsNeverRace
  <1>1. BatchIInv => AbsolutePathsNeverRace
    <2> SUFFICES ASSUME BatchIInv, Absolute
                 PROVE  /\ \A i, j \in DOMAIN files :
                             SameFile(i, j) /\ WasThere(Target(i)) => phase \in {"check", "error"}
                        /\ \A f \in Files : \A i, j \in Writers(f) :
                             i # j => /\ ~WasThere(f)
                                      /\ Linked(files[i].path) \/ Linked(files[j].path)
                                      /\ files[i].mode # "hash"
      BY DEF AbsolutePathsNeverRace, Absolute, WasThere
    <2> USE DEF BatchIInv
    <2>1. \A i \in DOMAIN files : Target(i) = Place(files[i].path)
      BY TargetIsFile DEF Absolute
    <2>2. \A i, j \in DOMAIN files :
            SameFile(i, j) /\ WasThere(Target(i)) => phase \in {"check", "error"}
      BY <2>1 DEF Distinct, KeyBefore, SameFile, WasThere
    <2>3. ASSUME NEW f \in Files, NEW i \in Writers(f)
          PROVE  /\ i \in DOMAIN files /\ phase \notin {"check", "error"}
                 /\ Links[Target(i)] = Links[f]
                 /\ Target(i) = f \/ WasThere(f)
                 /\ files[i].mode = "hash" => WasThere(f)
      <3>1. i \in DOMAIN files /\ i \in Nat /\ i # 0
        BY FilesBasics DEF Writers
      <3>2. PICK k \in disk[f] : k \in {i, -i} /\ k # 0
        BY <3>1 DEF Writers
      <3>3. PICK j \in DOMAIN files : IsOf(k, j, f)
        BY <3>2 DEF Sources
      <3>4. j \in Nat /\ j # 0
        BY FilesBasics
      <3>5. j = i /\ report[i] # "none"
        BY <3>1, <3>2, <3>3, <3>4 DEF IsOf
      <3>6. before[f] \in {{0}, {}}
        BY DEF TypeOK, Absent
      <3>7. phase \notin {"check", "error"}
        BY <3>1, <3>2, <3>5, <3>6 DEF Stages, Untouched
      <3> QED
        BY <3>1, <3>3, <3>5, <3>7 DEF IsOf
    <2>4. ASSUME NEW f \in Files, NEW i \in Writers(f), NEW j \in Writers(f), i # j
          PROVE  /\ ~WasThere(f)
                 /\ Linked(files[i].path) \/ Linked(files[j].path)
                 /\ files[i].mode # "hash"
      <3>1. ~WasThere(f)
        BY <2>2, <2>3, <2>4 DEF SameFile, WasThere
      <3>2. Place(files[i].path) = f /\ Place(files[j].path) = f
        BY <2>1, <2>3, <3>1
      <3>3. files[i].path # files[j].path
        BY <2>3, <2>4, <3>1, <3>2 DEF Distinct, KeyBefore
      <3>4. ASSUME ~Linked(files[i].path), ~Linked(files[j].path) PROVE FALSE
        BY <2>3, <3>2, <3>3, <3>4, TargetIsFile DEF Absolute
      <3> QED
        BY <2>3, <3>1, <3>4
    <2> QED
      BY <2>2, <2>4
  <1> QED
    BY <1>1, BatchInvariant, PTL
=============================================================================
