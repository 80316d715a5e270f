------------------------------ MODULE WriteBatch ------------------------------
(***************************************************************************)
(* One tilth_write call: tool_write of src/src/mcp/tools/write.rs and the  *)
(* batch of hash edits it hands to apply_batch of src/src/edit.rs.         *)
(*                                                                         *)
(* The call names up to MaxEntries files.  Entries that repeat a path are  *)
(* refused up front; then whole-file writes and appends are made in the    *)
(* order of the entries, hash edits are set aside, and those are applied   *)
(* together, in no particular order.  Each entry succeeds or fails by      *)
(* itself.  Here a write is one step: FileWrite looks inside.              *)
(*                                                                         *)
(* A file is a name in a directory.  The server works in Cwd; a call may   *)
(* give another directory as its root.  A path is spelled with its         *)
(* directory (absolute) or without (relative).  The spellings that         *)
(* normalize_path_key makes one ("./a", "b/../a") are one here.  What a    *)
(* path names may be a symbolic link, to a directory on the way as well as *)
(* to a file in the end.                                                   *)
(***************************************************************************)
EXTENDS Integers, FiniteSets, Sequences

CONSTANTS Names, Cwd, Root,
          DirNames,     \* the names of directories, links to them included
          Leads,        \* Leads[d]: the directory that d is or leads to
          Links,        \* Links[f]: the file a link leads to; f for other files
          MayExist,     \* the files that may be there before the call
          Paths,        \* the spellings clients use
          MaxEntries,   \* bound on the entries of a call (20)
          NoRoot        \* the call gives no root; also "no directory"

Dirs == {d \in DirNames : Leads[d] = d}
Files == Dirs \X Names
Modes == {"hash", "create", "replace", "append"}

ASSUME NamesAssumption ==
    /\ {Cwd, Root} \subseteq DirNames /\ NoRoot \notin DirNames /\ MaxEntries \in Nat
    /\ Leads \in [DirNames -> DirNames]
    /\ \A d \in DirNames : Leads[Leads[d]] = Leads[d]
    /\ Links \in [Files -> Files]
    /\ \A f \in Files : Links[Links[f]] = Links[f]
    /\ \A f \in MayExist : f \in Files /\ Links[f] = f
    /\ Paths \subseteq (DirNames \union {NoRoot}) \X Names

\* An entry's path is as the client writes it, with its directory or relative
\* (NoRoot).  A hash entry may lack edits of the right shape, or lie outside the
\* call's scope.  Of other entries neither is told from a write that fails.
Entries == {e \in [mode : Modes, path : Paths, fault : {"none", "shape", "scope"}] :
              e.fault # "none" => e.mode = "hash"}

VARIABLES
    root,       \* the call's root, or NoRoot
    files,      \* the call's entries
    phase,      \* where tool_write is
    at,         \* the entry the loop is at
    tasks,      \* the hash entries set aside and not yet applied
    report,     \* what the answer says of each entry
    disk,       \* what each file holds: i for entry i's write, -i for the piece
                \* of it that a failed write left, 0 for what was there
    before      \* history: the disk when the call began

call == <<root, files>>
vars == <<root, files, phase, at, tasks, report, disk, before>>

\* A file that is not there holds nothing.
Absent == {}
IsAbsent(f) == disk[f] = Absent

\* resolve_write_path: a relative path is anchored under the root, if any.
Resolve(path) == IF path[1] # NoRoot THEN path
                 ELSE <<IF root = NoRoot THEN Cwd ELSE root, path[2]>>

\* The directory the process itself resolves a relative path in.
InCwd(path) == IF path[1] # NoRoot THEN path ELSE <<Cwd, path[2]>>

\* Where a path leads, links to directories followed.
Place(path) == <<Leads[path[1]], path[2]>>

\* A link is there when the file it leads to is (a dangling one counts as
\* missing for canonicalize and for every read).
Exists(f) == ~IsAbsent(Links[f])

\* Mutant: the key is the path as it is spelled.
KeyAsSpelled(path) == path

\* normalize_path_key: the canonical path, or the spelling if there is none.
\* A missing file has as many keys as its directory has names.
Key(path) == LET f == Place(InCwd(path)) IN IF Exists(f) THEN Links[f] ELSE path

\* Everything has its type; hash entries wait only for apply_batch, and the
\* loop has reported on each entry it has passed and not set aside.
TypeOK ==
    /\ root \in {NoRoot, Root}
    /\ files \in Seq(Entries) /\ Len(files) \in 1..MaxEntries
    /\ phase \in {"check", "direct", "batch", "hash", "ok", "error"}
    /\ at \in 1..MaxEntries + 1
    /\ tasks \subseteq DOMAIN files
    /\ report \in [DOMAIN files -> {"none", "applied", "failed"}]
    /\ disk \in [Files -> SUBSET (-MaxEntries..MaxEntries)]
    /\ before \in [Files -> {{0}, Absent}]
    /\ phase \in {"direct", "batch"} =>
         \A i \in DOMAIN files :
           (i < at) = (report[i] # "none" \/ i \in tasks)

\* A link holds nothing of its own.
Init ==
    /\ root \in {NoRoot, Root}
    /\ files \in UNION {[1..n -> Entries] : n \in 1..MaxEntries}
    /\ phase = "check" /\ at = 1 /\ tasks = {}
    /\ report = [i \in DOMAIN files |-> "none"]
    /\ before \in [Files -> {{0}, Absent}]
    /\ \A f \in Files : before[f] # Absent => f \in MayExist
    /\ disk = before

-----------------------------------------------------------------------------

Repeated == \E i, j \in DOMAIN files :
               i # j /\ Key(files[i].path) = Key(files[j].path)

\* The check up front, on the paths as they were given.
Check ==
    /\ phase = "check"
    /\ phase' = IF Repeated THEN "error" ELSE "direct"
    /\ UNCHANGED <<call, at, tasks, report, disk, before>>

Reported(i, r) == report' = [report EXCEPT ![i] = r]

Target(i) == Place(Resolve(files[i].path))

\* An entry outside the scope is answered by the loop, whatever its mode.
HashEntries == {i \in DOMAIN files : files[i].mode = "hash" /\ files[i].fault # "scope"}
DirectEntries == DOMAIN files \ HashEntries

\* May entry i's whole-file write or append go through?  O_NOFOLLOW refuses a
\* link in the path's end, never one on the way; create-only refuses what
\* exists, dangling links too.
Writable(i) ==
    LET f == Target(i) IN
    Links[f] = f /\ (files[i].mode = "create" => IsAbsent(f))

\* The file with entry i's write: an append keeps what was there.
Written(i) ==
    LET f == Target(i) IN
    IF files[i].mode = "append" THEN disk[f] \union {i} ELSE {i}

\* A whole-file write or an append fails untouched: refused, malformed, or for
\* an error of the file system.
NothingWritten == UNCHANGED disk

\* A file that is created or appended to is written in place: write_all may
\* fail half way, or before its first byte in a file that is there by then.
PieceWritten(i) ==
    LET f == Target(i) IN
    /\ Writable(i) /\ (files[i].mode = "append" \/ IsAbsent(f))
    /\ disk' = [disk EXCEPT ![f] = @ \union {-i}]

\* Whole-file writes and appends are made as the loop reaches them.
Direct ==
    /\ phase = "direct" /\ at \in DirectEntries
    /\ \/ /\ files[at].fault = "none" /\ Writable(at)
          /\ disk' = [disk EXCEPT ![Target(at)] = Written(at)]
          /\ Reported(at, "applied")
       \/ NothingWritten /\ Reported(at, "failed")
       \/ files[at].fault = "none" /\ PieceWritten(at) /\ Reported(at, "failed")
    /\ at' = at + 1
    /\ UNCHANGED <<call, phase, tasks, before>>

\* Mutant: a hash entry is passed over.
SetAsideLost ==
    /\ phase = "direct" /\ at \in HashEntries
    /\ at' = at + 1
    /\ UNCHANGED <<call, phase, tasks, report, disk, before>>

SetAside ==
    /\ phase = "direct" /\ at \in HashEntries
    /\ tasks' = tasks \union {at}
    /\ at' = at + 1
    /\ UNCHANGED <<call, phase, report, disk, before>>

LoopEnds ==
    /\ phase = "direct" /\ at > Len(files)
    /\ phase' = IF tasks = {} THEN "ok" ELSE "batch"
    /\ UNCHANGED <<call, at, tasks, report, disk, before>>

\* Mutant: a batch that is refused fails the call whatever was written before.
FailAll == phase' = "error"

\* An error of apply_batch is the call's only if it had no other entries.
Fold == phase' = IF DirectEntries = {} THEN "error" ELSE "ok"

\* Mutant: the refusal of the batch is not reported beside other entries.
RefusedSilently ==
    /\ phase = "batch"
    /\ \E i, j \in tasks :
         /\ i # j /\ files[i].fault = "none" /\ files[j].fault = "none"
         /\ Key(Target(i)) = Key(Target(j))
    /\ tasks' = {}
    /\ Fold
    /\ UNCHANGED <<call, at, report, disk, before>>

\* detect_duplicate_paths: well-formed hash entries again, on the paths they
\* resolve to.
BatchRefused ==
    /\ phase = "batch"
    /\ \E i, j \in tasks :
         /\ i # j /\ files[i].fault = "none" /\ files[j].fault = "none"
         /\ Key(Target(i)) = Key(Target(j))
    /\ report' = [i \in DOMAIN files |-> IF i \in tasks THEN "failed" ELSE report[i]]
    /\ tasks' = {}
    /\ Fold
    /\ UNCHANGED <<call, at, disk, before>>

BatchStarts ==
    /\ phase = "batch"
    /\ \A i, j \in tasks :
         i # j /\ files[i].fault = "none" /\ files[j].fault = "none"
         => Key(Target(i)) # Key(Target(j))
    /\ phase' = "hash"
    /\ UNCHANGED <<call, at, tasks, report, disk, before>>

\* Its anchors verify while the file still holds the lines it had; what is
\* read through a link is written in the link's place, by the rename.
Verifies(i) == files[i].fault = "none" /\ 0 \in disk[Links[Target(i)]]

Edited(i) == disk[Links[Target(i)]] \union {i}

\* It also fails for an error of the file system, or a file found changed, and
\* then has left nothing: its bytes go through a temporary file.
ApplyOne(i) ==
    /\ phase = "hash" /\ i \in tasks
    /\ \/ /\ Verifies(i)
          /\ disk' = [disk EXCEPT ![Target(i)] = Edited(i)]
          /\ Reported(i, "applied")
       \/ UNCHANGED disk /\ Reported(i, "failed")
    /\ tasks' = tasks \ {i}
    /\ UNCHANGED <<call, phase, at, before>>

\* apply_batch fails only when no edit of it was applied.
BatchEnds ==
    /\ phase = "hash" /\ tasks = {}
    /\ IF \E i \in HashEntries : report[i] = "applied"
       THEN phase' = "ok" ELSE Fold
    /\ UNCHANGED <<call, at, tasks, report, disk, before>>

Next == \/ Check \/ Direct \/ SetAside \/ LoopEnds
        \/ BatchRefused \/ BatchStarts \/ BatchEnds
        \/ \E i \in DOMAIN files : ApplyOne(i)

Spec == Init /\ [][Next]_vars

-----------------------------------------------------------------------------
(* Properties.                                                             *)

SameFile(i, j) == i # j /\ Links[Target(i)] = Links[Target(j)]

\* A client that is told the call failed can repeat it: nothing was written.
\* Partial success is always an answer with a section for each entry.
ErrorMeansUntouched == phase = "error" => disk = before

\* However the failures of some entries, the two duplicate checks and the
\* order of the hash edits fall, the answer has a verdict on every entry, and
\* says "applied" exactly of the writes that are on the disk.  What a file held
\* goes only by a replacement that the answer reports.
AnswerMatchesDisk ==
    phase = "ok" =>
      /\ \A i \in DOMAIN files :
           /\ report[i] # "none"
           /\ (\A j \in DOMAIN files : ~SameFile(i, j))
              => (report[i] = "applied") = (i \in disk[Target(i)])
      /\ \A f \in Files :
           0 \in before[f] \ disk[f] =>
             \E i \in DOMAIN files : /\ files[i].mode = "replace" /\ Target(i) = f
                                    /\ report[i] = "applied"

\* The entries that a file holds a write of, or a piece of one.
Writers(f) == {i \in DOMAIN files : {i, -i} \intersect disk[f] # {}}

Linked(path) == Leads[path[1]] # path[1]

\* When all paths are absolute, entries for one existing file never pass the
\* check up front, through whichever links they name it, and a hash edit shares
\* its file with no entry.  Two entries meet only on a file that was not there
\* and that one of them names through a link to its directory (edit.rs:387).
AbsolutePathsNeverRace ==
    (\A i \in DOMAIN files : files[i].path[1] # NoRoot) =>
      /\ \A i, j \in DOMAIN files :
           SameFile(i, j) /\ before[Links[Target(i)]] # Absent
           => phase \in {"check", "error"}
      /\ \A f \in Files : \A i, j \in Writers(f) :
           i # j => /\ before[Links[f]] = Absent
                    /\ Linked(files[i].path) \/ Linked(files[j].path)
                    /\ files[i].mode # "hash"

\* write.rs:10-11: "Duplicate paths are rejected up front across **all** modes,
\* so two entries can never race a write against the same file."
NeverTwoWriters ==
    \A i, j \in DOMAIN files :
      SameFile(i, j) => ~(report[i] = "applied" /\ report[j] = "applied")
=============================================================================
