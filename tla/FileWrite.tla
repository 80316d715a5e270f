------------------------------ MODULE FileWrite ------------------------------
(***************************************************************************)
(* Every way tilth_write changes one file, as the file-system calls it     *)
(* makes: hash-anchored edits (apply_edits in src/src/edit.rs), whole-file *)
(* writes and appends (src/src/mcp/write.rs), and the temporary file and   *)
(* rename they publish with (src/src/util.rs).                             *)
(*                                                                         *)
(* A write operation is run by a thread of some tilth process.  Several    *)
(* run at once: a call that outlived its timeout goes on while the next is *)
(* served, and two servers may work in one tree.  Hash edits of a process  *)
(* take turns through a guard; nothing else does.  The guard goes by what  *)
(* the path was found to be when the edit asked for it, so edits that      *)
(* spell a missing file differently get different ones.  A process may     *)
(* crash between any two calls, and another program may delete the file.   *)
(*                                                                         *)
(* The file's content is the set of the writes it shows, each "whole" or,  *)
(* when its bytes are not all there, "part".  A hash edit whose anchored   *)
(* lines another write has changed no longer verifies.                     *)
(***************************************************************************)
EXTENDS Naturals, FiniteSets

CONSTANTS
    Ops,                \* the write operations
    Kind,               \* Kind[w]: "edit", "put" (a whole file) or "append"
    Procs,              \* tilth processes
    Proc,               \* Proc[w]: the process that runs w
    Breaks,             \* Breaks[w]: the writes that change lines w anchors to
    Keys,               \* the keys of guards
    Canonical,          \* the file's canonical path, its key while it is there
    Spelled,            \* Spelled[w]: w's path as written, normalized
    MaxStarted,         \* bound: operations that are called and not crashed
    Original,           \* the file's content and inode before any write
    Nil                 \* no inode, no key

ASSUME OpsAssumption ==
    /\ Kind \in [Ops -> {"edit", "put", "append"}]
    /\ Proc \in [Ops -> Procs]
    /\ Breaks \in [Ops -> SUBSET Ops]
    /\ Canonical \in Keys /\ Spelled \in [Ops -> Keys]
    /\ MaxStarted \in Nat
    /\ Original \notin Ops /\ Nil \notin Ops \union {Original} \union Keys

Inodes == Ops \union {Original}
Content == SUBSET (Inodes \X {"whole", "part"})

VARIABLES
    path,       \* the inode the file's name refers to, or Nil
    data,       \* the content of each inode
    tmp,        \* the operations whose temporary file has a name
    key,        \* the key of the guard that an edit asked for, or Nil
    guard,      \* the edits that hold their guard
    pc,         \* where each operation is
    snap,       \* the content an edit read and verified
    fd,         \* the inode a creating or appending operation has open
    result,     \* what each operation reported
    raced       \* history: did the file change after w's last look at it?

vars == <<path, data, tmp, key, guard, pc, snap, fd, result, raced>>

Visible == IF path = Nil THEN {} ELSE data[path]

\* Every variable has its type; only an edit reads and rechecks; a write goes
\* to a file that was opened.
TypeOK ==
    /\ path \in Inodes \union {Nil}
    /\ data \in [Inodes -> Content]
    /\ tmp \in SUBSET Ops
    /\ key \in [Ops -> Keys \union {Nil}]
    /\ guard \in SUBSET Ops
    /\ pc \in [Ops -> {"start", "lock", "read", "temp", "fill", "recheck", "rename",
                       "report", "probe", "write", "rest", "done", "dead"}]
    /\ snap \in [Ops -> Content]
    /\ fd \in [Ops -> Inodes \union {Nil}]
    /\ result \in [Ops -> {"none", "applied", "mismatch", "stale", "exists",
                           "missing", "error", "panic"}]
    /\ raced \in [Ops -> BOOLEAN]
    /\ \A w \in Ops : /\ pc[w] \in {"lock", "read", "recheck"} => Kind[w] = "edit"
                      /\ pc[w] \in {"write", "rest"} => fd[w] # Nil

Init ==
    /\ path \in {Original, Nil}
    /\ data = [i \in Inodes |-> IF i = Original THEN {<<Original, "whole">>} ELSE {}]
    /\ tmp = {}
    /\ key = [w \in Ops |-> Nil]
    /\ guard = {}
    /\ pc = [w \in Ops |-> "start"]
    /\ snap = [w \in Ops |-> {}]
    /\ fd = [w \in Ops |-> Nil]
    /\ result = [w \in Ops |-> "none"]
    /\ raced = [w \in Ops |-> FALSE]

-----------------------------------------------------------------------------

\* Operations that are under way or over; the bound is on these.
Started == {w \in Ops : pc[w] \notin {"start", "dead"}}
MayStart == Cardinality(Started) < MaxStarted
Called(w) == pc[w] = "start" /\ MayStart

Goto(w, l) == pc' = [pc EXCEPT ![w] = l]

\* The operation ends with r; the guard, if it holds it, is dropped.
Finish(w, r) ==
    /\ Goto(w, "done")
    /\ result' = [result EXCEPT ![w] = r]
    /\ guard' = guard \ {w}

\* The same, removing the temporary file first.
Discard(w, r) == Finish(w, r) /\ tmp' = tmp \ {w}

(* Hash-anchored edits.                                                    *)

\* file_guard: the key is the canonical path, or the spelling if there is no
\* such file.
AskGuard(w) ==
    /\ Called(w) /\ Kind[w] = "edit"
    /\ key' = [key EXCEPT ![w] = IF path # Nil THEN Canonical ELSE Spelled[w]]
    /\ Goto(w, "lock")
    /\ UNCHANGED <<path, data, tmp, guard, snap, fd, result>>

\* Mutant: an edit does not wait for the guard.
LockUnguarded(w) ==
    /\ pc[w] = "lock"
    /\ guard' = guard \union {w}
    /\ Goto(w, "read")
    /\ UNCHANGED <<path, data, tmp, key, snap, fd, result>>

SameGuard(w, x) == Proc[w] = Proc[x] /\ key[w] = key[x]

Lock(w) ==
    /\ pc[w] = "lock" /\ \A x \in guard : ~SameGuard(w, x)
    /\ guard' = guard \union {w}
    /\ Goto(w, "read")
    /\ UNCHANGED <<path, data, tmp, key, snap, fd, result>>

Verifies(w, content) ==
    /\ <<Original, "whole">> \in content
    /\ \A b \in Breaks[w] : \A part \in {"whole", "part"} : <<b, part>> \notin content

\* The file is gone, cannot be read, or is not UTF-8.
ReadFails(w) ==
    /\ pc[w] = "read"
    /\ Finish(w, IF path = Nil THEN "missing" ELSE "error")
    /\ UNCHANGED <<path, data, tmp, key, snap, fd>>

\* Mutant: the early return forgets the guard.
ReadMismatchHeld(w) ==
    /\ pc[w] = "read" /\ path # Nil /\ ~Verifies(w, data[path])
    /\ Goto(w, "done") /\ result' = [result EXCEPT ![w] = "mismatch"]
    /\ UNCHANGED <<path, data, tmp, key, guard, snap, fd>>

\* An anchor does not match (or two ranges overlap): nothing was touched yet.
ReadMismatch(w) ==
    /\ pc[w] = "read" /\ path # Nil /\ ~Verifies(w, data[path])
    /\ Finish(w, "mismatch")
    /\ UNCHANGED <<path, data, tmp, key, snap, fd>>

ReadVerified(w) ==
    /\ pc[w] = "read" /\ path # Nil /\ Verifies(w, data[path])
    /\ snap' = [snap EXCEPT ![w] = data[path]]
    /\ Goto(w, "temp")
    /\ UNCHANGED <<path, data, tmp, key, guard, fd, result>>

(* Temporary file and rename.                                              *)

\* Mutant: the new content is written into the file's own place.
OpenInPlace(w) ==
    /\ pc[w] = "temp"
    /\ path' = w
    /\ data' = [data EXCEPT ![w] = {<<w, "part">>}]
    /\ Goto(w, "fill")
    /\ UNCHANGED <<tmp, key, guard, snap, fd, result>>

\* fs::write creates the temporary file and begins to fill it.
OpenTemp(w) ==
    /\ pc[w] = "temp"
    /\ tmp' = tmp \union {w}
    /\ data' = [data EXCEPT ![w] = {<<w, "part">>}]
    /\ Goto(w, "fill")
    /\ UNCHANGED <<path, key, guard, snap, fd, result>>

\* Mutant: the rename is not preceded by a last look.
FillUnchecked(w) ==
    /\ pc[w] = "fill"
    /\ data' = [data EXCEPT ![w] = snap[w] \union {<<w, "whole">>}]
    /\ Goto(w, "rename")
    /\ UNCHANGED <<path, tmp, key, guard, snap, fd, result>>

\* Mutant: whole-file writes take the last look too, against nothing they read.
FillAllChecked(w) ==
    /\ pc[w] = "fill"
    /\ data' = [data EXCEPT ![w] = snap[w] \union {<<w, "whole">>}]
    /\ Goto(w, "recheck")
    /\ UNCHANGED <<path, tmp, key, guard, snap, fd, result>>

FillTemp(w) ==
    /\ pc[w] = "fill"
    /\ data' = [data EXCEPT ![w] = snap[w] \union {<<w, "whole">>}]
    /\ Goto(w, IF Kind[w] = "edit" THEN "recheck" ELSE "rename")
    /\ UNCHANGED <<path, tmp, key, guard, snap, fd, result>>

Unchanged(w) == path # Nil /\ data[path] = snap[w]

\* The last look before publishing: only an edit takes it.
Recheck(w) ==
    /\ pc[w] = "recheck" /\ Unchanged(w)
    /\ Goto(w, "rename")
    /\ UNCHANGED <<path, data, tmp, key, guard, snap, fd, result>>

\* Mutant: the stale branch forgets the temporary file.
StaleKeepsTemp(w) ==
    /\ pc[w] = "recheck"
    /\ Finish(w, "stale")
    /\ UNCHANGED <<path, data, tmp, key, snap, fd>>

\* A file that cannot be read counts as changed, whatever it holds.
RecheckStale(w) ==
    /\ pc[w] = "recheck"
    /\ Discard(w, "stale")
    /\ UNCHANGED <<path, data, key, snap, fd>>

Rename(w) ==
    /\ pc[w] = "rename"
    /\ path' = w /\ tmp' = tmp \ {w}
    /\ Goto(w, "report")
    /\ UNCHANGED <<data, key, guard, snap, fd, result>>

\* Creating, filling or renaming the temporary file fails (full disk, permissions).
TempFails(w) ==
    /\ pc[w] \in {"temp", "fill", "rename"}
    /\ Discard(w, "error")
    /\ UNCHANGED <<path, data, key, snap, fd>>

Report(w) ==
    /\ pc[w] = "report"
    /\ Finish(w, "applied")
    /\ UNCHANGED <<path, data, tmp, key, snap, fd>>

\* A panic while splicing, diffing or parsing; the poisoned guard is still
\* usable by the next edit.
Panic(w) ==
    /\ Kind[w] = "edit" /\ pc[w] \in {"temp", "report"}
    /\ Finish(w, "panic")
    /\ UNCHANGED <<path, data, tmp, key, snap, fd>>

(* Whole-file writes and appends.                                          *)

\* O_CREAT|O_EXCL succeeded: an empty file is there until it is filled.
CreateNew(w) ==
    /\ Called(w) /\ Kind[w] = "put" /\ path = Nil
    /\ path' = w /\ fd' = [fd EXCEPT ![w] = w]
    /\ Goto(w, "write")
    /\ UNCHANGED <<data, tmp, key, guard, snap, result>>

\* A whole-file write of an existing file, without `overwrite` and with it.
AlreadyExists(w) ==
    /\ Called(w) /\ Kind[w] = "put" /\ path # Nil
    /\ Finish(w, "exists")
    /\ UNCHANGED <<path, data, tmp, key, snap, fd>>

ReplaceExisting(w) ==
    /\ Called(w) /\ Kind[w] = "put" /\ path # Nil
    /\ Goto(w, "probe")
    /\ UNCHANGED <<path, data, tmp, key, guard, snap, fd, result>>

\* The O_NOFOLLOW open that refuses symlinks also fails if the file is gone.
Probe(w) ==
    /\ pc[w] = "probe"
    /\ IF path = Nil THEN Finish(w, "missing")
                     ELSE Goto(w, "temp") /\ UNCHANGED <<key, guard, result>>
    /\ UNCHANGED <<path, data, tmp, key, snap, fd>>

\* The open creates the file if there is none and keeps the inode it found.
OpenAppend(w) ==
    /\ Called(w) /\ Kind[w] = "append"
    /\ path' = IF path = Nil THEN w ELSE path
    /\ fd' = [fd EXCEPT ![w] = path']
    /\ Goto(w, "write")
    /\ UNCHANGED <<data, tmp, key, guard, snap, result>>

\* What w's bytes make of an open file: O_APPEND adds to what is there, a
\* creator writes from offset 0 over it.
Written(w, part) ==
    (IF Kind[w] = "append" THEN data[fd[w]] \ {<<w, "part">>} ELSE {})
      \union {<<w, part>>}

WriteAll(w) ==
    /\ pc[w] \in {"write", "rest"}
    /\ data' = [data EXCEPT ![fd[w]] = Written(w, "whole")]
    /\ Finish(w, "applied")
    /\ UNCHANGED <<path, tmp, key, snap, fd>>

WritePart(w) ==
    /\ pc[w] = "write"
    /\ data' = [data EXCEPT ![fd[w]] = Written(w, "part")]
    /\ Goto(w, "rest")
    /\ UNCHANGED <<path, tmp, key, guard, snap, fd, result>>

\* The open or the write fails.
WriteFails(w) ==
    /\ \/ pc[w] \in {"write", "rest"}
       \/ Called(w) /\ Kind[w] # "edit"
    /\ Finish(w, "error")
    /\ UNCHANGED <<path, data, tmp, key, snap, fd>>

-----------------------------------------------------------------------------

Step(w) ==
    \/ AskGuard(w) \/ Lock(w) \/ ReadFails(w) \/ ReadMismatch(w) \/ ReadVerified(w)
    \/ OpenTemp(w) \/ FillTemp(w) \/ Recheck(w) \/ RecheckStale(w) \/ Rename(w)
    \/ TempFails(w) \/ Report(w) \/ Panic(w)
    \/ CreateNew(w) \/ AlreadyExists(w) \/ ReplaceExisting(w) \/ Probe(w)
    \/ OpenAppend(w) \/ WriteAll(w) \/ WritePart(w) \/ WriteFails(w)

Crash(p) ==
    /\ \E w \in Ops : Proc[w] = p /\ pc[w] \notin {"start", "done", "dead"}
    /\ pc' = [w \in Ops |-> IF Proc[w] = p /\ pc[w] # "done" THEN "dead" ELSE pc[w]]
    /\ guard' = {w \in guard : Proc[w] # p}
    /\ UNCHANGED <<path, data, tmp, key, snap, fd, result>>

\* Another program deletes the file.
Remove == /\ path # Nil
          /\ path' = Nil
          /\ UNCHANGED <<data, tmp, key, guard, pc, snap, fd, result>>

Observe == raced' = [w \in Ops |->
              /\ pc'[w] = "rename" /\ pc[w] = "rename"
              /\ raced[w] \/ Visible' # Visible]

Next == /\ \/ \E w \in Ops : Step(w)
           \/ \E p \in Procs : Crash(p)
           \/ Remove
        /\ Observe

\* Every running thread goes on; only waiting for the guard can hold it up.
Spec == Init /\ [][Next]_vars /\ \A w \in Ops : WF_pc(Step(w))

-----------------------------------------------------------------------------
(* Properties.                                                             *)

Publishes(w) == Kind[w] = "edit" /\ pc[w] = "rename" /\ path' = w

\* The edits of each process asked for one guard: they found the file there,
\* or spelled it alike.
OneGuard ==
    \A w, x \in Ops : Proc[w] = Proc[x] /\ key[w] # Nil /\ key[x] # Nil => key[w] = key[x]

\* Of two hash edits by one process, neither drops the other's: an edit that
\* publishes carries every such edit the file shows (edit.rs:14-22), as long as
\* they have one guard.  With more than two processes a rename that lost a race
\* may bring back an edit for the next rename to drop; LossOnlyInWindow speaks
\* of that.
NoLostEdit ==
    [][\A w, e \in Ops :
         /\ Publishes(w) /\ OneGuard
         /\ Kind[e] = "edit" /\ Proc[e] = Proc[w] /\ <<e, "whole">> \in Visible
         => <<e, "whole">> \in Visible']_vars

\* Whoever wrote it (another process, an append, a whole-file write), an edit wipes
\* out only what appeared between its last look at the file and its rename
\* (util.rs:14-22); what came earlier is found stale.
LossOnlyInWindow ==
    [][\A w \in Ops : Publishes(w) /\ ~(Visible \subseteq Visible') => raced[w]]_vars

\* The file never shows part of a replacement, at a crash neither: only a file
\* being created, or appended to, can be incomplete (util.rs:31-36).
WholeReplacement ==
    \A w \in Ops : <<w, "part">> \in Visible => fd[w] # Nil

\* An operation that ended left no temporary file behind, however it ended.
NoTempLeft == \A w \in Ops : pc[w] = "done" => w \notin tmp

\* An edit that reported failure changed nothing: its text is in no file.
RefusedEditLeavesNoTrace ==
    \A w \in Ops :
      /\ Kind[w] = "edit"
      /\ result[w] \in {"mismatch", "stale", "missing", "error"}
      => path # w /\ \A part \in {"whole", "part"} : <<w, part>> \notin Visible

\* Every operation ends, or dies with its process: an edit that fails or
\* panics does not leave the next one waiting for the guard.  (A call the bound
\* keeps out does not count.)
EveryWriteEnds ==
    \A w \in Ops : <>(pc[w] \in {"done", "dead"} \/ (pc[w] = "start" /\ ~MayStart))
=============================================================================
