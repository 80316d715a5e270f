--------------------------- MODULE ConditionalRead ---------------------------
(***************************************************************************)
(* tilth_read with tags: a client that holds a view asks whether it is     *)
(* still current (src/src/mcp/tools/read.rs, src/src/read/tags.rs).  The   *)
(* request works on a snapshot of its own (src/src/read/source.rs): the    *)
(* first time it needs a path it captures the file behind it, whole, and   *)
(* from then on it looks at what it captured.                              *)
(*                                                                         *)
(* Editors work on the same files while the capture reads them block by    *)
(* block: they write in place, put a new file in its place, remove it, or  *)
(* point a link elsewhere.  A capture that notices starts over, once.      *)
(*                                                                         *)
(* A block is known by the version that wrote it; a view is what a request *)
(* shows of the blocks, a tag is the pair of the request and its view.     *)
(***************************************************************************)
EXTENDS Naturals, Sequences, FiniteSets

CONSTANTS
    Files,              \* canonical paths
    Links,              \* paths that are links to one of them
    Requests,           \* what a client may read (RequestShape)
    MaxBlocks,          \* MAX_SNAPSHOT_BYTES, in blocks
    AutoTokens,         \* AUTO_EMISSION_MIN_TOKENS, in blocks
    MaxVersions,        \* bound: writes to the disk
    MaxRequests,        \* bound: requests of the client
    None                \* no bytes, no inode, no tag

Names == Files \union Links

\* A list of paths, what is shown of each, and the tag policy.
RequestShape == [paths : Seq(Names), part : {"head", "whole"}, policy : {"auto", "always"}]

ASSUME ReadAssumption ==
    /\ Files # {} /\ IsFiniteSet(Files) /\ Files \intersect Links = {}
    /\ Requests \subseteq RequestShape
    /\ {MaxBlocks, AutoTokens, MaxVersions, MaxRequests} \subseteq Nat

Versions == 0 .. MaxVersions
Inodes == 0 .. MaxVersions + Cardinality(Files)
MaxLength == 2
Bytes == UNION {[1 .. n -> Versions] : n \in 0 .. MaxLength}

ASSUME NoneAssumption == None \notin Bytes /\ None \notin Inodes

VARIABLES
    target,     \* where a link points
    inode,      \* the inode a canonical path names, or None
    data,       \* an inode's blocks and its modification time
    versions,   \* writes so far
    phase,      \* the step of the request
    ask,        \* the request
    condition,  \* its if_tag, or None
    index,      \* the path of the list it is at
    files,      \* `files`: what is captured, by raw and by canonical path
    captured,   \* `captured_bytes`
    incomplete, \* `incomplete`
    tries,      \* captures of the path at hand
    key,        \* the canonical path at hand
    handle,     \* the inode it has opened
    before,     \* length and modification time before the read
    got,        \* the blocks read so far
    pages,      \* what it shows of each path, None for an error
    answer,     \* the answer
    held,       \* the tag the client holds with its view
    requests,   \* requests so far
    lived,      \* history: what each path held while the request ran
    coarse,     \* history: a write in the request left the time as it was
    moved       \* history: a link moved while the request ran

disk == <<target, inode, data, versions, lived, coarse, moved>>
capture == <<key, tries, handle, before, got>>
rest == <<condition, ask, answer, held, requests>>
vars == <<disk, phase, index, files, captured, incomplete, pages, capture, rest>>

NoAnswer == [tag |-> None, unchanged |-> FALSE, view |-> None]
NoTime == [len |-> 0, mtime |-> 0]
Canonical(n) == IF n \in Links THEN target[n] ELSE n
Path == ask.paths[index]
Read(f) == data[inode[f]].bytes

\* Variables have their types; what is captured fits the bound, however a file
\* grows while it is read.
TypeOK ==
    /\ target \in [Links -> Files]
    /\ inode \in [Files -> Inodes \union {None}]
    /\ data \in [Inodes -> [bytes : Bytes, mtime : 0 .. MaxVersions]]
    /\ versions \in Versions
    /\ phase \in {"idle", "path", "open", "read", "check", "done"}
    /\ ask \in Requests
    /\ index \in 1 .. Len(ask.paths) + 1
    /\ files \in [Names -> Bytes \union {None}]
    /\ captured \in 0 .. MaxBlocks
    /\ incomplete \in BOOLEAN
    /\ tries \in 0 .. 2
    /\ key \in Files
    /\ handle \in Inodes
    /\ before \in [len : 0 .. MaxLength, mtime : 0 .. MaxVersions]
    /\ got \in Bytes
    /\ Len(pages) <= Len(ask.paths)
    /\ requests \in 0 .. MaxRequests
    /\ coarse \in BOOLEAN /\ moved \in BOOLEAN

Now == {<<n, IF inode[Canonical(n)] = None THEN None ELSE Read(Canonical(n))>> : n \in Names}

Init ==
    /\ \E f \in Files : target = [l \in Links |-> f]
    /\ \E number \in [Files -> 1 .. Cardinality(Files)] :
         /\ \A f, g \in Files : number[f] = number[g] => f = g
         /\ inode = number
    /\ data = [i \in Inodes |-> [bytes |-> <<0, 0>>, mtime |-> 0]]
    /\ versions = 0
    /\ phase = "idle" /\ ask \in Requests /\ condition = None
    /\ index = 1 /\ files = [n \in Names |-> None] /\ captured = 0
    /\ incomplete = FALSE
    /\ tries = 0 /\ key \in Files /\ handle = 0 /\ before = NoTime /\ got = <<>>
    /\ pages = <<>> /\ answer = NoAnswer /\ held = None /\ requests = 0
    /\ lived = {} /\ coarse = FALSE /\ moved = FALSE

-----------------------------------------------------------------------------
(* The editors.                                                            *)

\* A write gives the inode a new time, unless the clock has not moved on.
Stamp(i, b) ==
    \E later \in BOOLEAN :
      /\ data' = [data EXCEPT ![i] = [bytes |-> b, mtime |-> IF later THEN @.mtime + 1 ELSE @.mtime]]
      /\ coarse' = (coarse \/ (~later /\ phase # "idle"))

\* While a request runs, what the names then hold is noted.
Note == lived' = IF phase = "idle" THEN {} ELSE lived \union Now'

Edits ==
    /\ versions < MaxVersions
    /\ versions' = versions + 1
    /\ Note
    /\ UNCHANGED <<phase, index, files, captured, incomplete, pages, capture, rest>>

\* In place: a block changes, the file is cut to nothing, or it grows.
WriteBlock(f) ==
    /\ versions < MaxVersions /\ inode[f] # None
    /\ LET old == Read(f)
       IN  \/ \E b \in DOMAIN old : Stamp(inode[f], [old EXCEPT ![b] = versions + 1])
           \/ Stamp(inode[f], <<>>)
           \/ Len(old) < MaxLength /\ Stamp(inode[f], Append(old, versions + 1))
    /\ UNCHANGED <<target, inode, moved>>
    /\ Edits

\* A new file, of one block or two, is renamed over the path.
Replace(f) ==
    LET i == versions + 1 + Cardinality(Files)
    IN  /\ versions < MaxVersions
        /\ inode' = [inode EXCEPT ![f] = i]
        /\ \E b \in {<<versions + 1>>, <<versions + 1, versions + 1>>} :
             data' = [data EXCEPT ![i] = [bytes |-> b, mtime |-> versions + 1]]
        /\ UNCHANGED <<target, coarse, moved>>
        /\ Edits

Remove(f) ==
    /\ inode[f] # None
    /\ inode' = [inode EXCEPT ![f] = None]
    /\ UNCHANGED <<target, data, coarse, moved>>
    /\ Edits

Retarget(l) ==
    /\ \E f \in Files \ {target[l]} : target' = [target EXCEPT ![l] = f]
    /\ moved' = (moved \/ phase # "idle")
    /\ UNCHANGED <<inode, data, coarse>>
    /\ Edits

-----------------------------------------------------------------------------
(* The request.                                                            *)

\* Mutant: the snapshot of the last request is still there.
BeginOnOldSnapshot(r, c) ==
    /\ phase = "idle" /\ requests < MaxRequests
    /\ phase' = "path" /\ ask' = r /\ condition' = c /\ index' = 1
    /\ incomplete' = FALSE
    /\ pages' = <<>> /\ answer' = NoAnswer /\ requests' = requests + 1
    /\ lived' = Now /\ coarse' = FALSE /\ moved' = FALSE
    /\ UNCHANGED <<target, inode, data, versions, files, captured, capture, held>>

\* with_snapshot: a snapshot of the request's own.  The client may send the
\* tag it holds.
Begin(r, c) ==
    /\ phase = "idle" /\ requests < MaxRequests
    /\ phase' = "path" /\ ask' = r /\ condition' = c /\ index' = 1
    /\ files' = [n \in Names |-> None] /\ captured' = 0 /\ incomplete' = FALSE
    /\ pages' = <<>> /\ answer' = NoAnswer /\ requests' = requests + 1
    /\ lived' = Now /\ coarse' = FALSE /\ moved' = FALSE
    /\ UNCHANGED <<target, inode, data, versions, capture, held>>

\* What is shown of the path at hand is there; the next path's turn comes.
PageDone(b) ==
    /\ pages' = Append(pages, b)
    /\ phase' = "path" /\ index' = index + 1
    /\ tries' = 0 /\ handle' = 0 /\ before' = NoTime /\ got' = <<>>
    /\ UNCHANGED key

MorePaths == phase = "path" /\ index <= Len(ask.paths)

\* mark_incomplete and an error in the place of the page.
PageFails == PageDone(None) /\ incomplete' = TRUE

\* The path leads nowhere: read_file_with_budget asks the disk first.
NotThere ==
    /\ MorePaths /\ inode[Canonical(Path)] = None
    /\ PageFails
    /\ UNCHANGED <<disk, rest, files, captured>>

\* Mutant: the stop of a batch is not marked.
DeadlineUnmarked ==
    /\ MorePaths /\ Len(ask.paths) > 1
    /\ index' = Len(ask.paths) + 1
    /\ UNCHANGED <<disk, rest, phase, files, captured, incomplete, pages, capture>>

\* The deadline of a batch is looked at between two paths.
DeadlinePasses ==
    /\ MorePaths /\ Len(ask.paths) > 1
    /\ incomplete' = TRUE /\ index' = Len(ask.paths) + 1
    /\ UNCHANGED <<disk, rest, phase, files, captured, pages, capture>>

Capture(f) ==
    /\ phase' = "open" /\ key' = f
    /\ UNCHANGED <<index, pages, files, tries, handle, before, got>>

\* Mutant: a link is not led back to what is captured of its file.
LookupByNameOnly ==
    /\ MorePaths /\ inode[Canonical(Path)] # None
    /\ IF files[Path] # None
       THEN PageDone(files[Path]) /\ UNCHANGED files
       ELSE Capture(Canonical(Path))
    /\ UNCHANGED <<disk, rest, captured, incomplete>>

\* bytes: by the path as given, then by its canonical path.  (A view may look
\* its path up several times; what it finds is the same.)
Lookup ==
    /\ MorePaths /\ inode[Canonical(Path)] # None
    /\ LET f == Canonical(Path)
       IN  IF files[Path] # None
           THEN PageDone(files[Path]) /\ UNCHANGED files
           ELSE IF files[f] # None
           THEN PageDone(files[f]) /\ files' = [files EXCEPT ![Path] = files[f]]
           ELSE Capture(f)
    /\ UNCHANGED <<disk, rest, captured, incomplete>>

\* Mutant: the bound is on each file, not on the request.
RemainingForEach == MaxBlocks

Remaining == MaxBlocks - captured

Open ==
    /\ phase = "open"
    /\ LET i == inode[key]
       IN  IF i = None \/ Len(data[i].bytes) > Remaining
           THEN PageFails
           ELSE /\ phase' = "read" /\ handle' = i /\ got' = <<>>
                /\ before' = [len |-> Len(data[i].bytes), mtime |-> data[i].mtime]
                /\ UNCHANGED <<index, pages, incomplete, key, tries>>
    /\ UNCHANGED <<disk, rest, files, captured>>

\* read_to_end takes what is there block by block, up to the bound and one more.
ReadBlock ==
    /\ phase = "read"
    /\ LET there == data[handle].bytes
       IN  IF Len(got) < Len(there) /\ Len(got) <= Remaining
           THEN got' = Append(got, there[Len(got) + 1]) /\ UNCHANGED phase
           ELSE phase' = "check" /\ UNCHANGED got
    /\ UNCHANGED <<disk, rest, index, files, captured, incomplete, pages, key,
                   tries, handle, before>>

\* Mutant: the time is not compared.
SameLength ==
    before.len = Len(data[handle].bytes) /\ Len(got) = before.len

\* Neither length nor time has changed, and all of it was read.
Unchanged ==
    before = [len |-> Len(got), mtime |-> data[handle].mtime] /\ Len(data[handle].bytes) = Len(got)

TooLarge == Len(got) > Remaining

Accept ==
    /\ phase = "check" /\ ~TooLarge /\ Unchanged
    /\ files' = [files EXCEPT ![key] = got, ![Path] = got]
    /\ captured' = captured + Len(got)
    /\ PageDone(got)
    /\ UNCHANGED <<disk, rest, incomplete>>

\* A second attempt, and no third.
StartOver ==
    /\ phase = "check" /\ ~TooLarge /\ ~Unchanged
    /\ IF tries = 0
       THEN phase' = "open" /\ tries' = 1 /\ UNCHANGED <<index, pages, incomplete, key, handle, before, got>>
       ELSE PageFails
    /\ UNCHANGED <<disk, rest, files, captured>>

Overflows ==
    /\ phase = "check" /\ TooLarge
    /\ PageFails
    /\ UNCHANGED <<disk, rest, files, captured>>

-----------------------------------------------------------------------------
(* The answer.                                                             *)

\* What a view shows of a captured file.
Shown(b) ==
    IF b = None THEN None
    ELSE IF ask.part = "head" THEN SubSeq(b, 1, IF b = <<>> THEN 0 ELSE 1) ELSE b

View == [i \in 1 .. Len(pages) |-> Shown(pages[i])]
Tokens == LET size(b) == IF b = None THEN 1 ELSE Len(b)
              upto[i \in 0 .. Len(pages)] == IF i = 0 THEN 0 ELSE upto[i - 1] + size(View[i])
          IN  upto[Len(pages)]

\* tags::encode, of the identity of the request and the view.
Tag == <<ask.paths, ask.part, View>>

\* A partial view has no tag, nor has a small one that nobody asked a tag of.
Respond ==
    /\ phase = "path" /\ index = Len(ask.paths) + 1
    /\ phase' = "done"
    /\ LET plain == incomplete \/ (ask.policy = "auto" /\ condition = None /\ Tokens < AutoTokens)
       IN  answer' = [tag |-> IF plain THEN None ELSE Tag,
                      unchanged |-> ~plain /\ condition = Tag,
                      view |-> View]
    /\ UNCHANGED <<disk, index, files, captured, incomplete, pages, capture,
                   condition, ask, held, requests>>

\* The client keeps the last view it was given a tag for.
Receive ==
    /\ phase = "done" /\ phase' = "idle"
    /\ held' = IF answer.tag = None THEN held ELSE answer.tag
    /\ UNCHANGED <<disk, index, files, captured, incomplete, pages, capture,
                   condition, ask, answer, requests>>

Next ==
    \/ \E f \in Files : WriteBlock(f) \/ Replace(f) \/ Remove(f)
    \/ \E l \in Links : Retarget(l)
    \/ \E r \in Requests, c \in {None, held} : Begin(r, c)
    \/ NotThere \/ DeadlinePasses \/ Lookup \/ Open \/ ReadBlock
    \/ Accept \/ StartOver \/ Overflows \/ Respond \/ Receive

Spec == Init /\ [][Next]_vars

-----------------------------------------------------------------------------

\* Everything a tagged answer shows, or declares unchanged, was the content of
\* that path's file, whole, at one moment while the request ran, unless a write
\* in place left the modification time as it was.
ViewWasOnDisk ==
    phase = "done" /\ answer.tag # None /\ ~coarse =>
      \A i \in DOMAIN pages :
        \E f \in Files : /\ ask.paths[i] \in Links \union {f}
                         /\ <<f, pages[i]>> \in lived

\* Two paths of one request that lead to one file show the same content of it,
\* whatever is written meanwhile.
OneVersionPerFile ==
    phase = "done" /\ answer.tag # None /\ ~moved =>
      \A i, j \in DOMAIN pages :
        Canonical(ask.paths[i]) = Canonical(ask.paths[j]) => pages[i] = pages[j]

\* A tag, and with it the word that a view is unchanged, is given only for all
\* that was asked: no path failed and none was left out.
TagIsComplete ==
    answer.tag # None /\ phase = "done" =>
      Len(pages) = Len(ask.paths) /\ \A i \in DOMAIN pages : pages[i] # None
=============================================================================
