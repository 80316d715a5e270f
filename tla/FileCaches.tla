------------------------------ MODULE FileCaches ------------------------------
(***************************************************************************)
(* The caches that outlive a request and are validated by a file's         *)
(* modification time: the outlines and parses of OutlineCache              *)
(* (src/src/cache.rs) and the filters of BloomFilterCache                  *)
(* (src/src/index/bloom.rs), with the code that looks files up in them.    *)
(*                                                                         *)
(* One file is followed.  Writers replace it at any moment, between a      *)
(* reader's stat and its read too.  Each write gives the file a new time:  *)
(* two writes in one tick of the file system's clock are out of scope, and *)
(* no cache validated by time can tell them apart.                         *)
(***************************************************************************)
EXTENDS Naturals, FiniteSets

CONSTANTS
    Readers,        \* threads that look the file up
    MaxVersion,     \* bound on the writes
    MaxRequests,    \* bound on the requests
    Indexed,        \* the versions in whose text bloom.rs's scanner finds the
                    \* symbol looked for: not those that hold it only where the
                    \* scanner skips text, such as after a `//`
    Epoch,          \* UNIX_EPOCH, the time taken when a stat gives none
    Nil

Caches == {"parsed", "outlines", "filters"}

\* parse: get_or_parse.  outline: get_outline_str and the map.  view:
\* read_file.  basename: basename_file_outline.  bloom: read_with_bloom_check.
Kinds == {"parse", "outline", "view", "basename", "bloom"}

ASSUME ReadersAssumption ==
    /\ MaxVersion \in Nat /\ MaxRequests \in Nat /\ Nil \notin Readers /\ Nil \notin Nat
    /\ Epoch \notin Nat

VARIABLES
    version,    \* the file's content
    mtime,      \* its modification time
    begun,      \* how many requests began
    entry,      \* each cache's entry for the file: [mtime, version] or Nil
    holder,     \* the reader inside each cache's entry()
    pc,         \* where each reader is
    kind,       \* the path its present request takes
    asked,      \* history: the file's version when the request began
    statted,    \* the modification time it saw: Epoch when it has none
    text,       \* the version the reader read; Nil when it could not
    answer,     \* what it returned: a version served, or what a filter said
                \* of a version; and the time it went by
    raced       \* history: a basename lookup's read was older than its stat

fileVars == <<version, mtime>>
vars == <<version, mtime, begun, entry, holder, pc, kind, asked, statted, text, answer,
          raced>>

\* An entry of version Nil is the outline of the empty text.
Version == Nat \union {Nil}
Time == Nat \union {Epoch}
Entry == [mtime : Time, version : Version]
Answer == [verdict : {"none", "served", "named", "maybe", "absent"}, version : Version,
           time : Time]
NoAnswer == [verdict |-> "none", version |-> Nil, time |-> Epoch]

CacheOf(r) == IF kind[r] = "parse" THEN "parsed"
              ELSE IF kind[r] = "bloom" THEN "filters" ELSE "outlines"

\* Every variable has its type, and a reader is inside entry() exactly when
\* the cache's shard is locked by it.
TypeOK ==
    /\ version \in Nat /\ mtime \in Nat /\ begun \in Nat /\ raced \in BOOLEAN
    /\ entry \in [Caches -> Entry \union {Nil}]
    /\ holder \in [Caches -> Readers \union {Nil}]
    /\ pc \in [Readers -> {"idle", "stated", "text", "ready", "entered",
                           "computed", "missed"}]
    /\ kind \in [Readers -> Kinds]
    /\ asked \in [Readers -> Nat] /\ statted \in [Readers -> Time]
    /\ text \in [Readers -> Version]
    /\ answer \in [Readers -> Answer]
    /\ \A r \in Readers :
         (pc[r] \in {"entered", "computed"}) <=> (holder[CacheOf(r)] = r)

Init ==
    /\ version = 0 /\ mtime = 0 /\ begun = 0 /\ raced = FALSE
    /\ entry = [k \in Caches |-> Nil]
    /\ holder = [k \in Caches |-> Nil]
    /\ pc = [r \in Readers |-> "idle"]
    /\ kind = [r \in Readers |-> "parse"]
    /\ asked = [r \in Readers |-> 0] /\ statted = [r \in Readers |-> Epoch]
    /\ text = [r \in Readers |-> Nil]
    /\ answer = [r \in Readers |-> NoAnswer]

-----------------------------------------------------------------------------

Write ==
    /\ version < MaxVersion
    /\ version' = version + 1 /\ mtime' = mtime + 1
    /\ UNCHANGED <<begun, entry, holder, pc, kind, asked, statted, text, answer, raced>>

Goto(r, l) == pc' = [pc EXCEPT ![r] = l]

\* A request that takes path k begins, at the file's present version.
Begin(r, k) ==
    /\ pc[r] = "idle" /\ begun < MaxRequests
    /\ begun' = begun + 1
    /\ kind' = [kind EXCEPT ![r] = k]
    /\ asked' = [asked EXCEPT ![r] = version]
    /\ answer' = [answer EXCEPT ![r] = NoAnswer]

\* The reader returns; it is idle between requests and forgets its file.
Return(r, verdict, v) ==
    /\ Goto(r, "idle")
    /\ kind' = [kind EXCEPT ![r] = "parse"]
    /\ statted' = [statted EXCEPT ![r] = Epoch]
    /\ text' = [text EXCEPT ![r] = Nil]
    /\ answer' = [answer EXCEPT ![r] =
                    [verdict |-> verdict, version |-> v, time |-> statted[r]]]

(* The stat and the reads before the cache is consulted.                    *)

\* What a path that takes the file's time gets: unwrap_or(UNIX_EPOCH) when
\* there is none, for a basename lookup and the map also when the file is gone
\* by then; get_or_parse gives up.
Times(k) == IF k = "parse" THEN {mtime} ELSE {mtime, Epoch}

\* metadata(), first thing on every path but the basename lookup's.
Stat(r) ==
    /\ \E k \in Kinds \ {"basename"} :
         /\ Begin(r, k)
         /\ Goto(r, IF k \in {"parse", "outline"} THEN "ready" ELSE "stated")
         /\ \E t \in Times(k) : statted' = [statted EXCEPT ![r] = t]
    /\ UNCHANGED <<fileVars, entry, holder, text, raced>>

\* read_file and read_with_bloom_check read the file before the lookup.
ReadText(r) ==
    /\ pc[r] = "stated"
    /\ text' = [text EXCEPT ![r] = version]
    /\ Goto(r, "ready")
    /\ UNCHANGED <<fileVars, begun, entry, holder, kind, asked, statted, answer, raced>>

\* basename_file_outline reads the file first and takes its time afterwards.
ReadFirst(r) ==
    /\ Begin(r, "basename")
    /\ text' = [text EXCEPT ![r] = version]
    /\ Goto(r, "text")
    /\ UNCHANGED <<fileVars, entry, holder, statted, raced>>

StatAfterRead(r) ==
    /\ pc[r] = "text"
    /\ \E t \in Times(kind[r]) :
         /\ statted' = [statted EXCEPT ![r] = t]
         /\ raced' = (raced \/ (t # Epoch /\ text[r] # version))
    /\ Goto(r, "ready")
    /\ UNCHANGED <<fileVars, begun, entry, holder, kind, asked, text, answer>>

(* OutlineCache: lookup and fill are one entry().                           *)

\* entry() locks the shard until the outline or parse is stored.
Enter(r) ==
    /\ pc[r] = "ready" /\ kind[r] # "bloom" /\ holder[CacheOf(r)] = Nil
    /\ holder' = [holder EXCEPT ![CacheOf(r)] = r]
    /\ Goto(r, "entered")
    /\ UNCHANGED <<fileVars, begun, entry, kind, asked, statted, text, answer, raced>>

\* Mutant: an entry is a hit whatever its time.
FreshAlways(k, time) == entry[k] # Nil

Fresh(k, time) == IF entry[k] = Nil THEN FALSE ELSE entry[k].mtime = time

Unlock(r) == holder' = [holder EXCEPT ![CacheOf(r)] = Nil]

\* A basename lookup is told apart: it answers with what it read or found.
Served(r) == IF kind[r] = "basename" THEN "named" ELSE "served"

Hit(r) ==
    /\ pc[r] = "entered" /\ Fresh(CacheOf(r), statted[r])
    /\ Return(r, Served(r), entry[CacheOf(r)].version)
    /\ Unlock(r)
    /\ UNCHANGED <<fileVars, begun, entry, asked, raced>>

\* What the computation works from: a parse or outline reads the file while
\* the entry is held (an outline takes an unreadable file for an empty one),
\* a view works from a mapping, which shows the file as it was opened or as it
\* is now, and a basename lookup from the text it read.
Source(r) == (IF kind[r] \in {"parse", "outline", "view"} THEN {version} ELSE {})
             \union (IF kind[r] \in {"view", "basename"} THEN {text[r]} ELSE {})
             \union (IF kind[r] = "outline" THEN {Nil} ELSE {})

Compute(r) ==
    /\ pc[r] = "entered" /\ ~Fresh(CacheOf(r), statted[r])
    /\ \E v \in Source(r) : text' = [text EXCEPT ![r] = v]
    /\ Goto(r, "computed")
    /\ UNCHANGED <<fileVars, begun, entry, holder, kind, asked, statted, answer, raced>>

\* Mutant: the entry is stamped with the time after the read.
FillLate(r) ==
    /\ pc[r] = "computed"
    /\ entry' = [entry EXCEPT ![CacheOf(r)] = [mtime |-> mtime, version |-> text[r]]]
    /\ Unlock(r)
    /\ Return(r, Served(r), text[r])
    /\ UNCHANGED <<fileVars, begun, asked, raced>>

\* The result is stored under the time of the stat.
Fill(r) ==
    /\ pc[r] = "computed"
    /\ entry' = [entry EXCEPT ![CacheOf(r)] =
                   [mtime |-> statted[r], version |-> text[r]]]
    /\ Unlock(r)
    /\ Return(r, Served(r), text[r])
    /\ UNCHANGED <<fileVars, begun, asked, raced>>

\* Mutant: a failed parse keeps the shard locked.
ParseFailsHeld(r) ==
    /\ pc[r] = "computed" /\ kind[r] = "parse"
    /\ Return(r, "none", Nil)
    /\ UNCHANGED <<fileVars, begun, entry, holder, asked, raced>>

\* The file cannot be read or parsed: the stale entry stays.
ParseFails(r) ==
    /\ pc[r] = "computed" /\ kind[r] = "parse"
    /\ Unlock(r)
    /\ Return(r, "none", Nil)
    /\ UNCHANGED <<fileVars, begun, entry, asked, raced>>

(* BloomFilterCache::contains: the lookup's guard is dropped before the     *)
(* filter is built and inserted.                                            *)

\* A filter may claim a symbol the scanner did not find; it never misses one
\* that was found.
Claims(v) == IF v \in Indexed THEN {"maybe"} ELSE {"maybe", "absent"}

QueryCached(r) ==
    /\ pc[r] = "ready" /\ kind[r] = "bloom" /\ Fresh("filters", statted[r])
    /\ \E a \in Claims(entry["filters"].version) : Return(r, a, text[r])
    /\ UNCHANGED <<fileVars, begun, entry, holder, asked, raced>>

MissFilter(r) ==
    /\ pc[r] = "ready" /\ kind[r] = "bloom" /\ ~Fresh("filters", statted[r])
    /\ Goto(r, "missed")
    /\ UNCHANGED <<fileVars, begun, entry, holder, kind, asked, statted, text, answer, raced>>

\* Mutant: the cached filter answers even when a new one was built.
InsertIfAbsent(r) ==
    /\ pc[r] = "missed"
    /\ LET kept == IF entry["filters"] = Nil
                   THEN [mtime |-> statted[r], version |-> text[r]]
                   ELSE entry["filters"]
       IN /\ entry' = [entry EXCEPT !["filters"] = kept]
          /\ \E a \in Claims(kept.version) : Return(r, a, text[r])
    /\ UNCHANGED <<fileVars, begun, holder, asked, raced>>

\* Mutant: the entry is stamped with the time after the read.
InsertLate(r) ==
    /\ pc[r] = "missed"
    /\ entry' = [entry EXCEPT !["filters"] = [mtime |-> mtime, version |-> text[r]]]
    /\ \E a \in Claims(text[r]) : Return(r, a, text[r])
    /\ UNCHANGED <<fileVars, begun, holder, asked, raced>>

\* The new filter replaces whatever another thread inserted meanwhile.
InsertFilter(r) ==
    /\ pc[r] = "missed"
    /\ entry' = [entry EXCEPT !["filters"] =
                   [mtime |-> statted[r], version |-> text[r]]]
    /\ \E a \in Claims(text[r]) : Return(r, a, text[r])
    /\ UNCHANGED <<fileVars, begun, holder, asked, raced>>

Step(r) == \/ Stat(r) \/ ReadText(r) \/ ReadFirst(r) \/ StatAfterRead(r)
           \/ Enter(r) \/ Hit(r) \/ Compute(r) \/ Fill(r) \/ ParseFails(r)
           \/ QueryCached(r) \/ MissFilter(r) \/ InsertFilter(r)

Next == Write \/ \E r \in Readers : Step(r)

Spec == Init /\ [][Next]_vars

-----------------------------------------------------------------------------
(* Properties.                                                             *)

\* An entry that bears the file's present time is of the file's present
\* content or newer, so no later request that trusts the time is served an
\* older text.  The empty outline of an unreadable file is the known exception.
Exact(k) == Fresh(k, mtime) => entry[k].version \in {version, Nil}

\* cache.rs:114-160: parses filled by any number of threads while the file is
\* being written are exact, because the stat comes before the read.
ParsesExact == Exact("parsed")

\* bloom.rs:52-71: so are filters, although lookup and insert are two steps
\* and a slow thread may overwrite a newer filter with an older one.
FiltersExact == Exact("filters")

\* cache.rs:9-10, "a stale entry is detected": so are outlines.
OutlinesExact == Exact("outlines")

\* Outlines stay exact until a basename lookup reads the text before a write
\* and takes the time after it (search/mod.rs:1398-1402).
OutlinesExactUnlessRaced == raced \/ OutlinesExact

\* The parse, outline or view that a request is given is of the file as it was
\* when the request began or later, whichever thread filled the entry and
\* whatever was written meanwhile.  A request without a time of the file is
\* excluded: all such share one entry, however old.
NeverOlderThanRequest ==
    \A r \in Readers :
      /\ answer[r].verdict = "served" /\ answer[r].version # Nil
      /\ answer[r].time # Epoch /\ ~raced
      => answer[r].version >= asked[r]

\* bloom.rs:49-50: "false if it is DEFINITELY absent".  What the scanner does
\* not index may be denied always.  Of what it does index, the filter that
\* denies it may be of another text than the one the caller holds, but only if
\* the file was written while the caller was looking (or gave it no time).
FalseNegativeNeedsWrite ==
    \A r \in Readers :
      answer[r].verdict = "absent" /\ answer[r].version \in Indexed /\ answer[r].time # Epoch
      => version # asked[r]
=============================================================================
