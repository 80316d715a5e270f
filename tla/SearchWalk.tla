----------------------------- MODULE SearchWalk -----------------------------
(***************************************************************************)
(* One parallel walk over the files of a scope, as the searches of         *)
(* src/src/search run it: find_definitions and find_usages (symbol.rs),    *)
(* search_capped_with_visited (content.rs) and                             *)
(* find_callers_batch_with_size_limit (callers.rs).                        *)
(*                                                                         *)
(* The threads of the `ignore` crate take the names of the scope in any    *)
(* order.  A file may have several names (links are followed), and the     *)
(* name under which it is opened decides its language.  The walks differ   *)
(* in when they stop: a symbol walk admits a file first and then looks at  *)
(* the count of what was found, a caller walk looks at the count before it *)
(* takes a name and knows no links, a content walk never stops early but   *)
(* keeps the best rows of each file only.                                  *)
(*                                                                         *)
(* Names the walk filters out (directories, minified or unreadable files,  *)
(* files above the size limit of a symbol or content walk) change nothing  *)
(* and are left out of Names.                                              *)
(***************************************************************************)
EXTENDS Naturals, FiniteSets

CONSTANTS
    Threads,            \* the threads of a walk
    Names,              \* the paths the walker may yield
    Files,              \* the physical files
    FileOf,             \* FileOf[n]: what n canonicalizes to
    Large,              \* the names above the size limit of a caller walk
    HitIds,             \* what can be found in a file
    Quality,            \* Quality[n][h]: the score of hit h in a file seen as n
    Unlimited,          \* usize::MAX
    NoName              \* a thread holds no name

ASSUME WalkAssumption ==
    /\ IsFiniteSet(Threads) /\ IsFiniteSet(Names)
    /\ IsFiniteSet(Files) /\ IsFiniteSet(HitIds)
    /\ FileOf \in [Names -> Files]
    /\ Large \in SUBSET Names
    /\ HitIds \in SUBSET Nat /\ Quality \in [Names -> [HitIds -> Nat]]
    \* more than any walk can find
    /\ Unlimited \in Nat /\ Unlimited > Cardinality(Names \X HitIds)
    /\ NoName \notin Names

Arms == {"definitions", "usages", "content", "callers"}

VARIABLES
    arm,        \* the walk under way, or "none"
    hits,       \* hits[n]: what this walk finds in a file opened as n
    limit,      \* the count at which it stops
    keep,       \* how many rows of a file a content walk keeps
    pending,    \* the names no thread has taken
    at,         \* where each thread is
    holds,      \* the name it works on
    admitted,   \* `seen`: the files some thread has taken on
    aliases,    \* `observed_paths`: the names met
    count,      \* `found_count`
    found,      \* `matches`: pairs of a name and a hit
    skipped,    \* `skipped_eligible`, `skipped_large`
    quit        \* a thread has returned WalkState::Quit

walkVars == <<arm, hits, limit, keep, pending, at, holds, admitted, aliases,
              count, found, skipped, quit>>

WalkTypeOK ==
    /\ arm \in Arms \union {"none"}
    /\ hits \in [Names -> SUBSET HitIds]
    /\ limit \in Nat /\ keep \in Nat
    /\ pending \in SUBSET Names
    /\ at \in [Threads -> {"take", "admit", "check", "search", "add"}]
    /\ holds \in [Threads -> Names \union {NoName}]
    /\ \A t \in Threads : at[t] = "take" <=> holds[t] = NoName
    /\ admitted \in SUBSET Files
    /\ aliases \in SUBSET Names
    /\ count \in Nat
    /\ found \in SUBSET (Names \X HitIds)
    /\ skipped \in BOOLEAN /\ quit \in BOOLEAN

Reset ==
    /\ at' = [t \in Threads |-> "take"]
    /\ holds' = [t \in Threads |-> NoName]
    /\ admitted' = {} /\ aliases' = {} /\ count' = 0 /\ found' = {}
    /\ skipped' = FALSE /\ quit' = FALSE

WalkInit ==
    /\ arm = "none"
    /\ hits = [n \in Names |-> {}]
    /\ limit = 0 /\ keep = 0 /\ pending = {}
    /\ at = [t \in Threads |-> "take"]
    /\ holds = [t \in Threads |-> NoName]
    /\ admitted = {} /\ aliases = {} /\ count = 0 /\ found = {}
    /\ skipped = FALSE /\ quit = FALSE

\* walker.run: the names of the scope wait to be taken.
StartWalk(a, names, table, threshold, best) ==
    /\ arm' = a /\ hits' = table /\ limit' = threshold /\ keep' = best
    /\ pending' = names
    /\ Reset

-----------------------------------------------------------------------------

Goto(t, l) == at' = [at EXCEPT ![t] = l]

\* Done with the name it holds.
NextName(t) == Goto(t, "take") /\ holds' = [holds EXCEPT ![t] = NoName]

\* Only a caller walk looks at the count before it takes a name on, and only
\* it passes over a large file and says so.
Take(t) ==
    /\ arm # "none" /\ at[t] = "take" /\ ~quit
    /\ \E n \in pending :
         /\ pending' = pending \ {n}
         /\ IF arm = "callers" /\ count >= limit
            THEN quit' = TRUE /\ UNCHANGED <<at, holds, skipped>>
            ELSE IF arm = "callers" /\ n \in Large
            THEN skipped' = TRUE /\ UNCHANGED <<at, holds, quit>>
            ELSE /\ holds' = [holds EXCEPT ![t] = n]
                 /\ Goto(t, IF arm = "callers" THEN "search" ELSE "admit")
                 /\ UNCHANGED <<skipped, quit>>
    /\ UNCHANGED <<arm, hits, limit, keep, admitted, aliases, count, found>>

\* The name is noted in any case; the file is taken on once.
Admit(t) ==
    /\ at[t] = "admit"
    /\ aliases' = aliases \union {holds[t]}
    /\ admitted' = admitted \union {FileOf[holds[t]]}
    /\ IF FileOf[holds[t]] \in admitted
       THEN NextName(t)
       ELSE Goto(t, IF arm = "content" THEN "search" ELSE "check") /\ UNCHANGED holds
    /\ UNCHANGED <<arm, hits, limit, keep, pending, count, found, skipped, quit>>

\* Mutant: the walk ends without a word.
CheckSilently(t) ==
    /\ at[t] = "check"
    /\ IF count >= limit
       THEN quit' = TRUE /\ NextName(t)
       ELSE Goto(t, "search") /\ UNCHANGED <<holds, quit>>
    /\ UNCHANGED <<arm, hits, limit, keep, pending, admitted, aliases, count, found, skipped>>

\* stop_for_eligible_remainder: what other threads have found but not counted
\* yet is not seen.
Check(t) ==
    /\ at[t] = "check"
    /\ IF count >= limit
       THEN skipped' = TRUE /\ quit' = TRUE /\ NextName(t)
       ELSE Goto(t, "search") /\ UNCHANGED <<holds, skipped, quit>>
    /\ UNCHANGED <<arm, hits, limit, keep, pending, admitted, aliases, count, found>>

\* The file is searched and what it holds is counted, all of it.
Search(t) ==
    /\ at[t] = "search"
    /\ IF hits[holds[t]] = {}
       THEN NextName(t) /\ UNCHANGED count
       ELSE /\ count' = count + Cardinality(hits[holds[t]])
            /\ Goto(t, "add") /\ UNCHANGED holds
    /\ UNCHANGED <<arm, hits, limit, keep, pending, admitted, aliases, found, skipped, quit>>

\* Of two rows of a file seen as n: by score, then by line.
Better(n, g, h) ==
    Quality[n][g] > Quality[n][h] \/ (Quality[n][g] = Quality[n][h] /\ g < h)

\* retain_top_k: the k best rows of one file, under the name it was taken on by.
TopOfFile(n, k) == {h \in hits[n] : Cardinality({g \in hits[n] : Better(n, g, h)}) < k}

Add(t) ==
    /\ at[t] = "add"
    /\ LET n == holds[t]
           rows == IF arm = "content" THEN TopOfFile(n, keep) ELSE hits[n]
       IN  found' = found \union ({n} \X rows)
    /\ NextName(t)
    /\ UNCHANGED <<arm, hits, limit, keep, pending, admitted, aliases, count, skipped, quit>>

WalkStep(t) == Take(t) \/ Admit(t) \/ Check(t) \/ Search(t) \/ Add(t)

\* walker.run returns: no thread holds a name and none can take one.
Joined ==
    /\ arm # "none"
    /\ \A t \in Threads : at[t] = "take"
    /\ quit \/ pending = {}

\* What the walk says of itself.
Complete ==
    IF arm = "callers" THEN ~skipped /\ count < limit ELSE ~skipped

=============================================================================
