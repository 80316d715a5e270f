------------------------------- MODULE Search -------------------------------
(***************************************************************************)
(* A search request from end to end, and a client that pages through its   *)
(* result: the walks of each scope (SearchWalk), the merge of the scopes'  *)
(* rows and their ranking (src/src/search/symbol.rs, content.rs, rank.rs,  *)
(* merge.rs), and the page, its navigation line and the output budget      *)
(* (src/src/search/paging.rs, src/src/listing.rs).                         *)
(*                                                                         *)
(* A match is <<file, hit, definition?>>, the identity by which the code   *)
(* merges what several names and several scopes show of it.  The files do  *)
(* not change; time passes, and with it the recency part of the scores.    *)
(*                                                                         *)
(* The client asks for one query again and again, as the answers tell it   *)
(* to: for the next page when there is one, for the same page with a       *)
(* smaller limit when the budget has cut it.                               *)
(***************************************************************************)
EXTENDS SearchWalk, Integers

CONSTANTS
    Scopes,             \* the directories a client may search
    InScope,            \* InScope[s]: the names under s
    Ignored,            \* the names a .gitignore excludes
    Queries,            \* what a client may look for
    Requests,           \* what it may ask (RequestShape)
    Holds,              \* Holds[q][a][n]: what walk a for q finds in n
    LineOf,             \* LineOf[h]: the line of a hit
    Heading,            \* the definitions that are headings of documents
    Relevance,          \* Relevance[n][s]: what a scope adds to the scores under n
    Boost,              \* what a recent file adds to it
    PathRank,           \* PathRank[n]: the order of paths
    Preference,         \* Preference[n]: canonical before links, short before long
    Cap,                \* MAX_MATCHES
    DefQuit, UseQuit,   \* the thresholds of an unpaged symbol search
    BatchQuit,          \* BATCH_EARLY_QUIT
    FirstLimit,         \* the page it asks for
    NoPage              \* no next page

\* A request: a page of it may be asked for, from a first row on.
RequestShape ==
    [query : Queries, kind : {"symbol", "content", "callers"},
     scopes : (SUBSET Scopes) \ {{}}, gitignore : {"unset", "on", "off"},
     paged : BOOLEAN, start : Int]

ASSUME SearchAssumption ==
    /\ IsFiniteSet(Scopes)
    /\ InScope \in [Scopes -> SUBSET Names] /\ Ignored \in SUBSET Names
    /\ Holds \in [Queries -> [Arms -> [Names -> SUBSET HitIds]]]
    \* a content search looks at bytes, not at a language
    /\ \A q \in Queries, n, m \in Names :
         FileOf[n] = FileOf[m] => Holds[q]["content"][n] = Holds[q]["content"][m]
    \* a usage is a line of its file
    /\ \A q \in Queries, n, m \in Names :
         FileOf[n] = FileOf[m] =>
           \A g \in Holds[q]["usages"][n], h \in Holds[q]["usages"][m] :
             LineOf[g] = LineOf[h] => g = h
    \* a content search finds lines, in their order
    /\ \A q \in Queries, n \in Names : \A g, h \in Holds[q]["content"][n] :
         g < h => LineOf[g] < LineOf[h]
    /\ LineOf \in [HitIds -> Nat] /\ Heading \in SUBSET HitIds
    /\ Relevance \in [Names -> [Scopes -> Nat]] /\ Boost \in Nat
    /\ PathRank \in [Names -> Nat] /\ Preference \in [Names -> Nat]
    \* two paths are not equal, nor are two names of a file equally good
    /\ \A n, m \in Names : n # m =>
         /\ PathRank[n] # PathRank[m]
         /\ FileOf[n] = FileOf[m] => Preference[n] # Preference[m]
    \* more than there is to find
    /\ Unlimited > Cardinality(Files \X HitIds \X BOOLEAN)
    /\ {Cap, DefQuit, UseQuit, BatchQuit, FirstLimit} \subseteq Nat \ {0}
    /\ \A r \in Requests :
         /\ r \in RequestShape
         /\ r.kind = "callers" => ~r.paged /\ Cardinality(r.scopes) = 1
         /\ ~r.paged => r.start = 0
    /\ NoPage \notin Nat

VARIABLES
    ask,        \* the client's request: query, kind, scopes, gitignore, paged, start
    offset,     \* the page it asks for now ...
    size,       \* ... and its limit
    phase,      \* where the request is
    todo,       \* the scopes not searched yet
    scope,      \* the one being searched
    defs,       \* what its definitions walk brought
    rows,       \* observations: a match, the name and the scope it was seen by
    ledger,     \* `file_ledger`: every hit a content search counted
    exact,      \* no walk stopped early and no scope failed
    anyOk,      \* some scope did not fail
    failed,     \* some scope did
    recent,     \* the files in the recent tier
    calm,       \* history: no file aged since the request began
    steady,     \* history: no file aged since the client's first request
    answer,     \* the last answer
    shown       \* the matches the client has been shown

clientVars == <<ask, offset, size, phase, todo, scope, defs, rows, ledger,
                exact, anyOk, failed, recent, calm, steady, answer, shown>>
allVars == <<walkVars, clientVars>>

Match == Files \X HitIds \X BOOLEAN
Observation == [m : Match, name : Names, scope : Scopes]
NoAnswer == [ok |-> FALSE, shown |-> {}, cut |-> FALSE, total |-> 0,
             exact |-> FALSE, next |-> NoPage]

\* Variables have their types; while a walk runs it is the one the request is
\* at; the last answer advertises a next page only with an exact total.
SearchTypeOK ==
    /\ WalkTypeOK
    /\ ask \in Requests
    /\ offset \in Int /\ size \in Nat
    /\ phase \in {"ready", "scopes", "definitions", "usages", "content",
                  "callers", "answered", "finished"}
    /\ phase \in Arms <=> arm # "none"
    /\ phase \in Arms => arm = phase
    /\ todo \in SUBSET Scopes /\ scope \in Scopes
    /\ defs \in [found : SUBSET (Names \X HitIds), aliases : SUBSET Names, skipped : BOOLEAN]
    /\ \A o \in rows : o \in Observation
    /\ ledger \in SUBSET (Files \X HitIds)
    /\ {exact, anyOk, failed, calm, steady} \subseteq BOOLEAN
    /\ recent \in SUBSET Files
    /\ shown \in SUBSET Match /\ answer.shown \in SUBSET Match
    /\ answer.next # NoPage => answer.exact /\ ~answer.cut

SearchInit ==
    /\ WalkInit
    /\ ask \in Requests
    /\ offset = ask.start
    /\ size = IF ask.paged THEN FirstLimit ELSE Cap
    /\ phase = "ready" /\ todo = {} /\ scope \in {CHOOSE s \in Scopes : TRUE}
    /\ defs = [found |-> {}, aliases |-> {}, skipped |-> FALSE]
    /\ rows = {} /\ ledger = {} /\ exact = TRUE /\ anyOk = FALSE /\ failed = FALSE
    /\ recent \in {{}, Files}
    /\ calm = TRUE /\ steady = TRUE
    /\ answer = NoAnswer /\ shown = {}

-----------------------------------------------------------------------------
(* Scopes and walks.                                                       *)

Begin ==
    /\ phase = "ready"
    /\ phase' = "scopes" /\ todo' = ask.scopes
    /\ rows' = {} /\ ledger' = {} /\ exact' = TRUE /\ anyOk' = FALSE /\ failed' = FALSE
    /\ calm' = TRUE
    /\ UNCHANGED <<walkVars, ask, offset, size, scope, defs, recent, steady, answer, shown>>

\* Mutant: the walk's own thread has no override.
RespectsDefault == TRUE

\* gitignore_config in the thread that builds the walker: symbol search hands
\* the call's override on to the two threads of its walks.
RespectsIgnore == ask.gitignore # "off"

Visible(s) == IF RespectsIgnore THEN InScope[s] \ Ignored ELSE InScope[s]

\* Page::prefix: how many ranked rows the page needs.
Prefix == IF offset < 0 THEN Unlimited ELSE offset + size

\* Mutant: pages use the thresholds of the preview.
QuitAtPreview(a) ==
    CASE a = "definitions" -> DefQuit
      [] a = "usages"      -> UseQuit
      [] a = "callers"     -> BatchQuit
      [] OTHER             -> Unlimited

\* A paged symbol search looks at every file (search_complete).
QuitAt(a) ==
    CASE a = "definitions" -> IF ask.paged THEN Unlimited ELSE DefQuit
      [] a = "usages"      -> IF ask.paged THEN Unlimited ELSE UseQuit
      [] a = "callers"     -> BatchQuit
      [] OTHER             -> Unlimited

Walk(a, s) ==
    /\ phase' = a
    /\ StartWalk(a, Visible(s), Holds[ask.query][a], QuitAt(a), Prefix)

FirstArm == IF ask.kind = "symbol" THEN "definitions" ELSE ask.kind

SearchScope(s) ==
    /\ phase = "scopes" /\ s \in todo
    /\ todo' = todo \ {s} /\ scope' = s
    /\ Walk(FirstArm, s)
    /\ UNCHANGED <<ask, offset, size, defs, rows, ledger, exact, anyOk, failed, recent,
                   calm, steady, answer, shown>>

\* The scope does not exist or cannot be read.
ScopeFails(s) ==
    /\ phase = "scopes" /\ s \in todo
    /\ todo' = todo \ {s} /\ exact' = FALSE /\ failed' = TRUE
    /\ UNCHANGED <<walkVars, ask, offset, size, phase, scope, defs, rows, ledger,
                   anyOk, recent, calm, steady, answer, shown>>

WalkOn ==
    /\ \E t \in Threads : WalkStep(t)
    /\ UNCHANGED clientVars

\* The walk's rows are taken over and the next scope's turn comes.
EndWalk(newRows, complete) ==
    /\ rows' = rows \union newRows
    /\ exact' = (exact /\ complete) /\ anyOk' = TRUE
    /\ phase' = "scopes"
    /\ arm' = "none" /\ hits' = [n \in Names |-> {}] /\ limit' = 0 /\ keep' = 0
    /\ pending' = {} /\ Reset
    /\ UNCHANGED <<ask, offset, size, todo, scope, failed, recent, calm, steady, answer, shown>>

\* The two walks of a symbol search share nothing until both have ended, so
\* that they run side by side shows nowhere.
EndDefinitions ==
    /\ phase = "definitions" /\ Joined
    /\ defs' = [found |-> found, aliases |-> aliases, skipped |-> skipped]
    /\ Walk("usages", scope)
    /\ UNCHANGED <<ask, offset, size, todo, scope, rows, ledger, exact, anyOk, failed,
                   recent, calm, steady, answer, shown>>

\* The matches of a walk, each under every name its file was met by.
Observed(pairs, names, isDef) ==
    {[m |-> <<FileOf[p[1]], p[2], isDef>>, name |-> n, scope |-> scope] :
       p \in pairs, n \in names}

Sightings(pairs, names, isDef) ==
    {o \in Observed(pairs, names, isDef) : FileOf[o.name] = o.m[1]}

\* Mutant: a usage on the line of a definition is kept.
NeverDominated(p, pairs) == FALSE

\* usage_is_dominated_by_definition.
Dominated(p, pairs) ==
    \E d \in pairs : /\ FileOf[d[1]] = FileOf[p[1]]
                     /\ LineOf[d[2]] = LineOf[p[2]]

EndUsages ==
    /\ phase = "usages" /\ Joined
    /\ LET uses == {p \in found : ~Dominated(p, defs.found)}
       IN  EndWalk(Sightings(defs.found, defs.aliases, TRUE)
                     \union Sightings(uses, aliases, FALSE),
                   Complete /\ ~defs.skipped)
    /\ defs' = [found |-> {}, aliases |-> {}, skipped |-> FALSE]
    /\ UNCHANGED ledger

\* A caller walk takes every name for a file: its rows are not merged.
EndCallers ==
    /\ phase = "callers" /\ Joined
    /\ EndWalk({[m |-> <<FileOf[p[1]], p[2], FALSE>>, name |-> p[1], scope |-> scope] :
                  p \in found}, Complete)
    /\ UNCHANGED <<defs, ledger>>

-----------------------------------------------------------------------------
(* Ranking.                                                                *)

Largest(S) == CHOOSE x \in S : \A y \in S : y <= x

\* rank::score: of a line under a name (its language decides what a comment
\* is, its words count with the line's), the nearness of the scope, and recency.
Score(o) == Relevance[o.name][o.scope] + Quality[o.name][o.m[2]]
              + (IF o.m[1] \in recent THEN Boost ELSE 0)

SeenAs(m, S) == {o \in S : o.m = m}

\* Mutant: some sighting's score, not the best.
ScoreOfShownName(m, S) ==
    Score(CHOOSE o \in SeenAs(m, S) :
            \A p \in SeenAs(m, S) : Preference[o.name] <= Preference[p.name])

BestScore(m, S) == Largest({Score(o) : o \in SeenAs(m, S)})

PathOf(m, S) ==
    (CHOOSE o \in SeenAs(m, S) :
       \A p \in SeenAs(m, S) : Preference[o.name] <= Preference[p.name]).name

Stratum(m) == IF ~m[3] THEN 2 ELSE IF m[2] \in Heading THEN 1 ELSE 0

\* The sort key: stratum, score, path, line.  What is equal in all four comes
\* in the order of a hash map, upwards or downwards by the number of the hit.
Ahead(x, y, S, score, up) ==
    LET same == Stratum(x) = Stratum(y) /\ score[x] = score[y]
        rank(m) == PathRank[PathOf(m, S)]
        line(m) == LineOf[m[2]]
    IN  \/ Stratum(x) < Stratum(y)
        \/ Stratum(x) = Stratum(y) /\ score[x] > score[y]
        \/ same /\ rank(x) < rank(y)
        \/ same /\ rank(x) = rank(y) /\ line(x) < line(y)
        \/ same /\ rank(x) = rank(y) /\ line(x) = line(y) /\ (IF up THEN x[2] < y[2] ELSE y[2] < x[2])

Matches(S) == {o.m : o \in S}
Position(m, S, score, up) == Cardinality({x \in Matches(S) : Ahead(x, m, S, score, up)})

\* The matches at the positions [from, upto).
Ranked(S, score, from, upto, up) ==
    {m \in Matches(S) : LET p == Position(m, S, score, up) IN from <= p /\ p < upto}

Slice(S, from, upto, up) ==
    Ranked(S, [m \in Matches(S) |-> BestScore(m, S)], from, upto, up)

\* The sightings of the rows a truncation keeps.
Truncate(S, k) == {o \in S : o.m \in Slice(S, 0, k, TRUE)}

\* Each scope of a content search ranks and truncates before the merge; the
\* ledger has every hit of a file that has a row.
EndContent ==
    /\ phase = "content" /\ Joined
    /\ EndWalk(Truncate(Sightings(found, aliases, FALSE), keep), Complete)
    /\ ledger' = ledger \union UNION {{FileOf[p[1]]} \X hits[p[1]] : p \in found}
    /\ UNCHANGED defs

-----------------------------------------------------------------------------
(* The page.                                                               *)

Least(a, b) == IF a < b THEN a ELSE b

\* Page::bounds: the positions [First(total), Last(total)) are shown.
First(total) ==
    IF offset >= 0 THEN Least(offset, total)
    ELSE IF -offset >= total THEN 0 ELSE total + offset

Last(total) == Least(First(total) + size, total)

Total ==
    CASE ask.kind = "symbol"  -> Cardinality(Matches(rows))
      [] ask.kind = "content" -> Cardinality(ledger)
      [] ask.kind = "callers" -> Cardinality({<<o.m, o.name>> : o \in rows})

Answered(a) ==
    /\ answer' = a
    /\ shown' = shown \union a.shown
    /\ phase' = "answered"
    /\ UNCHANGED <<walkVars, ask, offset, size, todo, scope, defs, rows, ledger,
                   exact, anyOk, failed, recent, calm, steady>>

AllScopesFailed ==
    /\ phase = "scopes" /\ todo = {} /\ ~anyOk
    /\ Answered(NoAnswer)

\* An observed total has no navigation line.
Page(up) ==
    [ok |-> TRUE, cut |-> FALSE, total |-> Total, exact |-> exact,
     shown |-> Slice(rows, First(Total), Last(Total), up),
     next |-> IF ask.paged /\ exact /\ Last(Total) < Total THEN Last(Total) ELSE NoPage]

\* The page fits the budget.
AnswerPage ==
    /\ phase = "scopes" /\ todo = {} /\ anyOk
    /\ \E up \in BOOLEAN : Answered(Page(up))

\* Mutant: the navigation line outlives the rows it follows.
CutKeepsNavigation(up, upto) ==
    [Page(up) EXCEPT !.shown = Slice(rows, First(Total), upto, up), !.cut = TRUE]

\* truncate_page: rows are lost from the end, and the navigation with them; or
\* the navigation only.
CutAt(up, upto) ==
    [Page(up) EXCEPT !.shown = Slice(rows, First(Total), upto, up),
                     !.cut = TRUE, !.next = NoPage]

AnswerCut ==
    /\ phase = "scopes" /\ todo = {} /\ anyOk /\ ask.paged
    /\ \E up \in BOOLEAN, upto \in First(Total) .. Last(Total) :
         Answered(CutAt(up, upto))

-----------------------------------------------------------------------------
(* Time and the client.                                                    *)

\* A file leaves the recent tier (rank::recency reads the clock).  During a
\* walk this would be the same as before the walk's rows are ranked.
Age(f) ==
    /\ phase \in {"scopes", "answered"} /\ f \in recent
    /\ recent' = recent \ {f} /\ calm' = FALSE /\ steady' = FALSE
    /\ UNCHANGED <<walkVars, ask, offset, size, phase, todo, scope, defs, rows,
                   ledger, exact, anyOk, failed, answer, shown>>

Again(p, l) ==
    /\ phase = "answered"
    /\ offset' = p /\ size' = l /\ phase' = "ready" /\ rows' = {} /\ ledger' = {}
    /\ answer' = NoAnswer
    /\ UNCHANGED <<walkVars, ask, todo, scope, defs, exact, anyOk, failed, recent, calm,
                   steady, shown>>

FollowNext == answer.next # NoPage /\ Again(answer.next, size)

RetrySmaller == answer.cut /\ size > 1 /\ Again(offset, size - 1)

Finish ==
    /\ phase = "answered" /\ answer.next = NoPage /\ (answer.cut => size = 1)
    /\ phase' = "finished"
    /\ UNCHANGED <<walkVars, ask, offset, size, todo, scope, defs, rows, ledger,
                   exact, anyOk, failed, recent, calm, steady, answer, shown>>

Next ==
    \/ Begin
    \/ \E s \in Scopes : SearchScope(s) \/ ScopeFails(s)
    \/ WalkOn \/ EndDefinitions \/ EndUsages \/ EndCallers \/ EndContent
    \/ AllScopesFailed \/ AnswerPage \/ AnswerCut
    \/ \E f \in Files : Age(f)
    \/ FollowNext \/ RetrySmaller \/ Finish

Spec == SearchInit /\ [][Next]_allVars

-----------------------------------------------------------------------------
(* What the answers promise.                                               *)

\* What there is to find: a name belongs to the request by where it lies and
\* by the override the client gave, whatever thread looks.
Belongs(s) == {n \in InScope[s] : n \in Ignored => ask.gitignore = "off"}
NamesOf(f, s) == {n \in Belongs(s) : FileOf[n] = f}
Holding(a, n) == Holds[ask.query][a][n]

\* A walk opens a file under one of its names and the name decides the
\* language: some hits are found in any case, others may be.
InAnyCase(a, f, s) == {h \in HitIds : \A n \in NamesOf(f, s) : h \in Holding(a, n)}
Perhaps(a, f, s) == UNION {Holding(a, n) : n \in NamesOf(f, s)}
OnLineOf(H) == {h \in HitIds : \E d \in H : LineOf[d] = LineOf[h]}

CertainIn(s, f) ==
    CASE ask.kind = "symbol" ->
           ({f} \X InAnyCase("definitions", f, s) \X {TRUE}) \union
           ({f} \X (InAnyCase("usages", f, s) \ OnLineOf(Perhaps("definitions", f, s))) \X {FALSE})
      [] OTHER -> {f} \X InAnyCase(ask.kind, f, s) \X {FALSE}
PossibleIn(s, f) ==
    CASE ask.kind = "symbol" ->
           ({f} \X Perhaps("definitions", f, s) \X {TRUE}) \union
           ({f} \X (Perhaps("usages", f, s) \ OnLineOf(InAnyCase("definitions", f, s))) \X {FALSE})
      [] OTHER -> {f} \X Perhaps(ask.kind, f, s) \X {FALSE}

Seen(s) == {f \in Files : NamesOf(f, s) # {}}
Certain == UNION {UNION {CertainIn(s, f) : f \in Seen(s)} : s \in ask.scopes}
Possible == UNION {UNION {PossibleIn(s, f) : f \in Seen(s)} : s \in ask.scopes}

Answering == phase \in {"answered", "finished"} /\ answer.ok

\* A total given as exact counts everything there is to find, and nothing
\* else.  A caller total counts a site once for every name of its file.
EstimateIsTrue ==
    Answering /\ answer.exact =>
      CASE ask.kind = "symbol" ->
             /\ answer.total = Cardinality(Matches(rows))
             /\ Certain \subseteq Matches(rows) /\ Matches(rows) \subseteq Possible
        [] ask.kind = "content" ->
             answer.total = Cardinality(Certain)
        [] ask.kind = "callers" ->
             {<<o.name, o.m[2]>> : o \in rows} =
               UNION {UNION {{n} \X Holding("callers", n) : n \in Belongs(s)} : s \in ask.scopes}

\* README.md:74: "Incomplete scans report lower bounds", and so does the
\* answer: "at least N matches".
ObservedIsLowerBound ==
    Answering /\ ~answer.exact /\ ask.kind # "callers" =>
      answer.total <= Cardinality(Possible)

\* It is so of one scope: a usage that stands where a definition was not seen
\* is counted in its place.
LowerBoundInOneScope == Cardinality(ask.scopes) = 1 => ObservedIsLowerBound

\* All sightings of what there is to find.
AllRows ==
    {o \in [m : Possible, name : Names, scope : ask.scopes] :
       o.name \in NamesOf(o.m[1], o.scope) /\ o.m \in PossibleIn(o.scope, o.m[1])}

\* Every file is read in the same language under all the names a scope has
\* for it, so that what a scope shows of it is determined.
Plain == \A s \in ask.scopes : \A f \in Seen(s) : CertainIn(s, f) = PossibleIn(s, f)

Best == [m \in Possible |-> Largest({Score(o) : o \in SeenAs(m, AllRows)})]

\* The name under which a scope lists a file.
NameIn(f, s) ==
    CHOOSE n \in NamesOf(f, s) : \A k \in NamesOf(f, s) : Preference[n] <= Preference[k]
OneName(f) ==
    \A s, t \in ask.scopes : f \in Seen(s) /\ f \in Seen(t) => NameIn(f, s) = NameIn(f, t)

\* Each scope of a content search breaks its ties by the name it lists a file
\* under, the merge by the name preferred over all scopes: where something is
\* tied, they had better be the same.
Undisputed ==
    ask.kind = "content" =>
      \A x, y \in Possible : x # y /\ Best[x] = Best[y] => OneName(x[1])

\* A content search keeps some rows of a file by their scores under one of its
\* names in the scope, whichever thread comes first: the others had better
\* order the rows alike.
SameOrder ==
    ask.kind = "content" =>
      \A s \in ask.scopes : \A f \in Seen(s) : \A n, k \in NamesOf(f, s) :
        \A g, h \in Holding("content", n) : Better(n, g, h) <=> Better(k, g, h)

\* A page is the slice of the one ranking of everything there is to find that
\* its offset and limit name, though every page is collected by walks of its
\* own and a content search keeps only some rows of a file and of a scope.
PageIsSlice ==
    Answering /\ ask.paged /\ answer.exact /\ calm
      /\ Plain /\ Undisputed /\ SameOrder =>
      \E up \in BOOLEAN :
        LET from == First(answer.total)
            page == Ranked(AllRows, Best, from, from + size, up)
        IN  IF answer.cut THEN answer.shown \subseteq page ELSE answer.shown = page

\* Rows that compare equal come in the order of a hash map.
Tied(m) ==
    \E x \in Possible : /\ x # m /\ x[1] = m[1] /\ x[3] = m[3]
                        /\ LineOf[x[2]] = LineOf[m[2]]

\* A client that starts at the first row and does what the answers tell it,
\* ends with every match on its screen, unless a scope failed, a file aged, or
\* a single row was cut.
NothingSkipped ==
    phase = "finished" /\ ask.paged /\ ask.start = 0 /\ ~failed /\ ~answer.cut
      /\ steady /\ Plain /\ Undisputed /\ SameOrder
      => \A m \in Certain : ~Tied(m) => m \in shown
=============================================================================
