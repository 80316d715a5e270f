------------------------------- MODULE Session -------------------------------
(***************************************************************************)
(* What the server remembers of a client's calls (src/src/session.rs) and  *)
(* the calls that use it: a search expands the definitions it lists and    *)
(* shows a stub for one that was expanded before (format_single_match of   *)
(* src/src/search/mod.rs); grok claims the body of its target and then of  *)
(* a lone callee (src/src/search/grok.rs).                                 *)
(*                                                                         *)
(* Calls run on threads of their own and a call that times out runs on, so *)
(* every step that takes a lock, reads a file or asks for its modification *)
(* time is an action.  A body that was rendered may still be dropped from  *)
(* the answer, by the output budget or with the whole answer.              *)
(*                                                                         *)
(* A file has a version; every edit makes a new one and its modification   *)
(* time tells the versions apart.                                          *)
(***************************************************************************)
EXTENDS Naturals, FiniteSets

CONSTANTS
    Calls,              \* the calls, each made once
    Keys,               \* `path:line`, the definitions that may be shown
    FileOf,             \* FileOf[k]: the file k is in
    Big,                \* bodies above BODY_DEGRADE_THRESHOLD
    Delegate,           \* Delegate[k]: the lone callee of a thin wrapper, or NoKey
    NoKey,
    MaxEdits            \* bound: versions a file goes through

ASSUME SessionAssumption ==
    /\ Big \subseteq Keys /\ NoKey \notin Keys
    /\ Delegate \in [Keys -> Keys \union {NoKey}]
    \* a callee's callee is not shown, so a delegate is no wrapper here
    /\ \A k \in Keys : Delegate[k] # NoKey => k \notin Big /\ Delegate[Delegate[k]] = NoKey
    /\ MaxEdits \in Nat

Files == {FileOf[k] : k \in Keys}
Versions == 0 .. MaxEdits
Never == MaxEdits + 1       \* no record, or a time that could not be asked

VARIABLES
    version,    \* the files' versions, and so their modification times
    expanded,   \* `expanded`: for which version a key is recorded
    kind,       \* what a call is
    key,        \* the definition it is at
    line,       \* the step it is at
    time,       \* the modification time it has in hand
    text,       \* the version of the body it has in hand
    bodies,     \* what it has put into its answer: <<key, version>>
    stubs,      \* the bodies it has withheld: <<key, version>>
    cleared,    \* tool_session's reset has run
    rendered,   \* history: bodies some call rendered
    delivered,  \* history: bodies the client received
    misdated,   \* history: records a grok made for a text of another version
    inlined     \* history: the groks that won the claim of a big body

vars == <<version, expanded, kind, key, line, time, text, bodies, stubs, cleared,
          rendered, delivered, misdated, inlined>>

call == <<kind, key, line, time, text, bodies, stubs>>
past == <<rendered, delivered, misdated, inlined>>

Lines == {"ready", "ask", "read", "record",
          "grok", "resolve", "claimStat", "claim", "restat", "mark", "delegate",
          "answer", "done"}

\* Variables have their types: no stub is for a file whose time was not asked.
TypeOK ==
    /\ version \in [Files -> Versions]
    /\ expanded \in [Keys -> Versions \union {Never}]
    /\ kind \in [Calls -> {"search", "grok"}]
    /\ key \in [Calls -> Keys]
    /\ line \in [Calls -> Lines]
    /\ time \in [Calls -> Versions \union {Never}]
    /\ text \in [Calls -> Versions]
    /\ bodies \in [Calls -> SUBSET (Keys \X Versions)]
    /\ stubs \in [Calls -> SUBSET (Keys \X Versions)]
    /\ cleared \in BOOLEAN
    /\ rendered \in SUBSET (Keys \X Versions)
    /\ delivered \in SUBSET rendered
    /\ misdated \in SUBSET (Keys \X Versions)
    /\ inlined \in SUBSET (Calls \X Keys)

Init ==
    /\ version = [f \in Files |-> 0]
    /\ expanded = [k \in Keys |-> Never]
    /\ kind \in [Calls -> {"search", "grok"}]
    /\ key \in [Calls -> Keys]
    /\ line = [c \in Calls |-> "ready"]
    /\ time = [c \in Calls |-> Never]
    /\ text = [c \in Calls |-> 0]
    /\ bodies = [c \in Calls |-> {}] /\ stubs = [c \in Calls |-> {}]
    /\ cleared = FALSE
    /\ rendered = {} /\ delivered = {} /\ misdated = {} /\ inlined = {}

-----------------------------------------------------------------------------

At(c, l) == line[c] = l
Goto(c, l) == line' = [line EXCEPT ![c] = l]
Modified(c) == version[FileOf[key[c]]]

\* metadata().modified() may fail.
Stat(c) == \E t \in {Modified(c), Never} : time' = [time EXCEPT ![c] = t]

\* The body of text v of the call's key goes into its answer.
Inline(c, v) ==
    /\ bodies' = [bodies EXCEPT ![c] = @ \union {<<key[c], v>>}]
    /\ rendered' = rendered \union {<<key[c], v>>}

(* A search lists a definition. *)

SearchStat(c) ==
    /\ At(c, "ready") /\ kind[c] = "search" /\ Stat(c) /\ Goto(c, "ask")
    /\ UNCHANGED <<version, expanded, kind, key, text, bodies, stubs, cleared, past>>

\* Mutant: no time and no record are the same time.
IsExpandedUnasked(c) == expanded[key[c]] = time[c]

\* is_expanded
IsExpanded(c) == time[c] # Never /\ expanded[key[c]] = time[c]

SearchAsk(c) ==
    /\ At(c, "ask")
    /\ IF IsExpanded(c)
       THEN /\ stubs' = [stubs EXCEPT ![c] = @ \union {<<key[c], time[c]>>}]
            /\ Goto(c, "answer")
       ELSE Goto(c, "read") /\ UNCHANGED stubs
    /\ UNCHANGED <<version, expanded, kind, key, time, text, bodies, cleared, past>>

\* expand_match: the file is read now; when it cannot be, nothing is shown.
SearchRead(c) ==
    /\ At(c, "read")
    /\ \/ text' = [text EXCEPT ![c] = Modified(c)] /\ Goto(c, "record")
       \/ Goto(c, "answer") /\ UNCHANGED text
    /\ UNCHANGED <<version, expanded, kind, key, time, bodies, stubs, cleared, past>>

\* Mutant: the time is asked again after the text was read.
SearchRecordsNow(c) ==
    /\ At(c, "record")
    /\ expanded' = [expanded EXCEPT ![key[c]] = Modified(c)]
    /\ Inline(c, text[c]) /\ Goto(c, "answer")
    /\ UNCHANGED <<version, kind, key, time, text, stubs, cleared,
                   delivered, misdated, inlined>>

\* record_expand, with the time asked before the text was read.
SearchRecord(c) ==
    /\ At(c, "record")
    /\ expanded' = IF time[c] = Never THEN expanded ELSE [expanded EXCEPT ![key[c]] = time[c]]
    /\ Inline(c, text[c]) /\ Goto(c, "answer")
    /\ UNCHANGED <<version, kind, key, time, text, stubs, cleared,
                   delivered, misdated, inlined>>

(* Grok. *)

\* resolve_target reads the file.
GrokRead(c) ==
    /\ At(c, "ready") /\ kind[c] = "grok"
    /\ text' = [text EXCEPT ![c] = Modified(c)]
    /\ Goto(c, "resolve")
    /\ UNCHANGED <<version, expanded, kind, key, time, bodies, stubs, cleared, past>>

\* Callees, callers and siblings: the work that may fail comes first.
GrokResolve(c) ==
    /\ At(c, "resolve")
    /\ \E l \in {"claimStat", "done"} : Goto(c, l)
    /\ UNCHANGED <<version, expanded, kind, key, time, text, bodies, stubs, cleared, past>>

\* body_with_dedup: a small body is shown, and any whose time cannot be asked.
GrokStat(c) ==
    /\ At(c, "claimStat")
    /\ \/ Inline(c, text[c]) /\ Goto(c, "restat") /\ UNCHANGED time
       \/ /\ key[c] \in Big
          /\ time' = [time EXCEPT ![c] = Modified(c)]
          /\ Goto(c, "claim") /\ UNCHANGED <<bodies, rendered>>
    /\ UNCHANGED <<version, expanded, kind, key, text, stubs, cleared, delivered,
                   misdated, inlined>>

Misdate(c, t) ==
    misdated' = IF t = text[c] THEN misdated ELSE misdated \union {<<key[c], t>>}

\* Mutant: the claim looks and leaves the recording for later.
ClaimWithoutRecord(c) ==
    /\ At(c, "claim")
    /\ IF IsExpanded(c)
       THEN /\ stubs' = [stubs EXCEPT ![c] = @ \union {<<key[c], time[c]>>}]
            /\ UNCHANGED <<bodies, rendered, inlined>>
       ELSE /\ Inline(c, text[c])
            /\ inlined' = inlined \union {<<c, key[c]>>}
            /\ UNCHANGED stubs
    /\ Goto(c, "restat")
    /\ UNCHANGED <<version, expanded, kind, key, time, text, cleared, delivered, misdated>>

\* claim_expand: look and record under one lock.
GrokClaim(c) ==
    /\ At(c, "claim")
    /\ expanded' = [expanded EXCEPT ![key[c]] = time[c]]
    /\ IF IsExpanded(c)
       THEN /\ stubs' = [stubs EXCEPT ![c] = @ \union {<<key[c], time[c]>>}]
            /\ UNCHANGED <<bodies, rendered, inlined, misdated>>
       ELSE /\ Inline(c, text[c])
            /\ inlined' = inlined \union {<<c, key[c]>>}
            /\ Misdate(c, time[c])
            /\ UNCHANGED stubs
    /\ Goto(c, "restat")
    /\ UNCHANGED <<version, kind, key, time, text, cleared, delivered>>

\* The time is asked once more; when that fails nothing is recorded.
GrokRestat(c) ==
    /\ At(c, "restat") /\ Stat(c) /\ Goto(c, "mark")
    /\ UNCHANGED <<version, expanded, kind, key, text, bodies, stubs, cleared, past>>

\* record_expand; a thin wrapper goes on with its callee.
GrokMark(c) ==
    /\ At(c, "mark")
    /\ IF time[c] = Never
       THEN UNCHANGED <<expanded, misdated>>
       ELSE expanded' = [expanded EXCEPT ![key[c]] = time[c]] /\ Misdate(c, time[c])
    /\ Goto(c, "delegate") /\ time' = [time EXCEPT ![c] = Never]
    /\ UNCHANGED <<version, kind, key, text, bodies, stubs,
                   cleared, rendered, delivered, inlined>>

\* read_delegate_content: a callee in the target's own file is cut from the
\* text at hand; one in another file that cannot be read is left out.
GrokDelegate(c) ==
    /\ At(c, "delegate")
    /\ LET d == Delegate[key[c]]
       IN  \/ /\ d # NoKey => FileOf[d] # FileOf[key[c]]
              /\ Goto(c, "answer") /\ UNCHANGED <<key, text>>
           \/ /\ d # NoKey
              /\ key' = [key EXCEPT ![c] = d]
              /\ text' = [text EXCEPT ![c] = IF FileOf[d] = FileOf[key[c]] THEN @ ELSE version[FileOf[d]]]
              /\ Goto(c, "claimStat")
    /\ UNCHANGED <<version, expanded, kind, time, bodies, stubs, cleared, past>>

-----------------------------------------------------------------------------

\* The answer leaves with the bodies the budget leaves in it; a call that has
\* timed out delivers none.
Answer(c) ==
    /\ At(c, "answer")
    /\ \E kept \in SUBSET bodies[c] : delivered' = delivered \union kept
    /\ Goto(c, "done")
    /\ time' = [time EXCEPT ![c] = Never] /\ text' = [text EXCEPT ![c] = 0]
    /\ UNCHANGED <<version, expanded, kind, key, bodies, stubs, cleared,
                   rendered, misdated, inlined>>

Edit(f) ==
    /\ version[f] < MaxEdits
    /\ version' = [version EXCEPT ![f] = @ + 1]
    /\ UNCHANGED <<expanded, call, cleared, past>>

\* reset clears `expanded` last, under its lock; the counters it clears before
\* that decide nothing and are left out.
ClearExpanded ==
    /\ ~cleared /\ cleared' = TRUE
    /\ expanded' = [k \in Keys |-> Never]
    /\ UNCHANGED <<version, call, past>>

Search(c) ==
    SearchStat(c) \/ SearchAsk(c) \/ SearchRead(c) \/ SearchRecord(c)

Grok(c) ==
    \/ GrokRead(c) \/ GrokResolve(c) \/ GrokStat(c) \/ GrokClaim(c)
    \/ GrokRestat(c) \/ GrokMark(c) \/ GrokDelegate(c)

Next ==
    \/ \E c \in Calls : Search(c) \/ Grok(c) \/ Answer(c)
    \/ \E f \in Files : Edit(f)
    \/ ClearExpanded

Spec == Init /\ [][Next]_vars

-----------------------------------------------------------------------------

Shows(S, k, t) == \E v \in Versions : v >= t /\ <<k, v>> \in S

\* A body is withheld only when a call has rendered it, at that version or a
\* later one; or else a grok had read the file, the file was edited, and grok
\* asked for its time after that.
WithheldWasRendered ==
    \A c \in Calls : \A s \in stubs[c] : Shows(rendered, s[1], s[2]) \/ s \in misdated

\* Of the groks of one big body at most one wins the claim, while the file
\* stays as it is and the session is not reset.
OneFullBody ==
    ~cleared =>
      \A k \in Keys : version[FileOf[k]] = 0 => Cardinality({c \in Calls : <<c, k>> \in inlined}) <= 1

\* README.md:349: "a definition that was already expanded comes back as [shown
\* earlier]"; src/src/search/grok.rs:1722: "when the body was already shown in
\* this session AND the file is unchanged".  The client has the body, or a
\* call that is not done yet may still bring it.
ShownEarlierWasShown ==
    \A c \in Calls : \A s \in stubs[c] :
      \/ Shows(delivered, s[1], s[2])
      \/ \E d \in Calls : line[d] # "done" /\ Shows(bodies[d], s[1], s[2])
=============================================================================
