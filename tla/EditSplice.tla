----------------------------- MODULE EditSplice -----------------------------
(***************************************************************************)
(* The computation inside one hash-anchored edit: apply_edits of           *)
(* src/src/edit.rs between reading the file and reporting.  It verifies    *)
(* the anchors of all edits, refuses overlapping ranges, splices the       *)
(* replacements from the bottom of the file upwards, joins the lines into  *)
(* the new content, and walks the edits again from the top to number the   *)
(* lines it echoes, keeping a running offset.                              *)
(*                                                                         *)
(* A line is a member of Lines; Blank is the empty one.  A file is its     *)
(* lines and whether it ends with a line break.  A client writes an edit   *)
(* from an earlier reading of the file, which may have changed since.      *)
(***************************************************************************)
EXTENDS Naturals, Integers, SequencesExt

CONSTANTS Lines,        \* line texts
          Blank,        \* the empty line
          LineHash,     \* the 12-bit checksum of a line: collisions exist
          MaxLines,     \* bound on the lines of the file
          Replacements, \* what an edit may put in place: sequences of lines
          MaxEdits      \* bound on the edits of a batch

ASSUME InputAssumption == /\ Blank \in Lines
                          /\ Replacements \subseteq Seq(Lines)
                          /\ MaxLines \in Nat /\ MaxEdits \in Nat

VARIABLES
    seen,       \* the file's lines as the client read them
    lines,      \* its lines now
    newline,    \* does it end with a line break?
    edits,      \* the batch
    phase,      \* where apply_edits is
    todo,       \* indices of the edits still to splice or echo, by start line
    owned,      \* the lines being spliced
    offset,     \* how far the lines have moved so far
    echoed      \* the "+" lines reported: pairs of a number and a text

vars == <<seen, lines, newline, edits, phase, todo, owned, offset, echoed>>
input == <<seen, lines, newline, edits>>

\* str::lines() of ls joined by line breaks, with one more if nl.
Rows(ls, nl) == IF nl THEN (IF ls = <<>> THEN <<Blank>> ELSE ls)
                ELSE IF ls # <<>> /\ Last(ls) = Blank THEN Front(ls) ELSE ls

IsFile(ls, nl) == Rows(ls, nl) = ls

Contents == UNION {[1..n -> Lines] : n \in 0..MaxLines}

\* An edit anchored to lines from..to of the client's reading.
Anchored(from, to, new) ==
    [start |-> from, startHash |-> LineHash[seen[from]],
     end |-> to, endHash |-> LineHash[seen[to]], new |-> new]

ClientEdits ==
    {Anchored(r[1], r[2], new) :
        r \in (1..Len(seen)) \X (1..Len(seen)), new \in Replacements}

\* Every variable has its type, and the running offset never takes the file
\* below no lines at all.
TypeOK ==
    /\ phase \in {"compose", "verify", "overlap", "splice", "echo", "done",
                  "mismatch", "overlapping"}
    /\ lines \in Contents /\ seen \in Contents /\ newline \in BOOLEAN
    /\ IsFile(lines, newline)
    /\ Len(edits) <= MaxEdits
    /\ owned \in Seq(Lines) /\ Len(lines) + offset \in Nat
    /\ ToSet(todo) \subseteq DOMAIN edits

\* The file changed at most in one line, or grew or shrank by its last one,
\* since the client read it.
Init ==
    /\ lines \in Contents
    /\ newline \in BOOLEAN
    /\ IsFile(lines, newline)
    /\ \/ seen = lines
       \/ \E i \in DOMAIN lines, l \in Lines : seen = [lines EXCEPT ![i] = l]
       \/ lines # <<>> /\ seen = Front(lines)
       \/ Len(lines) < MaxLines /\ \E l \in Lines : seen = Append(lines, l)
    /\ edits = <<>>
    /\ phase = "compose"
    /\ todo = <<>> /\ owned = lines /\ offset = 0 /\ echoed = {}

\* The client puts a batch together and sends it.
Compose ==
    /\ phase = "compose" /\ Len(edits) < MaxEdits
    /\ \E e \in ClientEdits : edits' = Append(edits, e)
    /\ UNCHANGED <<seen, lines, newline, phase, todo, owned, offset, echoed>>

Send ==
    /\ phase = "compose" /\ edits # <<>>
    /\ phase' = "verify"
    /\ UNCHANGED <<input, todo, owned, offset, echoed>>

-----------------------------------------------------------------------------

\* Phase 1: bounds, order and both end lines' hashes; every edit is looked at.
Matches(e) ==
    /\ e.start <= Len(lines) /\ e.end <= Len(lines) /\ e.start <= e.end
    /\ LineHash[lines[e.start]] = e.startHash
    /\ LineHash[lines[e.end]] = e.endHash

Verify ==
    /\ phase = "verify"
    /\ phase' = IF \A i \in DOMAIN edits : Matches(edits[i])
                THEN "overlap" ELSE "mismatch"
    /\ UNCHANGED <<input, todo, owned, offset, echoed>>

\* The edits in the order of their start lines (a stable sort): an edit stands
\* after those that start earlier, or on the same line and came before it.
Before(i, j) ==
    \/ edits[i].start < edits[j].start
    \/ edits[i].start = edits[j].start /\ i < j
Position(i) == Cardinality({j \in DOMAIN edits : Before(j, i)}) + 1
ByStart == [k \in DOMAIN edits |-> CHOOSE i \in DOMAIN edits : Position(i) = k]

\* Mutant: ranges that share one line pass.
CollideStrictly(i, j) == edits[i].end > edits[j].start

\* Of two neighbours in that order, does the first run into the second?
Collide(i, j) == edits[i].end >= edits[j].start

CheckOverlap ==
    /\ phase = "overlap"
    /\ IF \E k \in 1..Len(edits) - 1 : Collide(ByStart[k], ByStart[k + 1])
       THEN phase' = "overlapping" /\ UNCHANGED todo
       ELSE phase' = "splice" /\ todo' = ByStart
    /\ UNCHANGED <<input, owned, offset, echoed>>

\* Vec::splice of the edit's range.
Spliced(ls, e) ==
    SubSeq(ls, 1, e.start - 1) \o e.new \o SubSeq(ls, e.end + 1, Len(ls))

\* Phase 2: the lowest edit first, so that the others' numbers stay valid.
Splice ==
    /\ phase = "splice" /\ todo # <<>>
    /\ owned' = Spliced(owned, edits[Last(todo)])
    /\ todo' = Front(todo)
    /\ UNCHANGED <<input, phase, offset, echoed>>

\* Phase 3: the lines of the file as written, when it is read again.
Output == Rows(owned, newline)

Write ==
    /\ phase = "splice" /\ todo = <<>>
    /\ phase' = "echo" /\ todo' = ByStart
    /\ UNCHANGED <<input, owned, offset, echoed>>

\* Mutant: the running offset counts the last line of a range as kept.
GrowthShort(e) == Len(e.new) - (e.end - e.start)

\* Mutant: the range is taken to begin at the top of the file.
GrowthFromTop(e) == Len(e.new) - e.end

Growth(e) == Len(e.new) - (e.end - e.start + 1)

\* Phase 4: the "+" lines of the next edit are numbered from its shifted start.
Echo ==
    /\ phase = "echo" /\ todo # <<>>
    /\ LET e == edits[Head(todo)]
           first == e.start + offset
       IN /\ echoed' = echoed \union {<<first + k - 1, e.new[k]>> : k \in DOMAIN e.new}
          /\ offset' = offset + Growth(e)
    /\ todo' = Tail(todo)
    /\ UNCHANGED <<input, phase, owned>>

Applied ==
    /\ phase = "echo" /\ todo = <<>>
    /\ phase' = "done"
    /\ UNCHANGED <<input, todo, owned, offset, echoed>>

Next == \/ Compose \/ Send \/ Verify \/ CheckOverlap
        \/ Splice \/ Write \/ Echo \/ Applied

Spec == Init /\ [][Next]_vars

-----------------------------------------------------------------------------
(* Properties.                                                             *)

Done == phase = "done"

\* What a batch means, line by line: the first line of an edited range becomes
\* the replacement, the rest of the range goes, every other line stays.
Covers(e, n) == e.start <= n /\ n <= e.end
Meaning ==
    [n \in 1..Len(lines) |->
        IF \E i \in DOMAIN edits : Covers(edits[i], n)
        THEN LET e == edits[CHOOSE i \in DOMAIN edits : Covers(edits[i], n)]
             IN IF n = e.start THEN e.new ELSE <<>>
        ELSE <<lines[n]>>]
Reference == FlattenSeq(Meaning)

\* The splices, bottom up, of edits given in any order make the file the batch
\* means, and no line outside the ranges moves or changes.
SpliceMatchesReference == Done => owned = Reference

\* An agent chains edits on the numbers the answer echoes (edit.rs:291-292:
\* "so line numbers match the written file"): each "+" line is the line of that
\* number of the new file, but for the blank last line that was lost.
EchoMatchesFile ==
    Done => \A pair \in echoed :
               \/ pair[1] \in DOMAIN Output /\ Output[pair[1]] = pair[2]
               \/ /\ ~newline /\ pair = <<Len(Output) + 1, Blank>>
                  /\ Len(owned) = Len(Output) + 1
=============================================================================
