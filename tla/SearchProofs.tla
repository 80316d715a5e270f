---------------------------- MODULE SearchProofs ----------------------------
(***************************************************************************)
(* Proofs about Search, for any threads, names, scopes and requests.       *)
(*                                                                         *)
(* A total is exact when every walk was complete, so everything rests on   *)
(* what a walk has at its end (WalkInv): a name is still waiting, in a     *)
(* thread's hands, or done with, and a file that was admitted is in some   *)
(* thread's hands or all of it is in the list, unless the walk has said    *)
(* that it left something out.  RowsKnown carries this from scope to       *)
(* scope, BoundKnown what is left of it when a walk stopped early.         *)
(*                                                                         *)
(* The second half is about pages.  A ranking is a strict order of         *)
(* finitely many matches (RankingOrders) and a page a range of its         *)
(* positions (SliceIs).  Cutting a file to its best rows, a scope to its   *)
(* first rows and merging the scopes leaves the first positions as they    *)
(* are (TopOfFileIsEnough, ContentScopeEnded, MergeKeeps); Gathered        *)
(* carries this through a request, Behind from one page to the next.       *)
(***************************************************************************)
EXTENDS Search, FiniteSetTheorems, TLAPS

W == Visible(scope)

\* What Add puts into the list for a name.
RowsOf(n) == IF arm = "content" THEN TopOfFile(n, keep) ELSE hits[n]
Brought(n) == {n} \X RowsOf(n) \subseteq found
InHand(n, places) == \E t \in Threads : holds[t] = n /\ at[t] \in places

\* The names of a walk are those the request may see.
Setup ==
    /\ hits = Holds[ask.query][arm] /\ keep > 0
    /\ pending \subseteq W /\ aliases \subseteq W
    /\ \A t \in Threads : holds[t] # NoName =>
         /\ holds[t] \in W
         /\ arm = "callers" => at[t] \notin {"admit", "check"}
         /\ arm # "callers" /\ at[t] # "admit" => holds[t] \in aliases

FoundThere ==
    \A p \in found : /\ p[1] \in W /\ p[2] \in hits[p[1]]
                     /\ arm # "callers" => p[1] \in aliases

\* A name met by a walk that knows links, and its file.
NameKept == \A n \in W : n \in pending \/ n \in aliases \/ InHand(n, {"admit"})
FileTaken == \A n \in aliases : FileOf[n] \in admitted
FileKept ==
    \A f \in admitted : \E n \in W : FileOf[n] = f /\ (InHand(n, {"check", "search", "add"}) \/ Brought(n))

NothingLost ==
    ~skipped /\ ~quit =>
      IF arm = "callers"
      THEN \A n \in W : n \in pending \/ InHand(n, {"search", "add"}) \/ Brought(n)
      ELSE NameKept /\ FileTaken /\ FileKept

QuitKnown == quit => skipped \/ (arm = "callers" /\ count >= limit)

WalkInv == arm # "none" => Setup /\ FoundThere /\ NothingLost /\ QuitKnown

-----------------------------------------------------------------------------

LEMMA Constants ==
  /\ \A n \in Names : FileOf[n] \in Files
  /\ \A S \in SUBSET HitIds : IsFiniteSet(S) /\ Cardinality(S) \in Nat
  /\ \A s \in Scopes : Visible(s) \subseteq Names
  <1>1. \A S \in SUBSET HitIds : IsFiniteSet(S) /\ Cardinality(S) \in Nat
    BY WalkAssumption, FS_Subset, FS_CardinalityType
  <1>2. \A n \in Names : FileOf[n] \in Files
    BY WalkAssumption
  <1>3. \A s \in Scopes : Visible(s) \subseteq Names
    BY SearchAssumption DEF Visible
  <1> QED
    BY <1>1, <1>2, <1>3

\* Of a file that holds something a content walk keeps at least one row.
LEMMA BestIsKept ==
  ASSUME NEW n \in Names, hits[n] \in SUBSET HitIds, hits[n] # {}, NEW k \in Nat, k > 0
  PROVE  TopOfFile(n, k) # {}
  <1> DEFINE S == hits[n]
             Beats(h) == {g \in S : Better(n, g, h)}
             T == {Beats(h) : h \in S}
  <1>1. T \subseteq FiniteSubsetsOf(S)
    <2>1. \A h \in S : IsFiniteSet(Beats(h))
      BY WalkAssumption, FS_Subset
    <2> QED
      BY <2>1 DEF FiniteSubsetsOf
  <1>2. T # {}
    OBVIOUS
  <1>3. IsWellFoundedOn(StrictSubsetOrdering(S), FiniteSubsetsOf(S))
    BY FS_StrictSubsetOrderingWellFounded
  <1>4. PICK m \in T : \A y \in T : <<y, m>> \notin StrictSubsetOrdering(S)
    <2> HIDE DEF T
    <2> QED
      BY <1>1, <1>2, <1>3, WFMin
  <1>5. PICK h \in S : m = Beats(h)
    BY <1>4
  <1>6. Beats(h) = {}
    <2> SUFFICES ASSUME NEW g \in Beats(h) PROVE FALSE
      OBVIOUS
    <2>1. \A x \in S : x \in Nat /\ Quality[n][x] \in Nat
      BY WalkAssumption
    <2>2. Beats(g) \subseteq Beats(h)
      BY <2>1 DEF Better
    <2>3. g \notin Beats(g)
      BY <2>1 DEF Better
    <2>4. Beats(g) # Beats(h) /\ Beats(g) \in T
      BY <2>3
    <2> QED
      BY <1>4, <1>5, <2>2, <2>4 DEF StrictSubsetOrdering
  <1>7. Cardinality({g \in hits[n] : Better(n, g, h)}) = 0
    BY <1>6, FS_EmptySet
  <1> QED
    BY <1>5, <1>7 DEF TopOfFile

-----------------------------------------------------------------------------
(* The steps of a walk.                                                    *)

LEMMA SameNames ==
  ASSUME UNCHANGED clientVars
  PROVE  W' = W /\ UNCHANGED <<ask, scope>>
  BY DEF W, Visible, RespectsIgnore, clientVars

LEMMA TakeKeeps ==
  ASSUME WalkTypeOK, WalkInv, UNCHANGED clientVars, NEW t \in Threads, Take(t)
  PROVE  WalkInv'
  <1>1. W' = W /\ UNCHANGED <<ask, scope>>
    BY SameNames
  <1>2. /\ arm # "none" /\ at[t] = "take" /\ ~quit /\ holds[t] = NoName
        /\ UNCHANGED <<arm, hits, limit, keep, admitted, aliases, count, found>>
        /\ Setup /\ FoundThere /\ NothingLost
    BY DEF Take, WalkTypeOK, WalkInv
  <1>3. PICK n \in pending :
          /\ pending' = pending \ {n}
          /\ \/ /\ arm = "callers" /\ count >= limit
                /\ quit' = TRUE /\ UNCHANGED <<at, holds, skipped>>
             \/ /\ arm = "callers" /\ skipped' = TRUE /\ UNCHANGED <<at, holds, quit>>
             \/ /\ holds' = [holds EXCEPT ![t] = n]
                /\ at' = [at EXCEPT ![t] = IF arm = "callers" THEN "search" ELSE "admit"]
                /\ UNCHANGED <<skipped, quit>>
    BY DEF Take, Goto
  <1>4. n \in W /\ n \in Names /\ n # NoName
    BY <1>2, <1>3, WalkAssumption DEF Setup, WalkTypeOK
  <1>5. FoundThere'
    BY <1>1, <1>2 DEF FoundThere
  <1>6. Setup'
    BY <1>1, <1>2, <1>3, <1>4 DEF Setup, WalkTypeOK
  <1>7. QuitKnown'
    BY <1>2, <1>3 DEF QuitKnown
  <1>8. \A m : Brought(m) => Brought(m)'
    BY <1>2 DEF Brought, RowsOf, TopOfFile
  <1>9. \A m \in W, P \in SUBSET {"admit", "check", "search", "add"} :
          InHand(m, P) => InHand(m, P)'
    BY <1>2, <1>3 DEF InHand, WalkTypeOK
  <1>10. NothingLost'
    <2>1. CASE arm = "callers" /\ ~skipped' /\ ~quit'
      <3>1. ~skipped /\ ~quit
        BY <1>2, <1>3, <2>1 DEF WalkTypeOK
      <3>2. \A m \in W : m \in pending \/ InHand(m, {"search", "add"}) \/ Brought(m)
        BY <1>2, <2>1, <3>1 DEF NothingLost
      <3>3. n \in pending' \/ InHand(n, {"search", "add"})'
        BY <1>2, <1>3, <2>1, <3>1 DEF InHand, WalkTypeOK
      <3> QED
        BY <1>1, <1>2, <1>3, <1>8, <1>9, <2>1, <3>2, <3>3 DEF NothingLost
    <2>2. CASE arm # "callers" /\ ~skipped' /\ ~quit'
      BY <1>1, <1>2, <1>3, <1>4, <1>8, <1>9, <2>2
         DEF NothingLost, NameKept, FileTaken, FileKept, InHand, WalkTypeOK
    <2> QED
      BY <1>2, <2>1, <2>2 DEF NothingLost
  <1> QED
    BY <1>5, <1>6, <1>7, <1>10 DEF WalkInv

LEMMA AdmitKeeps ==
  ASSUME WalkTypeOK, WalkInv, UNCHANGED clientVars, NEW t \in Threads, Admit(t), arm # "none"
  PROVE  WalkInv'
  <1>0. PICK n : n = holds[t]
    OBVIOUS
  <1>1. W' = W /\ UNCHANGED <<ask, scope>>
    BY SameNames
  <1>2. /\ at[t] = "admit"
        /\ aliases' = aliases \union {n} /\ admitted' = admitted \union {FileOf[n]}
        /\ UNCHANGED <<arm, hits, limit, keep, pending, count, found, skipped, quit>>
        /\ Setup /\ FoundThere /\ NothingLost /\ QuitKnown
    BY <1>0 DEF Admit, WalkInv
  <1>3. n \in Names /\ n # NoName /\ n \in W /\ arm # "callers"
    BY <1>0, <1>2 DEF Setup, WalkTypeOK
  <1>4. \/ /\ FileOf[n] \in admitted
           /\ at' = [at EXCEPT ![t] = "take"] /\ holds' = [holds EXCEPT ![t] = NoName]
        \/ /\ FileOf[n] \notin admitted
           /\ at' = [at EXCEPT ![t] = IF arm = "content" THEN "search" ELSE "check"]
           /\ holds' = holds
    BY <1>0 DEF Admit, NextName, Goto
  <1>5. FoundThere' /\ QuitKnown'
    BY <1>1, <1>2 DEF FoundThere, QuitKnown
  <1>6. Setup'
    BY <1>0, <1>1, <1>2, <1>3, <1>4 DEF Setup, WalkTypeOK
  <1>7. \A m : Brought(m) => Brought(m)'
    BY <1>2 DEF Brought, RowsOf, TopOfFile
  <1>8. \A m \in W : InHand(m, {"check", "search", "add"}) => InHand(m, {"check", "search", "add"})'
    BY <1>0, <1>2, <1>4 DEF InHand, WalkTypeOK
  <1>9. \A m \in W : InHand(m, {"admit"}) => m = n \/ InHand(m, {"admit"})'
    BY <1>0, <1>2, <1>4 DEF InHand, WalkTypeOK
  <1>10. FileOf[n] \notin admitted => InHand(n, {"check", "search", "add"})'
    BY <1>0, <1>2, <1>4 DEF InHand, WalkTypeOK
  <1>11. NothingLost'
    <2>1. CASE ~skipped /\ ~quit
      <3>1. NameKept /\ FileTaken /\ FileKept
        BY <1>2, <1>3, <2>1 DEF NothingLost
      <3>2. NameKept'
        BY <1>1, <1>2, <1>9, <3>1 DEF NameKept
      <3>3. FileTaken'
        BY <1>2, <3>1 DEF FileTaken
      <3>4. FileKept'
        <4> SUFFICES ASSUME NEW f \in admitted'
                     PROVE  \E m \in W : FileOf[m] = f /\ (InHand(m, {"check", "search", "add"}) \/ Brought(m))'
          BY <1>1 DEF FileKept
        <4>1. CASE f \in admitted
          <5>1. PICK m \in W : FileOf[m] = f /\ (InHand(m, {"check", "search", "add"}) \/ Brought(m))
            BY <3>1, <4>1 DEF FileKept
          <5>2. (InHand(m, {"check", "search", "add"}) \/ Brought(m))'
            BY <1>7, <1>8, <5>1
          <5> QED
            BY <5>1, <5>2
        <4>2. CASE f \notin admitted
          BY <1>2, <1>3, <1>10, <4>2
        <4> QED
          BY <4>1, <4>2
      <3> QED
        BY <1>2, <1>3, <3>2, <3>3, <3>4 DEF NothingLost
    <2> QED
      BY <1>2, <2>1 DEF NothingLost
  <1> QED
    BY <1>5, <1>6, <1>11 DEF WalkInv

LEMMA CheckKeeps ==
  ASSUME WalkTypeOK, WalkInv, UNCHANGED clientVars, NEW t \in Threads, Check(t), arm # "none"
  PROVE  WalkInv'
  <1>0. PICK n : n = holds[t]
    OBVIOUS
  <1>1. W' = W /\ UNCHANGED <<ask, scope>>
    BY SameNames
  <1>2. /\ at[t] = "check"
        /\ UNCHANGED <<arm, hits, limit, keep, pending, admitted, aliases, count, found>>
        /\ Setup /\ FoundThere /\ NothingLost /\ QuitKnown
    BY <1>0 DEF Check, WalkInv
  <1>3. n \in Names /\ n # NoName /\ n \in W /\ arm # "callers"
    BY <1>0, <1>2 DEF Setup, WalkTypeOK
  <1>4. \/ /\ skipped' = TRUE
           /\ at' = [at EXCEPT ![t] = "take"] /\ holds' = [holds EXCEPT ![t] = NoName]
        \/ /\ at' = [at EXCEPT ![t] = "search"]
           /\ UNCHANGED <<holds, skipped, quit>>
    BY <1>0 DEF Check, NextName, Goto
  <1>5. FoundThere' /\ QuitKnown'
    BY <1>1, <1>2, <1>4 DEF FoundThere, QuitKnown
  <1>6. Setup'
    BY <1>0, <1>1, <1>2, <1>3, <1>4 DEF Setup, WalkTypeOK
  <1>7. NothingLost'
    <2>1. CASE ~skipped'
      <3>1. /\ at' = [at EXCEPT ![t] = "search"]
            /\ UNCHANGED <<holds, skipped, quit>>
        BY <1>4, <2>1
      <3>2. \A m : Brought(m) => Brought(m)'
        BY <1>2 DEF Brought, RowsOf, TopOfFile
      <3>3. \A m \in W : InHand(m, {"check", "search", "add"}) => InHand(m, {"check", "search", "add"})'
        BY <1>0, <1>2, <3>1 DEF InHand, WalkTypeOK
      <3>4. \A m \in W : InHand(m, {"admit"}) => InHand(m, {"admit"})'
        BY <1>0, <1>2, <3>1 DEF InHand, WalkTypeOK
      <3>5. CASE quit
        BY <3>1, <3>5 DEF NothingLost
      <3>6. CASE ~quit
        <4>1. NameKept /\ FileTaken /\ FileKept
          BY <1>2, <1>3, <2>1, <3>1, <3>6 DEF NothingLost
        <4>2. NameKept' /\ FileTaken'
          BY <1>1, <1>2, <3>4, <4>1 DEF NameKept, FileTaken
        <4>3. FileKept'
          BY <1>1, <1>2, <3>2, <3>3, <4>1 DEF FileKept
        <4> QED
          BY <1>2, <1>3, <4>2, <4>3 DEF NothingLost
      <3> QED
        BY <3>5, <3>6
    <2> QED
      BY <2>1 DEF NothingLost
  <1> QED
    BY <1>5, <1>6, <1>7 DEF WalkInv

LEMMA SearchKeeps ==
  ASSUME WalkTypeOK, WalkInv, UNCHANGED clientVars, NEW t \in Threads, Search(t), arm # "none"
  PROVE  WalkInv'
  <1>0. PICK n : n = holds[t]
    OBVIOUS
  <1>1. W' = W /\ UNCHANGED <<ask, scope>>
    BY SameNames
  <1>2. /\ at[t] = "search"
        /\ UNCHANGED <<arm, hits, limit, keep, pending, admitted, aliases, found, skipped, quit>>
        /\ Setup /\ FoundThere /\ NothingLost /\ QuitKnown
    BY <1>0 DEF Search, WalkInv
  <1>3. n \in Names /\ n # NoName /\ n \in W
    BY <1>0, <1>2 DEF Setup, WalkTypeOK
  <1>4. \/ /\ hits[n] = {} /\ count' = count
           /\ at' = [at EXCEPT ![t] = "take"] /\ holds' = [holds EXCEPT ![t] = NoName]
        \/ /\ count' = count + Cardinality(hits[n])
           /\ at' = [at EXCEPT ![t] = "add"] /\ UNCHANGED holds
    BY <1>0 DEF Search, NextName, Goto
  <1>5. count' \in Nat /\ count' >= count
    BY <1>3, <1>4, Constants DEF WalkTypeOK
  <1>6. FoundThere' /\ QuitKnown'
    BY <1>1, <1>2, <1>5 DEF FoundThere, QuitKnown, WalkTypeOK
  <1>7. Setup'
    BY <1>0, <1>1, <1>2, <1>3, <1>4 DEF Setup, WalkTypeOK
  <1>8. \A m : Brought(m) => Brought(m)'
    BY <1>2 DEF Brought, RowsOf, TopOfFile
  <1>9. hits[n] = {} => Brought(n)'
    BY <1>2 DEF Brought, RowsOf, TopOfFile
  <1>10. \A m \in W, P \in SUBSET {"admit", "check", "search", "add"} :
           {"search", "add"} \subseteq P /\ InHand(m, P) => InHand(m, P)' \/ Brought(m)'
    BY <1>0, <1>2, <1>4, <1>9 DEF InHand, WalkTypeOK
  <1>11. \A m \in W : InHand(m, {"admit"}) => InHand(m, {"admit"})'
    BY <1>0, <1>2, <1>4 DEF InHand, WalkTypeOK
  <1>12. NothingLost'
    <2>1. CASE ~skipped /\ ~quit /\ arm = "callers"
      <3>1. \A m \in W : m \in pending \/ InHand(m, {"search", "add"}) \/ Brought(m)
        BY <1>2, <2>1 DEF NothingLost
      <3> QED
        BY <1>1, <1>2, <1>8, <1>10, <2>1, <3>1 DEF NothingLost
    <2>2. CASE ~skipped /\ ~quit /\ arm # "callers"
      <3>1. NameKept /\ FileTaken /\ FileKept
        BY <1>2, <2>2 DEF NothingLost
      <3>2. NameKept' /\ FileTaken'
        BY <1>1, <1>2, <1>11, <3>1 DEF NameKept, FileTaken
      <3>3. FileKept'
        BY <1>1, <1>2, <1>8, <1>10, <3>1 DEF FileKept
      <3> QED
        BY <1>2, <2>2, <3>2, <3>3 DEF NothingLost
    <2> QED
      BY <1>2, <2>1, <2>2 DEF NothingLost
  <1> QED
    BY <1>6, <1>7, <1>12 DEF WalkInv

LEMMA AddKeeps ==
  ASSUME WalkTypeOK, WalkInv, UNCHANGED clientVars, NEW t \in Threads, Add(t), arm # "none"
  PROVE  WalkInv'
  <1>0. PICK n : n = holds[t]
    OBVIOUS
  <1>1. W' = W /\ UNCHANGED <<ask, scope>>
    BY SameNames
  <1>2. /\ at[t] = "add" /\ found' = found \union ({n} \X RowsOf(n))
        /\ at' = [at EXCEPT ![t] = "take"] /\ holds' = [holds EXCEPT ![t] = NoName]
        /\ UNCHANGED <<arm, hits, limit, keep, pending, admitted, aliases, count, skipped, quit>>
        /\ Setup /\ FoundThere /\ NothingLost /\ QuitKnown
    BY <1>0 DEF Add, NextName, Goto, WalkInv, RowsOf
  <1>3. n \in Names /\ n # NoName /\ n \in W /\ (arm # "callers" => n \in aliases)
    BY <1>0, <1>2 DEF Setup, WalkTypeOK
  <1>4. RowsOf(n) \subseteq hits[n]
    BY DEF RowsOf, TopOfFile
  <1>5. FoundThere'
    BY <1>1, <1>2, <1>3, <1>4 DEF FoundThere
  <1>6. Setup' /\ QuitKnown'
    BY <1>0, <1>1, <1>2, <1>3 DEF Setup, QuitKnown, WalkTypeOK
  <1>7. \A m : RowsOf(m)' = RowsOf(m)
    BY <1>2 DEF RowsOf, TopOfFile
  <1>8. \A m : Brought(m) => Brought(m)'
    BY <1>2, <1>7 DEF Brought
  <1>9. Brought(n)'
    BY <1>2, <1>7 DEF Brought
  <1>10. \A m \in W, P \in SUBSET {"admit", "check", "search", "add"} :
           InHand(m, P) => m = n \/ InHand(m, P)'
    BY <1>0, <1>2 DEF InHand, WalkTypeOK
  <1>11. \A m \in W : InHand(m, {"admit"}) => InHand(m, {"admit"})'
    BY <1>0, <1>2 DEF InHand, WalkTypeOK
  <1>12. NothingLost'
    <2>1. CASE ~skipped /\ ~quit /\ arm = "callers"
      <3>1. \A m \in W : m \in pending \/ InHand(m, {"search", "add"}) \/ Brought(m)
        BY <1>2, <2>1 DEF NothingLost
      <3> QED
        BY <1>1, <1>2, <1>8, <1>9, <1>10, <2>1, <3>1 DEF NothingLost
    <2>2. CASE ~skipped /\ ~quit /\ arm # "callers"
      <3>1. NameKept /\ FileTaken /\ FileKept
        BY <1>2, <2>2 DEF NothingLost
      <3>2. NameKept' /\ FileTaken'
        BY <1>1, <1>2, <1>11, <3>1 DEF NameKept, FileTaken
      <3>3. FileKept'
        BY <1>1, <1>2, <1>8, <1>9, <1>10, <3>1 DEF FileKept
      <3> QED
        BY <1>2, <2>2, <3>2, <3>3 DEF NothingLost
    <2> QED
      BY <1>2, <2>1, <2>2 DEF NothingLost
  <1> QED
    BY <1>5, <1>6, <1>12 DEF WalkInv

LEMMA WalkStepKeeps ==
  ASSUME WalkTypeOK, WalkInv, UNCHANGED clientVars, NEW t \in Threads, WalkStep(t), arm # "none"
  PROVE  WalkInv'
  BY TakeKeeps, AdmitKeeps, CheckKeeps, SearchKeeps, AddKeeps DEF WalkStep

LEMMA WalkStepTypes ==
  ASSUME WalkTypeOK, NEW t \in Threads, WalkStep(t)
  PROVE  WalkTypeOK' /\ arm' = arm
  <1>1. CASE Take(t)
    BY <1>1, WalkAssumption DEF Take, Goto, WalkTypeOK
  <1>2. CASE Admit(t)
    <2>1. holds[t] \in Names /\ FileOf[holds[t]] \in Files
      BY <1>2, Constants DEF Admit, WalkTypeOK
    <2> QED
      BY <1>2, <2>1 DEF Admit, Goto, NextName, WalkTypeOK
  <1>3. CASE Check(t)
    BY <1>3 DEF Check, Goto, NextName, WalkTypeOK
  <1>4. CASE Search(t)
    <2>1. holds[t] \in Names /\ Cardinality(hits[holds[t]]) \in Nat
      BY <1>4, Constants DEF Search, WalkTypeOK
    <2> QED
      BY <1>4, <2>1 DEF Search, Goto, NextName, WalkTypeOK
  <1>5. CASE Add(t)
    <2>1. holds[t] \in Names /\ hits[holds[t]] \subseteq HitIds
      BY <1>5 DEF Add, WalkTypeOK
    <2>2. found' \subseteq Names \X HitIds
      BY <1>5, <2>1 DEF Add, TopOfFile, WalkTypeOK
    <2> QED
      BY <1>5, <2>2 DEF Add, Goto, NextName, WalkTypeOK
  <1> QED
    BY <1>1, <1>2, <1>3, <1>4, <1>5 DEF WalkStep

-----------------------------------------------------------------------------
(* What a walk has at its end.                                             *)

\* Of the hits of a file, those it holds under one of its names.
SomeOf(a, F, A) ==
    /\ A \subseteq W
    /\ \A p \in F : p[1] \in A /\ p[2] \in Holds[ask.query][a][p[1]]
AllOf(a, F, A) ==
    /\ W \subseteq A
    /\ \A n \in W : \E m \in W :
         FileOf[m] = FileOf[n] /\ {m} \X Holds[ask.query][a][m] \subseteq F

LEMMA Ended ==
  ASSUME WalkTypeOK, WalkInv, Joined
  PROVE  /\ \A n \in W, P \in SUBSET {"admit", "check", "search", "add"} : ~InHand(n, P)
         /\ Complete => ~quit /\ ~skipped /\ pending = {}
  <1>1. \A n \in W, P \in SUBSET {"admit", "check", "search", "add"} : ~InHand(n, P)
    BY DEF Joined, InHand
  <1>2. ASSUME Complete PROVE ~quit /\ ~skipped /\ pending = {}
    <2>1. ~skipped /\ (arm = "callers" => count < limit)
      BY <1>2 DEF Complete
    <2>2. ~quit
      BY <2>1 DEF Joined, WalkInv, QuitKnown, WalkTypeOK
    <2> QED
      BY <2>1, <2>2 DEF Joined
  <1> QED
    BY <1>1, <1>2

LEMMA SymbolWalkEnded ==
  ASSUME WalkTypeOK, WalkInv, Joined, arm \in {"definitions", "usages"}
  PROVE  SomeOf(arm, found, aliases) /\ (~skipped => AllOf(arm, found, aliases))
  <1>1. SomeOf(arm, found, aliases)
    BY DEF Joined, WalkInv, Setup, FoundThere, SomeOf
  <1>2. ASSUME ~skipped PROVE AllOf(arm, found, aliases)
    <2>1. ~quit /\ pending = {}
      BY <1>2, Ended DEF Complete
    <2>2. NameKept /\ FileTaken /\ FileKept /\ hits = Holds[ask.query][arm]
      BY <1>2, <2>1 DEF Joined, WalkInv, NothingLost, Setup
    <2>3. W \subseteq aliases
      BY <2>1, <2>2, Ended DEF NameKept
    <2>4. \A f \in admitted : \E m \in W : FileOf[m] = f /\ Brought(m)
      BY <2>2, Ended DEF FileKept
    <2> QED
      BY <2>2, <2>3, <2>4 DEF FileTaken, AllOf, Brought, RowsOf
  <1> QED
    BY <1>1, <1>2

\* The scope of a request and its query.
LEMMA Request ==
  ASSUME SearchTypeOK
  PROVE  /\ ask.query \in Queries /\ ask.scopes \subseteq Scopes /\ ask.scopes # {}
         /\ ask.kind \in {"symbol", "content", "callers"}
         /\ W \subseteq Names
         /\ \A a \in Arms, n \in Names : Holds[ask.query][a][n] \in SUBSET HitIds
  <1>1. ask \in RequestShape
    BY SearchAssumption DEF SearchTypeOK
  <1>2. ask.query \in Queries /\ ask.scopes \subseteq Scopes /\ ask.scopes # {}
        /\ ask.kind \in {"symbol", "content", "callers"}
    BY <1>1 DEF RequestShape
  <1>3. W \subseteq Names
    BY Constants DEF W, SearchTypeOK
  <1> QED
    BY <1>2, <1>3, SearchAssumption

\* What a content walk has looked at counts whole, and a complete walk has
\* looked at every file that holds something.
Counted(names) == UNION {{FileOf[n]} \X Holds[ask.query]["content"][n] : n \in names}

LEMMA ContentWalkEnded ==
  ASSUME SearchTypeOK, WalkInv, Joined, arm = "content"
  PROVE  /\ SomeOf("content", found, aliases)
         /\ LET new == UNION {{FileOf[p[1]]} \X hits[p[1]] : p \in found}
            IN  new \subseteq Counted(W) /\ (Complete => new = Counted(W))
  <1> DEFINE new == UNION {{FileOf[p[1]]} \X hits[p[1]] : p \in found}
  <1>1. WalkTypeOK /\ keep > 0 /\ hits = Holds[ask.query]["content"]
    BY DEF SearchTypeOK, Joined, WalkInv, Setup
  <1>2. SomeOf("content", found, aliases)
    BY DEF Joined, WalkInv, Setup, FoundThere, SomeOf
  <1>3. new \subseteq Counted(W)
    BY <1>1, <1>2 DEF SomeOf, Counted
  <1>4. ASSUME Complete PROVE Counted(W) \subseteq new
    <2> SUFFICES ASSUME NEW n \in W, NEW h \in hits[n]
                 PROVE  <<FileOf[n], h>> \in new
      BY <1>1 DEF Counted
    <2>1. ~quit /\ ~skipped /\ pending = {}
      BY <1>1, <1>4, Ended
    <2>2. NameKept /\ FileTaken /\ FileKept
      BY <2>1 DEF Joined, WalkInv, NothingLost
    <2>3. FileOf[n] \in admitted
      BY <1>1, <2>1, <2>2, Ended DEF NameKept, FileTaken
    <2>4. PICK m \in W : FileOf[m] = FileOf[n] /\ Brought(m)
      <3> HIDE DEF new
      <3>1. PICK m \in W : FileOf[m] = FileOf[n]
                           /\ (InHand(m, {"check", "search", "add"}) \/ Brought(m))
        BY <2>2, <2>3 DEF FileKept
      <3> QED
        BY <1>1, <3>1, Ended
    <2>5. m \in Names /\ n \in Names
      BY Request
    <2>6. hits[m] = hits[n] /\ hits[m] \in SUBSET HitIds
      BY <1>1, <2>4, <2>5, Request, SearchAssumption DEF Arms
    <2>7. TopOfFile(m, keep) # {}
      BY <1>1, <2>5, <2>6, BestIsKept DEF WalkTypeOK
    <2>8. PICK g \in TopOfFile(m, keep) : <<m, g>> \in found
      BY <2>4, <2>7 DEF Brought, RowsOf
    <2> QED
      BY <2>4, <2>6, <2>8
  <1> QED
    BY <1>2, <1>3, <1>4

LEMMA CallerWalkEnded ==
  ASSUME WalkTypeOK, WalkInv, Joined, arm = "callers"
  PROVE  /\ \A p \in found : p[1] \in W /\ p[2] \in Holds[ask.query]["callers"][p[1]]
         /\ Complete => \A n \in W : {n} \X Holds[ask.query]["callers"][n] \subseteq found
  <1>1. Setup /\ FoundThere /\ NothingLost
    BY DEF Joined, WalkInv
  <1>2. ASSUME Complete, NEW n \in W PROVE {n} \X Holds[ask.query]["callers"][n] \subseteq found
    <2>1. ~quit /\ ~skipped /\ pending = {}
      BY <1>2, Ended
    <2>2. Brought(n)
      BY <1>1, <2>1, Ended DEF NothingLost
    <2> QED
      BY <1>1, <2>2 DEF Brought, RowsOf, Setup
  <1> QED
    BY <1>1, <1>2 DEF Setup, FoundThere

-----------------------------------------------------------------------------
(* Counting.                                                               *)

LEMMA MatchIsFinite ==
  IsFiniteSet(Files \X HitIds) /\ IsFiniteSet(Match)
  <1>1. IsFiniteSet(Files) /\ IsFiniteSet(HitIds) /\ IsFiniteSet(Names)
    BY WalkAssumption
  <1>2. IsFiniteSet(Files \X HitIds)
    BY <1>1, FS_Product
  <1>3. IsFiniteSet(BOOLEAN)
    <2>1. PICK yes, no : yes = TRUE /\ no = FALSE
      OBVIOUS
    <2>2. IsFiniteSet({yes} \union {no})
      BY FS_Singleton, FS_AddElement
    <2>3. BOOLEAN = {yes} \union {no}
      BY <2>1
    <2> QED
      BY <2>2, <2>3
  <1>4. IsFiniteSet((Files \X HitIds) \X BOOLEAN)
    BY <1>2, <1>3, FS_Product, Zenon
  <1>5. IsFiniteSet(Match)
    <2> DEFINE S == (Files \X HitIds) \X BOOLEAN
               f == [x \in S |-> <<x[1][1], x[1][2], x[2]>>]
    <2>1. f \in [S -> Match]
      BY DEF Match
    <2>2. ASSUME NEW m \in Match PROVE \E x \in S : f[x] = m
      <3>1. <<<<m[1], m[2]>>, m[3]>> \in S /\ m = <<m[1], m[2], m[3]>>
        BY DEF Match
      <3> QED
        BY <3>1
    <2>3. f \in Surjection(S, Match)
      BY <2>1, <2>2 DEF Surjection
    <2> HIDE DEF f
    <2> QED
      BY <1>4, <2>3, FS_Surjection
  <1> QED
    BY <1>2, <1>5

LEMMA FiniteTotals ==
  ASSUME SearchTypeOK
  PROVE  Total \in Nat
  <1>1. IsFiniteSet(Match \X Names)
    BY WalkAssumption, MatchIsFinite, FS_Product, Zenon
  <1>2. Matches(rows) \subseteq Match /\ {<<o.m, o.name>> : o \in rows} \subseteq Match \X Names
    BY DEF Matches, SearchTypeOK, Observation
  <1>3. ledger \subseteq Files \X HitIds
    BY DEF SearchTypeOK
  <1>4. IsFiniteSet(Matches(rows)) /\ IsFiniteSet({<<o.m, o.name>> : o \in rows}) /\ IsFiniteSet(ledger)
    BY <1>1, <1>2, <1>3, MatchIsFinite, FS_Subset
  <1> QED
    BY <1>4, FS_CardinalityType, Request DEF Total

LEMMA PageBounds ==
  ASSUME SearchTypeOK
  PROVE  First(Total) \in Nat /\ Last(Total) \in Nat
  BY FiniteTotals DEF First, Last, Least, SearchTypeOK

LEMMA PageShown ==
  ASSUME NEW S, NEW from, NEW upto, NEW up, \A o \in S : o \in Observation
  PROVE  Slice(S, from, upto, up) \in SUBSET Match
  BY DEF Slice, Ranked, Matches, Observation

-----------------------------------------------------------------------------
(* What the matches of one walk or another say of a scope.                 *)

LEMMA Sighted ==
  ASSUME NEW P, NEW N, NEW d
  PROVE  /\ \A m \in Matches(Sightings(P, N, d)) : \E p \in P : m = <<FileOf[p[1]], p[2], d>>
         /\ \A p \in P : p[1] \in N => <<FileOf[p[1]], p[2], d>> \in Matches(Sightings(P, N, d))
  <1>1. ASSUME NEW o \in Sightings(P, N, d) PROVE \E p \in P : o.m = <<FileOf[p[1]], p[2], d>>
    BY DEF Sightings, Observed
  <1>2. ASSUME NEW p \in P, p[1] \in N
        PROVE  \E o \in Sightings(P, N, d) : o.m = <<FileOf[p[1]], p[2], d>>
    <2> DEFINE o == [m |-> <<FileOf[p[1]], p[2], d>>, name |-> p[1], scope |-> scope]
    <2>1. o \in Observed(P, N, d)
      BY <1>2 DEF Observed
    <2>2. o \in Sightings(P, N, d)
      BY <2>1 DEF Sightings
    <2> QED
      BY <2>2
  <1> QED
    BY <1>1, <1>2 DEF Matches

LEMMA SightingTypes ==
  ASSUME NEW P \in SUBSET (Names \X HitIds), NEW N \in SUBSET Names, NEW d \in BOOLEAN,
         scope \in Scopes
  PROVE  \A o \in Sightings(P, N, d) : o \in Observation
  <1> SUFFICES ASSUME NEW p \in P, NEW n \in N
               PROVE  [m |-> <<FileOf[p[1]], p[2], d>>, name |-> n, scope |-> scope] \in Observation
    BY DEF Sightings, Observed
  <1>1. <<FileOf[p[1]], p[2], d>> \in Match
    BY Constants DEF Match
  <1> QED
    BY <1>1 DEF Observation

LEMMA Seeing ==
  /\ \A s : Visible(s) = Belongs(s)
  /\ W = Belongs(scope)
  BY DEF Visible, RespectsIgnore, Belongs, W

LEMMA NameOfFile ==
  ASSUME NEW s, NEW n \in Belongs(s), n \in Names
  PROVE  /\ FileOf[n] \in Seen(s)
         /\ \A a : /\ Holding(a, n) \subseteq Perhaps(a, FileOf[n], s)
                   /\ InAnyCase(a, FileOf[n], s) \subseteq Holding(a, n)
  <1>1. n \in NamesOf(FileOf[n], s) /\ FileOf[n] \in Files
    BY Constants DEF NamesOf
  <1>2. FileOf[n] \in Seen(s)
    BY <1>1 DEF Seen
  <1>3. \A a : Holding(a, n) \subseteq Perhaps(a, FileOf[n], s)
    BY <1>1 DEF Perhaps
  <1>4. \A a : InAnyCase(a, FileOf[n], s) \subseteq Holding(a, n)
    BY <1>1 DEF InAnyCase
  <1> QED
    BY <1>2, <1>3, <1>4

LEMMA FileHasName ==
  ASSUME NEW s, NEW f \in Seen(s)
  PROVE  \E n \in Belongs(s) : FileOf[n] = f
  BY DEF Seen, NamesOf

\* The rows of a complete symbol search of one scope.
SymbolRows(s, R) ==
    /\ \A f \in Seen(s) : CertainIn(s, f) \subseteq Matches(R)
    /\ \A m \in Matches(R) : \E f \in Seen(s) : m \in PossibleIn(s, f)

LEMMA SymbolRowsEnded ==
  ASSUME SearchTypeOK, ask.kind = "symbol",
         NEW D, NEW DA, SomeOf("definitions", D, DA), AllOf("definitions", D, DA),
         NEW F, NEW FA, SomeOf("usages", F, FA), AllOf("usages", F, FA)
  PROVE  LET uses == {p \in F : ~Dominated(p, D)}
         IN  SymbolRows(scope, Sightings(D, DA, TRUE) \union Sightings(uses, FA, FALSE))
  <1>yn. PICK yes, no : yes = TRUE /\ no = FALSE
    OBVIOUS
  <1> DEFINE uses == {p \in F : ~Dominated(p, D)}
             R1 == Sightings(D, DA, yes)
             R2 == Sightings(uses, FA, no)
             R == R1 \union R2
  <1>1. W = Belongs(scope) /\ W \subseteq Names
    BY Seeing, Request
  <1>2. ASSUME NEW a, NEW G, NEW A, SomeOf(a, G, A), NEW p \in G
        PROVE  /\ p[1] \in W /\ p[1] \in A /\ p[2] \in Holding(a, p[1])
               /\ FileOf[p[1]] \in Seen(scope)
               /\ p[2] \in Perhaps(a, FileOf[p[1]], scope)
    <2>1. p[1] \in W /\ p[1] \in A /\ p[2] \in Holding(a, p[1])
      BY <1>2 DEF SomeOf, Holding
    <2> QED
      BY <1>1, <2>1, NameOfFile
  <1>3. ASSUME NEW a, NEW G, NEW A, AllOf(a, G, A), NEW f \in Seen(scope)
        PROVE  \E m \in W : /\ FileOf[m] = f /\ m \in A
                            /\ {m} \X InAnyCase(a, f, scope) \subseteq G
    <2>1. PICK n \in W : FileOf[n] = f
      BY <1>1, FileHasName
    <2>2. PICK m \in W : FileOf[m] = FileOf[n] /\ {m} \X Holding(a, m) \subseteq G
      BY <1>3 DEF AllOf, Holding
    <2>3. m \in A
      BY <1>3 DEF AllOf
    <2>4. InAnyCase(a, f, scope) \subseteq Holding(a, m)
      BY <1>1, <2>1, <2>2, NameOfFile
    <2> QED
      BY <2>1, <2>2, <2>3, <2>4
  <1>4. \A f : CertainIn(scope, f) =
           ({f} \X InAnyCase("definitions", f, scope) \X {yes}) \union
           ({f} \X (InAnyCase("usages", f, scope) \ OnLineOf(Perhaps("definitions", f, scope))) \X {no})
    BY <1>yn DEF CertainIn
  <1>5. \A f : PossibleIn(scope, f) =
           ({f} \X Perhaps("definitions", f, scope) \X {yes}) \union
           ({f} \X (Perhaps("usages", f, scope) \ OnLineOf(InAnyCase("definitions", f, scope))) \X {no})
    BY <1>yn DEF PossibleIn
  <1>6. Matches(R) = Matches(R1) \union Matches(R2)
    BY DEF Matches
  <1>7. ASSUME NEW f \in Seen(scope), NEW x \in CertainIn(scope, f) PROVE x \in Matches(R)
    <2>1. CASE \E h \in InAnyCase("definitions", f, scope) : x = <<f, h, yes>>
      <3>1. PICK h \in InAnyCase("definitions", f, scope) : x = <<f, h, yes>>
        BY <2>1
      <3>2. PICK m \in W : FileOf[m] = f /\ m \in DA /\ <<m, h>> \in D
        BY <1>3
      <3>3. <<FileOf[<<m, h>>[1]], <<m, h>>[2], yes>> \in Matches(R1)
        BY <3>2, Sighted
      <3> QED
        BY <1>6, <3>1, <3>2, <3>3
    <2>2. CASE \E h \in InAnyCase("usages", f, scope) \ OnLineOf(Perhaps("definitions", f, scope)) :
                  x = <<f, h, no>>
      <3>1. PICK h \in InAnyCase("usages", f, scope) \ OnLineOf(Perhaps("definitions", f, scope)) :
                  x = <<f, h, no>>
        BY <2>2
      <3>2. PICK m \in W : FileOf[m] = f /\ m \in FA /\ <<m, h>> \in F
        BY <1>3
      <3>3. ~Dominated(<<m, h>>, D)
        <4> SUFFICES ASSUME NEW d \in D, FileOf[d[1]] = f, LineOf[d[2]] = LineOf[h] PROVE FALSE
          BY <3>2 DEF Dominated
        <4>1. d[2] \in Perhaps("definitions", f, scope)
          BY <1>2
        <4>2. h \in HitIds
          BY <3>1 DEF InAnyCase
        <4> QED
          BY <3>1, <4>1, <4>2 DEF OnLineOf
      <3>4. <<m, h>> \in uses
        BY <3>2, <3>3
      <3>5. <<FileOf[<<m, h>>[1]], <<m, h>>[2], no>> \in Matches(R2)
        <4> HIDE DEF uses
        <4> QED
          BY <3>2, <3>4, Sighted
      <3> QED
        BY <1>6, <3>1, <3>2, <3>5
    <2>3. \/ \E h \in InAnyCase("definitions", f, scope) : x = <<f, h, yes>>
          \/ \E h \in InAnyCase("usages", f, scope) \ OnLineOf(Perhaps("definitions", f, scope)) :
               x = <<f, h, no>>
      <3> DEFINE A == InAnyCase("definitions", f, scope)
                 B == InAnyCase("usages", f, scope) \ OnLineOf(Perhaps("definitions", f, scope))
      <3>1. x \in {f} \X A \X {yes} \/ x \in {f} \X B \X {no}
        BY <1>4
      <3> HIDE DEF A, B
      <3>2. (\E h \in A : x = <<f, h, yes>>) \/ (\E h \in B : x = <<f, h, no>>)
        BY <3>1
      <3> QED
        BY <3>2 DEF A, B
    <2> QED
      BY <2>1, <2>2, <2>3
  <1>8. ASSUME NEW x \in Matches(R1) PROVE \E f \in Seen(scope) : x \in PossibleIn(scope, f)
    <2>1. PICK p \in D : x = <<FileOf[p[1]], p[2], yes>>
      <3>1. \A m \in Matches(Sightings(D, DA, yes)) : \E p \in D : m = <<FileOf[p[1]], p[2], yes>>
        BY Sighted
      <3> QED
        BY <3>1
    <2>2. FileOf[p[1]] \in Seen(scope) /\ p[2] \in Perhaps("definitions", FileOf[p[1]], scope)
      BY <1>2
    <2>3. x \in PossibleIn(scope, FileOf[p[1]])
      BY <1>5, <2>1, <2>2
    <2> QED
      BY <2>2, <2>3
  <1>9. ASSUME NEW x \in Matches(R2) PROVE \E f \in Seen(scope) : x \in PossibleIn(scope, f)
    <2>1. PICK p \in uses : x = <<FileOf[p[1]], p[2], no>>
      <3> HIDE DEF uses
      <3>1. \A m \in Matches(Sightings(uses, FA, no)) :
              \E p \in uses : m = <<FileOf[p[1]], p[2], no>>
        BY Sighted
      <3> QED
        BY <3>1
    <2> DEFINE f == FileOf[p[1]]
    <2>2. f \in Seen(scope) /\ p[2] \in Perhaps("usages", f, scope)
      BY <1>2
    <2>3. p[2] \notin OnLineOf(InAnyCase("definitions", f, scope))
      <3> SUFFICES ASSUME NEW d \in InAnyCase("definitions", f, scope), LineOf[d] = LineOf[p[2]]
                   PROVE  FALSE
        BY DEF OnLineOf
      <3>1. PICK m \in W : FileOf[m] = f /\ <<m, d>> \in D
        BY <1>3, <2>2
      <3>2. FileOf[<<m, d>>[1]] = FileOf[p[1]] /\ LineOf[<<m, d>>[2]] = LineOf[p[2]]
        BY <3>1
      <3>3. Dominated(p, D)
        BY <3>1, <3>2 DEF Dominated
      <3> QED
        BY <3>3
    <2> QED
      BY <1>5, <2>1, <2>2, <2>3
  <1> QED
    BY <1>yn, <1>6, <1>7, <1>8, <1>9 DEF SymbolRows

-----------------------------------------------------------------------------
(* The invariant of a request.                                             *)

\* The scopes whose rows have been taken over, or that have failed.
Done == ask.scopes \ (todo \union (IF phase \in Arms THEN {scope} ELSE {}))

Paging == size > 0 /\ answer.next \in Nat \union {NoPage}

Scoped ==
    /\ phase # "ready" => todo \subseteq ask.scopes
    /\ phase \in Arms => scope \in ask.scopes \ todo
    /\ phase \in {"definitions", "usages"} => ask.kind = "symbol"
    /\ phase \in {"content", "callers"} => ask.kind = phase

DefsKnown ==
    phase = "usages" =>
      /\ SomeOf("definitions", defs.found, defs.aliases)
      /\ ~defs.skipped => AllOf("definitions", defs.found, defs.aliases)

SymbolsKnown ==
    /\ \A s \in Done : \A f \in Seen(s) : CertainIn(s, f) \subseteq Matches(rows)
    /\ \A m \in Matches(rows) : \E s \in Done : \E f \in Seen(s) : m \in PossibleIn(s, f)
ContentKnown == ledger = UNION {Counted(Belongs(s)) : s \in Done}
CallersKnown ==
    {<<o.name, o.m[2]>> : o \in rows} =
      UNION {UNION {{n} \X Holding("callers", n) : n \in Belongs(s)} : s \in Done}

RowsKnown ==
    phase # "ready" /\ exact =>
      /\ ask.kind = "symbol" => SymbolsKnown
      /\ ask.kind = "content" => ContentKnown
      /\ ask.kind = "callers" => CallersKnown

AnswerKnown ==
    phase \in {"answered", "finished"} /\ answer.ok =>
      todo = {} /\ answer.exact = exact /\ answer.total = Total

SearchInv ==
    /\ SearchTypeOK /\ Paging /\ Scoped
    /\ WalkInv /\ DefsKnown /\ RowsKnown /\ AnswerKnown

LEMMA AskSame ==
  ASSUME ask' = ask
  PROVE  /\ \A s : Belongs(s)' = Belongs(s) /\ Seen(s)' = Seen(s) /\ Visible(s)' = Visible(s)
         /\ \A s, f : CertainIn(s, f)' = CertainIn(s, f) /\ PossibleIn(s, f)' = PossibleIn(s, f)
         /\ \A a, n : Holding(a, n)' = Holding(a, n)
         /\ \A N : Counted(N)' = Counted(N)
  <1>1. \A s : Belongs(s)' = Belongs(s) /\ Visible(s)' = Visible(s)
    BY DEF Belongs, Visible, RespectsIgnore
  <1>2. \A s, f : NamesOf(f, s)' = NamesOf(f, s)
    BY DEF NamesOf, Belongs
  <1>3. \A s : Seen(s)' = Seen(s)
    BY <1>2 DEF Seen
  <1>4. \A a, n : Holding(a, n)' = Holding(a, n)
    BY DEF Holding
  <1>5. \A a, s, f : InAnyCase(a, f, s)' = InAnyCase(a, f, s) /\ Perhaps(a, f, s)' = Perhaps(a, f, s)
    BY <1>2, <1>4 DEF InAnyCase, Perhaps
  <1>6. \A s, f : CertainIn(s, f)' = CertainIn(s, f) /\ PossibleIn(s, f)' = PossibleIn(s, f)
    <2> TAKE s, f
    <2>1. \A a : InAnyCase(a, f, s)' = InAnyCase(a, f, s) /\ Perhaps(a, f, s)' = Perhaps(a, f, s)
      BY <1>5
    <2>2. /\ InAnyCase(ask.kind, f, s)' = InAnyCase(ask.kind, f, s)
          /\ Perhaps(ask.kind, f, s)' = Perhaps(ask.kind, f, s)
      BY <2>1 DEF InAnyCase, Perhaps
    <2>3. OnLineOf(Perhaps("definitions", f, s))' = OnLineOf(Perhaps("definitions", f, s))
      BY <2>1 DEF OnLineOf
    <2>4. OnLineOf(InAnyCase("definitions", f, s))' = OnLineOf(InAnyCase("definitions", f, s))
      BY <2>1 DEF OnLineOf
    <2>5. CertainIn(s, f)' = CertainIn(s, f)
      BY <2>1, <2>2, <2>3 DEF CertainIn
    <2>6. PossibleIn(s, f)' = PossibleIn(s, f)
      BY <2>1, <2>2, <2>4 DEF PossibleIn
    <2> QED
      BY <2>5, <2>6
  <1>7. \A N : Counted(N)' = Counted(N)
    BY DEF Counted
  <1> QED
    BY <1>1, <1>3, <1>4, <1>6, <1>7

LEMMA RowsSame ==
  ASSUME RowsKnown, ask' = ask, Done' = Done, rows' = rows, ledger' = ledger,
         phase' # "ready" /\ exact' => phase # "ready" /\ exact
  PROVE  RowsKnown'
  BY AskSame DEF RowsKnown, SymbolsKnown, ContentKnown, CallersKnown, Matches

LEMMA WalkStarts ==
  ASSUME SearchTypeOK, size > 0, ask' = ask, NEW s \in Scopes, scope' = s,
         NEW a \in Arms, Walk(a, s)
  PROVE  WalkTypeOK' /\ WalkInv' /\ arm' = a /\ phase' = a
  <1>1. /\ arm' = a /\ phase' = a /\ hits' = Holds[ask.query][a]
        /\ limit' = QuitAt(a) /\ keep' = Prefix /\ pending' = Visible(s)
        /\ at' = [t \in Threads |-> "take"] /\ holds' = [t \in Threads |-> NoName]
        /\ admitted' = {} /\ aliases' = {} /\ count' = 0 /\ found' = {}
        /\ skipped' = FALSE /\ quit' = FALSE
    BY DEF Walk, StartWalk, Reset
  <1>2. W' = Visible(s)
    BY AskSame DEF W
  <1>3. hits' \in [Names -> SUBSET HitIds]
    BY <1>1, Request, SearchAssumption
  <1>4. QuitAt(a) \in Nat /\ Prefix \in Nat /\ Prefix > 0
    <2>1. Cardinality(Names \X HitIds) \in Nat
      BY WalkAssumption, FS_Product, FS_CardinalityType
    <2>2. Unlimited \in Nat /\ Unlimited > 0
      BY <2>1, WalkAssumption
    <2> QED
      BY <2>2, SearchAssumption DEF QuitAt, Prefix, SearchTypeOK
  <1>5. Visible(s) \subseteq Names
    BY Constants
  <1>6. WalkTypeOK'
    BY <1>1, <1>3, <1>4, <1>5 DEF WalkTypeOK
  <1>7. Setup' /\ FoundThere' /\ QuitKnown'
    BY <1>1, <1>2, <1>4 DEF Setup, FoundThere, QuitKnown
  <1>8. NothingLost'
    BY <1>1, <1>2 DEF NothingLost, NameKept, FileTaken, FileKept
  <1> QED
    BY <1>1, <1>6, <1>7, <1>8 DEF WalkInv

LEMMA InitKnown ==
  ASSUME SearchInit
  PROVE  SearchInv
  <1>1. ask \in RequestShape /\ ask.scopes # {} /\ ask.scopes \subseteq Scopes /\ ask.start \in Int
    BY SearchAssumption DEF SearchInit, RequestShape
  <1>2. scope \in Scopes
    BY <1>1 DEF SearchInit
  <1>3. WalkTypeOK
    BY DEF SearchInit, WalkInit, WalkTypeOK, Arms
  <1>4. size \in Nat /\ size > 0
    BY SearchAssumption DEF SearchInit
  <1>5. SearchTypeOK
    BY <1>1, <1>2, <1>3, <1>4 DEF SearchInit, SearchTypeOK, NoAnswer, WalkInit, Arms
  <1>6. Paging
    BY <1>4 DEF SearchInit, Paging, NoAnswer
  <1> QED
    BY <1>5, <1>6 DEF SearchInv, SearchInit, WalkInit, Scoped, WalkInv, DefsKnown, RowsKnown,
                      AnswerKnown, Arms

\* Between the walks.
LEMMA WalkSame ==
  ASSUME SearchTypeOK, UNCHANGED walkVars
  PROVE  WalkTypeOK' /\ (phase \notin Arms => WalkInv')
  BY DEF walkVars, WalkTypeOK, WalkInv, SearchTypeOK

LEMMA BeginKeeps ==
  ASSUME SearchInv, Begin
  PROVE  SearchInv'
  <1>1. phase = "ready" /\ phase' = "scopes" /\ phase \notin Arms /\ phase' \notin Arms
    BY DEF Begin, Arms
  <1>2. SearchTypeOK /\ WalkTypeOK' /\ WalkInv'
    BY <1>1, WalkSame DEF Begin, SearchInv
  <1>3. SearchTypeOK'
    BY <1>1, <1>2, Request DEF Begin, SearchTypeOK, walkVars
  <1>4. Done' = {}
    BY <1>1 DEF Begin, Done
  <1>5. RowsKnown'
    BY <1>4 DEF Begin, RowsKnown, SymbolsKnown, ContentKnown, CallersKnown, Matches
  <1>6. Paging' /\ Scoped' /\ DefsKnown' /\ AnswerKnown'
    BY <1>1 DEF Begin, SearchInv, Paging, Scoped, DefsKnown, AnswerKnown
  <1> QED
    BY <1>2, <1>3, <1>5, <1>6 DEF SearchInv

LEMMA ScopeFailsKeeps ==
  ASSUME SearchInv, NEW s \in Scopes, ScopeFails(s)
  PROVE  SearchInv'
  <1>1. phase = "scopes" /\ phase' = phase /\ phase \notin Arms
    BY DEF ScopeFails, Arms
  <1>2. SearchTypeOK /\ WalkTypeOK' /\ WalkInv'
    BY <1>1, WalkSame DEF ScopeFails, SearchInv
  <1>3. SearchTypeOK'
    BY <1>1, <1>2 DEF ScopeFails, SearchTypeOK, walkVars
  <1>4. RowsKnown' /\ DefsKnown' /\ AnswerKnown'
    BY <1>1 DEF ScopeFails, RowsKnown, DefsKnown, AnswerKnown
  <1>5. Paging' /\ Scoped'
    BY <1>1 DEF ScopeFails, SearchInv, Paging, Scoped
  <1> QED
    BY <1>2, <1>3, <1>4, <1>5 DEF SearchInv

LEMMA AgeKeeps ==
  ASSUME SearchInv, NEW f \in Files, Age(f)
  PROVE  SearchInv'
  <1>1. phase' = phase /\ phase \notin Arms
    BY DEF Age, Arms
  <1>2. SearchTypeOK /\ WalkTypeOK' /\ WalkInv'
    BY <1>1, WalkSame DEF Age, SearchInv
  <1>3. SearchTypeOK'
    BY <1>1, <1>2 DEF Age, SearchTypeOK, walkVars
  <1>4. RowsKnown'
    BY <1>1, RowsSame DEF Age, Done, SearchInv
  <1>5. Paging' /\ Scoped' /\ DefsKnown'
    BY <1>1 DEF Age, SearchInv, Paging, Scoped, DefsKnown, Arms
  <1>6. AnswerKnown'
    BY <1>1 DEF Age, SearchInv, AnswerKnown, Total, Matches
  <1> QED
    BY <1>2, <1>3, <1>4, <1>5, <1>6 DEF SearchInv

LEMMA AgainKeeps ==
  ASSUME SearchInv, NEW p \in Int, NEW l \in Nat, l > 0, Again(p, l)
  PROVE  SearchInv'
  <1>1. phase' = "ready" /\ phase = "answered" /\ phase \notin Arms /\ phase' \notin Arms
    BY DEF Again, Arms
  <1>2. SearchTypeOK /\ WalkTypeOK' /\ WalkInv'
    BY <1>1, WalkSame DEF Again, SearchInv
  <1>3. SearchTypeOK'
    BY <1>1, <1>2 DEF Again, SearchTypeOK, walkVars, NoAnswer
  <1>4. RowsKnown' /\ DefsKnown' /\ AnswerKnown' /\ Scoped'
    BY <1>1 DEF RowsKnown, DefsKnown, AnswerKnown, Scoped
  <1>5. Paging'
    BY DEF Again, Paging, NoAnswer
  <1> QED
    BY <1>2, <1>3, <1>4, <1>5 DEF SearchInv

LEMMA FinishKeeps ==
  ASSUME SearchInv, Finish
  PROVE  SearchInv'
  <1>1. phase = "answered" /\ phase' = "finished" /\ phase \notin Arms /\ phase' \notin Arms
    BY DEF Finish, Arms
  <1>2. SearchTypeOK /\ WalkTypeOK' /\ WalkInv'
    BY <1>1, WalkSame DEF Finish, SearchInv
  <1>3. SearchTypeOK'
    BY <1>1, <1>2 DEF Finish, SearchTypeOK, walkVars
  <1>4. RowsKnown'
    BY <1>1, RowsSame DEF Finish, Done, SearchInv
  <1>5. Paging' /\ Scoped' /\ DefsKnown'
    BY <1>1 DEF Finish, SearchInv, Paging, Scoped, DefsKnown
  <1>6. AnswerKnown'
    BY <1>1 DEF Finish, SearchInv, AnswerKnown, Total, Matches
  <1> QED
    BY <1>2, <1>3, <1>4, <1>5, <1>6 DEF SearchInv

\* Whatever answer is given, if it says what was found.
LEMMA AnsweredKeeps ==
  ASSUME SearchInv, NEW a, phase = "scopes", todo = {}, Answered(a),
         a.shown \in SUBSET Match, a.next \in Nat \union {NoPage},
         a.next # NoPage => a.exact /\ ~a.cut,
         a.ok => a.exact = exact /\ a.total = Total
  PROVE  SearchInv'
  <1>1. phase' = "answered" /\ phase \notin Arms /\ phase' \notin Arms /\ answer' = a
    BY DEF Answered, Arms
  <1>2. SearchTypeOK /\ WalkTypeOK' /\ WalkInv'
    BY <1>1, WalkSame DEF Answered, SearchInv
  <1>3. SearchTypeOK'
    BY <1>1, <1>2 DEF Answered, SearchTypeOK, walkVars
  <1>4. RowsKnown'
    BY <1>1, RowsSame DEF Answered, Done, SearchInv
  <1>5. Paging' /\ Scoped' /\ DefsKnown'
    BY <1>1 DEF Answered, SearchInv, Paging, Scoped, DefsKnown
  <1>6. AnswerKnown'
    BY <1>1 DEF Answered, SearchInv, AnswerKnown, Total, Matches
  <1> QED
    BY <1>2, <1>3, <1>4, <1>5, <1>6 DEF SearchInv

LEMMA AnswersKeep ==
  ASSUME SearchInv, AllScopesFailed \/ AnswerPage \/ AnswerCut
  PROVE  SearchInv'
  <1>1. CASE AllScopesFailed
    BY <1>1, AnsweredKeeps DEF AllScopesFailed, NoAnswer
  <1>2. SearchTypeOK /\ Last(Total) \in Nat /\ exact \in BOOLEAN
    BY PageBounds DEF SearchInv, SearchTypeOK
  <1>3. CASE AnswerPage
    <2>1. PICK up \in BOOLEAN : Answered(Page(up))
      BY <1>3 DEF AnswerPage
    <2>2. Page(up).shown \in SUBSET Match
      BY <1>2, PageShown DEF Page, SearchTypeOK
    <2> QED
      BY <1>2, <1>3, <2>1, <2>2, AnsweredKeeps DEF AnswerPage, Page
  <1>4. CASE AnswerCut
    <2>1. PICK up \in BOOLEAN, upto \in First(Total) .. Last(Total) : Answered(CutAt(up, upto))
      BY <1>4 DEF AnswerCut
    <2>2. CutAt(up, upto).shown \in SUBSET Match
      BY <1>2, PageShown DEF CutAt, Page, SearchTypeOK
    <2> QED
      BY <1>2, <1>4, <2>1, <2>2, AnsweredKeeps DEF AnswerCut, CutAt, Page
  <1> QED
    BY <1>1, <1>3, <1>4

LEMMA SearchScopeKeeps ==
  ASSUME SearchInv, NEW s \in Scopes, SearchScope(s)
  PROVE  SearchInv'
  <1>1. /\ phase = "scopes" /\ phase \notin Arms /\ s \in todo /\ todo' = todo \ {s} /\ scope' = s
        /\ Walk(FirstArm, s) /\ SearchTypeOK /\ size > 0
        /\ UNCHANGED <<ask, offset, size, defs, rows, ledger, exact, anyOk, failed, recent,
                       calm, steady, answer, shown>>
    BY DEF SearchScope, SearchInv, Paging, Arms
  <1>2. /\ FirstArm \in {"definitions", "content", "callers"} /\ FirstArm \in Arms
        /\ FirstArm = "definitions" <=> ask.kind = "symbol"
        /\ FirstArm # "definitions" => ask.kind = FirstArm
    BY <1>1, Request DEF FirstArm, Arms
  <1>3. WalkTypeOK' /\ WalkInv' /\ arm' = FirstArm /\ phase' = FirstArm
    BY <1>1, <1>2, WalkStarts
  <1>4. SearchTypeOK'
    BY <1>1, <1>2, <1>3 DEF SearchTypeOK, Arms
  <1>5. todo \subseteq ask.scopes
    BY <1>1 DEF SearchInv, Scoped
  <1>6. Done' = Done
    BY <1>1, <1>2, <1>3, <1>5 DEF Done
  <1>7. RowsKnown'
    BY <1>1, <1>6, RowsSame DEF SearchInv
  <1>8. Paging' /\ Scoped' /\ DefsKnown' /\ AnswerKnown'
    BY <1>1, <1>2, <1>3, <1>5 DEF SearchInv, Paging, Scoped, DefsKnown, AnswerKnown
  <1> QED
    BY <1>3, <1>4, <1>7, <1>8 DEF SearchInv

LEMMA WalkOnKeeps ==
  ASSUME SearchInv, WalkOn
  PROVE  SearchInv'
  <1>1. PICK t \in Threads : WalkStep(t)
    BY DEF WalkOn
  <1>2. UNCHANGED clientVars /\ SearchTypeOK /\ WalkTypeOK /\ WalkInv
    BY DEF WalkOn, SearchInv, SearchTypeOK
  <1>3. WalkTypeOK' /\ arm' = arm
    BY <1>1, <1>2, WalkStepTypes
  <1>4. WalkInv'
    <2>1. CASE arm = "none"
      BY <1>3, <2>1 DEF WalkInv
    <2>2. CASE arm # "none"
      BY <1>1, <1>2, <2>2, WalkStepKeeps
    <2> QED
      BY <2>1, <2>2
  <1>5. SearchTypeOK'
    BY <1>2, <1>3 DEF SearchTypeOK, clientVars
  <1>6. RowsKnown'
    BY <1>2, RowsSame DEF clientVars, Done, SearchInv
  <1>7. Paging' /\ Scoped'
    BY <1>2 DEF clientVars, SearchInv, Paging, Scoped
  <1>8. DefsKnown'
    BY <1>2, SameNames DEF clientVars, SearchInv, DefsKnown, SomeOf, AllOf
  <1>9. AnswerKnown'
    BY <1>2 DEF clientVars, SearchInv, AnswerKnown, Total, Matches
  <1> QED
    BY <1>4, <1>5, <1>6, <1>7, <1>8, <1>9 DEF SearchInv

LEMMA EndDefinitionsKeeps ==
  ASSUME SearchInv, EndDefinitions
  PROVE  SearchInv'
  <1>1. /\ phase = "definitions" /\ Joined /\ Walk("usages", scope) /\ SearchTypeOK /\ size > 0
        /\ scope \in Scopes
        /\ defs' = [found |-> found, aliases |-> aliases, skipped |-> skipped]
        /\ UNCHANGED <<ask, offset, size, todo, scope, rows, ledger, exact, anyOk, failed,
                       recent, calm, steady, answer, shown>>
    BY DEF EndDefinitions, SearchInv, Paging, SearchTypeOK
  <1>2. arm = "definitions" /\ WalkTypeOK /\ WalkInv
    BY <1>1 DEF SearchInv, SearchTypeOK, Arms
  <1>3. WalkTypeOK' /\ WalkInv' /\ arm' = "usages" /\ phase' = "usages"
    BY <1>1, WalkStarts DEF Arms
  <1>4. SearchTypeOK'
    BY <1>1, <1>2, <1>3 DEF SearchTypeOK, WalkTypeOK, Arms
  <1>5. Done' = Done
    BY <1>1, <1>3 DEF Done, Arms
  <1>6. RowsKnown'
    BY <1>1, <1>5, RowsSame DEF SearchInv
  <1>7. Paging' /\ Scoped' /\ AnswerKnown'
    BY <1>1, <1>3 DEF SearchInv, Paging, Scoped, AnswerKnown, Arms
  <1>8. SomeOf("definitions", found, aliases) /\ (~skipped => AllOf("definitions", found, aliases))
    BY <1>1, <1>2, SymbolWalkEnded
  <1>9. W' = W
    BY <1>1 DEF W, Visible, RespectsIgnore
  <1>10. DefsKnown'
    BY <1>1, <1>8, <1>9 DEF DefsKnown, SomeOf, AllOf
  <1> QED
    BY <1>3, <1>4, <1>6, <1>7, <1>10 DEF SearchInv

\* A walk's rows are taken over: what holds whatever they are.
LEMMA EndWalkKeeps ==
  ASSUME SearchInv, phase \in Arms, NEW R, NEW c \in BOOLEAN, EndWalk(R, c),
         \A o \in R : o \in Observation,
         defs' \in [found : SUBSET (Names \X HitIds), aliases : SUBSET Names, skipped : BOOLEAN],
         ledger' \in SUBSET (Files \X HitIds),
         RowsKnown'
  PROVE  SearchInv'
  <1>1. /\ rows' = rows \union R /\ exact' = (exact /\ c) /\ anyOk' = TRUE /\ phase' = "scopes"
        /\ arm' = "none" /\ hits' = [n \in Names |-> {}] /\ limit' = 0 /\ keep' = 0
        /\ pending' = {} /\ at' = [t \in Threads |-> "take"] /\ holds' = [t \in Threads |-> NoName]
        /\ admitted' = {} /\ aliases' = {} /\ count' = 0 /\ found' = {}
        /\ skipped' = FALSE /\ quit' = FALSE
        /\ UNCHANGED <<ask, offset, size, todo, scope, failed, recent, calm, steady, answer, shown>>
    BY DEF EndWalk, Reset
  <1>2. WalkTypeOK' /\ WalkInv'
    BY <1>1 DEF WalkTypeOK, WalkInv, Arms
  <1>3. SearchTypeOK'
    BY <1>1, <1>2 DEF SearchInv, SearchTypeOK, Arms
  <1>4. Paging' /\ Scoped' /\ DefsKnown' /\ AnswerKnown'
    BY <1>1 DEF SearchInv, Paging, Scoped, DefsKnown, AnswerKnown, Arms
  <1> QED
    BY <1>2, <1>3, <1>4 DEF SearchInv

LEMMA EndWalkDone ==
  ASSUME SearchInv, phase \in Arms, NEW R, NEW c, EndWalk(R, c)
  PROVE  Done' = Done \union {scope} /\ ask' = ask
  BY DEF SearchInv, Scoped, EndWalk, Done, Arms

LEMMA EndUsagesKeeps ==
  ASSUME SearchInv, EndUsages
  PROVE  SearchInv'
  <1> DEFINE uses == {p \in found : ~Dominated(p, defs.found)}
             R1 == Sightings(defs.found, defs.aliases, TRUE)
             R2 == Sightings(uses, aliases, FALSE)
             R == R1 \union R2
             c == Complete /\ ~defs.skipped
  <1>1. /\ phase = "usages" /\ arm = "usages" /\ Joined /\ EndWalk(R, c)
        /\ SearchTypeOK /\ WalkTypeOK /\ WalkInv /\ scope \in Scopes /\ ask.kind = "symbol"
        /\ defs' = [found |-> {}, aliases |-> {}, skipped |-> FALSE] /\ ledger' = ledger
    BY DEF EndUsages, SearchInv, SearchTypeOK, Scoped, Arms
  <1>2. c \in BOOLEAN
    BY <1>1 DEF Complete, SearchTypeOK, WalkTypeOK
  <1>3. /\ defs.found \in SUBSET (Names \X HitIds) /\ defs.aliases \in SUBSET Names
        /\ uses \in SUBSET (Names \X HitIds) /\ aliases \in SUBSET Names
    BY <1>1 DEF SearchTypeOK, WalkTypeOK
  <1>4. \A o \in R : o \in Observation
    <2>1. \A o \in R1 : o \in Observation
      BY <1>1, <1>3, SightingTypes
    <2>2. \A o \in R2 : o \in Observation
      <3> HIDE DEF uses
      <3> QED
        BY <1>1, <1>3, SightingTypes
    <2> QED
      BY <2>1, <2>2
  <1>5. Done' = Done \union {scope} /\ ask' = ask /\ phase \in Arms /\ phase # "ready"
    <2> HIDE DEF R, c
    <2> QED
      BY <1>1, EndWalkDone DEF Arms
  <1>6. rows' = rows \union R /\ exact' = (exact /\ c)
    BY <1>1 DEF EndWalk
  <1>7. RowsKnown'
    <2> SUFFICES ASSUME exact' PROVE SymbolsKnown'
      BY <1>1, <1>5 DEF RowsKnown
    <2>1. exact /\ Complete /\ ~defs.skipped /\ ~skipped
      BY <1>1, <1>2, <1>6 DEF Complete, SearchTypeOK
    <2>2. SymbolsKnown
      BY <1>1, <2>1 DEF SearchInv, RowsKnown
    <2>3. SomeOf("usages", found, aliases) /\ AllOf("usages", found, aliases)
      BY <1>1, <2>1, SymbolWalkEnded
    <2>4. /\ SomeOf("definitions", defs.found, defs.aliases)
          /\ AllOf("definitions", defs.found, defs.aliases)
      BY <1>1, <2>1 DEF SearchInv, DefsKnown
    <2>5. SymbolRows(scope, R)
      BY <1>1, <2>3, <2>4, SymbolRowsEnded
    <2>6. Matches(rows)' = Matches(rows) \union Matches(R)
      <3> HIDE DEF R
      <3> QED
        BY <1>6 DEF Matches
    <2> HIDE DEF R
    <2>7. ASSUME NEW s \in Done', NEW f \in Seen(s)
          PROVE  CertainIn(s, f) \subseteq Matches(rows)'
      BY <1>5, <2>2, <2>5, <2>6 DEF SymbolsKnown, SymbolRows
    <2>8. ASSUME NEW m \in Matches(rows)'
          PROVE  \E s \in Done' : \E f \in Seen(s) : m \in PossibleIn(s, f)
      BY <1>5, <2>2, <2>5, <2>6 DEF SymbolsKnown, SymbolRows
    <2> QED
      BY <1>5, <2>7, <2>8, AskSame DEF SymbolsKnown
  <1>8. /\ defs' \in [found : SUBSET (Names \X HitIds), aliases : SUBSET Names, skipped : BOOLEAN]
        /\ ledger' \in SUBSET (Files \X HitIds)
    BY <1>1 DEF SearchTypeOK
  <1> HIDE DEF R, c
  <1> QED
    BY <1>1, <1>2, <1>4, <1>5, <1>7, <1>8, EndWalkKeeps

LEMMA EndCallersKeeps ==
  ASSUME SearchInv, EndCallers
  PROVE  SearchInv'
  <1> DEFINE R == {[m |-> <<FileOf[p[1]], p[2], FALSE>>, name |-> p[1], scope |-> scope] :
                     p \in found}
  <1>1. /\ phase = "callers" /\ arm = "callers" /\ Joined /\ EndWalk(R, Complete)
        /\ SearchTypeOK /\ WalkTypeOK /\ WalkInv /\ scope \in Scopes /\ ask.kind = "callers"
        /\ defs' = defs /\ ledger' = ledger
    BY DEF EndCallers, SearchInv, SearchTypeOK, Scoped, Arms
  <1>2. Complete \in BOOLEAN
    BY <1>1 DEF Complete, WalkTypeOK
  <1>3. ASSUME NEW o \in R PROVE o \in Observation
    <2>1. PICK p \in found :
            o = [m |-> <<FileOf[p[1]], p[2], FALSE>>, name |-> p[1], scope |-> scope]
      BY <1>3
    <2>2. p[1] \in Names /\ p[2] \in HitIds
      BY <1>1 DEF WalkTypeOK
    <2>3. <<FileOf[p[1]], p[2], FALSE>> \in Match
      BY <2>2, Constants DEF Match
    <2> QED
      BY <1>1, <2>1, <2>2, <2>3 DEF Observation
  <1>4. {<<o.name, o.m[2]>> : o \in R} = {<<p[1], p[2]>> : p \in found}
    <2>1. ASSUME NEW o \in R PROVE \E p \in found : o.name = p[1] /\ o.m[2] = p[2]
      <3>1. PICK p \in found :
              o = [m |-> <<FileOf[p[1]], p[2], FALSE>>, name |-> p[1], scope |-> scope]
        BY <2>1
      <3>2. o.name = p[1] /\ o.m = <<FileOf[p[1]], p[2], FALSE>>
        BY <3>1
      <3>3. o.m[2] = p[2]
        BY <3>2
      <3> QED
        BY <3>2, <3>3
    <2>2. ASSUME NEW p \in found PROVE \E o \in R : o.name = p[1] /\ o.m[2] = p[2]
      <3> DEFINE o == [m |-> <<FileOf[p[1]], p[2], FALSE>>, name |-> p[1], scope |-> scope]
      <3>1. o \in R /\ o.name = p[1] /\ o.m[2] = p[2]
        OBVIOUS
      <3> HIDE DEF R
      <3> QED
        BY <3>1
    <2> HIDE DEF R
    <2> QED
      BY <2>1, <2>2
  <1> HIDE DEF R
  <1>5. Done' = Done \union {scope} /\ ask' = ask /\ phase \in Arms /\ phase # "ready"
    BY <1>1, EndWalkDone DEF Arms
  <1>6. rows' = rows \union R /\ exact' = (exact /\ Complete)
    BY <1>1 DEF EndWalk
  <1>7. RowsKnown'
    <2> SUFFICES ASSUME exact' PROVE CallersKnown'
      BY <1>1, <1>5 DEF RowsKnown
    <2>1. exact /\ Complete
      BY <1>1, <1>2, <1>6 DEF SearchTypeOK
    <2>2. CallersKnown
      BY <1>1, <2>1 DEF SearchInv, RowsKnown
    <2>3. /\ \A p \in found : p[1] \in Belongs(scope) /\ p[2] \in Holding("callers", p[1])
          /\ \A n \in Belongs(scope) : {n} \X Holding("callers", n) \subseteq found
      BY <1>1, <2>1, CallerWalkEnded, Seeing DEF Holding
    <2>4. found \subseteq Names \X HitIds
      BY <1>1 DEF WalkTypeOK
    <2>5. {<<o.name, o.m[2]>> : o \in R} =
            UNION {{n} \X Holding("callers", n) : n \in Belongs(scope)}
      BY <1>4, <2>3, <2>4
    <2>6. {<<o.name, o.m[2]>> : o \in rows'} =
            {<<o.name, o.m[2]>> : o \in rows} \union {<<o.name, o.m[2]>> : o \in R}
      BY <1>6
    <2>7. {<<o.name, o.m[2]>> : o \in rows'} =
            UNION {UNION {{n} \X Holding("callers", n) : n \in Belongs(s)} : s \in Done'}
      BY <1>5, <2>2, <2>5, <2>6 DEF CallersKnown
    <2> QED
      BY <1>5, <2>7, AskSame DEF CallersKnown
  <1>8. /\ defs' \in [found : SUBSET (Names \X HitIds), aliases : SUBSET Names, skipped : BOOLEAN]
        /\ ledger' \in SUBSET (Files \X HitIds)
    BY <1>1 DEF SearchTypeOK
  <1> QED
    BY <1>1, <1>2, <1>3, <1>5, <1>7, <1>8, EndWalkKeeps

LEMMA EndContentKeeps ==
  ASSUME SearchInv, EndContent
  PROVE  SearchInv'
  <1> DEFINE R == Truncate(Sightings(found, aliases, FALSE), keep)
             new == UNION {{FileOf[p[1]]} \X hits[p[1]] : p \in found}
  <1>1. /\ phase = "content" /\ arm = "content" /\ Joined /\ EndWalk(R, Complete)
        /\ SearchTypeOK /\ WalkTypeOK /\ WalkInv /\ scope \in Scopes /\ ask.kind = "content"
        /\ defs' = defs /\ ledger' = ledger \union new
    BY DEF EndContent, SearchInv, SearchTypeOK, Scoped, Arms
  <1>2. Complete \in BOOLEAN
    BY <1>1 DEF Complete, WalkTypeOK
  <1>3. \A o \in R : o \in Observation
    <2>1. found \in SUBSET (Names \X HitIds) /\ aliases \in SUBSET Names
      BY <1>1 DEF WalkTypeOK
    <2>2. \A o \in Sightings(found, aliases, FALSE) : o \in Observation
      BY <1>1, <2>1, SightingTypes
    <2> QED
      BY <2>2 DEF Truncate
  <1> HIDE DEF R
  <1>4. Done' = Done \union {scope} /\ ask' = ask /\ phase \in Arms /\ phase # "ready"
    BY <1>1, EndWalkDone DEF Arms
  <1>5. exact' = (exact /\ Complete)
    BY <1>1 DEF EndWalk
  <1>6. new \subseteq Counted(W) /\ (Complete => new = Counted(W))
    BY <1>1, ContentWalkEnded
  <1>7. RowsKnown'
    <2> SUFFICES ASSUME exact' PROVE ContentKnown'
      BY <1>1, <1>4 DEF RowsKnown
    <2>1. exact /\ Complete
      BY <1>1, <1>2, <1>5 DEF SearchTypeOK
    <2>2. ContentKnown
      BY <1>1, <2>1 DEF SearchInv, RowsKnown
    <2>3. new = Counted(Belongs(scope))
      BY <1>6, <2>1, Seeing
    <2> HIDE DEF new
    <2>4. ledger' = UNION {Counted(Belongs(s)) : s \in Done'}
      BY <1>1, <1>4, <2>2, <2>3 DEF ContentKnown
    <2> QED
      BY <1>4, <2>4, AskSame DEF ContentKnown
  <1>8. new \subseteq Files \X HitIds
    <2>1. \A p \in found : FileOf[p[1]] \in Files /\ hits[p[1]] \subseteq HitIds
      BY <1>1, Constants DEF WalkTypeOK
    <2> QED
      BY <2>1
  <1>9. /\ defs' \in [found : SUBSET (Names \X HitIds), aliases : SUBSET Names, skipped : BOOLEAN]
        /\ ledger' \in SUBSET (Files \X HitIds)
    BY <1>1, <1>8 DEF SearchTypeOK
  <1> QED
    BY <1>1, <1>2, <1>3, <1>4, <1>7, <1>9, EndWalkKeeps

-----------------------------------------------------------------------------
(* The theorems.                                                           *)

LEMMA StepKeeps ==
  ASSUME SearchInv, [Next]_allVars
  PROVE  SearchInv'
  <1>1. CASE Begin
    BY <1>1, BeginKeeps
  <1>2. CASE \E s \in Scopes : SearchScope(s) \/ ScopeFails(s)
    BY <1>2, SearchScopeKeeps, ScopeFailsKeeps
  <1>3. CASE WalkOn
    BY <1>3, WalkOnKeeps
  <1>4. CASE EndDefinitions
    BY <1>4, EndDefinitionsKeeps
  <1>5. CASE EndUsages
    BY <1>5, EndUsagesKeeps
  <1>6. CASE EndCallers
    BY <1>6, EndCallersKeeps
  <1>7. CASE EndContent
    BY <1>7, EndContentKeeps
  <1>8. CASE AllScopesFailed \/ AnswerPage \/ AnswerCut
    BY <1>8, AnswersKeep
  <1>9. CASE \E f \in Files : Age(f)
    BY <1>9, AgeKeeps
  <1>10. CASE FollowNext
    <2>1. answer.next \in Nat /\ size \in Nat /\ size > 0
      BY <1>10 DEF FollowNext, SearchInv, Paging, SearchTypeOK
    <2> QED
      BY <1>10, <2>1, AgainKeeps DEF FollowNext
  <1>11. CASE RetrySmaller
    <2>1. offset \in Int /\ size - 1 \in Nat /\ size - 1 > 0
      BY <1>11 DEF RetrySmaller, SearchInv, SearchTypeOK
    <2> QED
      BY <1>11, <2>1, AgainKeeps DEF RetrySmaller
  <1>12. CASE Finish
    BY <1>12, FinishKeeps
  <1>13. CASE UNCHANGED allVars
    <2>1. UNCHANGED walkVars /\ UNCHANGED clientVars
      BY <1>13 DEF allVars
    <2>2. SearchTypeOK' /\ Paging' /\ Scoped'
      BY <2>1 DEF SearchInv, SearchTypeOK, WalkTypeOK, Paging, Scoped, walkVars, clientVars
    <2>3. WalkInv'
      BY <2>1, SameNames DEF SearchInv, WalkInv, Setup, FoundThere, NothingLost, QuitKnown, NameKept,
         FileTaken, FileKept, InHand, Brought, RowsOf, TopOfFile, walkVars, clientVars
    <2>4. DefsKnown'
      BY <2>1, SameNames DEF SearchInv, DefsKnown, SomeOf, AllOf, clientVars
    <2>5. RowsKnown'
      BY <2>1, RowsSame DEF SearchInv, Done, clientVars
    <2>6. AnswerKnown'
      BY <2>1 DEF SearchInv, AnswerKnown, Total, Matches, clientVars
    <2> QED
      BY <2>2, <2>3, <2>4, <2>5, <2>6 DEF SearchInv
  <1> QED
    BY <1>1, <1>2, <1>3, <1>4, <1>5, <1>6, <1>7, <1>8, <1>9, <1>10, <1>11, <1>12, <1>13 DEF Next

\* The invariant of a search request, for any threads, names, scopes, links,
\* tables of hits and thresholds.
THEOREM SearchInvariant == Spec => []SearchInv
  <1>1. SearchInit => SearchInv
    BY InitKnown
  <1>2. SearchInv /\ [Next]_allVars => SearchInv'
    BY StepKeeps
  <1> QED
    BY <1>1, <1>2, PTL DEF Spec

\* The variables of a search have their types, and navigation is advertised
\* only beside an exact total and an uncut page.
THEOREM SearchTypeCorrect == Spec => []SearchTypeOK
  <1>1. SearchInv => SearchTypeOK
    BY DEF SearchInv
  <1> QED
    BY <1>1, SearchInvariant, PTL

\* The hits a content search counts are those there are: the ledger and the
\* set of what is certain differ in form only.
LEMMA LedgerIsCertain ==
  ASSUME SearchTypeOK, ask.kind = "content",
         ledger = UNION {Counted(Belongs(s)) : s \in ask.scopes}
  PROVE  Cardinality(ledger) = Cardinality(Certain)
  <1>no. PICK no : no = FALSE
    OBVIOUS
  <1>1. \A s \in ask.scopes : Belongs(s) \subseteq Names
    BY Request, SearchAssumption DEF Belongs
  <1>2. \A s, f : CertainIn(s, f) = {f} \X InAnyCase("content", f, s) \X {no}
    BY <1>no DEF CertainIn
  <1>3. ASSUME NEW x \in ledger PROVE <<x[1], x[2], no>> \in Certain
    <2>1. PICK s \in ask.scopes : x \in Counted(Belongs(s))
      BY <1>3
    <2>2. PICK n \in Belongs(s) : x \in {FileOf[n]} \X Holding("content", n)
      BY <2>1 DEF Counted, Holding
    <2> DEFINE f == FileOf[n]
    <2>3. n \in Names /\ f \in Seen(s)
      BY <1>1, NameOfFile
    <2>4. x[1] = f /\ x[2] \in Holding("content", n) /\ x[2] \in HitIds
      BY <2>2, <2>3, Request DEF Holding, Arms
    <2>5. \A m \in NamesOf(f, s) : Holding("content", m) = Holding("content", n)
      BY <1>1, <2>3, Request, SearchAssumption DEF NamesOf, Holding
    <2>6. x[2] \in InAnyCase("content", f, s)
      BY <2>4, <2>5 DEF InAnyCase
    <2>7. <<x[1], x[2], no>> \in CertainIn(s, f)
      BY <1>2, <2>4, <2>6
    <2> QED
      BY <2>3, <2>7 DEF Certain
  <1>4. ASSUME NEW m \in Certain PROVE \E x \in ledger : m = <<x[1], x[2], no>>
    <2>0. PICK s \in ask.scopes : m \in UNION {CertainIn(s, f) : f \in Seen(s)}
      BY <1>4 DEF Certain
    <2>1. PICK f \in Seen(s) : m \in CertainIn(s, f)
      BY <2>0
    <2>2. PICK h \in InAnyCase("content", f, s) : m = <<f, h, no>>
      BY <1>2, <2>1
    <2>3. PICK n \in Belongs(s) : FileOf[n] = f
      BY FileHasName
    <2>4. h \in Holding("content", n)
      BY <1>1, <2>2, <2>3, NameOfFile
    <2>5. <<f, h>> \in Counted(Belongs(s))
      BY <2>3, <2>4 DEF Counted, Holding
    <2>6. <<f, h>> \in ledger
      BY <2>5
    <2> QED
      BY <2>2, <2>6
  <1>5. ledger \subseteq Files \X HitIds /\ IsFiniteSet(ledger)
    BY MatchIsFinite, FS_Subset DEF SearchTypeOK
  <1> DEFINE g == [x \in ledger |-> <<x[1], x[2], no>>]
  <1>6. g \in [ledger -> Certain]
    BY <1>3
  <1>7. \A m \in Certain : \E x \in ledger : g[x] = m
    BY <1>4
  <1>8. \A x, y \in ledger : g[x] = g[y] => x = y
    BY <1>5
  <1> HIDE DEF g
  <1>9. g \in Bijection(ledger, Certain)
    BY <1>6, <1>7, <1>8 DEF Bijection, Injection, Surjection, IsInjective
  <1> QED
    BY <1>5, <1>9, FS_Bijection DEF ExistsBijection

\* What an exact total says follows from what is known of the rows.
LEMMA ExactIsTrue ==
  ASSUME SearchInv
  PROVE  EstimateIsTrue
  <1> SUFFICES ASSUME phase \in {"answered", "finished"}, answer.ok, answer.exact
               PROVE  EstimateIsTrue
    BY DEF EstimateIsTrue, Answering
  <1>1. todo = {} /\ exact /\ answer.total = Total /\ Done = ask.scopes
    BY DEF SearchInv, AnswerKnown, Done, Arms
  <1>2. SearchTypeOK /\ ask.kind \in {"symbol", "content", "callers"}
    BY Request DEF SearchInv
  <1>3. CASE ask.kind = "symbol"
    <2>1. SymbolsKnown /\ answer.total = Cardinality(Matches(rows))
      BY <1>1, <1>3 DEF SearchInv, RowsKnown, Total
    <2>2. Certain \subseteq Matches(rows) /\ Matches(rows) \subseteq Possible
      BY <1>1, <2>1 DEF SymbolsKnown, Certain, Possible
    <2> QED
      BY <1>3, <2>1, <2>2 DEF EstimateIsTrue
  <1>4. CASE ask.kind = "content"
    <2>1. ContentKnown /\ answer.total = Cardinality(ledger)
      BY <1>1, <1>4 DEF SearchInv, RowsKnown, Total
    <2>2. answer.total = Cardinality(Certain)
      BY <1>1, <1>2, <1>4, <2>1, LedgerIsCertain DEF ContentKnown
    <2> QED
      BY <1>4, <2>2 DEF EstimateIsTrue
  <1>5. CASE ask.kind = "callers"
    <2>1. CallersKnown
      BY <1>1, <1>5 DEF SearchInv, RowsKnown
    <2> QED
      BY <1>1, <1>5, <2>1 DEF EstimateIsTrue, CallersKnown
  <1> QED
    BY <1>2, <1>3, <1>4, <1>5

\* A total given as exact is true: a symbol search has every match there must
\* be and none there cannot be, a content search counts every hit of every
\* file once, a caller search has every site of every name; whatever the
\* threads, the links between names and the order in which they are met.
THEOREM ExactTotalsAreTrue == Spec => []EstimateIsTrue
  BY ExactIsTrue, SearchInvariant, PTL

-----------------------------------------------------------------------------
(* Totals of walks that stopped early.                                     *)

\* A definition the walk has not seen, on the line of a usage.
StandsIn(d, m) ==
    /\ LineOf[d] = LineOf[m[2]]
    /\ <<m[1], d, TRUE>> \in Possible
    /\ <<m[1], d, TRUE>> \notin Matches(rows)

Bounded(m) ==
    \/ m \in Possible
    \/ /\ \E n \in Names : FileOf[n] = m[1] /\ m[2] \in Holding("usages", n)
       /\ m[3] = FALSE
       /\ \E d \in HitIds : StandsIn(d, m)

BoundKnown ==
    phase # "ready" =>
      /\ ask.kind = "content" =>
           ledger \subseteq UNION {Counted(Belongs(s)) : s \in ask.scopes}
      /\ ask.kind = "symbol" /\ Cardinality(ask.scopes) = 1 =>
           /\ Done = {} => rows = {}
           /\ \A m \in Matches(rows) : Bounded(m)

LEMMA BoundSame ==
  ASSUME BoundKnown, ask' = ask, Done' = {} => Done = {}, rows' = rows, ledger' = ledger,
         phase' # "ready" => phase # "ready"
  PROVE  BoundKnown'
  <1>1. Possible' = Possible
    BY AskSame DEF Possible
  <1>2. Matches(rows)' = Matches(rows)
    BY DEF Matches
  <1>3. \A m : Bounded(m)' = Bounded(m)
    BY <1>1, <1>2, AskSame DEF Bounded, StandsIn
  <1> QED
    BY <1>2, <1>3, AskSame DEF BoundKnown

LEMMA EndUsagesBounds ==
  ASSUME SearchInv, BoundKnown, EndUsages
  PROVE  BoundKnown'
  <1> DEFINE uses == {p \in found : ~Dominated(p, defs.found)}
             R1 == Sightings(defs.found, defs.aliases, TRUE)
             R2 == Sightings(uses, aliases, FALSE)
             c == Complete /\ ~defs.skipped
  <1>yn. PICK yes, no : yes = TRUE /\ no = FALSE
    OBVIOUS
  <1>1. /\ phase = "usages" /\ arm = "usages" /\ Joined /\ EndWalk(R1 \union R2, c)
        /\ SearchTypeOK /\ WalkTypeOK /\ WalkInv /\ ask.kind = "symbol"
        /\ scope \in ask.scopes \ todo /\ phase \in Arms
    BY DEF EndUsages, SearchInv, SearchTypeOK, Scoped, Arms
  <1>2. rows' = rows \union (R1 \union R2) /\ ask' = ask
    BY <1>1 DEF EndWalk
  <1>3. SUFFICES ASSUME Cardinality(ask.scopes) = 1
                 PROVE  (Done' = {} => rows' = {}) /\ \A m \in Matches(rows)' : Bounded(m)'
    BY <1>1, <1>2 DEF BoundKnown
  <1>4. ask.scopes = {scope}
    <2>1. IsFiniteSet(ask.scopes)
      BY <1>1, Request, SearchAssumption, FS_Subset
    <2> QED
      BY <1>1, <1>3, <2>1, FS_Singleton
  <1>5. Done = {} /\ Done' # {}
    <2>1. Done = {}
      BY <1>1, <1>4 DEF Done
    <2>2. Done' = Done \union {scope}
      <3> HIDE DEF R1, R2, c
      <3> QED
        BY <1>1, EndWalkDone
    <2> QED
      BY <2>1, <2>2
  <1>6. rows' = R1 \union R2
    BY <1>1, <1>2, <1>3, <1>5 DEF BoundKnown
  <1>7. Possible' = Possible /\ Matches(rows)' = Matches(R1) \union Matches(R2)
    <2>1. Possible' = Possible
      BY <1>2, AskSame DEF Possible
    <2>2. Matches(rows)' = Matches(R1) \union Matches(R2)
      <3> HIDE DEF R1, R2
      <3> QED
        BY <1>6 DEF Matches
    <2> QED
      BY <2>1, <2>2
  <1>8. W = Belongs(scope) /\ W \subseteq Names
    BY <1>1, Seeing, Request
  <1>9. /\ SomeOf("definitions", defs.found, defs.aliases)
        /\ SomeOf("usages", found, aliases)
    BY <1>1, SymbolWalkEnded DEF SearchInv, DefsKnown
  <1>10. /\ \A m \in Matches(R1) : \E p \in defs.found : m = <<FileOf[p[1]], p[2], yes>>
         /\ \A m \in Matches(R2) : \E p \in uses : m = <<FileOf[p[1]], p[2], no>>
    <2>1. \A m \in Matches(Sightings(defs.found, defs.aliases, yes)) :
            \E p \in defs.found : m = <<FileOf[p[1]], p[2], yes>>
      BY Sighted
    <2>2. \A m \in Matches(Sightings(uses, aliases, no)) :
            \E p \in uses : m = <<FileOf[p[1]], p[2], no>>
      <3> HIDE DEF uses
      <3> QED
        BY Sighted
    <2> QED
      BY <1>yn, <2>1, <2>2
  <1>11. \A f \in Seen(scope) : PossibleIn(scope, f) \subseteq Possible
    BY <1>4 DEF Possible
  <1>12. \A f : PossibleIn(scope, f) =
           ({f} \X Perhaps("definitions", f, scope) \X {yes}) \union
           ({f} \X (Perhaps("usages", f, scope) \ OnLineOf(InAnyCase("definitions", f, scope))) \X {no})
    BY <1>yn, <1>1 DEF PossibleIn
  <1>13. ASSUME NEW a, NEW G, NEW A, SomeOf(a, G, A), NEW p \in G
         PROVE  /\ p[1] \in Names /\ p[2] \in Holding(a, p[1])
                /\ FileOf[p[1]] \in Seen(scope)
                /\ p[2] \in Perhaps(a, FileOf[p[1]], scope)
    <2>1. p[1] \in W /\ p[2] \in Holding(a, p[1])
      BY <1>13 DEF SomeOf, Holding
    <2> QED
      BY <1>8, <2>1, NameOfFile
  <1>14. ASSUME NEW m \in Matches(R1) PROVE m \in Possible
    <2>1. PICK p \in defs.found : m = <<FileOf[p[1]], p[2], yes>>
      BY <1>10
    <2>2. FileOf[p[1]] \in Seen(scope) /\ p[2] \in Perhaps("definitions", FileOf[p[1]], scope)
      BY <1>9, <1>13
    <2>3. m \in PossibleIn(scope, FileOf[p[1]])
      BY <1>12, <2>1, <2>2
    <2> QED
      BY <1>11, <2>2, <2>3
  <1>15. ASSUME NEW m \in Matches(R2) PROVE Bounded(m)'
    <2>1. PICK p \in uses : m = <<FileOf[p[1]], p[2], no>>
      BY <1>10
    <2> DEFINE f == FileOf[p[1]]
    <2>2. /\ p[1] \in Names /\ p[2] \in Holding("usages", p[1])
          /\ f \in Seen(scope) /\ p[2] \in Perhaps("usages", f, scope)
      BY <1>9, <1>13
    <2>3. CASE p[2] \notin OnLineOf(InAnyCase("definitions", f, scope))
      <3>1. m \in PossibleIn(scope, f)
        BY <1>12, <2>1, <2>2, <2>3
      <3> QED
        BY <1>7, <1>11, <2>2, <3>1 DEF Bounded
    <2>4. CASE p[2] \in OnLineOf(InAnyCase("definitions", f, scope))
      <3>1. PICK d \in InAnyCase("definitions", f, scope) : LineOf[d] = LineOf[p[2]]
        BY <2>4 DEF OnLineOf
      <3>2. d \in HitIds /\ d \in Perhaps("definitions", f, scope)
        <4>1. PICK n \in Belongs(scope) : FileOf[n] = f
          BY <2>2, FileHasName
        <4> QED
          BY <1>8, <4>1, NameOfFile DEF InAnyCase
      <3>3. <<f, d, yes>> \in Possible
        BY <1>11, <1>12, <2>2, <3>2
      <3>4. <<f, d, yes>> \notin Matches(R1) \union Matches(R2)
        <4>1. ASSUME <<f, d, yes>> \in Matches(R1) PROVE FALSE
          <5>1. PICK q \in defs.found : <<f, d, yes>> = <<FileOf[q[1]], q[2], yes>>
            BY <1>10, <4>1
          <5>2. FileOf[q[1]] = FileOf[p[1]] /\ LineOf[q[2]] = LineOf[p[2]]
            BY <3>1, <5>1
          <5>3. Dominated(p, defs.found)
            BY <5>2 DEF Dominated
          <5> QED
            BY <5>3
        <4>2. <<f, d, yes>> \notin Matches(R2)
          BY <1>yn, <1>10
        <4> QED
          BY <4>1, <4>2
      <3>5. StandsIn(d, m)'
        BY <1>yn, <1>7, <2>1, <3>1, <3>3, <3>4 DEF StandsIn
      <3>6. Holding("usages", p[1])' = Holding("usages", p[1])
        BY <1>2 DEF Holding
      <3> QED
        BY <1>yn, <2>1, <2>2, <3>2, <3>5, <3>6 DEF Bounded
    <2> QED
      BY <2>3, <2>4
  <1> QED
    BY <1>5, <1>7, <1>14, <1>15 DEF Bounded

LEMMA BoundSteps ==
  ASSUME SearchInv, BoundKnown, [Next]_allVars
  PROVE  BoundKnown'
  <1>1. CASE Begin
    BY <1>1 DEF Begin, BoundKnown, Matches
  <1>2. ASSUME NEW s \in Scopes, SearchScope(s) PROVE BoundKnown'
    <2>1. /\ phase' = FirstArm /\ FirstArm \in Arms /\ phase = "scopes" /\ s \in todo
          /\ todo' = todo \ {s} /\ scope' = s /\ ask' = ask /\ rows' = rows /\ ledger' = ledger
          /\ todo \subseteq ask.scopes /\ phase \notin Arms
      BY <1>2, Request DEF SearchScope, Walk, FirstArm, SearchInv, Scoped, Arms
    <2>2. Done' = Done
      BY <2>1 DEF Done
    <2> QED
      BY <2>1, <2>2, BoundSame
  <1>3. ASSUME NEW s \in Scopes, ScopeFails(s) PROVE BoundKnown'
    <2>1. Done' = {} => Done = {}
      BY <1>3 DEF ScopeFails, Done, Arms
    <2> QED
      BY <1>3, <2>1, BoundSame DEF ScopeFails
  <1>4. CASE WalkOn
    BY <1>4, BoundSame DEF WalkOn, clientVars, Done
  <1>5. CASE EndDefinitions
    <2>1. Done' = Done
      BY <1>5 DEF EndDefinitions, Walk, Done, Arms
    <2> QED
      BY <1>5, <2>1, BoundSame DEF EndDefinitions
  <1>6. CASE EndUsages
    BY <1>6, EndUsagesBounds
  <1>7. CASE EndCallers
    <2>1. ask.kind = "callers" /\ ask' = ask
      BY <1>7 DEF EndCallers, SearchInv, Scoped, EndWalk
    <2> QED
      BY <2>1 DEF BoundKnown
  <1>8. CASE EndContent
    <2> DEFINE new == UNION {{FileOf[p[1]]} \X hits[p[1]] : p \in found}
    <2>1. /\ phase = "content" /\ ask.kind = "content" /\ ask' = ask /\ Joined /\ arm = "content"
          /\ SearchTypeOK /\ WalkInv /\ scope \in ask.scopes /\ ledger' = ledger \union new
      BY <1>8 DEF EndContent, SearchInv, SearchTypeOK, Scoped, EndWalk, Arms
    <2>2. new \subseteq Counted(Belongs(scope))
      BY <2>1, ContentWalkEnded, Seeing
    <2> HIDE DEF new
    <2>3. ledger' \subseteq UNION {Counted(Belongs(s)) : s \in ask.scopes}
      BY <2>1, <2>2 DEF BoundKnown
    <2> QED
      BY <2>1, <2>3, AskSame DEF BoundKnown
  <1>9. ASSUME NEW a, Answered(a), phase = "scopes" PROVE BoundKnown'
    BY <1>9, BoundSame DEF Answered, Done, Arms
  <1>10. CASE AllScopesFailed \/ AnswerPage \/ AnswerCut
    BY <1>9, <1>10 DEF AllScopesFailed, AnswerPage, AnswerCut
  <1>11. ASSUME NEW f \in Files, Age(f) PROVE BoundKnown'
    BY <1>11, BoundSame DEF Age, Done
  <1>12. CASE FollowNext \/ RetrySmaller
    BY <1>12 DEF FollowNext, RetrySmaller, Again, BoundKnown
  <1>13. CASE Finish
    BY <1>13, BoundSame DEF Finish, Done, Arms
  <1>14. CASE UNCHANGED allVars
    BY <1>14, BoundSame DEF allVars, clientVars, Done
  <1> QED
    BY <1>1, <1>2, <1>3, <1>4, <1>5, <1>6, <1>7, <1>8, <1>10, <1>11, <1>12, <1>13, <1>14 DEF Next

LEMMA PossibleIsFinite ==
  ASSUME SearchTypeOK
  PROVE  Possible \subseteq Match /\ IsFiniteSet(Possible)
  <1>yn. PICK yes, no : yes = TRUE /\ no = FALSE
    OBVIOUS
  <1>1. ASSUME NEW s \in ask.scopes, NEW f \in Seen(s), NEW a \in Arms
        PROVE  Perhaps(a, f, s) \subseteq HitIds
    BY Request, SearchAssumption DEF Perhaps, NamesOf, Belongs, Holding
  <1>2. ASSUME NEW s \in ask.scopes, NEW f \in Seen(s), NEW m \in PossibleIn(s, f)
        PROVE  m \in Match
    <2>1. f \in Files /\ yes \in BOOLEAN /\ no \in BOOLEAN
      BY <1>yn DEF Seen
    <2>2. CASE ask.kind = "symbol"
      <3> DEFINE D == Perhaps("definitions", f, s)
                 U == Perhaps("usages", f, s) \ OnLineOf(InAnyCase("definitions", f, s))
      <3>1. D \subseteq HitIds /\ U \subseteq HitIds
        BY <1>1 DEF Arms
      <3>2. m \in ({f} \X D \X {yes}) \union ({f} \X U \X {no})
        BY <1>yn, <1>2, <2>2 DEF PossibleIn
      <3> HIDE DEF D, U
      <3> QED
        BY <2>1, <3>1, <3>2 DEF Match
    <2>3. CASE ask.kind # "symbol"
      <3> DEFINE D == Perhaps(ask.kind, f, s)
      <3>1. D \subseteq HitIds
        BY <1>1, <2>3, Request DEF Arms
      <3>2. m \in {f} \X D \X {no}
        BY <1>yn, <1>2, <2>3 DEF PossibleIn
      <3> HIDE DEF D
      <3> QED
        BY <2>1, <3>1, <3>2 DEF Match
    <2> QED
      BY <2>2, <2>3
  <1>3. Possible \subseteq Match
    BY <1>2 DEF Possible
  <1> QED
    BY <1>3, MatchIsFinite, FS_Subset

LEMMA LedgerIsPossible ==
  ASSUME SearchTypeOK, ask.kind = "content",
         ledger \subseteq UNION {Counted(Belongs(s)) : s \in ask.scopes}
  PROVE  Cardinality(ledger) <= Cardinality(Possible)
  <1>no. PICK no : no = FALSE
    OBVIOUS
  <1>1. ASSUME NEW x \in ledger PROVE <<x[1], x[2], no>> \in Possible
    <2>1. PICK s \in ask.scopes : x \in Counted(Belongs(s))
      BY <1>1
    <2>2. PICK n \in Belongs(s) : x \in {FileOf[n]} \X Holding("content", n)
      BY <2>1 DEF Counted, Holding
    <2>3. n \in Names
      BY Request, SearchAssumption DEF Belongs
    <2>4. FileOf[n] \in Seen(s) /\ x[1] = FileOf[n] /\ x[2] \in Perhaps("content", FileOf[n], s)
      BY <2>2, <2>3, NameOfFile
    <2>5. <<x[1], x[2], no>> \in PossibleIn(s, FileOf[n])
      BY <1>no, <2>4 DEF PossibleIn
    <2> QED
      BY <2>4, <2>5 DEF Possible
  <1>2. ledger \subseteq Files \X HitIds
    BY DEF SearchTypeOK
  <1> DEFINE g == [x \in ledger |-> <<x[1], x[2], no>>]
  <1>3. g \in [ledger -> Possible]
    BY <1>1
  <1>4. \A x, y \in ledger : g[x] = g[y] => x = y
    BY <1>2
  <1> HIDE DEF g
  <1>5. g \in Injection(ledger, Possible)
    BY <1>3, <1>4 DEF Injection, IsInjective
  <1> QED
    BY <1>5, PossibleIsFinite, FS_Injection

\* A usage counted where a definition was not seen takes the definition's
\* place, and no two usages take one place.
LEMMA RowsArePossible ==
  ASSUME SearchTypeOK, \A m \in Matches(rows) : Bounded(m)
  PROVE  Cardinality(Matches(rows)) <= Cardinality(Possible)
  <1>yn. PICK yes, no : yes = TRUE /\ no = FALSE
    OBVIOUS
  <1> DEFINE place(m) == CHOOSE d \in HitIds : StandsIn(d, m)
             g == [m \in Matches(rows) |-> IF m \in Possible THEN m ELSE <<m[1], place(m), yes>>]
  <1>1. ASSUME NEW m \in Matches(rows), m \notin Possible
        PROVE  /\ m[3] = no /\ StandsIn(place(m), m)
               /\ \E n \in Names : FileOf[n] = m[1] /\ m[2] \in Holding("usages", n)
    BY <1>yn, <1>1 DEF Bounded
  <1> HIDE DEF place
  <1>2. ASSUME NEW m \in Matches(rows), m \notin Possible
        PROVE  /\ <<m[1], place(m), yes>> \in Possible \ Matches(rows)
               /\ LineOf[place(m)] = LineOf[m[2]]
    BY <1>yn, <1>1, <1>2 DEF StandsIn
  <1>3. g \in [Matches(rows) -> Possible]
    BY <1>2
  <1>4. ASSUME NEW x \in Matches(rows), NEW y \in Matches(rows), g[x] = g[y]
        PROVE  x = y
    <2>1. x \in Match /\ y \in Match
      BY DEF Matches, SearchTypeOK, Observation
    <2>2. CASE x \in Possible \/ y \in Possible
      BY <1>2, <1>4, <2>2
    <2>3. CASE x \notin Possible /\ y \notin Possible
      <3>1. x[1] = y[1] /\ place(x) = place(y)
        BY <1>4, <2>3
      <3>2. LineOf[x[2]] = LineOf[y[2]]
        BY <1>2, <2>3, <3>1
      <3>3. PICK n \in Names : FileOf[n] = x[1] /\ x[2] \in Holding("usages", n)
        BY <1>1, <2>3
      <3>4. PICK m \in Names : FileOf[m] = y[1] /\ y[2] \in Holding("usages", m)
        BY <1>1, <2>3
      <3>5. x[2] = y[2]
        BY <3>1, <3>2, <3>3, <3>4, Request, SearchAssumption DEF Holding
      <3>6. x[3] = y[3]
        BY <1>1, <2>3
      <3> QED
        BY <2>1, <3>1, <3>5, <3>6 DEF Match
    <2> QED
      BY <2>2, <2>3
  <1> HIDE DEF g
  <1>5. g \in Injection(Matches(rows), Possible)
    BY <1>3, <1>4 DEF Injection, IsInjective
  <1> QED
    BY <1>5, PossibleIsFinite, FS_Injection

\* The total of a search of one scope is never above the number of matches
\* there may be, however early its walks stopped.
THEOREM LowerBounds == Spec => []LowerBoundInOneScope
  <1>1. SearchInit => BoundKnown
    BY DEF SearchInit, BoundKnown
  <1>2. SearchInv /\ BoundKnown /\ [Next]_allVars => BoundKnown'
    BY BoundSteps
  <1>3. ASSUME SearchInv, BoundKnown PROVE LowerBoundInOneScope
    <2> SUFFICES ASSUME Cardinality(ask.scopes) = 1, phase \in {"answered", "finished"}, answer.ok,
                        ask.kind # "callers"
                 PROVE  answer.total <= Cardinality(Possible)
      BY DEF LowerBoundInOneScope, ObservedIsLowerBound, Answering
    <2>1. SearchTypeOK /\ answer.total = Total /\ ask.kind \in {"symbol", "content"}
      BY <1>3, Request DEF SearchInv, AnswerKnown
    <2>2. CASE ask.kind = "symbol"
      BY <1>3, <2>1, <2>2, RowsArePossible DEF BoundKnown, Total
    <2>3. CASE ask.kind = "content"
      BY <1>3, <2>1, <2>3, LedgerIsPossible DEF BoundKnown, Total
    <2> QED
      BY <2>1, <2>2, <2>3
  <1> QED
    BY <1>1, <1>2, <1>3, SearchInvariant, PTL DEF Spec

-----------------------------------------------------------------------------
(* Ranking.  An order is a set of pairs, a position the number of those    *)
(* before.                                                                 *)

Orders(L, M) ==
    /\ \A x \in M : <<x, x>> \notin L
    /\ \A x, y, z \in M : <<x, y>> \in L /\ <<y, z>> \in L => <<x, z>> \in L
    /\ \A x, y \in M : x # y => <<x, y>> \in L \/ <<y, x>> \in L

Front(L, M, m) == {x \in M : <<x, m>> \in L}
Rank(L, M, m) == Cardinality(Front(L, M, m))

LEMMA RanksDiffer ==
  ASSUME NEW L, NEW M, IsFiniteSet(M), Orders(L, M)
  PROVE  /\ \A m \in M : Rank(L, M, m) \in Nat /\ Rank(L, M, m) < Cardinality(M)
         /\ \A x, y \in M : <<x, y>> \in L => Rank(L, M, x) < Rank(L, M, y)
         /\ \A x, y \in M : Rank(L, M, x) < Rank(L, M, y) => <<x, y>> \in L
  <1>1. ASSUME NEW S \in SUBSET M, NEW T \in SUBSET S, NEW e \in S, e \notin T
        PROVE  Cardinality(T) \in Nat /\ Cardinality(T) < Cardinality(S)
    <2>1. IsFiniteSet(S)
      BY FS_Subset
    <2>2. IsFiniteSet(T) /\ Cardinality(T) <= Cardinality(S) /\ (Cardinality(S) = Cardinality(T) => S = T)
      BY <2>1, FS_Subset
    <2>3. Cardinality(S) \in Nat /\ Cardinality(T) \in Nat
      BY <2>1, <2>2, FS_CardinalityType
    <2> QED
      BY <1>1, <2>2, <2>3
  <1>2. ASSUME NEW m \in M PROVE Rank(L, M, m) \in Nat /\ Rank(L, M, m) < Cardinality(M)
    <2>1. Front(L, M, m) \subseteq M /\ m \notin Front(L, M, m)
      BY DEF Front, Orders
    <2> QED
      BY <1>1, <2>1 DEF Rank
  <1>3. ASSUME NEW x \in M, NEW y \in M, <<x, y>> \in L PROVE Rank(L, M, x) < Rank(L, M, y)
    <2>1. Front(L, M, x) \subseteq Front(L, M, y)
      BY <1>3 DEF Front, Orders
    <2>2. x \in Front(L, M, y) /\ x \notin Front(L, M, x) /\ Front(L, M, y) \subseteq M
      BY <1>3 DEF Front, Orders
    <2> QED
      BY <1>1, <2>1, <2>2 DEF Rank
  <1>4. ASSUME NEW x \in M, NEW y \in M, Rank(L, M, x) < Rank(L, M, y) PROVE <<x, y>> \in L
    <2>1. Rank(L, M, x) \in Nat /\ Rank(L, M, y) \in Nat
      BY <1>2
    <2>2. x # y
      BY <1>4, <2>1
    <2>3. <<y, x>> \notin L
      BY <1>3, <1>4, <2>1
    <2> QED
      BY <2>2, <2>3 DEF Orders
  <1> QED
    BY <1>2, <1>3, <1>4

\* Where there is a position k, there are k before it.
LEMMA TopIsFull ==
  ASSUME NEW L, NEW M, IsFiniteSet(M), Orders(L, M), NEW k \in Nat,
         NEW m \in M, Rank(L, M, m) >= k
  PROVE  LET T == {x \in M : Rank(L, M, x) < k} IN Cardinality(T) = k
  <1> DEFINE T == {x \in M : Rank(L, M, x) < k}
             n == Cardinality(M)
             N == 0 .. n - 1
             K == 0 .. k - 1
             rank == [x \in M |-> Rank(L, M, x)]
             top == [x \in T |-> Rank(L, M, x)]
  <1>1. n \in Nat /\ IsFiniteSet(N) /\ Cardinality(N) = n
    <2>1. n \in Nat
      BY FS_CardinalityType
    <2>2. IsFiniteSet(N) /\ Cardinality(N) = IF 0 > n - 1 THEN 0 ELSE (n - 1) - 0 + 1
      <3>1. n - 1 \in Int /\ 0 \in Int
        BY <2>1
      <3> QED
        BY <3>1, FS_Interval
    <2> QED
      BY <2>1, <2>2
  <1>2. IsFiniteSet(K) /\ Cardinality(K) = k
    <2>1. IsFiniteSet(K) /\ Cardinality(K) = IF 0 > k - 1 THEN 0 ELSE (k - 1) - 0 + 1
      <3>1. k - 1 \in Int /\ 0 \in Int
        OBVIOUS
      <3> QED
        BY <3>1, FS_Interval
    <2> QED
      BY <2>1
  <1>3. \A x \in M : Rank(L, M, x) \in Nat /\ Rank(L, M, x) < n
    BY RanksDiffer
  <1>4. \A x, y \in M : Rank(L, M, x) = Rank(L, M, y) => x = y
    <2> SUFFICES ASSUME NEW x \in M, NEW y \in M, x # y PROVE Rank(L, M, x) # Rank(L, M, y)
      OBVIOUS
    <2>1. <<x, y>> \in L \/ <<y, x>> \in L
      BY DEF Orders
    <2>2. Rank(L, M, x) < Rank(L, M, y) \/ Rank(L, M, y) < Rank(L, M, x)
      BY <2>1, RanksDiffer
    <2> QED
      BY <1>3, <2>2
  <1>5. rank \in Injection(M, N)
    BY <1>1, <1>3, <1>4 DEF Injection, IsInjective
  <1>6. rank \in Surjection(M, N)
    <2> HIDE DEF rank, N
    <2> QED
      BY <1>1, <1>5, FS_Injection
  <1>7. \A j \in N : \E x \in M : Rank(L, M, x) = j
    BY <1>6 DEF Surjection
  <1>8. top \in [T -> K]
    BY <1>3
  <1>9. \A j \in K : \E x \in T : top[x] = j
    <2> SUFFICES ASSUME NEW j \in K PROVE \E x \in T : top[x] = j
      OBVIOUS
    <2>1. j \in N
      BY <1>1, <1>3
    <2>2. PICK x \in M : Rank(L, M, x) = j
      BY <1>7, <2>1
    <2> QED
      BY <2>2
  <1>10. \A x, y \in T : top[x] = top[y] => x = y
    BY <1>4
  <1>11. IsFiniteSet(T)
    BY FS_Subset
  <1> HIDE DEF top, K, T
  <1>12. top \in Bijection(T, K)
    BY <1>8, <1>9, <1>10 DEF Bijection, Injection, Surjection, IsInjective
  <1> QED
    BY <1>2, <1>11, <1>12, FS_Bijection DEF ExistsBijection, T

\* A part of a set that has the first k of it and does not put anything before
\* them has the same first k.
LEMMA PartKeepsTop ==
  ASSUME NEW A, IsFiniteSet(A), NEW LA, Orders(LA, A),
         NEW R \in SUBSET A, NEW LR, Orders(LR, R), NEW k \in Nat,
         \A m \in A : Rank(LA, A, m) < k => m \in R,
         \A m \in R, x \in R : Rank(LA, A, m) < k => (<<x, m>> \in LR <=> <<x, m>> \in LA)
  PROVE  \A m \in R : /\ Rank(LA, A, m) < k => Rank(LR, R, m) = Rank(LA, A, m)
                      /\ Rank(LR, R, m) < k => Rank(LA, A, m) < k
  <1> DEFINE T == {x \in A : Rank(LA, A, x) < k}
  <1>1. T \subseteq R
    OBVIOUS
  <1>2. \A m \in A : Rank(LA, A, m) \in Nat
    BY RanksDiffer
  <1>3. ASSUME NEW m \in R, Rank(LA, A, m) < k PROVE Rank(LR, R, m) = Rank(LA, A, m)
    <2>1. Front(LA, A, m) \subseteq R
      <3> SUFFICES ASSUME NEW x \in A, <<x, m>> \in LA PROVE x \in R
        BY DEF Front
      <3>1. Rank(LA, A, x) < Rank(LA, A, m)
        BY RanksDiffer
      <3> QED
        BY <1>2, <1>3, <3>1
    <2>2. Front(LR, R, m) = Front(LA, A, m)
      BY <1>3, <2>1 DEF Front
    <2> QED
      BY <2>2 DEF Rank
  <1>4. ASSUME NEW m \in R, ~(Rank(LA, A, m) < k) PROVE ~(Rank(LR, R, m) < k)
    <2>1. Cardinality(T) = k
      BY <1>2, <1>4, TopIsFull
    <2>2. T \subseteq Front(LR, R, m)
      <3> SUFFICES ASSUME NEW t \in T PROVE <<t, m>> \in LR
        BY <1>1 DEF Front
      <3>1. t \in R /\ t # m
        BY <1>1, <1>4
      <3>2. <<m, t>> \notin LR
        <4> SUFFICES ASSUME <<m, t>> \in LR PROVE FALSE
          OBVIOUS
        <4>1. <<m, t>> \in LA
          BY <3>1
        <4>2. Rank(LA, A, m) < Rank(LA, A, t)
          BY <4>1, RanksDiffer
        <4> QED
          BY <1>2, <1>4, <4>2
      <3> QED
        BY <3>1, <3>2 DEF Orders
    <2>3. IsFiniteSet(Front(LR, R, m))
      <3>1. Front(LR, R, m) \subseteq A
        BY DEF Front
      <3> QED
        BY <3>1, FS_Subset
    <2>4. Cardinality(T) <= Rank(LR, R, m) /\ Rank(LR, R, m) \in Nat
      BY <2>2, <2>3, FS_Subset, FS_CardinalityType DEF Rank
    <2> QED
      BY <2>1, <2>4
  <1> QED
    BY <1>3, <1>4

-----------------------------------------------------------------------------
(* Largest and least of finitely many.                                     *)

LEMMA Extremes ==
  ASSUME NEW X, IsFiniteSet(X), X # {}, NEW w \in [X -> Nat]
  PROVE  /\ \E x \in X : \A y \in X : w[y] <= w[x]
         /\ \E x \in X : \A y \in X : w[x] <= w[y]
  <1>1. ASSUME NEW B \in [X -> SUBSET X],
               \A x \in X : x \notin B[x], \A x \in X : \A y \in B[x] : B[y] \subseteq B[x]
        PROVE  \E x \in X : B[x] = {}
    <2> DEFINE T == {B[x] : x \in X}
    <2>1. T \subseteq FiniteSubsetsOf(X)
      <3>1. \A x \in X : IsFiniteSet(B[x])
        BY FS_Subset
      <3> QED
        BY <3>1 DEF FiniteSubsetsOf
    <2>2. T # {}
      OBVIOUS
    <2>3. IsWellFoundedOn(StrictSubsetOrdering(X), FiniteSubsetsOf(X))
      BY FS_StrictSubsetOrderingWellFounded
    <2>4. PICK b \in T : \A y \in T : <<y, b>> \notin StrictSubsetOrdering(X)
      <3> HIDE DEF T
      <3> QED
        BY <2>1, <2>2, <2>3, WFMin
    <2>5. PICK x \in X : b = B[x]
      BY <2>4
    <2>6. B[x] = {}
      <3> SUFFICES ASSUME NEW y \in B[x] PROVE FALSE
        OBVIOUS
      <3>1. y \in X /\ B[y] \subseteq B[x] /\ B[y] # B[x] /\ B[y] \in T
        BY <1>1
      <3> QED
        BY <2>4, <2>5, <3>1, <1>1 DEF StrictSubsetOrdering
    <2> QED
      BY <2>6
  <1>2. \E x \in X : \A y \in X : w[y] <= w[x]
    <2> DEFINE B == [x \in X |-> {y \in X : w[x] < w[y]}]
    <2>1. B \in [X -> SUBSET X]
      OBVIOUS
    <2>2. \A x \in X : x \notin B[x]
      OBVIOUS
    <2>3. \A x \in X : \A y \in B[x] : B[y] \subseteq B[x]
      OBVIOUS
    <2>4. PICK x \in X : B[x] = {}
      <3> HIDE DEF B
      <3> QED
        BY <1>1, <2>1, <2>2, <2>3
    <2> QED
      BY <2>4
  <1>3. \E x \in X : \A y \in X : w[x] <= w[y]
    <2> DEFINE B == [x \in X |-> {y \in X : w[y] < w[x]}]
    <2>1. B \in [X -> SUBSET X]
      OBVIOUS
    <2>2. \A x \in X : x \notin B[x]
      OBVIOUS
    <2>3. \A x \in X : \A y \in B[x] : B[y] \subseteq B[x]
      OBVIOUS
    <2>4. PICK x \in X : B[x] = {}
      <3> HIDE DEF B
      <3> QED
        BY <1>1, <2>1, <2>2, <2>3
    <2> QED
      BY <2>4
  <1> QED
    BY <1>2, <1>3

LEMMA ObservationIsFinite == IsFiniteSet(Observation)
  <1> DEFINE X == (Match \X Names) \X Scopes
             f == [x \in X |-> [m |-> x[1][1], name |-> x[1][2], scope |-> x[2]]]
  <1>1. IsFiniteSet(X)
    <2>1. IsFiniteSet(Match \X Names)
      BY WalkAssumption, MatchIsFinite, FS_Product, Zenon
    <2> QED
      BY <2>1, SearchAssumption, FS_Product, Zenon
  <1>2. f \in [X -> Observation]
    BY DEF Observation
  <1>3. ASSUME NEW o \in Observation PROVE \E x \in X : f[x] = o
    <2>1. <<<<o.m, o.name>>, o.scope>> \in X /\ o = [m |-> o.m, name |-> o.name, scope |-> o.scope]
      BY DEF Observation
    <2> QED
      BY <2>1
  <1> HIDE DEF f
  <1>4. f \in Surjection(X, Observation)
    BY <1>2, <1>3 DEF Surjection
  <1> QED
    BY <1>1, <1>4, FS_Surjection

-----------------------------------------------------------------------------
(* The ranking of some sightings.                                          *)

\* A name shows its own file only.
Honest(S) == \A o \in S : o \in Observation /\ FileOf[o.name] = o.m[1]

Scores(S) == [m \in Matches(S) |-> BestScore(m, S)]
Order(S, up) == {p \in Matches(S) \X Matches(S) : Ahead(p[1], p[2], S, Scores(S), up)}

LEMMA MatchesOf ==
  ASSUME NEW S, Honest(S)
  PROVE  /\ S \in SUBSET Observation /\ Matches(S) \subseteq Match /\ IsFiniteSet(Matches(S))
         /\ \A m \in Matches(S) : SeenAs(m, S) # {} /\ SeenAs(m, S) \subseteq Observation
         /\ \A o \in S : o.m \in Matches(S) /\ o \in SeenAs(o.m, S)
         /\ \A m : \A o \in SeenAs(m, S) : o \in S /\ o.m = m
  <1>1. \A o \in S : o \in Observation /\ o.m \in Match
    BY DEF Honest, Observation
  <1>2. Matches(S) \subseteq Match
    BY <1>1 DEF Matches
  <1>3. IsFiniteSet(Matches(S))
    BY <1>2, MatchIsFinite, FS_Subset
  <1> QED
    BY <1>1, <1>2, <1>3 DEF Matches, SeenAs

LEMMA BestScoreIs ==
  ASSUME NEW S, Honest(S), NEW m \in Matches(S)
  PROVE  /\ BestScore(m, S) \in Nat
         /\ \E o \in SeenAs(m, S) : Score(o) = BestScore(m, S)
         /\ \A o \in SeenAs(m, S) : Score(o) <= BestScore(m, S)
  <1> DEFINE X == SeenAs(m, S)
             w == [o \in X |-> Score(o)]
  <1>1. X # {} /\ X \subseteq Observation
    BY MatchesOf
  <1>2. IsFiniteSet(X)
    BY <1>1, ObservationIsFinite, FS_Subset
  <1>3. \A o \in X : Score(o) \in Nat
    <2> SUFFICES ASSUME NEW o \in X PROVE Score(o) \in Nat
      OBVIOUS
    <2>1. o.name \in Names /\ o.scope \in Scopes /\ o.m[2] \in HitIds
      BY <1>1 DEF Observation, Match
    <2>2. /\ Relevance \in [Names -> [Scopes -> Nat]] /\ Boost \in Nat
          /\ Quality \in [Names -> [HitIds -> Nat]]
      BY SearchAssumption, WalkAssumption
    <2>3. Relevance[o.name][o.scope] \in Nat /\ Quality[o.name][o.m[2]] \in Nat
      BY <2>1, <2>2
    <2> QED
      BY <2>2, <2>3 DEF Score
  <1>4. w \in [X -> Nat]
    BY <1>3
  <1>5. PICK x \in X : \A y \in X : w[y] <= w[x]
    <2> HIDE DEF X, w
    <2> QED
      BY <1>1, <1>2, <1>4, Extremes
  <1>6. \A y \in X : Score(y) <= Score(x)
    BY <1>5
  <1> DEFINE V == {Score(o) : o \in X}
  <1>7. BestScore(m, S) = CHOOSE v \in V : \A u \in V : u <= v
    BY DEF BestScore, Largest
  <1>8. Score(x) \in V /\ \A u \in V : u <= Score(x)
    BY <1>6
  <1>9. BestScore(m, S) \in V /\ \A u \in V : u <= BestScore(m, S)
    <2> HIDE DEF V
    <2> QED
      BY <1>7, <1>8
  <1> QED
    BY <1>3, <1>9

LEMMA PathOfIs ==
  ASSUME NEW S, Honest(S), NEW m \in Matches(S)
  PROVE  /\ PathOf(m, S) \in Names /\ FileOf[PathOf(m, S)] = m[1]
         /\ \E o \in SeenAs(m, S) : PathOf(m, S) = o.name
         /\ \A p \in SeenAs(m, S) : Preference[PathOf(m, S)] <= Preference[p.name]
  <1> DEFINE X == SeenAs(m, S)
             w == [o \in X |-> Preference[o.name]]
  <1>1. X # {} /\ X \subseteq Observation
    BY MatchesOf
  <1>2. IsFiniteSet(X)
    BY <1>1, ObservationIsFinite, FS_Subset
  <1>3. w \in [X -> Nat]
    BY <1>1, SearchAssumption DEF Observation
  <1>4. PICK x \in X : \A y \in X : w[x] <= w[y]
    <2> HIDE DEF X, w
    <2> QED
      BY <1>1, <1>2, <1>3, Extremes
  <1>5. \A p \in X : Preference[x.name] <= Preference[p.name]
    BY <1>4
  <1>6. PICK o \in X : PathOf(m, S) = o.name /\ \A p \in X : Preference[o.name] <= Preference[p.name]
    BY <1>5 DEF PathOf
  <1> QED
    BY <1>1, <1>6 DEF SeenAs, Honest, Observation

\* The name is determined by what it is preferred to.
LEMMA PathOfUnique ==
  ASSUME NEW S, Honest(S), NEW m \in Matches(S), NEW o \in SeenAs(m, S),
         \A p \in SeenAs(m, S) : Preference[o.name] <= Preference[p.name]
  PROVE  PathOf(m, S) = o.name
  <1>1. /\ PathOf(m, S) \in Names /\ FileOf[PathOf(m, S)] = m[1]
        /\ Preference[PathOf(m, S)] <= Preference[o.name]
    BY PathOfIs
  <1>2. PICK p \in SeenAs(m, S) : PathOf(m, S) = p.name
    BY PathOfIs
  <1>3. Preference[o.name] <= Preference[PathOf(m, S)]
    BY <1>2
  <1>4. o.name \in Names /\ FileOf[o.name] = m[1]
    BY DEF SeenAs, Honest, Observation
  <1>5. Preference[o.name] \in Nat /\ Preference[PathOf(m, S)] \in Nat
    BY <1>1, <1>4, SearchAssumption
  <1>6. Preference[o.name] = Preference[PathOf(m, S)]
    BY <1>1, <1>3, <1>5
  <1>7. \A n, k \in Names : n # k /\ FileOf[n] = FileOf[k] => Preference[n] # Preference[k]
    BY SearchAssumption
  <1> QED
    BY <1>1, <1>4, <1>6, <1>7

\* The sort key is a total order of the matches, whatever their scores.
LEMMA RankingOrders ==
  ASSUME NEW S, Honest(S), NEW up \in BOOLEAN
  PROVE  Orders(Order(S, up), Matches(S))
  <1> DEFINE M == Matches(S)
             stratum == [m \in M |-> Stratum(m)]
             score == Scores(S)
             rank == [m \in M |-> PathRank[PathOf(m, S)]]
             line == [m \in M |-> LineOf[m[2]]]
             hit == [m \in M |-> m[2]]
  <1>1. ASSUME NEW m \in M
        PROVE  /\ stratum[m] \in Nat /\ score[m] \in Nat /\ rank[m] \in Nat
               /\ line[m] \in Nat /\ hit[m] \in Nat
    <2>1. m \in Match
      BY MatchesOf
    <2>2. m[2] \in HitIds /\ LineOf[m[2]] \in Nat /\ m[2] \in Nat
      BY <2>1, SearchAssumption, WalkAssumption DEF Match
    <2>3. PathRank[PathOf(m, S)] \in Nat
      BY PathOfIs, SearchAssumption
    <2>4. BestScore(m, S) \in Nat
      BY BestScoreIs
    <2> QED
      BY <2>2, <2>3, <2>4 DEF Stratum, Scores
  <1>2. ASSUME NEW x \in M, NEW y \in M
        PROVE  <<x, y>> \in Order(S, up) <=>
                 \/ stratum[x] < stratum[y]
                 \/ stratum[x] = stratum[y] /\ score[x] > score[y]
                 \/ stratum[x] = stratum[y] /\ score[x] = score[y] /\ rank[x] < rank[y]
                 \/ stratum[x] = stratum[y] /\ score[x] = score[y] /\ rank[x] = rank[y] /\ line[x] < line[y]
                 \/ /\ stratum[x] = stratum[y] /\ score[x] = score[y] /\ rank[x] = rank[y] /\ line[x] = line[y]
                    /\ IF up THEN hit[x] < hit[y] ELSE hit[y] < hit[x]
    BY DEF Order, Ahead
  <1>3. ASSUME NEW x \in M, NEW y \in M, stratum[x] = stratum[y], rank[x] = rank[y], hit[x] = hit[y]
        PROVE  x = y
    <2>1. PathOf(x, S) = PathOf(y, S)
      BY <1>3, PathOfIs, SearchAssumption
    <2>2. x[1] = y[1]
      BY <2>1, PathOfIs
    <2>3. x \in Match /\ y \in Match
      BY MatchesOf
    <2>4. x[3] = y[3]
      BY <1>3, <2>3 DEF Stratum, Match
    <2> QED
      BY <1>3, <2>2, <2>3, <2>4 DEF Match
  <1> HIDE DEF M, stratum, score, rank, line, hit
  <1>4. \A x \in M : <<x, x>> \notin Order(S, up)
    BY <1>1, <1>2
  <1>5. \A x, y \in M : x # y => <<x, y>> \in Order(S, up) \/ <<y, x>> \in Order(S, up)
    BY <1>1, <1>2, <1>3
  <1>6. \A x, y, z \in M : <<x, y>> \in Order(S, up) /\ <<y, z>> \in Order(S, up) => <<x, z>> \in Order(S, up)
    BY <1>1, <1>2
  <1> QED
    BY <1>4, <1>5, <1>6 DEF Orders, M

\* A slice is what has its ranks.
LEMMA SliceIs ==
  ASSUME NEW S, NEW from, NEW upto, NEW up
  PROVE  Slice(S, from, upto, up) =
           {m \in Matches(S) : /\ from <= Rank(Order(S, up), Matches(S), m)
                               /\ Rank(Order(S, up), Matches(S), m) < upto}
  <1>1. ASSUME NEW m \in Matches(S)
        PROVE  Position(m, S, Scores(S), up) = Rank(Order(S, up), Matches(S), m)
    BY DEF Position, Rank, Front, Order
  <1> QED
    BY <1>1 DEF Slice, Ranked, Scores

-----------------------------------------------------------------------------
(* What there is to rank.                                                  *)

ScopeRows(s) == {o \in AllRows : o.scope = s}

LEMMA PossibleFile ==
  ASSUME SearchTypeOK, NEW s \in ask.scopes, NEW f, NEW m \in PossibleIn(s, f)
  PROVE  m[1] = f /\ (f \in Seen(s) => m \in Possible /\ m \in Match)
  <1>yn. PICK yes, no : yes = TRUE /\ no = FALSE
    OBVIOUS
  <1>1. m[1] = f
    <2>1. CASE ask.kind = "symbol"
      <3> DEFINE D == Perhaps("definitions", f, s)
                 U == Perhaps("usages", f, s) \ OnLineOf(InAnyCase("definitions", f, s))
      <3>1. m \in ({f} \X D \X {yes}) \union ({f} \X U \X {no})
        BY <1>yn, <2>1 DEF PossibleIn
      <3> HIDE DEF D, U
      <3> QED
        BY <3>1
    <2>2. CASE ask.kind # "symbol"
      <3> DEFINE D == Perhaps(ask.kind, f, s)
      <3>1. m \in {f} \X D \X {no}
        BY <1>yn, <2>2 DEF PossibleIn
      <3> HIDE DEF D
      <3> QED
        BY <3>1
    <2> QED
      BY <2>1, <2>2
  <1>2. f \in Seen(s) => m \in Possible
    BY DEF Possible
  <1> QED
    BY <1>1, <1>2, PossibleIsFinite

LEMMA RowsOfScope ==
  ASSUME SearchTypeOK
  PROVE  /\ Honest(AllRows) /\ Matches(AllRows) = Possible
         /\ \A s \in ask.scopes : Honest(ScopeRows(s))
         /\ \A s \in ask.scopes : \A o :
              o \in ScopeRows(s) <=> /\ o \in Observation /\ o.scope = s
                                     /\ o.name \in NamesOf(o.m[1], s)
                                     /\ o.m \in PossibleIn(s, o.m[1])
         /\ \A o \in AllRows : o.scope \in ask.scopes /\ o \in ScopeRows(o.scope)
  <1>1. ask.scopes \subseteq Scopes /\ Possible \subseteq Match
    BY Request, PossibleIsFinite
  <1>2. ASSUME NEW o \in AllRows
        PROVE  /\ o \in Observation /\ FileOf[o.name] = o.m[1] /\ o.m \in Possible
               /\ o.scope \in ask.scopes
               /\ o.name \in NamesOf(o.m[1], o.scope) /\ o.m \in PossibleIn(o.scope, o.m[1])
    <2>1. /\ o \in [m : Possible, name : Names, scope : ask.scopes]
          /\ o.name \in NamesOf(o.m[1], o.scope) /\ o.m \in PossibleIn(o.scope, o.m[1])
      BY DEF AllRows
    <2>2. o \in Observation
      BY <1>1, <2>1 DEF Observation
    <2> QED
      BY <2>1, <2>2 DEF NamesOf
  <1>3. Honest(AllRows)
    BY <1>2 DEF Honest
  <1>4. ASSUME NEW s \in ask.scopes, NEW o, o \in Observation, o.scope = s,
               o.name \in NamesOf(o.m[1], s), o.m \in PossibleIn(s, o.m[1])
        PROVE  o \in AllRows
    <2>1. o.m \in Match /\ o.m[1] \in Files /\ o.name \in Names
      BY <1>4 DEF Observation, Match
    <2>2. o.m[1] \in Seen(s)
      BY <1>4, <2>1 DEF Seen
    <2>3. o.m \in Possible
      BY <1>4, <2>2, PossibleFile
    <2>4. o \in [m : Possible, name : Names, scope : ask.scopes]
      BY <1>4, <2>1, <2>3 DEF Observation
    <2> QED
      BY <1>4, <2>4 DEF AllRows
  <1>5. ASSUME NEW m \in Possible PROVE m \in Matches(AllRows)
    <2>0. PICK s \in ask.scopes : m \in UNION {PossibleIn(s, f) : f \in Seen(s)}
      BY <1>5 DEF Possible
    <2>1. PICK f \in Seen(s) : m \in PossibleIn(s, f)
      BY <2>0
    <2>2. m[1] = f /\ m \in Match
      BY <2>1, PossibleFile
    <2>3. PICK n \in NamesOf(f, s) : TRUE
      BY <2>1 DEF Seen
    <2>4. n \in Names
      BY <1>1, <2>3, SearchAssumption DEF NamesOf, Belongs
    <2> DEFINE o == [m |-> m, name |-> n, scope |-> s]
    <2>5. o \in Observation /\ o.m = m /\ o.name = n /\ o.scope = s
      BY <1>1, <2>2, <2>4 DEF Observation
    <2> HIDE DEF o
    <2>6. o \in AllRows
      BY <1>4, <2>1, <2>2, <2>3, <2>5
    <2> QED
      BY <2>5, <2>6 DEF Matches
  <1>6. Matches(AllRows) = Possible
    BY <1>2, <1>5 DEF Matches
  <1>7. \A s \in ask.scopes : Honest(ScopeRows(s))
    BY <1>3 DEF Honest, ScopeRows
  <1> QED
    BY <1>2, <1>3, <1>4, <1>6, <1>7 DEF ScopeRows

-----------------------------------------------------------------------------
(* A content search.                                                       *)

\* A hit of a file is a hit under each of its names, and is listed by every
\* scope that has one of them.
LEMMA ContentHit ==
  ASSUME SearchTypeOK, ask.kind = "content", NEW m \in Possible
  PROVE  /\ m \in Match /\ Stratum(m) = 2
         /\ \A n \in Names : FileOf[n] = m[1] => m[2] \in Holding("content", n)
         /\ \A s \in ask.scopes : \A n \in Belongs(s) : FileOf[n] = m[1] =>
              \E o \in ScopeRows(s) : o.m = m /\ o.name = n /\ o.scope = s
  <1>no. PICK no : no = FALSE
    OBVIOUS
  <1>0. m \in Match
    BY PossibleIsFinite
  <1>1. \A s, f : PossibleIn(s, f) = {f} \X Perhaps("content", f, s) \X {no}
    BY <1>no DEF PossibleIn
  <1>2. \A s \in ask.scopes : Belongs(s) \subseteq Names
    BY Request, SearchAssumption DEF Belongs
  <1>3. PICK s \in ask.scopes : m \in UNION {PossibleIn(s, f) : f \in Seen(s)}
    BY DEF Possible
  <1>4. PICK f \in Seen(s) : m \in PossibleIn(s, f)
    BY <1>3
  <1>5. m[1] = f /\ m[2] \in Perhaps("content", f, s) /\ m[3] = no
    BY <1>1, <1>4
  <1>6. PICK k \in NamesOf(f, s) : m[2] \in Holding("content", k)
    BY <1>5 DEF Perhaps
  <1>7. ASSUME NEW n \in Names, FileOf[n] = m[1] PROVE m[2] \in Holding("content", n)
    <2>1. k \in Names /\ FileOf[k] = m[1]
      BY <1>2, <1>5, <1>6 DEF NamesOf
    <2> QED
      BY <1>6, <1>7, <2>1, Request, SearchAssumption DEF Holding
  <1>8. ASSUME NEW t \in ask.scopes, NEW n \in Belongs(t), FileOf[n] = m[1]
        PROVE  \E o \in ScopeRows(t) : o.m = m /\ o.name = n /\ o.scope = t
    <2> DEFINE o == [m |-> m, name |-> n, scope |-> t]
    <2>1. n \in Names /\ t \in Scopes /\ n \in NamesOf(m[1], t)
      BY <1>2, <1>8, Request DEF NamesOf
    <2>2. m[2] \in Perhaps("content", m[1], t)
      BY <1>7, <1>8, <2>1 DEF Perhaps
    <2>3. m = <<m[1], m[2], m[3]>>
      BY <1>0 DEF Match
    <2>4. m \in PossibleIn(t, m[1])
      BY <1>1, <1>5, <2>2, <2>3
    <2>5. o \in Observation /\ o.m = m /\ o.name = n /\ o.scope = t
      BY <1>0, <2>1 DEF Observation
    <2> HIDE DEF o
    <2>6. o \in ScopeRows(t)
      BY <2>1, <2>4, <2>5, RowsOfScope
    <2> QED
      BY <2>5, <2>6
  <1>9. Stratum(m) = 2
    BY <1>no, <1>5 DEF Stratum
  <1> QED
    BY <1>0, <1>7, <1>8, <1>9

LEMMA HitsOfOneFile ==
  ASSUME SearchTypeOK, ask.kind = "content", NEW x \in Possible, NEW y \in Possible, x[1] = y[1]
  PROVE  /\ x[2] \in Nat /\ y[2] \in Nat /\ LineOf[x[2]] \in Nat /\ LineOf[y[2]] \in Nat
         /\ x[2] < y[2] => LineOf[x[2]] < LineOf[y[2]]
         /\ y[2] < x[2] => LineOf[y[2]] < LineOf[x[2]]
  <1>1. x \in Match /\ y \in Match
    BY ContentHit
  <1>2. PICK o \in AllRows : o.m = x
    BY RowsOfScope DEF Matches
  <1>3. o.name \in Names /\ FileOf[o.name] = x[1]
    BY <1>2, RowsOfScope DEF Honest, Observation
  <1>4. x[2] \in Holding("content", o.name) /\ y[2] \in Holding("content", o.name)
    BY <1>3, ContentHit
  <1>5. x[2] \in HitIds /\ y[2] \in HitIds
    BY <1>1 DEF Match
  <1>6. \A g, h \in Holds[ask.query]["content"][o.name] : g < h => LineOf[g] < LineOf[h]
    BY <1>3, Request, SearchAssumption
  <1>7. LineOf \in [HitIds -> Nat] /\ HitIds \subseteq Nat
    BY SearchAssumption, WalkAssumption
  <1> QED
    BY <1>4, <1>5, <1>6, <1>7 DEF Holding

\* The lines of a content search tell its rows apart: no order is left to a
\* hash map.
LEMMA OneOrder ==
  ASSUME SearchTypeOK, ask.kind = "content", NEW S, Honest(S), Matches(S) \subseteq Possible,
         NEW up \in BOOLEAN
  PROVE  Order(S, up) = Order(S, TRUE)
  <1> SUFFICES ASSUME NEW x \in Matches(S), NEW y \in Matches(S),
                      PathRank[PathOf(x, S)] = PathRank[PathOf(y, S)],
                      LineOf[x[2]] = LineOf[y[2]]
               PROVE  ~(x[2] < y[2]) /\ ~(y[2] < x[2])
    BY DEF Order, Ahead
  <1>1. PathOf(x, S) = PathOf(y, S)
    BY PathOfIs, SearchAssumption
  <1>2. x[1] = y[1]
    BY <1>1, PathOfIs
  <1> QED
    BY <1>2, HitsOfOneFile

\* Two hits of a file are seen under the same names; where one of the names
\* puts a hit before another they all do, and it comes first.
LEMMA BetterIsAhead ==
  ASSUME SearchTypeOK, ask.kind = "content", SameOrder, NEW s \in ask.scopes,
         NEW x \in Matches(ScopeRows(s)), NEW y \in Matches(ScopeRows(s)),
         NEW n \in NamesOf(x[1], s), x[1] = y[1], Better(n, x[2], y[2])
  PROVE  <<x, y>> \in Order(ScopeRows(s), TRUE)
  <1> DEFINE A == ScopeRows(s)
             sc(k) == Relevance[k][s] + (IF x[1] \in recent THEN Boost ELSE 0)
  <1>1. Honest(A) /\ x \in Possible /\ y \in Possible
    <2>1. Honest(A) /\ Matches(AllRows) = Possible
      BY RowsOfScope
    <2> QED
      BY <2>1 DEF Matches, ScopeRows
  <1>2. ASSUME NEW u \in Matches(A), NEW v \in Matches(A), u[1] = v[1], u[1] = x[1],
               NEW o \in SeenAs(u, A)
        PROVE  /\ o.name \in NamesOf(x[1], s)
               /\ \E p \in SeenAs(v, A) : /\ p.name = o.name
                                          /\ Score(o) = sc(o.name) + Quality[o.name][u[2]]
                                          /\ Score(p) = sc(o.name) + Quality[o.name][v[2]]
    <2>1. /\ o \in A /\ o.m = u /\ o \in Observation
          /\ o.name \in NamesOf(u[1], s) /\ o.scope = s
      BY RowsOfScope DEF SeenAs
    <2>2. v \in Possible
      BY RowsOfScope DEF Matches, ScopeRows
    <2>3. o.name \in Belongs(s) /\ FileOf[o.name] = v[1]
      BY <1>2, <2>1 DEF NamesOf
    <2>4. PICK p \in A : p.m = v /\ p.name = o.name /\ p.scope = s
      BY <2>2, <2>3, ContentHit
    <2>5. o.name \in Names /\ u[2] \in HitIds /\ v[2] \in HitIds
      BY <2>1, <2>2, ContentHit DEF Observation, Match
    <2>6. /\ Relevance \in [Names -> [Scopes -> Nat]] /\ Boost \in Nat /\ s \in Scopes
          /\ Quality \in [Names -> [HitIds -> Nat]]
      BY Request, SearchAssumption, WalkAssumption
    <2>7. Relevance[o.name][s] \in Nat /\ Quality[o.name][u[2]] \in Nat /\ Quality[o.name][v[2]] \in Nat
      BY <2>5, <2>6
    <2>8. Score(o) = sc(o.name) + Quality[o.name][u[2]]
      BY <1>2, <2>1, <2>6, <2>7 DEF Score
    <2>9. Score(p) = sc(o.name) + Quality[o.name][v[2]]
      <3>1. p.m[1] = x[1] /\ p.m[2] = v[2] /\ p.name = o.name /\ p.scope = s
        BY <1>2, <2>4
      <3> QED
        BY <2>6, <2>7, <3>1 DEF Score
    <2> QED
      BY <1>2, <2>1, <2>4, <2>8, <2>9 DEF SeenAs
  <1>3. ASSUME NEW k \in NamesOf(x[1], s)
        PROVE  /\ Better(k, x[2], y[2]) /\ sc(k) \in Nat
               /\ Quality[k][x[2]] \in Nat /\ Quality[k][y[2]] \in Nat
    <2>1. /\ k \in Names /\ n \in Names /\ s \in Scopes
          /\ FileOf[n] = x[1] /\ FileOf[n] = y[1]
      BY <1>3, Request, SearchAssumption DEF NamesOf, Belongs
    <2>2. x \in Match /\ y \in Match
      BY <1>1, ContentHit
    <2>3. x[2] \in HitIds /\ y[2] \in HitIds /\ x[1] \in Files
      BY <2>2 DEF Match
    <2>4. x[2] \in Holding("content", n) /\ y[2] \in Holding("content", n)
      BY <1>1, <2>1, ContentHit
    <2>5. x[1] \in Seen(s)
      BY <2>3 DEF Seen
    <2>6. Better(k, x[2], y[2])
      BY <1>3, <2>4, <2>5 DEF SameOrder
    <2>7. /\ Relevance \in [Names -> [Scopes -> Nat]] /\ Boost \in Nat
          /\ Quality \in [Names -> [HitIds -> Nat]]
      BY SearchAssumption, WalkAssumption
    <2>8. Relevance[k][s] \in Nat /\ Quality[k][x[2]] \in Nat /\ Quality[k][y[2]] \in Nat
      BY <2>1, <2>3, <2>7
    <2> QED
      BY <2>6, <2>7, <2>8
  <1>4. x[2] \in Nat /\ y[2] \in Nat
    BY <1>1, HitsOfOneFile
  <1> HIDE DEF sc, A
  <1>5. ASSUME NEW p \in SeenAs(y, A)
        PROVE  \E o \in SeenAs(x, A) : /\ Score(o) \in Nat /\ Score(p) \in Nat
                                       /\ Score(p) <= Score(o)
                                       /\ ~(x[2] < y[2]) => Score(p) < Score(o)
    <2>1. x \in Matches(A) /\ y \in Matches(A)
      BY DEF A
    <2>2. /\ p.name \in NamesOf(x[1], s)
          /\ \E o \in SeenAs(x, A) : /\ Score(p) = sc(p.name) + Quality[p.name][y[2]]
                                     /\ Score(o) = sc(p.name) + Quality[p.name][x[2]]
      BY <1>2, <2>1
    <2>3. /\ Better(p.name, x[2], y[2]) /\ sc(p.name) \in Nat
          /\ Quality[p.name][x[2]] \in Nat /\ Quality[p.name][y[2]] \in Nat
      BY <1>3, <2>2
    <2> QED
      BY <2>2, <2>3 DEF Better
  <1>6. /\ BestScore(x, A) \in Nat /\ BestScore(y, A) \in Nat
        /\ BestScore(y, A) <= BestScore(x, A)
        /\ ~(x[2] < y[2]) => BestScore(y, A) < BestScore(x, A)
    <2>1. x \in Matches(A) /\ y \in Matches(A)
      BY DEF A
    <2>2. PICK p \in SeenAs(y, A) : Score(p) = BestScore(y, A)
      BY <1>1, <2>1, BestScoreIs
    <2>3. PICK o \in SeenAs(x, A) : /\ Score(o) \in Nat /\ Score(p) \in Nat
                                    /\ Score(p) <= Score(o)
                                    /\ ~(x[2] < y[2]) => Score(p) < Score(o)
      BY <1>5
    <2>4. Score(o) <= BestScore(x, A) /\ BestScore(x, A) \in Nat
      BY <1>1, <2>1, <2>3, BestScoreIs
    <2>5. BestScore(y, A) \in Nat
      BY <1>1, <2>1, BestScoreIs
    <2>6. ASSUME ~(x[2] < y[2]) PROVE BestScore(y, A) < BestScore(x, A)
      BY <2>2, <2>3, <2>4, <2>5, <2>6
    <2>7. BestScore(y, A) <= BestScore(x, A)
      BY <2>2, <2>3, <2>4, <2>5
    <2> QED
      BY <2>4, <2>5, <2>6, <2>7
  <1>8. PathOf(x, A) = PathOf(y, A)
    <2>1. PICK o \in SeenAs(x, A) : PathOf(x, A) = o.name
                                    /\ \A p \in SeenAs(x, A) : Preference[o.name] <= Preference[p.name]
      <3>1. PICK o \in SeenAs(x, A) : PathOf(x, A) = o.name
        BY <1>1, PathOfIs DEF A
      <3>2. \A p \in SeenAs(x, A) : Preference[PathOf(x, A)] <= Preference[p.name]
        BY <1>1, PathOfIs DEF A
      <3> QED
        BY <3>1, <3>2
    <2>2. PICK q \in SeenAs(y, A) : q.name = o.name
      BY <1>2 DEF A
    <2>3. \A p \in SeenAs(y, A) : Preference[q.name] <= Preference[p.name]
      <3> SUFFICES ASSUME NEW p \in SeenAs(y, A) PROVE Preference[q.name] <= Preference[p.name]
        OBVIOUS
      <3>1. PICK r \in SeenAs(x, A) : r.name = p.name
        BY <1>2 DEF A
      <3> QED
        BY <2>1, <2>2, <3>1
    <2>4. PathOf(y, A) = q.name
      BY <1>1, <2>3, PathOfUnique DEF A
    <2> QED
      BY <2>1, <2>2, <2>4
  <1>9. Stratum(x) = Stratum(y)
    BY <1>1, ContentHit
  <1>10. Scores(A)[x] = BestScore(x, A) /\ Scores(A)[y] = BestScore(y, A)
    BY DEF A, Scores
  <1>11. x \in Matches(A) /\ y \in Matches(A)
    BY DEF A
  <1>12. CASE BestScore(y, A) < BestScore(x, A)
    BY <1>6, <1>9, <1>10, <1>11, <1>12 DEF Order, Ahead, A
  <1>13. CASE BestScore(y, A) = BestScore(x, A)
    <2>1. x[2] < y[2]
      BY <1>6, <1>13
    <2>2. LineOf[x[2]] < LineOf[y[2]]
      BY <1>1, <2>1, HitsOfOneFile
    <2> QED
      BY <1>8, <1>9, <1>10, <1>11, <1>13, <2>2 DEF Order, Ahead, A
  <1>14. BestScore(y, A) < BestScore(x, A) \/ BestScore(y, A) = BestScore(x, A)
    BY <1>6
  <1> QED
    BY <1>12, <1>13, <1>14

\* What a content walk brings of a file it has opened is enough for the first
\* k rows of the scope.
LEMMA TopOfFileIsEnough ==
  ASSUME SearchTypeOK, ask.kind = "content", SameOrder, NEW s \in ask.scopes, NEW k \in Nat,
         NEW m \in Matches(ScopeRows(s)),
         Rank(Order(ScopeRows(s), TRUE), Matches(ScopeRows(s)), m) < k,
         hits = Holds[ask.query]["content"], NEW n \in Belongs(s), FileOf[n] = m[1]
  PROVE  m[2] \in TopOfFile(n, k)
  <1> DEFINE A == ScopeRows(s)
             L == Order(A, TRUE)
             B == {g \in hits[n] : Better(n, g, m[2])}
             F == Front(L, Matches(A), m)
             f == [g \in B |-> <<m[1], g, m[3]>>]
  <1>1. Honest(A) /\ m \in Possible /\ n \in Names
    <2>1. Honest(A) /\ Matches(AllRows) = Possible
      BY RowsOfScope
    <2>2. n \in Names
      BY Request, SearchAssumption DEF Belongs
    <2> QED
      BY <2>1, <2>2 DEF Matches, ScopeRows
  <1>2. m \in Match /\ m[2] \in hits[n]
    BY <1>1, ContentHit DEF Holding
  <1>3. ASSUME NEW g \in B PROVE <<m[1], g, m[3]>> \in F
    <2> DEFINE x == <<m[1], g, m[3]>>
    <2>1. PICK o \in A : o.m = m
      BY DEF Matches
    <2>2. /\ o \in Observation /\ o.scope = s /\ o.name \in NamesOf(m[1], s)
          /\ m \in PossibleIn(s, m[1])
      BY <2>1, RowsOfScope
    <2>3. g \in Perhaps("content", m[1], s)
      BY <1>1 DEF Perhaps, Holding, NamesOf
    <2>4. x \in PossibleIn(s, m[1])
      <3>0. PICK no : no = FALSE
        OBVIOUS
      <3>1. PossibleIn(s, m[1]) = {m[1]} \X Perhaps("content", m[1], s) \X {no}
        BY <3>0 DEF PossibleIn
      <3>2. m[3] = no
        BY <2>2, <3>1
      <3> QED
        BY <2>3, <3>1, <3>2
    <2>5. m[1] \in Seen(s)
      BY <1>2, <2>2 DEF Seen, Match
    <2>6. x \in Possible
      BY <2>4, <2>5, PossibleFile
    <2>7. \E p \in A : p.m = x
      <3> HIDE DEF x
      <3>1. x[1] = m[1]
        BY DEF x
      <3> QED
        BY <2>6, <3>1, ContentHit
    <2>8. /\ x \in Matches(A) /\ x[1] = m[1] /\ Better(n, x[2], m[2])
          /\ n \in NamesOf(x[1], s)
      BY <2>7 DEF Matches, NamesOf
    <2> HIDE DEF x
    <2>9. <<x, m>> \in L
      BY <2>8, BetterIsAhead
    <2>10. x \in F
      BY <2>8, <2>9 DEF Front
    <2> QED
      BY <2>10 DEF x
  <1>4. f \in Injection(B, F)
    <2>1. f \in [B -> F]
      BY <1>3
    <2>2. \A g, h \in B : f[g] = f[h] => g = h
      OBVIOUS
    <2> HIDE DEF f, B, F
    <2> QED
      BY <2>1, <2>2 DEF Injection, IsInjective
  <1>5. IsFiniteSet(F)
    <2>1. IsFiniteSet(Matches(A)) /\ F \subseteq Matches(A)
      BY <1>1, MatchesOf DEF Front
    <2> QED
      BY <2>1, FS_Subset
  <1> HIDE DEF f, F
  <1>6. IsFiniteSet(B) /\ Cardinality(B) <= Cardinality(F)
    BY <1>4, <1>5, FS_Injection
  <1>7. Cardinality(B) \in Nat /\ Cardinality(F) \in Nat
    BY <1>5, <1>6, FS_CardinalityType
  <1>8. Cardinality(F) < k
    BY DEF Rank, F
  <1>9. Cardinality(B) < k
    <2> HIDE DEF B
    <2> QED
      BY <1>6, <1>7, <1>8
  <1> QED
    BY <1>2, <1>9 DEF TopOfFile

-----------------------------------------------------------------------------
(* What a truncation leaves.                                               *)

LEMMA PartSlices ==
  ASSUME NEW A, Honest(A), NEW R, Honest(R), Matches(R) \subseteq Matches(A),
         NEW up \in BOOLEAN, NEW k \in Nat,
         \A m \in Matches(A) : Rank(Order(A, up), Matches(A), m) < k => m \in Matches(R),
         \A m \in Matches(R), x \in Matches(R) :
           Rank(Order(A, up), Matches(A), m) < k =>
             (<<x, m>> \in Order(R, up) <=> <<x, m>> \in Order(A, up)),
         NEW from \in Int, NEW upto \in Int, upto <= k
  PROVE  Slice(R, from, upto, up) = Slice(A, from, upto, up)
  <1> DEFINE MA == Matches(A)
             MR == Matches(R)
             LA == Order(A, up)
             LR == Order(R, up)
  <1>1. IsFiniteSet(MA) /\ Orders(LA, MA) /\ IsFiniteSet(MR) /\ Orders(LR, MR)
    BY MatchesOf, RankingOrders
  <1>2. /\ Slice(R, from, upto, up) = {m \in MR : from <= Rank(LR, MR, m) /\ Rank(LR, MR, m) < upto}
        /\ Slice(A, from, upto, up) = {m \in MA : from <= Rank(LA, MA, m) /\ Rank(LA, MA, m) < upto}
    BY SliceIs
  <1>3. /\ \A m \in MA : Rank(LA, MA, m) < k => m \in MR
        /\ \A m \in MR, x \in MR : Rank(LA, MA, m) < k => (<<x, m>> \in LR <=> <<x, m>> \in LA)
        /\ MR \subseteq MA
    OBVIOUS
  <1> HIDE DEF MA, MR, LA, LR
  <1>4. \A m \in MR : /\ Rank(LA, MA, m) < k => Rank(LR, MR, m) = Rank(LA, MA, m)
                      /\ Rank(LR, MR, m) < k => Rank(LA, MA, m) < k
    BY <1>1, <1>3, PartKeepsTop
  <1>5. \A m \in MA : Rank(LA, MA, m) \in Nat
    BY <1>1, RanksDiffer
  <1>6. \A m \in MR : Rank(LR, MR, m) \in Nat
    BY <1>1, RanksDiffer
  <1> QED
    BY <1>2, <1>3, <1>4, <1>5, <1>6

\* Sightings of whole matches are ranked as they are among all.
LEMMA SubRanking ==
  ASSUME NEW A, NEW R \in SUBSET A, \A o \in A : o.m \in Matches(R) => o \in R,
         NEW up \in BOOLEAN, NEW x \in Matches(R), NEW y \in Matches(R)
  PROVE  <<x, y>> \in Order(R, up) <=> <<x, y>> \in Order(A, up)
  <1>1. Matches(R) \subseteq Matches(A)
    BY DEF Matches
  <1>2. SeenAs(x, R) = SeenAs(x, A) /\ SeenAs(y, R) = SeenAs(y, A)
    BY DEF SeenAs
  <1>3. /\ BestScore(x, R) = BestScore(x, A) /\ BestScore(y, R) = BestScore(y, A)
        /\ PathOf(x, R) = PathOf(x, A) /\ PathOf(y, R) = PathOf(y, A)
    BY <1>2 DEF BestScore, PathOf
  <1>4. /\ Scores(R)[x] = Scores(A)[x] /\ Scores(R)[y] = Scores(A)[y]
    BY <1>1, <1>3 DEF Scores
  <1>5. Ahead(x, y, R, Scores(R), up) = Ahead(x, y, A, Scores(A), up)
    BY <1>3, <1>4 DEF Ahead
  <1> QED
    BY <1>1, <1>5 DEF Order

\* The rows of a complete content walk, cut to the first k, are those of
\* everything the scope holds.
LEMMA ContentScopeEnded ==
  ASSUME SearchTypeOK, WalkInv, Joined, arm = "content", ask.kind = "content", SameOrder,
         scope \in ask.scopes, Complete
  PROVE  Truncate(Sightings(found, aliases, FALSE), keep) = Truncate(ScopeRows(scope), keep)
  <1>no. PICK yes \in BOOLEAN, no \in BOOLEAN : yes = TRUE /\ no = FALSE
    OBVIOUS
  <1> DEFINE A == ScopeRows(scope)
             R == Sightings(found, aliases, no)
  <1>1. WalkTypeOK /\ hits = Holds[ask.query]["content"] /\ keep \in Nat
    BY DEF SearchTypeOK, Joined, WalkInv, Setup, WalkTypeOK
  <1>2. SomeOf("content", found, aliases) /\ W = Belongs(scope) /\ W \subseteq Names
    BY ContentWalkEnded, Seeing, Request
  <1>3. aliases = W /\ \A n \in W : \E m \in W : FileOf[m] = FileOf[n] /\ Brought(m)
    <2>1. ~quit /\ ~skipped /\ pending = {}
      BY <1>1, Ended
    <2>2. NameKept /\ FileTaken /\ FileKept
      BY <2>1 DEF Joined, WalkInv, NothingLost
    <2>3. W \subseteq aliases
      BY <1>1, <2>1, <2>2, Ended DEF NameKept
    <2>4. \A f \in admitted : \E m \in W : FileOf[m] = f /\ Brought(m)
      BY <1>1, <2>2, Ended DEF FileKept
    <2> QED
      BY <1>2, <2>2, <2>3, <2>4 DEF FileTaken, SomeOf
  <1>4. \A s, f : PossibleIn(s, f) = {f} \X Perhaps("content", f, s) \X {no}
    BY <1>no DEF PossibleIn
  <1>5. ASSUME NEW o \in R
        PROVE  /\ \E p \in found : o.m = <<FileOf[p[1]], p[2], no>>
               /\ o.name \in aliases /\ FileOf[o.name] = o.m[1] /\ o.scope = scope
    BY DEF Sightings, Observed
  <1>6. R \subseteq A
    <2> SUFFICES ASSUME NEW o \in R PROVE o \in A
      OBVIOUS
    <2>1. PICK p \in found : o.m = <<FileOf[p[1]], p[2], no>>
      BY <1>5
    <2>2. o.name \in aliases /\ FileOf[o.name] = FileOf[p[1]] /\ o.scope = scope
      BY <1>5, <2>1
    <2>3. p[1] \in W /\ p[2] \in Holding("content", p[1])
      BY <1>2, <1>3 DEF SomeOf, Holding
    <2>4. p[2] \in Perhaps("content", FileOf[p[1]], scope)
      BY <1>2, <2>3, NameOfFile
    <2>5. o.m \in PossibleIn(scope, FileOf[p[1]])
      BY <1>4, <2>1, <2>4
    <2>6. o.name \in NamesOf(FileOf[p[1]], scope)
      BY <1>2, <1>3, <2>2 DEF NamesOf
    <2>7. o \in Observation
      <3>1. found \in SUBSET (Names \X HitIds) /\ aliases \in SUBSET Names /\ no \in BOOLEAN
        BY <1>no, <1>1 DEF WalkTypeOK
      <3> QED
        BY <3>1, SightingTypes, Request DEF SearchTypeOK
    <2>8. o.m[1] = FileOf[p[1]]
      BY <2>1
    <2> HIDE DEF R
    <2> QED
      BY <2>2, <2>5, <2>6, <2>7, <2>8, RowsOfScope
  <1>7. ASSUME NEW o \in A, o.m \in Matches(R) PROVE o \in R
    <2>1. PICK q \in R : q.m = o.m
      BY <1>7 DEF Matches
    <2>2. PICK p \in found : o.m = <<FileOf[p[1]], p[2], no>>
      BY <1>5, <2>1
    <2>3. o \in Observation /\ o.scope = scope /\ o.name \in NamesOf(o.m[1], scope)
      BY RowsOfScope
    <2>4. o.name \in aliases /\ FileOf[o.name] = o.m[1]
      BY <1>2, <1>3, <2>3 DEF NamesOf
    <2>5. o = [m |-> <<FileOf[p[1]], p[2], no>>, name |-> o.name, scope |-> scope]
      BY <2>2, <2>3 DEF Observation
    <2>6. o \in Observed(found, aliases, no)
      BY <2>4, <2>5 DEF Observed
    <2> QED
      BY <2>4, <2>6 DEF Sightings
  <1>8. Honest(A) /\ Honest(R) /\ Matches(R) \subseteq Matches(A)
    <2>1. Honest(A)
      BY RowsOfScope
    <2> HIDE DEF A, R
    <2> QED
      BY <1>6, <2>1 DEF Honest, Matches
  <1>9. ASSUME NEW m \in Matches(A), Rank(Order(A, TRUE), Matches(A), m) < keep
        PROVE  m \in Matches(R)
    <2>1. m \in Possible /\ \E o \in A : o.m = m
      BY RowsOfScope DEF Matches, ScopeRows
    <2>2. PICK o \in A : o.m = m /\ o.name \in NamesOf(m[1], scope)
      BY <2>1, RowsOfScope
    <2>3. o.name \in W /\ FileOf[o.name] = m[1]
      BY <1>2, <2>2 DEF NamesOf
    <2>4. PICK n \in W : FileOf[n] = m[1] /\ Brought(n)
      BY <1>3, <2>3
    <2>5. m[2] \in TopOfFile(n, keep)
      BY <1>1, <1>2, <1>9, <2>4, TopOfFileIsEnough
    <2>6. <<n, m[2]>> \in found
      BY <2>4, <2>5 DEF Brought, RowsOf
    <2>7. m = <<FileOf[n], m[2], no>>
      <3>1. m \in Match /\ m \in PossibleIn(scope, m[1])
        BY <2>1, <2>2, RowsOfScope, PossibleIsFinite
      <3> QED
        BY <1>4, <2>4, <3>1 DEF Match
    <2>8. <<FileOf[<<n, m[2]>>[1]], <<n, m[2]>>[2], no>> \in Matches(R)
      BY <1>3, <2>4, <2>6, Sighted
    <2> QED
      BY <2>7, <2>8
  <1> HIDE DEF A, R
  <1>10. Slice(R, 0, keep, yes) = Slice(A, 0, keep, yes)
    <2>1. \A m \in Matches(R), x \in Matches(R) :
            <<x, m>> \in Order(R, yes) <=> <<x, m>> \in Order(A, yes)
      BY <1>6, <1>7, SubRanking
    <2>2. \A m \in Matches(A) : Rank(Order(A, yes), Matches(A), m) < keep => m \in Matches(R)
      BY <1>no, <1>9
    <2>3. 0 \in Int /\ keep \in Int /\ keep <= keep
      BY <1>1
    <2> QED
      BY <1>1, <1>8, <2>1, <2>2, <2>3, PartSlices
  <1>11. Truncate(R, keep) = Truncate(A, keep)
    <2>1. Slice(R, 0, keep, yes) \subseteq Matches(R)
      BY DEF Slice, Ranked
    <2>2. \A S : Truncate(S, keep) = {o \in S : o.m \in Slice(S, 0, keep, yes)}
      BY <1>no DEF Truncate
    <2> QED
      BY <1>6, <1>7, <1>10, <2>1, <2>2
  <1> QED
    BY <1>no, <1>11 DEF A, R

-----------------------------------------------------------------------------
(* The merge of the scopes of a content search.                            *)

\* What is seen of a match in a scope is all that the scope has of it.
Whole(S) ==
    /\ S \subseteq AllRows
    /\ \A o \in S, p \in AllRows : p.m = o.m /\ p.scope = o.scope => p \in S

LEMMA WholeIsHonest ==
  ASSUME SearchTypeOK, NEW S, Whole(S)
  PROVE  Honest(S) /\ Matches(S) \subseteq Possible
  BY RowsOfScope DEF Whole, Honest, Matches

\* A match goes under the name of one of the scopes it is seen in.
LEMMA PathIsNameIn ==
  ASSUME SearchTypeOK, ask.kind = "content", NEW S, Whole(S), NEW x \in Matches(S)
  PROVE  \E s \in ask.scopes : x[1] \in Seen(s) /\ PathOf(x, S) = NameIn(x[1], s)
  <1>1. Honest(S) /\ x \in Possible
    BY WholeIsHonest
  <1>2. PICK o \in SeenAs(x, S) : PathOf(x, S) = o.name
    BY <1>1, PathOfIs
  <1>3. PICK s \in ask.scopes : s = o.scope /\ o \in ScopeRows(s) /\ o.m = x /\ o \in S
    BY <1>2, RowsOfScope DEF SeenAs, Whole
  <1>4. o.name \in NamesOf(x[1], s) /\ o \in Observation
    BY <1>3, RowsOfScope
  <1>5. x[1] \in Seen(s)
    BY <1>1, <1>4, ContentHit DEF Seen, Match
  <1>6. ASSUME NEW k \in NamesOf(x[1], s) PROVE Preference[o.name] <= Preference[k]
    <2>1. k \in Belongs(s) /\ FileOf[k] = x[1]
      BY DEF NamesOf
    <2>2. PICK p \in ScopeRows(s) : p.m = x /\ p.name = k /\ p.scope = s
      BY <1>1, <2>1, ContentHit
    <2>3. p \in SeenAs(x, S)
      BY <1>3, <2>2 DEF Whole, ScopeRows, SeenAs
    <2> QED
      BY <1>1, <1>2, <2>2, <2>3, PathOfIs
  <1> DEFINE N == NamesOf(x[1], s)
             n == NameIn(x[1], s)
  <1>7. n \in N /\ \A k \in N : Preference[n] <= Preference[k]
    BY <1>4, <1>6 DEF NameIn
  <1>8. \A k \in N : k \in Names /\ FileOf[k] = x[1]
    BY Request, SearchAssumption DEF NamesOf, Belongs
  <1> HIDE DEF N, n
  <1>9. Preference[n] = Preference[o.name]
    <2>1. o.name \in N /\ Preference[n] \in Nat /\ Preference[o.name] \in Nat
      BY <1>4, <1>7, <1>8, SearchAssumption DEF N
    <2> QED
      BY <1>6, <1>7, <2>1 DEF N
  <1>10. n = o.name
    <2>1. \A k, j \in Names : k # j /\ FileOf[k] = FileOf[j] => Preference[k] # Preference[j]
      BY SearchAssumption
    <2>2. o.name \in N
      BY <1>4 DEF N
    <2> QED
      BY <1>7, <1>8, <1>9, <2>1, <2>2
  <1> QED
    BY <1>2, <1>5, <1>10 DEF n

LEMMA OnePath ==
  ASSUME SearchTypeOK, ask.kind = "content", NEW S, Whole(S), NEW x \in Matches(S), OneName(x[1])
  PROVE  PathOf(x, S) = PathOf(x, AllRows)
  <1>1. Whole(AllRows) /\ x \in Matches(AllRows)
    BY DEF Whole, Matches
  <1>2. PICK s \in ask.scopes : x[1] \in Seen(s) /\ PathOf(x, S) = NameIn(x[1], s)
    BY PathIsNameIn
  <1>3. PICK t \in ask.scopes : x[1] \in Seen(t) /\ PathOf(x, AllRows) = NameIn(x[1], t)
    BY <1>1, PathIsNameIn
  <1> QED
    BY <1>2, <1>3 DEF OneName

LEMMA BestIs ==
  ASSUME SearchTypeOK
  PROVE  Best = Scores(AllRows)
  BY RowsOfScope DEF Best, Scores, BestScore

LEMMA PartScores ==
  ASSUME SearchTypeOK, NEW S, Whole(S), NEW x \in Matches(S)
  PROVE  /\ x \in Matches(AllRows) /\ BestScore(x, S) \in Nat /\ BestScore(x, AllRows) \in Nat
         /\ BestScore(x, S) <= BestScore(x, AllRows)
  <1>1. Honest(S) /\ Honest(AllRows) /\ x \in Matches(AllRows) /\ SeenAs(x, S) \subseteq SeenAs(x, AllRows)
    BY WholeIsHonest, RowsOfScope DEF Whole, Matches, SeenAs
  <1>2. PICK o \in SeenAs(x, S) : Score(o) = BestScore(x, S)
    BY <1>1, BestScoreIs
  <1>3. Score(o) <= BestScore(x, AllRows)
    BY <1>1, BestScoreIs
  <1> QED
    BY <1>1, <1>2, <1>3, BestScoreIs

\* What comes before a match seen at its best, in some of the scopes, comes
\* before it in all of them.
LEMMA AheadInPart ==
  ASSUME SearchTypeOK, ask.kind = "content", Undisputed, NEW S, Whole(S), NEW up \in BOOLEAN,
         NEW x \in Matches(S), NEW m \in Matches(S),
         BestScore(m, S) = BestScore(m, AllRows), <<x, m>> \in Order(S, up)
  PROVE  <<x, m>> \in Order(AllRows, up)
  <1>1. /\ x \in Matches(AllRows) /\ m \in Matches(AllRows) /\ Honest(S)
        /\ x \in Possible /\ m \in Possible
    BY PartScores, WholeIsHonest
  <1>2. /\ BestScore(x, S) \in Nat /\ BestScore(x, AllRows) \in Nat /\ BestScore(m, AllRows) \in Nat
        /\ BestScore(x, S) <= BestScore(x, AllRows)
    BY PartScores
  <1>3. x # m
    BY <1>1, RankingOrders DEF Orders
  <1>4. Ahead(x, m, S, Scores(S), up)
    BY DEF Order
  <1>5. /\ Scores(S)[x] = BestScore(x, S) /\ Scores(S)[m] = BestScore(m, AllRows)
        /\ Scores(AllRows)[x] = BestScore(x, AllRows) /\ Scores(AllRows)[m] = BestScore(m, AllRows)
    BY <1>1 DEF Scores
  <1>6. Stratum(x) = 2 /\ Stratum(m) = 2
    BY <1>1, ContentHit
  <1>7. BestScore(x, S) >= BestScore(m, AllRows)
    BY <1>2, <1>4, <1>5, <1>6 DEF Ahead
  <1>8. CASE BestScore(x, AllRows) > BestScore(m, AllRows)
    <2>1. Ahead(x, m, AllRows, Scores(AllRows), up)
      BY <1>5, <1>6, <1>8 DEF Ahead
    <2> QED
      BY <1>1, <2>1 DEF Order
  <1>9. CASE BestScore(x, AllRows) = BestScore(m, AllRows)
    <2>1. BestScore(x, S) = BestScore(x, AllRows)
      BY <1>2, <1>7, <1>9
    <2>2. Best[x] = Best[m]
      BY <1>5, <1>9, BestIs
    <2>3. OneName(x[1]) /\ OneName(m[1])
      BY <1>1, <1>3, <2>2 DEF Undisputed
    <2>4. PathOf(x, S) = PathOf(x, AllRows) /\ PathOf(m, S) = PathOf(m, AllRows)
      BY <2>3, OnePath
    <2>5. Scores(S)[x] = Scores(AllRows)[x] /\ Scores(S)[m] = Scores(AllRows)[m]
      BY <1>5, <2>1
    <2>6. Ahead(x, m, AllRows, Scores(AllRows), up)
      BY <1>4, <2>4, <2>5 DEF Ahead
    <2> QED
      BY <1>1, <2>6 DEF Order
  <1> QED
    BY <1>2, <1>7, <1>8, <1>9

\* Two matches that are both seen at their best are ordered as ever.
LEMMA AheadAtBest ==
  ASSUME SearchTypeOK, ask.kind = "content", Undisputed, NEW S, Whole(S), NEW up \in BOOLEAN,
         NEW x \in Matches(S), NEW m \in Matches(S),
         BestScore(m, S) = BestScore(m, AllRows), BestScore(x, S) = BestScore(x, AllRows),
         <<x, m>> \in Order(AllRows, up)
  PROVE  <<x, m>> \in Order(S, up)
  <1>1. Honest(S) /\ Honest(AllRows) /\ x \in Matches(AllRows) /\ m \in Matches(AllRows)
    BY PartScores, WholeIsHonest, RowsOfScope
  <1>2. x # m
    BY <1>1, RankingOrders DEF Orders
  <1>3. ASSUME <<m, x>> \in Order(S, up) PROVE FALSE
    <2>1. <<m, x>> \in Order(AllRows, up)
      BY <1>3, AheadInPart
    <2> QED
      BY <1>1, <2>1, RankingOrders DEF Orders
  <1> QED
    BY <1>1, <1>2, <1>3, RankingOrders DEF Orders

\* What a scope of a content search hands to the merge.
Kept(s) == Truncate(ScopeRows(s), Prefix)

\* Any page that lies within the first rows asked of every scope is the same
\* slice of the merge as of everything there is.
LEMMA MergeKeeps ==
  ASSUME SearchTypeOK, ask.kind = "content", Undisputed, Prefix \in Nat,
         NEW R, R = UNION {Kept(s) : s \in ask.scopes},
         NEW up \in BOOLEAN, NEW from \in Int, NEW upto \in Int, upto <= Prefix
  PROVE  Slice(R, from, upto, up) = Slice(AllRows, from, upto, up)
  <1>no. PICK yes \in BOOLEAN : yes = TRUE
    OBVIOUS
  <1> DEFINE A == AllRows
             L == Order(A, yes)
  <1>1. ASSUME NEW s \in ask.scopes
        PROVE  Kept(s) = {o \in ScopeRows(s) : o.m \in Slice(ScopeRows(s), 0, Prefix, yes)}
    BY <1>no DEF Kept, Truncate
  <1>2. \A s \in ask.scopes : Whole(ScopeRows(s))
    BY DEF Whole, ScopeRows
  <1>3. \A o \in R : \E s \in ask.scopes : o \in Kept(s) /\ o \in ScopeRows(s) /\ o.scope = s
    <2> SUFFICES ASSUME NEW s \in ask.scopes, NEW o \in Kept(s)
                 PROVE  o \in ScopeRows(s) /\ o.scope = s
      OBVIOUS
    <2> QED
      BY <1>1 DEF ScopeRows
  <1>4. \A s \in ask.scopes : Kept(s) \subseteq R
    OBVIOUS
  <1>5. Whole(R)
    <2>1. R \subseteq AllRows
      BY <1>3 DEF ScopeRows
    <2>2. ASSUME NEW o \in R, NEW p \in AllRows, p.m = o.m, p.scope = o.scope PROVE p \in R
      <3>1. PICK s \in ask.scopes : o \in Kept(s) /\ o \in ScopeRows(s) /\ o.scope = s
        BY <1>3
      <3>2. p \in ScopeRows(s)
        BY <2>2, <3>1 DEF ScopeRows
      <3>3. o.m \in Slice(ScopeRows(s), 0, Prefix, yes)
        BY <1>1, <3>1
      <3>4. p \in Kept(s)
        BY <1>1, <2>2, <3>2, <3>3
      <3> QED
        BY <1>4, <3>4
    <2> QED
      BY <2>1, <2>2 DEF Whole
  <1>6. Honest(A) /\ Honest(R) /\ Matches(R) \subseteq Matches(A)
    <2>1. R \subseteq A
      BY <1>5 DEF Whole
    <2> QED
      BY <1>5, <2>1, WholeIsHonest, RowsOfScope DEF Matches
  <1>7. ASSUME NEW m \in Matches(A), Rank(L, Matches(A), m) < Prefix
        PROVE  m \in Matches(R) /\ BestScore(m, R) = BestScore(m, A)
    <2>1. PICK o \in SeenAs(m, A) : Score(o) = BestScore(m, A)
      BY <1>6, BestScoreIs
    <2>2. PICK s \in ask.scopes : s = o.scope
      BY <2>1, RowsOfScope DEF SeenAs
    <2> DEFINE S == ScopeRows(s)
    <2>3. o \in S /\ o.m = m /\ m \in Matches(S) /\ o \in SeenAs(m, S)
      BY <2>1, <2>2, RowsOfScope DEF SeenAs, Matches
    <2>4. Whole(S) /\ Honest(S) /\ Matches(S) \subseteq Matches(A)
      BY <1>2, RowsOfScope DEF Matches, ScopeRows
    <2> HIDE DEF S
    <2>5. BestScore(m, S) = BestScore(m, A)
      <3>1. BestScore(m, S) \in Nat /\ BestScore(m, A) \in Nat /\ BestScore(m, S) <= BestScore(m, A)
        BY <2>3, <2>4, PartScores
      <3>2. Score(o) <= BestScore(m, S)
        BY <2>3, <2>4, BestScoreIs
      <3> QED
        BY <2>1, <3>1, <3>2
    <2>6. Front(Order(S, yes), Matches(S), m) \subseteq Front(L, Matches(A), m)
      <3> SUFFICES ASSUME NEW x \in Matches(S), <<x, m>> \in Order(S, yes)
                   PROVE  x \in Matches(A) /\ <<x, m>> \in L
        BY DEF Front
      <3> QED
        BY <2>3, <2>4, <2>5, AheadInPart
    <2>7. Rank(Order(S, yes), Matches(S), m) \in Nat /\ Rank(Order(S, yes), Matches(S), m) < Prefix
      <3>1. IsFiniteSet(Front(L, Matches(A), m))
        <4>1. Front(L, Matches(A), m) \subseteq Matches(A) /\ IsFiniteSet(Matches(A))
          BY <1>6, MatchesOf DEF Front
        <4> QED
          BY <4>1, FS_Subset
      <3>2. Rank(Order(S, yes), Matches(S), m) <= Rank(L, Matches(A), m)
        BY <2>6, <3>1, FS_Subset DEF Rank
      <3>3. Rank(L, Matches(A), m) \in Nat
        BY <3>1, FS_CardinalityType DEF Rank
      <3>4. Rank(Order(S, yes), Matches(S), m) \in Nat
        BY <2>6, <3>1, FS_Subset, FS_CardinalityType DEF Rank
      <3> QED
        BY <1>7, <3>2, <3>3, <3>4
    <2>8. m \in Slice(S, 0, Prefix, yes)
      BY <2>3, <2>7, SliceIs
    <2>9. o \in R
      <3>1. o \in Kept(s)
        BY <1>1, <2>3, <2>8 DEF S
      <3> QED
        BY <1>4, <3>1
    <2>10. m \in Matches(R) /\ o \in SeenAs(m, R)
      BY <2>3, <2>9 DEF Matches, SeenAs
    <2>11. BestScore(m, A) <= BestScore(m, R)
      BY <1>6, <2>1, <2>10, BestScoreIs
    <2>12. BestScore(m, R) <= BestScore(m, A) /\ BestScore(m, R) \in Nat /\ BestScore(m, A) \in Nat
      BY <1>5, <2>10, PartScores
    <2> QED
      BY <2>10, <2>11, <2>12
  <1>8. ASSUME NEW m \in Matches(R), NEW x \in Matches(R), Rank(L, Matches(A), m) < Prefix
        PROVE  <<x, m>> \in Order(R, yes) <=> <<x, m>> \in L
    <2>1. BestScore(m, R) = BestScore(m, A) /\ m \in Matches(A) /\ x \in Matches(A)
      BY <1>6, <1>7, <1>8
    <2>2. <<x, m>> \in Order(R, yes) => <<x, m>> \in L
      BY <1>5, <2>1, AheadInPart
    <2>3. ASSUME <<x, m>> \in L PROVE <<x, m>> \in Order(R, yes)
      <3>1. Orders(L, Matches(A)) /\ IsFiniteSet(Matches(A))
        BY <1>6, RankingOrders, MatchesOf
      <3> HIDE DEF L
      <3>2. Rank(L, Matches(A), x) < Rank(L, Matches(A), m)
        BY <2>1, <2>3, <3>1, RanksDiffer
      <3>3. Rank(L, Matches(A), x) \in Nat /\ Rank(L, Matches(A), m) \in Nat
        BY <2>1, <3>1, RanksDiffer
      <3>4. Rank(L, Matches(A), x) < Prefix
        BY <1>8, <3>2, <3>3
      <3>5. BestScore(x, R) = BestScore(x, A)
        BY <1>7, <2>1, <3>4
      <3> QED
        BY <1>5, <2>1, <2>3, <3>5, AheadAtBest DEF L
    <2> QED
      BY <2>2, <2>3
  <1>9. Slice(R, from, upto, yes) = Slice(A, from, upto, yes)
    <2>1. /\ \A m \in Matches(A) : Rank(L, Matches(A), m) < Prefix => m \in Matches(R)
          /\ \A m \in Matches(R), x \in Matches(R) :
               Rank(L, Matches(A), m) < Prefix => (<<x, m>> \in Order(R, yes) <=> <<x, m>> \in L)
      BY <1>7, <1>8
    <2> QED
      BY <1>6, <2>1, PartSlices
  <1>10. Order(R, up) = Order(R, yes) /\ Order(A, up) = Order(A, yes)
    <2>1. Matches(R) \subseteq Possible /\ Matches(A) \subseteq Possible
      BY <1>5, WholeIsHonest, RowsOfScope
    <2> QED
      BY <1>no, <1>6, <2>1, OneOrder
  <1>11. Slice(R, from, upto, up) = Slice(R, from, upto, yes) /\ Slice(A, from, upto, up) = Slice(A, from, upto, yes)
    BY <1>10, SliceIs
  <1> QED
    BY <1>9, <1>11

-----------------------------------------------------------------------------
(* What a request has gathered.                                            *)

LEMMA SameScopes ==
  ASSUME ask' = ask
  PROVE  /\ Possible' = Possible /\ Certain' = Certain /\ AllRows' = AllRows /\ Plain' = Plain
         /\ SameOrder' = SameOrder
         /\ \A s : ScopeRows(s)' = ScopeRows(s)
  <1>1. Possible' = Possible /\ Certain' = Certain /\ Plain' = Plain
    BY AskSame DEF Possible, Certain, Plain
  <1>2. \A f, s : NamesOf(f, s)' = NamesOf(f, s)
    BY DEF NamesOf, Belongs
  <1>3. AllRows' = AllRows
    BY <1>1, <1>2, AskSame DEF AllRows
  <1>4. \A s : ScopeRows(s)' = ScopeRows(s)
    BY <1>3 DEF ScopeRows
  <1>5. /\ \A s : Seen(s)' = Seen(s)
        /\ \A k, n : Holding(k, n)' = Holding(k, n)
        /\ \A n, g, h : Better(n, g, h)' = Better(n, g, h)
    BY <1>2 DEF Seen, Holding, Better
  <1>6. SameOrder' = SameOrder
    BY <1>2, <1>5 DEF SameOrder
  <1> QED
    BY <1>1, <1>3, <1>4, <1>6

LEMMA SameRanking ==
  ASSUME recent' = recent
  PROVE  \A S, from, upto, up : Slice(S, from, upto, up)' = Slice(S, from, upto, up)
  <1>1. \A o : Score(o)' = Score(o)
    BY DEF Score
  <1>2. \A m, S : BestScore(m, S)' = BestScore(m, S)
    BY <1>1 DEF BestScore, SeenAs
  <1> QED
    BY <1>2 DEF Slice

LEMMA SameBest ==
  ASSUME ask' = ask, recent' = recent
  PROVE  Best' = Best /\ Undisputed' = Undisputed
  <1>1. \A o : Score(o)' = Score(o)
    BY DEF Score
  <1>2. Best' = Best
    BY <1>1, SameScopes DEF Best, SeenAs
  <1>3. \A f, s : NamesOf(f, s)' = NamesOf(f, s)
    BY DEF NamesOf, Belongs
  <1>4. \A f, s : NameIn(f, s)' = NameIn(f, s)
    BY <1>3 DEF NameIn
  <1>5. \A f : OneName(f)' = OneName(f)
    BY <1>4, AskSame DEF OneName
  <1>6. Undisputed' = Undisputed
    BY <1>2, <1>5, SameScopes DEF Undisputed
  <1> QED
    BY <1>2, <1>6

LEMMA SameKept ==
  ASSUME ask' = ask, recent' = recent, offset' = offset, size' = size
  PROVE  \A s : Kept(s)' = Kept(s)
  <1>1. \A s : ScopeRows(s)' = ScopeRows(s)
    BY SameScopes
  <1>2. Prefix' = Prefix
    BY DEF Prefix
  <1>3. \A S, from, upto, up : Slice(S, from, upto, up)' = Slice(S, from, upto, up)
    BY SameRanking
  <1> QED
    BY <1>1, <1>2, <1>3 DEF Kept, Truncate

\* Where every file is read in one language, the rows of complete walks for a
\* symbol are all sightings of what the scope holds.
LEMMA SymbolScopeEnded ==
  ASSUME SearchTypeOK, ask.kind = "symbol", Plain, scope \in ask.scopes,
         NEW D \in SUBSET (Names \X HitIds), NEW DA,
         SomeOf("definitions", D, DA), AllOf("definitions", D, DA),
         NEW F \in SUBSET (Names \X HitIds), NEW FA,
         SomeOf("usages", F, FA), AllOf("usages", F, FA)
  PROVE  LET uses == {p \in F : ~Dominated(p, D)}
         IN  Sightings(D, DA, TRUE) \union Sightings(uses, FA, FALSE) = ScopeRows(scope)
  <1>yn. PICK yes \in BOOLEAN, no \in BOOLEAN : yes = TRUE /\ no = FALSE
    OBVIOUS
  <1> DEFINE uses == {p \in F : ~Dominated(p, D)}
             R1 == Sightings(D, DA, yes)
             R2 == Sightings(uses, FA, no)
             R == R1 \union R2
  <1>1. SymbolRows(scope, R)
    <2>1. SymbolRows(scope, Sightings(D, DA, TRUE) \union Sightings(uses, FA, FALSE))
      BY SymbolRowsEnded
    <2> QED
      BY <1>yn, <2>1
  <1>2. DA = W /\ FA = W /\ W = Belongs(scope) /\ W \subseteq Names /\ scope \in Scopes
    BY Seeing, Request DEF SomeOf, AllOf, SearchTypeOK
  <1>3. uses \in SUBSET (Names \X HitIds)
    OBVIOUS
  <1> HIDE DEF uses
  <1>4. ASSUME NEW P \in SUBSET (Names \X HitIds), NEW d \in BOOLEAN
        PROVE  /\ \A o \in Sightings(P, W, d) :
                    /\ o \in Observation /\ o.scope = scope /\ o.name \in W
                    /\ FileOf[o.name] = o.m[1]
               /\ \A o \in Observation, q \in Sightings(P, W, d) :
                    o.scope = scope /\ o.name \in W /\ FileOf[o.name] = o.m[1] /\ q.m = o.m
                      => o \in Sightings(P, W, d)
    <2>1. \A o \in Sightings(P, W, d) : o \in Observation
      BY <1>2, SightingTypes
    <2>2. \A o \in Sightings(P, W, d) : /\ o.scope = scope /\ o.name \in W /\ FileOf[o.name] = o.m[1]
                                        /\ \E p \in P : o.m = <<FileOf[p[1]], p[2], d>>
      BY DEF Sightings, Observed
    <2>3. ASSUME NEW o \in Observation, NEW q \in Sightings(P, W, d), o.scope = scope, o.name \in W,
                 FileOf[o.name] = o.m[1], q.m = o.m
          PROVE  o \in Sightings(P, W, d)
      <3>1. PICK p \in P : o.m = <<FileOf[p[1]], p[2], d>>
        BY <2>2, <2>3
      <3>2. o = [m |-> <<FileOf[p[1]], p[2], d>>, name |-> o.name, scope |-> scope]
        BY <2>3, <3>1 DEF Observation
      <3>3. o \in Observed(P, W, d)
        BY <2>3, <3>2 DEF Observed
      <3> QED
        BY <2>3, <3>3 DEF Sightings
    <2> QED
      BY <2>1, <2>2, <2>3
  <1>5. R1 = Sightings(D, W, yes) /\ R2 = Sightings(uses, W, no)
    BY <1>2
  <1> HIDE DEF R1, R2
  <1>6. ASSUME NEW o \in R PROVE o \in ScopeRows(scope)
    <2>1. o \in Observation /\ o.scope = scope /\ o.name \in W /\ FileOf[o.name] = o.m[1]
      BY <1>yn, <1>3, <1>4, <1>5, <1>6
    <2>2. o.m \in Matches(R)
      BY <1>6 DEF Matches
    <2>3. PICK f \in Seen(scope) : o.m \in PossibleIn(scope, f)
      BY <1>1, <2>2 DEF SymbolRows
    <2>4. f = o.m[1]
      BY <2>3, PossibleFile
    <2>5. o.name \in NamesOf(o.m[1], scope)
      BY <1>2, <2>1 DEF NamesOf
    <2> QED
      BY <2>1, <2>3, <2>4, <2>5, RowsOfScope
  <1>7. ASSUME NEW o \in ScopeRows(scope) PROVE o \in R
    <2>1. /\ o \in Observation /\ o.scope = scope /\ o.name \in NamesOf(o.m[1], scope)
          /\ o.m \in PossibleIn(scope, o.m[1])
      BY <1>7, RowsOfScope
    <2>2. o.name \in W /\ FileOf[o.name] = o.m[1]
      BY <1>2, <2>1 DEF NamesOf
    <2>3. o.m[1] \in Seen(scope)
      <3>1. o.m[1] \in Files
        BY <1>2, <2>2, Constants
      <3> QED
        BY <2>1, <3>1 DEF Seen
    <2>4. o.m \in CertainIn(scope, o.m[1])
      BY <2>1, <2>3 DEF Plain
    <2>5. o.m \in Matches(R)
      BY <1>1, <2>3, <2>4 DEF SymbolRows
    <2>6. PICK q \in R : q.m = o.m
      BY <2>5 DEF Matches
    <2>7. CASE q \in R1
      BY <1>yn, <1>4, <1>5, <2>1, <2>2, <2>6, <2>7
    <2>8. CASE q \in R2
      BY <1>yn, <1>3, <1>4, <1>5, <2>1, <2>2, <2>6, <2>8
    <2> QED
      BY <2>6, <2>7, <2>8
  <1> QED
    BY <1>yn, <1>6, <1>7 DEF R1, R2, uses

\* Between two walks a request has, of the scopes done with, everything there
\* is (symbols) or the first rows of each (contents).
Gathered ==
    /\ phase \in Arms => keep = Prefix
    /\ phase # "ready" /\ exact =>
         /\ ask.kind = "symbol" /\ Plain => rows = UNION {ScopeRows(s) : s \in Done}
         /\ ask.kind = "content" /\ calm /\ SameOrder => rows = UNION {Kept(s) : s \in Done}

LEMMA GatheredSame ==
  ASSUME Gathered, ask' = ask, offset' = offset, size' = size, rows' = rows, Done' = Done,
         calm' => calm /\ recent' = recent,
         phase' # "ready" /\ exact' => phase # "ready" /\ exact,
         phase' \in Arms => keep' = Prefix
  PROVE  Gathered'
  <1>1. /\ \A s : ScopeRows(s)' = ScopeRows(s)
        /\ Plain' = Plain /\ SameOrder' = SameOrder
        /\ Prefix' = Prefix
    BY SameScopes DEF Prefix
  <1>2. ASSUME calm' PROVE \A s : Kept(s)' = Kept(s)
    BY <1>2, SameKept
  <1> QED
    BY <1>1, <1>2 DEF Gathered

LEMMA EndWalkGathers ==
  ASSUME SearchInv, Gathered, phase \in Arms, NEW R, NEW c, EndWalk(R, c),
         exact /\ c /\ ask.kind = "symbol" /\ Plain => R = ScopeRows(scope),
         exact /\ c /\ ask.kind = "content" /\ calm /\ SameOrder => R = Kept(scope)
  PROVE  Gathered'
  <1>1. Done' = Done \union {scope} /\ ask' = ask
    BY EndWalkDone
  <1>2. /\ rows' = rows \union R /\ exact' = (exact /\ c) /\ phase' = "scopes" /\ phase # "ready"
        /\ UNCHANGED <<offset, size, recent, calm>>
    BY DEF EndWalk, Arms
  <1>3. /\ \A s : ScopeRows(s)' = ScopeRows(s)
        /\ \A s : Kept(s)' = Kept(s)
        /\ Plain' = Plain /\ SameOrder' = SameOrder
    BY <1>1, <1>2, SameScopes, SameKept
  <1>4. ASSUME exact', ask.kind = "symbol", Plain
        PROVE  rows' = UNION {ScopeRows(s) : s \in Done'}
    <2>1. rows = UNION {ScopeRows(s) : s \in Done} /\ R = ScopeRows(scope)
      BY <1>2, <1>4 DEF Gathered
    <2> QED
      BY <1>1, <1>2, <2>1
  <1>5. ASSUME exact', ask.kind = "content", calm, SameOrder
        PROVE  rows' = UNION {Kept(s) : s \in Done'}
    <2>1. rows = UNION {Kept(s) : s \in Done} /\ R = Kept(scope)
      BY <1>2, <1>5 DEF Gathered
    <2> QED
      BY <1>1, <1>2, <2>1
  <1>6. phase' \notin Arms
    BY <1>2 DEF Arms
  <1> QED
    BY <1>1, <1>2, <1>3, <1>4, <1>5, <1>6 DEF Gathered

LEMMA EndUsagesGathers ==
  ASSUME SearchInv, Gathered, EndUsages
  PROVE  Gathered'
  <1> DEFINE uses == {p \in found : ~Dominated(p, defs.found)}
             R == Sightings(defs.found, defs.aliases, TRUE) \union Sightings(uses, aliases, FALSE)
             c == Complete /\ ~defs.skipped
  <1>1. /\ phase = "usages" /\ arm = "usages" /\ Joined /\ EndWalk(R, c) /\ phase \in Arms
        /\ SearchTypeOK /\ WalkTypeOK /\ WalkInv /\ scope \in ask.scopes /\ ask.kind = "symbol"
    BY DEF EndUsages, SearchInv, SearchTypeOK, Scoped, Arms
  <1>2. ASSUME c, Plain PROVE R = ScopeRows(scope)
    <2>1. SomeOf("usages", found, aliases) /\ AllOf("usages", found, aliases)
      BY <1>1, <1>2, SymbolWalkEnded DEF Complete
    <2>2. /\ SomeOf("definitions", defs.found, defs.aliases)
          /\ AllOf("definitions", defs.found, defs.aliases)
      BY <1>1, <1>2 DEF SearchInv, DefsKnown
    <2>3. defs.found \in SUBSET (Names \X HitIds) /\ found \in SUBSET (Names \X HitIds)
      BY <1>1 DEF SearchTypeOK, WalkTypeOK
    <2> QED
      BY <1>1, <1>2, <2>1, <2>2, <2>3, SymbolScopeEnded
  <1> HIDE DEF R, c
  <1> QED
    BY <1>1, <1>2, EndWalkGathers

LEMMA EndContentGathers ==
  ASSUME SearchInv, Gathered, EndContent
  PROVE  Gathered'
  <1> DEFINE R == Truncate(Sightings(found, aliases, FALSE), keep)
  <1>1. /\ phase = "content" /\ arm = "content" /\ Joined /\ EndWalk(R, Complete) /\ phase \in Arms
        /\ SearchTypeOK /\ WalkInv /\ scope \in ask.scopes /\ ask.kind = "content" /\ keep = Prefix
    BY DEF EndContent, SearchInv, SearchTypeOK, Scoped, Arms, Gathered
  <1>2. ASSUME Complete, SameOrder PROVE R = Kept(scope)
    BY <1>1, <1>2, ContentScopeEnded DEF Kept
  <1> HIDE DEF R
  <1> QED
    BY <1>1, <1>2, EndWalkGathers

LEMMA GatheredSteps ==
  ASSUME SearchInv, Gathered, [Next]_allVars
  PROVE  Gathered'
  <1>1. CASE Begin
    <2>1. phase' = "scopes" /\ rows' = {} /\ Done' = {} /\ phase' \notin Arms
      BY <1>1 DEF Begin, Done, Arms
    <2> QED
      BY <2>1 DEF Gathered
  <1>2. ASSUME NEW s \in Scopes, SearchScope(s) PROVE Gathered'
    <2>1. /\ phase' = FirstArm /\ FirstArm \in Arms /\ phase = "scopes" /\ s \in todo
          /\ todo' = todo \ {s} /\ scope' = s /\ keep' = Prefix
          /\ todo \subseteq ask.scopes /\ phase \notin Arms
          /\ UNCHANGED <<ask, offset, size, rows, exact, recent, calm>>
      BY <1>2, Request DEF SearchScope, Walk, StartWalk, FirstArm, SearchInv, Scoped, Arms
    <2>2. Done' = Done
      BY <2>1 DEF Done
    <2> QED
      BY <2>1, <2>2, GatheredSame
  <1>3. ASSUME NEW s \in Scopes, ScopeFails(s) PROVE Gathered'
    BY <1>3 DEF ScopeFails, Gathered, Arms
  <1>4. CASE WalkOn
    <2>1. keep' = keep
      BY <1>4 DEF WalkOn, WalkStep, Take, Admit, Check, Search, Add
    <2> QED
      BY <1>4, <2>1, GatheredSame DEF WalkOn, clientVars, Done, Gathered
  <1>5. CASE EndDefinitions
    <2>1. /\ Done' = Done /\ phase' # "ready" /\ phase # "ready" /\ keep' = Prefix
          /\ UNCHANGED <<ask, offset, size, rows, exact, recent, calm>>
      BY <1>5 DEF EndDefinitions, Walk, StartWalk, Done, Arms
    <2> QED
      BY <2>1, GatheredSame
  <1>6. CASE EndUsages
    BY <1>6, EndUsagesGathers
  <1>7. CASE EndCallers
    <2>1. ask.kind = "callers" /\ ask' = ask /\ phase' = "scopes"
      BY <1>7 DEF EndCallers, SearchInv, Scoped, EndWalk
    <2> QED
      BY <2>1 DEF Gathered, Arms
  <1>8. CASE EndContent
    BY <1>8, EndContentGathers
  <1>9. ASSUME NEW a, Answered(a), phase = "scopes" PROVE Gathered'
    BY <1>9, GatheredSame DEF Answered, Done, Arms
  <1>10. CASE AllScopesFailed \/ AnswerPage \/ AnswerCut
    BY <1>9, <1>10 DEF AllScopesFailed, AnswerPage, AnswerCut
  <1>11. ASSUME NEW f \in Files, Age(f) PROVE Gathered'
    <2>1. /\ Done' = Done /\ ~calm' /\ phase' \notin Arms /\ phase' = phase
          /\ UNCHANGED <<ask, offset, size, rows, exact>>
      BY <1>11 DEF Age, Done, Arms
    <2> QED
      BY <2>1, GatheredSame
  <1>12. CASE FollowNext \/ RetrySmaller
    BY <1>12 DEF FollowNext, RetrySmaller, Again, Gathered, Arms
  <1>13. CASE Finish
    BY <1>13, GatheredSame DEF Finish, Done, Arms
  <1>14. CASE UNCHANGED allVars
    BY <1>14, GatheredSame DEF allVars, clientVars, walkVars, Done, Gathered
  <1> QED
    BY <1>1, <1>2, <1>3, <1>4, <1>5, <1>6, <1>7, <1>8, <1>10, <1>11, <1>12, <1>13, <1>14 DEF Next

-----------------------------------------------------------------------------
(* The page of an answer.                                                  *)

LEMMA PossibleAreCounted ==
  ASSUME SearchTypeOK
  PROVE  /\ Cardinality(Possible) \in Nat /\ Cardinality(Possible) < Unlimited
         /\ Plain => Certain = Possible
  <1>1. Possible \subseteq Match /\ IsFiniteSet(Match)
    BY PossibleIsFinite, MatchIsFinite
  <1>2. Cardinality(Possible) <= Cardinality(Match) /\ IsFiniteSet(Possible)
    BY <1>1, FS_Subset
  <1>3. Cardinality(Possible) \in Nat /\ Cardinality(Match) \in Nat
    BY <1>1, <1>2, FS_CardinalityType
  <1>4. Cardinality(Match) < Unlimited
    BY <1>3, SearchAssumption, WalkAssumption DEF Match
  <1> QED
    BY <1>2, <1>3, <1>4, WalkAssumption DEF Plain, Certain, Possible

LEMMA Ranks ==
  ASSUME SearchTypeOK, NEW up \in BOOLEAN, NEW m \in Possible
  PROVE  /\ Position(m, AllRows, Best, up) = Rank(Order(AllRows, up), Possible, m)
         /\ Position(m, AllRows, Best, up) \in Nat
         /\ Position(m, AllRows, Best, up) < Cardinality(Possible)
  <1>1. Honest(AllRows) /\ Matches(AllRows) = Possible /\ Best = Scores(AllRows)
    BY RowsOfScope, BestIs
  <1>2. Position(m, AllRows, Best, up) = Rank(Order(AllRows, up), Possible, m)
    BY <1>1 DEF Position, Rank, Front, Order
  <1>3. IsFiniteSet(Possible) /\ Orders(Order(AllRows, up), Possible)
    BY <1>1, MatchesOf, RankingOrders
  <1> QED
    BY <1>2, <1>3, RanksDiffer

\* The request has been through all its scopes, and none left anything out.
LEMMA WhatIsShown ==
  ASSUME SearchInv, Gathered, phase = "scopes", todo = {}, exact, ask.paged,
         Plain, calm, Undisputed, SameOrder, NEW up \in BOOLEAN, NEW upto \in Int, upto <= Last(Total)
  PROVE  /\ Total = Cardinality(Possible)
         /\ Slice(rows, First(Total), upto, up) = Ranked(AllRows, Best, First(Total), upto, up)
  <1>1. SearchTypeOK /\ RowsKnown /\ size \in Nat /\ offset \in Int /\ Done = ask.scopes
    BY DEF SearchInv, SearchTypeOK, Done, Arms
  <1>2. ask.kind \in {"symbol", "content"}
    BY <1>1, Request, SearchAssumption DEF SearchTypeOK
  <1>3. /\ Cardinality(Possible) \in Nat /\ Cardinality(Possible) < Unlimited
        /\ Unlimited \in Nat /\ Certain = Possible
    BY <1>1, PossibleAreCounted, WalkAssumption
  <1>4. Matches(AllRows) = Possible /\ Best = Scores(AllRows)
    BY <1>1, RowsOfScope, BestIs
  <1>5. CASE ask.kind = "symbol"
    <2>1. rows = UNION {ScopeRows(s) : s \in ask.scopes}
      BY <1>1, <1>5 DEF Gathered
    <2>2. rows = AllRows
      BY <1>1, <2>1, RowsOfScope DEF ScopeRows
    <2> QED
      BY <1>4, <1>5, <2>2 DEF Slice, Scores, Total
  <1>6. CASE ask.kind = "content"
    <2>1. rows = UNION {Kept(s) : s \in ask.scopes}
      BY <1>1, <1>6 DEF Gathered
    <2>2. ledger = UNION {Counted(Belongs(s)) : s \in ask.scopes}
      BY <1>1, <1>6 DEF RowsKnown, ContentKnown
    <2>3. Total = Cardinality(Possible)
      BY <1>1, <1>3, <1>6, <2>2, LedgerIsCertain DEF Total
    <2>4. Prefix \in Nat /\ Last(Total) <= Prefix /\ First(Total) \in Nat
      BY <1>1, <1>3, <2>3 DEF Prefix, Last, First, Least
    <2>5. upto <= Prefix
      BY <2>4, PageBounds, <1>1
    <2>6. Slice(rows, First(Total), upto, up) = Slice(AllRows, First(Total), upto, up)
      BY <1>1, <1>6, <2>1, <2>4, <2>5, MergeKeeps
    <2>7. Slice(AllRows, First(Total), upto, up) = Ranked(AllRows, Best, First(Total), upto, up)
      BY <1>4 DEF Slice, Scores
    <2> QED
      BY <2>3, <2>6, <2>7
  <1> QED
    BY <1>2, <1>5, <1>6

LEMMA AnswerFields ==
  ASSUME NEW up, NEW upto
  PROVE  LET p == Page(up)
             c == CutAt(up, upto)
             next == IF ask.paged /\ exact /\ Last(Total) < Total THEN Last(Total) ELSE NoPage
         IN  /\ p.ok = TRUE /\ p.cut = FALSE /\ p.total = Total /\ p.exact = exact /\ p.next = next
             /\ p.shown = Slice(rows, First(Total), Last(Total), up)
             /\ c.ok = TRUE /\ c.cut = TRUE /\ c.total = Total /\ c.exact = exact /\ c.next = NoPage
             /\ c.shown = Slice(rows, First(Total), upto, up)
  <1>1. PICK t, x, n, s, e, yes, no :
          /\ t = Total /\ x = Slice(rows, First(Total), Last(Total), up) /\ e = exact
          /\ n = IF ask.paged /\ exact /\ Last(Total) < Total THEN Last(Total) ELSE NoPage
          /\ s = Slice(rows, First(Total), upto, up) /\ yes = TRUE /\ no = FALSE
    OBVIOUS
  <1>2. Page(up) = [ok |-> yes, cut |-> no, total |-> t, exact |-> e, shown |-> x, next |-> n]
    BY <1>1 DEF Page
  <1>3. CutAt(up, upto) = [Page(up) EXCEPT !.shown = s, !.cut = yes, !.next = NoPage]
    BY <1>1 DEF CutAt
  <1>4. PICK c : c = CutAt(up, upto)
    OBVIOUS
  <1>5. c = [[ok |-> yes, cut |-> no, total |-> t, exact |-> e, shown |-> x, next |-> n]
               EXCEPT !.shown = s, !.cut = yes, !.next = NoPage]
    BY <1>2, <1>3, <1>4, Zenon
  <1>6. /\ c.ok = yes /\ c.cut = yes /\ c.total = t /\ c.exact = e /\ c.next = NoPage
        /\ c.shown = s
    BY <1>5
  <1> QED
    BY <1>1, <1>2, <1>4, <1>6

Sliced(a) ==
    \E up \in BOOLEAN :
      LET from == First(a.total)
          page == Ranked(AllRows, Best, from, from + size, up)
      IN  IF a.cut THEN a.shown \subseteq page ELSE a.shown = page

LEMMA AnswerIsSlice ==
  ASSUME SearchInv, Gathered, phase = "scopes", todo = {}, exact, ask.paged,
         Plain, calm, Undisputed, SameOrder, NEW a, NEW up \in BOOLEAN,
         \/ a = Page(up)
         \/ \E upto \in First(Total) .. Last(Total) : a = CutAt(up, upto)
  PROVE  Sliced(a)
  <1> DEFINE from == First(Total)
             page == Ranked(AllRows, Best, from, from + size, up)
  <1>1. SearchTypeOK /\ from \in Nat /\ Last(Total) \in Nat /\ size \in Nat /\ Total \in Nat
    BY PageBounds, FiniteTotals DEF SearchInv, SearchTypeOK
  <1>2. ASSUME NEW upto \in Int, upto <= Last(Total)
        PROVE  Slice(rows, from, upto, up) \subseteq page
    <2>1. Slice(rows, from, upto, up) = Ranked(AllRows, Best, from, upto, up)
      BY <1>2, WhatIsShown
    <2>2. Last(Total) <= from + size
      BY <1>1 DEF Last, Least
    <2>3. \A m \in Possible : Position(m, AllRows, Best, up) \in Nat
      BY <1>1, Ranks
    <2>4. Matches(AllRows) = Possible
      BY <1>1, RowsOfScope
    <2> QED
      BY <1>1, <1>2, <2>1, <2>2, <2>3, <2>4 DEF Ranked
  <1>3. Slice(rows, from, Last(Total), up) = page
    <2>1. /\ Slice(rows, from, Last(Total), up) = Ranked(AllRows, Best, from, Last(Total), up)
          /\ Total = Cardinality(Possible)
      BY <1>1, WhatIsShown
    <2>2. \A m \in Possible : /\ Position(m, AllRows, Best, up) \in Nat
                              /\ Position(m, AllRows, Best, up) < Total
      BY <1>1, <2>1, Ranks
    <2>3. Matches(AllRows) = Possible
      BY <1>1, RowsOfScope
    <2>4. \A p \in Nat : p < Total => (p < Last(Total) <=> p < from + size)
      BY <1>1 DEF Last, Least
    <2> QED
      BY <2>1, <2>2, <2>3, <2>4 DEF Ranked
  <1>4. CASE a = Page(up)
    <2>1. a.total = Total /\ ~a.cut /\ a.shown = page
      BY <1>3, <1>4, AnswerFields
    <2> QED
      BY <2>1 DEF Sliced
  <1>5. CASE \E upto \in First(Total) .. Last(Total) : a = CutAt(up, upto)
    <2>1. PICK upto \in First(Total) .. Last(Total) : a = CutAt(up, upto)
      BY <1>5
    <2>2. a.total = Total /\ a.cut /\ a.shown = Slice(rows, from, upto, up)
      BY <2>1, AnswerFields
    <2>3. a.shown \subseteq page
      BY <1>1, <1>2, <2>1, <2>2
    <2> QED
      BY <2>2, <2>3 DEF Sliced
  <1> QED
    BY <1>4, <1>5

LEMMA PageSame ==
  ASSUME PageIsSlice, ask' = ask, offset' = offset, size' = size, answer' = answer,
         calm' => calm /\ recent' = recent,
         phase' \in {"answered", "finished"} => phase \in {"answered", "finished"}
  PROVE  PageIsSlice'
  <1>1. SUFFICES ASSUME Answering', ask.paged, answer.exact, calm', Plain', Undisputed',
                        SameOrder'
                 PROVE  Sliced(answer)'
    BY DEF PageIsSlice, Sliced
  <1>2. /\ AllRows' = AllRows /\ Best' = Best /\ Plain /\ Undisputed /\ SameOrder /\ calm
        /\ First(answer.total)' = First(answer.total)
    BY <1>1, SameScopes, SameBest DEF First
  <1>3. Sliced(answer)
    BY <1>1, <1>2 DEF PageIsSlice, Sliced, Answering
  <1> QED
    BY <1>2, <1>3 DEF Sliced

LEMMA PageSteps ==
  ASSUME SearchInv, Gathered, PageIsSlice, [Next]_allVars
  PROVE  PageIsSlice'
  <1>1. ASSUME phase' \notin {"answered", "finished"} PROVE PageIsSlice'
    BY <1>1 DEF PageIsSlice, Answering
  <1>2. CASE Begin \/ EndDefinitions \/ EndUsages \/ EndCallers \/ EndContent
              \/ FollowNext \/ RetrySmaller
    BY <1>1, <1>2 DEF Begin, EndDefinitions, EndUsages, EndCallers, EndContent, EndWalk, Walk,
                      FollowNext, RetrySmaller, Again
  <1>3. CASE \E s \in Scopes : SearchScope(s) \/ ScopeFails(s)
    <2>1. FirstArm \in Arms
      BY Request DEF FirstArm, Arms, SearchInv
    <2> QED
      BY <1>1, <1>3, <2>1 DEF SearchScope, ScopeFails, Walk, Arms
  <1>4. CASE WalkOn
    BY <1>4, PageSame DEF WalkOn, clientVars
  <1>5. CASE AllScopesFailed
    BY <1>5 DEF AllScopesFailed, Answered, NoAnswer, PageIsSlice, Answering
  <1>6. ASSUME NEW a, NEW up \in BOOLEAN, Answered(a), phase = "scopes", todo = {},
               \/ a = Page(up)
               \/ \E upto \in First(Total) .. Last(Total) : a = CutAt(up, upto)
        PROVE  PageIsSlice'
    <2>1. UNCHANGED <<ask, offset, size, recent, calm>> /\ answer' = a
      BY <1>6 DEF Answered
    <2>0. a.exact = exact
      <3>1. CASE a = Page(up)
        BY <3>1, AnswerFields
      <3>2. ASSUME NEW upto, a = CutAt(up, upto) PROVE a.exact = exact
        BY <3>2, AnswerFields
      <3> QED
        BY <1>6, <3>1, <3>2
    <2>2. SUFFICES ASSUME ask.paged, exact, calm, Plain', Undisputed', SameOrder'
                   PROVE  Sliced(a)'
      BY <2>0, <2>1 DEF PageIsSlice, Sliced
    <2>3. /\ AllRows' = AllRows /\ Best' = Best /\ Plain /\ Undisputed /\ SameOrder
          /\ First(a.total)' = First(a.total)
      BY <2>1, <2>2, SameScopes, SameBest DEF First
    <2>4. Sliced(a)
      BY <1>6, <2>2, <2>3, AnswerIsSlice
    <2> QED
      BY <2>1, <2>3, <2>4 DEF Sliced
  <1>7. CASE AnswerPage
    <2>1. PICK up \in BOOLEAN : Answered(Page(up))
      BY <1>7 DEF AnswerPage
    <2> QED
      BY <1>6, <1>7, <2>1 DEF AnswerPage
  <1>8. CASE AnswerCut
    <2>1. PICK up \in BOOLEAN, upto \in First(Total) .. Last(Total) : Answered(CutAt(up, upto))
      BY <1>8 DEF AnswerCut
    <2> QED
      BY <1>6, <1>8, <2>1 DEF AnswerCut
  <1>9. ASSUME NEW f \in Files, Age(f) PROVE PageIsSlice'
    BY <1>9 DEF Age, PageIsSlice
  <1>10. CASE Finish
    BY <1>10, PageSame DEF Finish
  <1>11. CASE UNCHANGED allVars
    BY <1>11, PageSame DEF allVars, clientVars
  <1> QED
    BY <1>2, <1>3, <1>4, <1>5, <1>7, <1>8, <1>9, <1>10, <1>11 DEF Next

\* A page is the slice of the one ranking of everything there is to find that
\* its offset and limit name, for any names, links, scopes and scores: that a
\* walk keeps the best rows of a file, and a scope the first of its rows, is
\* not to be seen in it.
THEOREM PagesAreSlices == Spec => []PageIsSlice
  <1>1. SearchInit => Gathered /\ PageIsSlice
    BY DEF SearchInit, Gathered, PageIsSlice, Answering, Arms
  <1>2. SearchInv /\ Gathered /\ PageIsSlice /\ [Next]_allVars => Gathered' /\ PageIsSlice'
    BY GatheredSteps, PageSteps
  <1> QED
    BY <1>1, <1>2, SearchInvariant, PTL DEF Spec

-----------------------------------------------------------------------------
(* A walk that never stops early.                                          *)

\* A name is waiting, in one thread's hands, or done with.
OncePerName ==
    /\ \A t \in Threads : holds[t] \notin pending
    /\ \A t, u \in Threads : t # u /\ holds[t] = holds[u] => holds[t] = NoName
    /\ \A p \in found : p[1] \notin pending /\ \A t \in Threads : holds[t] # p[1]

\* What is in the list or on its way there.
Pairs ==
    {p \in Names \X HitIds :
       p \in found \/ \E t \in Threads : at[t] = "add" /\ holds[t] = p[1] /\ p[2] \in hits[p[1]]}

LEMMA OnceKept ==
  ASSUME WalkTypeOK, OncePerName, NEW t \in Threads, WalkStep(t)
  PROVE  OncePerName'
  <1>1. NoName \notin Names /\ pending \subseteq Names /\ \A p \in found : p[1] \in Names
    BY WalkAssumption DEF WalkTypeOK
  <1>2. CASE Take(t)
    BY <1>1, <1>2 DEF Take, OncePerName, WalkTypeOK
  <1>3. ASSUME UNCHANGED <<pending, found>>, holds' = holds \/ holds' = [holds EXCEPT ![t] = NoName]
        PROVE  OncePerName'
    BY <1>1, <1>3 DEF OncePerName, WalkTypeOK
  <1>4. CASE Admit(t) \/ Check(t) \/ Search(t)
    BY <1>3, <1>4 DEF Admit, Check, Search, NextName
  <1>5. CASE Add(t)
    <2>1. PICK n, X : /\ n = holds[t] /\ found' = found \union ({n} \X X)
                      /\ pending' = pending /\ holds' = [holds EXCEPT ![t] = NoName]
      BY <1>5 DEF Add, NextName
    <2>2. n \in Names
      BY <1>5, <2>1 DEF Add, WalkTypeOK
    <2> QED
      BY <1>1, <2>1, <2>2 DEF OncePerName, WalkTypeOK
  <1> QED
    BY <1>2, <1>4, <1>5 DEF WalkStep

LEMMA PairsCounted ==
  ASSUME WalkTypeOK, OncePerName, arm \in {"definitions", "usages"}, count = Cardinality(Pairs),
         NEW t \in Threads, WalkStep(t)
  PROVE  count' = Cardinality(Pairs')
  <1>0. PICK n : n = holds[t]
    OBVIOUS
  <1>1. hits' = hits /\ found \subseteq Names \X HitIds /\ hits \in [Names -> SUBSET HitIds]
    BY DEF WalkStep, Take, Admit, Check, Search, Add, WalkTypeOK
  <1>2. ASSUME found' = found, count' = count, at[t] # "add", at'[t] # "add",
               \A u \in Threads : u # t => at'[u] = at[u] /\ holds'[u] = holds[u]
        PROVE  count' = Cardinality(Pairs')
    <2>1. Pairs' = Pairs
      BY <1>1, <1>2 DEF Pairs
    <2> QED
      BY <1>2, <2>1
  <1>3. CASE Take(t)
    BY <1>2, <1>3 DEF Take, Goto, WalkTypeOK
  <1>4. CASE Admit(t)
    BY <1>2, <1>4 DEF Admit, Goto, NextName, WalkTypeOK
  <1>5. CASE Check(t)
    BY <1>2, <1>5 DEF Check, Goto, NextName, WalkTypeOK
  <1>6. CASE Search(t) /\ hits[n] = {}
    BY <1>0, <1>2, <1>6 DEF Search, Goto, NextName, WalkTypeOK
  <1>7. CASE Search(t) /\ hits[n] # {}
    <2>1. /\ count' = count + Cardinality(hits[n]) /\ at' = [at EXCEPT ![t] = "add"]
          /\ holds' = holds /\ found' = found /\ at[t] = "search"
      BY <1>0, <1>7 DEF Search, Goto
    <2>2. n \in Names /\ n # NoName /\ hits[n] \in SUBSET HitIds
      BY <1>0, <2>1, WalkAssumption DEF WalkTypeOK
    <2> DEFINE New == {n} \X hits[n]
    <2>3. Pairs' = Pairs \union New
      BY <1>0, <1>1, <2>1, <2>2 DEF Pairs, WalkTypeOK
    <2>4. Pairs \intersect New = {}
      BY <1>0, <1>1, <2>1, <2>2 DEF Pairs, OncePerName, WalkTypeOK
    <2>5. IsFiniteSet(Pairs) /\ IsFiniteSet(New) /\ Cardinality(New) = Cardinality(hits[n])
      <3>1. IsFiniteSet(Names \X HitIds)
        BY WalkAssumption, FS_Product
      <3>2. IsFiniteSet({n}) /\ Cardinality({n}) = 1
        BY FS_Singleton
      <3>3. IsFiniteSet(hits[n]) /\ Cardinality(hits[n]) \in Nat
        BY <2>2, Constants
      <3>4. Cardinality(New) = 1 * Cardinality(hits[n]) /\ IsFiniteSet(New)
        BY <3>2, <3>3, FS_Product
      <3>5. Pairs \subseteq Names \X HitIds
        BY DEF Pairs
      <3> QED
        BY <3>1, <3>3, <3>4, <3>5, FS_Subset
    <2> HIDE DEF New
    <2>6. Cardinality(Pairs \union New) =
            Cardinality(Pairs) + Cardinality(New) - Cardinality(Pairs \intersect New)
      BY <2>5, FS_Union
    <2>7. Cardinality(Pairs \intersect New) = 0
      BY <2>4, FS_EmptySet
    <2>8. Cardinality(Pairs) \in Nat /\ Cardinality(New) \in Nat
      BY <2>5, FS_CardinalityType
    <2> QED
      BY <2>1, <2>3, <2>5, <2>6, <2>7, <2>8
  <1>8. CASE Add(t)
    <2>1. /\ count' = count /\ at' = [at EXCEPT ![t] = "take"] /\ at[t] = "add"
          /\ holds' = [holds EXCEPT ![t] = NoName] /\ found' = found \union ({n} \X hits[n])
      BY <1>0, <1>8 DEF Add, Goto, NextName
    <2>2. n \in Names /\ n # NoName /\ hits[n] \in SUBSET HitIds
      BY <1>0, <2>1, WalkAssumption DEF WalkTypeOK
    <2>3. Pairs' = Pairs
      BY <1>0, <1>1, <2>1, <2>2 DEF Pairs, OncePerName, WalkTypeOK
    <2> QED
      BY <2>1, <2>3
  <1> QED
    BY <1>3, <1>4, <1>5, <1>6, <1>7, <1>8 DEF WalkStep

LEMMA PairsFew ==
  /\ Cardinality(Pairs) \in Nat /\ Cardinality(Pairs) < Unlimited
  <1>1. IsFiniteSet(Names \X HitIds)
    BY WalkAssumption, FS_Product
  <1>2. Pairs \subseteq Names \X HitIds
    BY DEF Pairs
  <1>3. Cardinality(Pairs) <= Cardinality(Names \X HitIds) /\ IsFiniteSet(Pairs)
    BY <1>1, <1>2, FS_Subset
  <1>4. Cardinality(Pairs) \in Nat /\ Cardinality(Names \X HitIds) \in Nat
    BY <1>1, <1>3, FS_CardinalityType
  <1> QED
    BY <1>3, <1>4, WalkAssumption

\* A walk for a page says that it was complete: that of a content search looks
\* at no count, and no count reaches the threshold of the others.
Untiring ==
    /\ OncePerName
    /\ arm # "none" /\ ask.paged =>
         /\ ~skipped /\ arm # "callers"
         /\ arm = "content" => \A t \in Threads : at[t] # "check"
         /\ arm # "content" => limit = Unlimited /\ count = Cardinality(Pairs)

LEMMA UntiringKept ==
  ASSUME WalkTypeOK, Untiring, UNCHANGED clientVars, NEW t \in Threads, WalkStep(t)
  PROVE  Untiring'
  <1>1. OncePerName' /\ arm' = arm /\ limit' = limit /\ ask' = ask
    BY OnceKept, WalkStepTypes DEF Untiring, clientVars, WalkStep, Take, Admit, Check, Search, Add
  <1>2. SUFFICES ASSUME arm # "none", ask.paged
                 PROVE  /\ ~skipped' /\ arm # "callers"
                        /\ arm = "content" => \A u \in Threads : at'[u] # "check"
                        /\ arm # "content" => limit = Unlimited /\ count' = Cardinality(Pairs')
    BY <1>1 DEF Untiring
  <1>3. ~skipped /\ arm # "callers" /\ arm \in Arms
    BY <1>2 DEF Untiring, WalkTypeOK
  <1>4. CASE arm = "content"
    <2>1. \A u \in Threads : at[u] # "check"
      BY <1>2, <1>4 DEF Untiring
    <2>2. ~Check(t)
      BY <2>1 DEF Check
    <2>3. CASE Take(t)
      BY <1>3, <1>4, <2>1, <2>3 DEF Take, Goto, WalkTypeOK
    <2>4. CASE Admit(t)
      BY <1>3, <1>4, <2>1, <2>4 DEF Admit, Goto, NextName, WalkTypeOK
    <2>5. CASE Search(t)
      BY <1>3, <1>4, <2>1, <2>5 DEF Search, Goto, NextName, WalkTypeOK
    <2>6. CASE Add(t)
      BY <1>3, <1>4, <2>1, <2>6 DEF Add, Goto, NextName, WalkTypeOK
    <2> QED
      BY <1>3, <1>4, <2>2, <2>3, <2>4, <2>5, <2>6 DEF WalkStep
  <1>5. CASE arm # "content"
    <2>1. limit = Unlimited /\ count = Cardinality(Pairs) /\ OncePerName
      BY <1>2, <1>5 DEF Untiring
    <2>2. count' = Cardinality(Pairs')
      BY <1>3, <1>5, <2>1, PairsCounted DEF Arms
    <2>3. ~(count >= limit)
      BY <2>1, PairsFew, WalkAssumption
    <2>4. ~skipped'
      BY <1>3, <2>3 DEF WalkStep, Take, Admit, Check, Search, Add
    <2> QED
      BY <1>3, <1>5, <2>1, <2>2, <2>4
  <1> QED
    BY <1>4, <1>5

LEMMA StartIsUntiring ==
  ASSUME SearchTypeOK, ask' = ask, NEW s \in Scopes, NEW a \in Arms, Walk(a, s),
         a = "callers" => ask.kind = "callers"
  PROVE  Untiring'
  <1>1. /\ arm' = a /\ limit' = QuitAt(a) /\ pending' = Visible(s) /\ Visible(s) \subseteq Names
        /\ at' = [t \in Threads |-> "take"] /\ holds' = [t \in Threads |-> NoName]
        /\ count' = 0 /\ found' = {} /\ skipped' = FALSE
    BY Constants DEF Walk, StartWalk, Reset
  <1>2. OncePerName'
    BY <1>1, WalkAssumption DEF OncePerName
  <1>3. Pairs' = {} /\ Cardinality({}) = 0
    BY <1>1, FS_EmptySet DEF Pairs
  <1>4. ask.paged => a # "callers"
    BY SearchAssumption DEF SearchTypeOK
  <1>5. ask.paged /\ a # "content" => QuitAt(a) = Unlimited
    BY <1>4 DEF QuitAt, Arms
  <1> QED
    BY <1>1, <1>2, <1>3, <1>4, <1>5 DEF Untiring

LEMMA UntiringSteps ==
  ASSUME SearchInv, Untiring, [Next]_allVars
  PROVE  Untiring'
  <1>1. ASSUME UNCHANGED <<walkVars, ask>> PROVE Untiring'
    BY <1>1 DEF walkVars, Untiring, OncePerName, Pairs
  <1>2. ASSUME NEW R, NEW c, EndWalk(R, c) PROVE Untiring'
    BY <1>2, WalkAssumption DEF EndWalk, Reset, Untiring, OncePerName
  <1>3. CASE Begin \/ AllScopesFailed \/ AnswerPage \/ AnswerCut \/ FollowNext \/ RetrySmaller \/ Finish
    BY <1>1, <1>3 DEF Begin, AllScopesFailed, AnswerPage, AnswerCut, Answered, FollowNext,
                      RetrySmaller, Again, Finish
  <1>4. CASE EndUsages \/ EndCallers \/ EndContent
    BY <1>2, <1>4 DEF EndUsages, EndCallers, EndContent
  <1>5. CASE EndDefinitions
    <2>1. scope \in Scopes /\ SearchTypeOK /\ ask' = ask /\ Walk("usages", scope)
      BY <1>5 DEF EndDefinitions, SearchInv, SearchTypeOK
    <2> QED
      BY <2>1, StartIsUntiring DEF Arms
  <1>6. ASSUME NEW s \in Scopes, SearchScope(s) PROVE Untiring'
    <2>1. /\ SearchTypeOK /\ ask' = ask /\ Walk(FirstArm, s) /\ FirstArm \in Arms
          /\ FirstArm = "callers" => ask.kind = "callers"
      BY <1>6, Request DEF SearchScope, FirstArm, Arms, SearchInv
    <2> QED
      BY <2>1, StartIsUntiring
  <1>7. ASSUME NEW s \in Scopes, ScopeFails(s) PROVE Untiring'
    BY <1>1, <1>7 DEF ScopeFails
  <1>8. CASE WalkOn
    BY <1>8, UntiringKept DEF WalkOn, SearchInv, SearchTypeOK
  <1>9. ASSUME NEW f \in Files, Age(f) PROVE Untiring'
    BY <1>1, <1>9 DEF Age
  <1>10. CASE UNCHANGED allVars
    BY <1>1, <1>10 DEF allVars, clientVars
  <1> QED
    BY <1>3, <1>4, <1>5, <1>6, <1>7, <1>8, <1>9, <1>10 DEF Next

-----------------------------------------------------------------------------
(* A client that pages.                                                    *)

NextOf(total) == IF ask.paged /\ exact /\ Last(total) < total THEN Last(total) ELSE NoPage

\* What an answer has told.
Told ==
    phase \in {"answered", "finished"} =>
      /\ answer.shown \subseteq shown
      /\ answer.ok \/ failed
      /\ answer.ok /\ ~answer.cut => answer.next = NextOf(answer.total)
      /\ answer.next # NoPage => answer.ok
      /\ phase = "finished" => answer.next = NoPage

\* A page is of all there is, unless a scope failed.
Thorough ==
    /\ phase = "usages" /\ ask.paged => ~defs.skipped
    /\ phase # "ready" /\ ~failed =>
         /\ ask.paged => exact
         /\ anyOk \/ Done = {}

Onward == (ask.start = 0 => offset >= 0) /\ (steady => calm)

LEMMA ThoroughSteps ==
  ASSUME SearchInv, Untiring, Thorough, [Next]_allVars
  PROVE  Thorough'
  <1>1. CASE Begin
    BY <1>1 DEF Begin, Thorough, Done, Arms
  <1>2. ASSUME NEW s \in Scopes, SearchScope(s) PROVE Thorough'
    <2>1. /\ phase' = FirstArm /\ FirstArm \in Arms \ {"usages"} /\ phase = "scopes" /\ s \in todo
          /\ todo' = todo \ {s} /\ scope' = s /\ todo \subseteq ask.scopes /\ phase \notin Arms
          /\ UNCHANGED <<ask, exact, failed, anyOk>>
      BY <1>2, Request DEF SearchScope, Walk, FirstArm, SearchInv, Scoped, Arms
    <2>2. Done' = Done
      BY <2>1 DEF Done
    <2> QED
      BY <2>1, <2>2 DEF Thorough
  <1>3. ASSUME NEW s \in Scopes, ScopeFails(s) PROVE Thorough'
    BY <1>3 DEF ScopeFails, Thorough
  <1>4. CASE WalkOn
    BY <1>4 DEF WalkOn, clientVars, Thorough, Done
  <1>5. CASE EndDefinitions
    <2>1. /\ phase = "definitions" /\ arm = "definitions" /\ phase' = "usages" /\ Done' = Done
          /\ defs'.skipped = skipped /\ UNCHANGED <<ask, exact, failed, anyOk>>
      BY <1>5 DEF EndDefinitions, Walk, Done, Arms, SearchInv, SearchTypeOK
    <2> QED
      BY <2>1 DEF Thorough, Untiring
  <1>6. ASSUME NEW R, NEW c, EndWalk(R, c), phase \in Arms, ask.paged => c PROVE Thorough'
    BY <1>6 DEF EndWalk, Thorough, Arms
  <1>7. CASE EndUsages
    <2> DEFINE c == Complete /\ ~defs.skipped
    <2>1. PICK R : EndWalk(R, c)
      BY <1>7 DEF EndUsages
    <2>2. ask.paged => c
      BY <1>7 DEF EndUsages, SearchInv, SearchTypeOK, Untiring, Thorough, Complete, Arms
    <2> HIDE DEF c
    <2> QED
      BY <1>6, <1>7, <2>1, <2>2 DEF EndUsages, Arms
  <1>8. CASE EndCallers
    <2>1. ~ask.paged
      BY <1>8, SearchAssumption DEF EndCallers, SearchInv, SearchTypeOK, Scoped
    <2>2. PICK R : EndWalk(R, Complete)
      BY <1>8 DEF EndCallers
    <2> QED
      BY <1>6, <1>8, <2>1, <2>2 DEF EndCallers, Arms
  <1>9. CASE EndContent
    <2>1. PICK R : EndWalk(R, Complete)
      BY <1>9 DEF EndContent
    <2>2. ask.paged => Complete
      BY <1>9 DEF EndContent, SearchInv, SearchTypeOK, Untiring, Complete, Arms
    <2> QED
      BY <1>6, <1>9, <2>1, <2>2 DEF EndContent, Arms
  <1>10. ASSUME UNCHANGED <<ask, todo, failed, exact, anyOk>>, phase \notin Arms, phase # "ready",
                phase' \notin Arms
         PROVE  Thorough'
    BY <1>10 DEF Thorough, Done, Arms
  <1>11. CASE AllScopesFailed \/ AnswerPage \/ AnswerCut
    <2>1. PICK a : Answered(a) /\ phase = "scopes"
      BY <1>11 DEF AllScopesFailed, AnswerPage, AnswerCut
    <2> QED
      BY <1>10, <2>1 DEF Answered, Arms
  <1>12. ASSUME NEW f \in Files, Age(f) PROVE Thorough'
    BY <1>10, <1>12 DEF Age, Arms
  <1>13. CASE FollowNext \/ RetrySmaller
    BY <1>13 DEF FollowNext, RetrySmaller, Again, Thorough
  <1>14. CASE Finish
    BY <1>10, <1>14 DEF Finish, Arms
  <1>15. CASE UNCHANGED allVars
    BY <1>15 DEF allVars, clientVars, Thorough, Done
  <1> QED
    BY <1>1, <1>2, <1>3, <1>4, <1>5, <1>7, <1>8, <1>9, <1>11, <1>12, <1>13, <1>14, <1>15 DEF Next

LEMMA OnwardSteps ==
  ASSUME SearchInv, Onward, [Next]_allVars
  PROVE  Onward'
  <1>1. ASSUME UNCHANGED <<ask, offset>>, steady' => calm' PROVE Onward'
    BY <1>1 DEF Onward
  <1>2. ASSUME UNCHANGED <<ask, offset, steady, calm>> PROVE Onward'
    BY <1>2 DEF Onward
  <1>6. CASE Begin
    BY <1>1, <1>6 DEF Begin
  <1>7. CASE EndDefinitions \/ EndUsages \/ EndCallers \/ EndContent
    BY <1>2, <1>7 DEF EndDefinitions, EndUsages, EndCallers, EndContent, EndWalk
  <1>8. CASE AllScopesFailed \/ AnswerPage \/ AnswerCut
    BY <1>2, <1>8 DEF AllScopesFailed, AnswerPage, AnswerCut, Answered
  <1>9. CASE WalkOn \/ Finish \/ UNCHANGED allVars
    BY <1>2, <1>9 DEF WalkOn, Finish, allVars, clientVars
  <1>3. CASE \E s \in Scopes : SearchScope(s) \/ ScopeFails(s)
    BY <1>1, <1>3 DEF SearchScope, ScopeFails, Onward
  <1>4. CASE \E f \in Files : Age(f)
    BY <1>1, <1>4 DEF Age
  <1>5. CASE FollowNext \/ RetrySmaller
    BY <1>5 DEF FollowNext, RetrySmaller, Again, Onward, SearchInv, Paging
  <1> QED
    BY <1>3, <1>4, <1>5, <1>6, <1>7, <1>8, <1>9 DEF Next

LEMMA ToldSteps ==
  ASSUME SearchInv, Thorough, Told, [Next]_allVars
  PROVE  Told'
  <1>1. ASSUME phase' \notin {"answered", "finished"} PROVE Told'
    BY <1>1 DEF Told
  <1>2. CASE Begin \/ EndDefinitions \/ EndUsages \/ EndCallers \/ EndContent
              \/ FollowNext \/ RetrySmaller
    BY <1>1, <1>2 DEF Begin, EndDefinitions, EndUsages, EndCallers, EndContent, EndWalk, Walk,
                      FollowNext, RetrySmaller, Again
  <1>3. CASE \E s \in Scopes : SearchScope(s) \/ ScopeFails(s)
    <2>1. FirstArm \in Arms
      BY Request DEF FirstArm, Arms, SearchInv
    <2> QED
      BY <1>1, <1>3, <2>1 DEF SearchScope, ScopeFails, Walk, Arms
  <1>4. ASSUME UNCHANGED <<ask, offset, size, exact>>
        PROVE  \A total : NextOf(total)' = NextOf(total)
    BY <1>4 DEF NextOf, Last, First
  <1>5. ASSUME UNCHANGED <<ask, offset, size, exact, failed, answer, shown>>,
               phase' \in {"answered", "finished"} => phase \in {"answered", "finished"},
               phase' = "finished" => answer.next = NoPage
        PROVE  Told'
    BY <1>4, <1>5 DEF Told
  <1>6. CASE WalkOn \/ (\E f \in Files : Age(f)) \/ Finish \/ UNCHANGED allVars
    BY <1>5, <1>6 DEF WalkOn, Age, Finish, allVars, clientVars, Told
  <1>7. CASE AllScopesFailed
    <2>1. Done # {}
      BY <1>7, Request DEF AllScopesFailed, Done, Arms, SearchInv
    <2>2. failed /\ failed' = failed
      BY <1>7, <2>1 DEF AllScopesFailed, Answered, Thorough
    <2> QED
      BY <1>7, <2>2 DEF AllScopesFailed, Answered, NoAnswer, Told
  <1>8. ASSUME NEW a, Answered(a), a.ok, a.cut \/ a.next = NextOf(a.total) PROVE Told'
    <2>1. UNCHANGED <<ask, offset, size, exact>> /\ answer' = a /\ shown' = shown \union a.shown
          /\ phase' = "answered"
      BY <1>8 DEF Answered
    <2> QED
      BY <1>4, <1>8, <2>1 DEF Told
  <1>9. CASE AnswerPage
    <2>1. PICK up \in BOOLEAN : Answered(Page(up))
      BY <1>9 DEF AnswerPage
    <2> QED
      BY <1>8, <2>1, AnswerFields DEF NextOf
  <1>10. CASE AnswerCut
    <2>1. PICK up \in BOOLEAN, upto \in First(Total) .. Last(Total) : Answered(CutAt(up, upto))
      BY <1>10 DEF AnswerCut
    <2> QED
      BY <1>8, <2>1, AnswerFields
  <1> QED
    BY <1>2, <1>3, <1>6, <1>7, <1>9, <1>10 DEF Next

\* The rows that compare equal to none have one place in the ranking.
LEMMA UntiedPosition ==
  ASSUME SearchTypeOK, NEW m \in Possible, ~Tied(m), NEW up \in BOOLEAN, NEW down \in BOOLEAN
  PROVE  Position(m, AllRows, Best, up) = Position(m, AllRows, Best, down)
  <1>1. Honest(AllRows) /\ Matches(AllRows) = Possible /\ Possible \subseteq Match
    BY RowsOfScope, PossibleIsFinite
  <1>2. ASSUME NEW x \in Possible, Stratum(x) = Stratum(m),
               PathRank[PathOf(x, AllRows)] = PathRank[PathOf(m, AllRows)],
               LineOf[x[2]] = LineOf[m[2]]
        PROVE  x = m
    <2>1. /\ PathOf(x, AllRows) \in Names /\ FileOf[PathOf(x, AllRows)] = x[1]
          /\ PathOf(m, AllRows) \in Names /\ FileOf[PathOf(m, AllRows)] = m[1]
      BY <1>1, PathOfIs
    <2>2. PathOf(x, AllRows) = PathOf(m, AllRows)
      BY <1>2, <2>1, SearchAssumption
    <2>3. x[1] = m[1] /\ x \in Match /\ m \in Match
      BY <1>1, <2>1, <2>2
    <2>4. x[3] \in BOOLEAN /\ m[3] \in BOOLEAN
      BY <2>3 DEF Match
    <2>5. x[3] = m[3]
      BY <1>2, <2>4 DEF Stratum
    <2> QED
      BY <1>2, <2>3, <2>5 DEF Tied
  <1>3. m[2] \in Nat
    BY <1>1, WalkAssumption DEF Match
  <1>4. \A x \in Possible : Ahead(x, m, AllRows, Best, up) <=> Ahead(x, m, AllRows, Best, down)
    BY <1>2, <1>3 DEF Ahead
  <1> QED
    BY <1>1, <1>4 DEF Position

Steadily == ask.paged /\ ask.start = 0 /\ steady /\ Plain /\ Undisputed /\ SameOrder

\* Whatever lies before the page the client asks for, has been shown.
Behind ==
    Steadily => \A m \in Possible, up \in BOOLEAN :
                  ~Tied(m) /\ Position(m, AllRows, Best, up) < offset => m \in shown

\* An uncut answer shows what lies up to the next page.
LEMMA Advanced ==
  ASSUME SearchInv, PageIsSlice, Told, Onward, Behind, Steadily,
         phase \in {"answered", "finished"}, answer.ok, ~answer.cut, exact,
         NEW m \in Possible, ~Tied(m), NEW up \in BOOLEAN,
         Position(m, AllRows, Best, up) < Last(answer.total)
  PROVE  m \in shown
  <1>1. /\ SearchTypeOK /\ answer.exact = exact /\ offset \in Nat /\ calm /\ size \in Nat
        /\ answer.shown \subseteq shown /\ answer.total \in Nat
    <2>1. SearchTypeOK /\ answer.exact = exact /\ answer.total = Total /\ answer.shown \subseteq shown
      BY DEF SearchInv, AnswerKnown, Told
    <2>2. offset \in Int /\ offset >= 0 /\ calm /\ size \in Nat
      BY <2>1 DEF SearchTypeOK, Onward, Steadily
    <2> QED
      BY <2>1, <2>2, FiniteTotals
  <1>2. PICK dir \in BOOLEAN :
          LET from == First(answer.total)
          IN  answer.shown = Ranked(AllRows, Best, from, from + size, dir)
    BY <1>1 DEF PageIsSlice, Answering, Steadily
  <1>3. /\ Position(m, AllRows, Best, dir) = Position(m, AllRows, Best, up)
        /\ Position(m, AllRows, Best, dir) \in Nat /\ m \in Matches(AllRows)
    BY <1>1, UntiedPosition, Ranks, RowsOfScope
  <1>4. CASE Position(m, AllRows, Best, dir) < offset
    BY <1>4 DEF Behind
  <1>5. CASE ~(Position(m, AllRows, Best, dir) < offset)
    <2>1. /\ First(answer.total) <= Position(m, AllRows, Best, dir)
          /\ Position(m, AllRows, Best, dir) < First(answer.total) + size
      BY <1>1, <1>3, <1>5 DEF First, Last, Least
    <2> QED
      BY <1>1, <1>2, <1>3, <2>1 DEF Ranked
  <1> QED
    BY <1>4, <1>5

LEMMA BehindSame ==
  ASSUME Behind, ask' = ask, offset' = offset, shown \subseteq shown',
         steady' => steady /\ recent' = recent
  PROVE  Behind'
  <1>1. SUFFICES ASSUME Steadily'
                 PROVE  \A m \in Possible', up \in BOOLEAN :
                          ~Tied(m)' /\ Position(m, AllRows', Best', up) < offset => m \in shown'
    BY DEF Behind
  <1>2. /\ AllRows' = AllRows /\ Best' = Best /\ Possible' = Possible /\ Steadily
        /\ \A m : Tied(m)' = Tied(m)
    BY <1>1, SameScopes, SameBest DEF Steadily, Tied
  <1> QED
    BY <1>2 DEF Behind

LEMMA BehindSteps ==
  ASSUME SearchInv, PageIsSlice, Thorough, Told, Onward, Behind, [Next]_allVars
  PROVE  Behind'
  <1>1. CASE Begin
    BY <1>1, BehindSame DEF Begin
  <1>2. CASE \E s \in Scopes : SearchScope(s) \/ ScopeFails(s)
    BY <1>2, BehindSame DEF SearchScope, ScopeFails
  <1>3. CASE WalkOn \/ UNCHANGED allVars
    BY <1>3, BehindSame DEF WalkOn, allVars, clientVars
  <1>9. CASE EndDefinitions \/ Finish
    BY <1>9, BehindSame DEF EndDefinitions, Finish
  <1>10. ASSUME NEW R, NEW c, EndWalk(R, c) PROVE Behind'
    BY <1>10, BehindSame DEF EndWalk
  <1>4. CASE EndUsages \/ EndCallers \/ EndContent
    BY <1>4, <1>10 DEF EndUsages, EndCallers, EndContent
  <1>5. CASE AllScopesFailed \/ AnswerPage \/ AnswerCut
    <2>1. PICK a : Answered(a)
      BY <1>5 DEF AllScopesFailed, AnswerPage, AnswerCut
    <2> QED
      BY <2>1, BehindSame DEF Answered
  <1>6. CASE \E f \in Files : Age(f)
    BY <1>6, BehindSame DEF Age
  <1>7. CASE FollowNext
    <2>1. /\ UNCHANGED <<ask, recent, steady, shown>> /\ offset' = answer.next
          /\ phase = "answered" /\ answer.next # NoPage /\ SearchTypeOK
      BY <1>7 DEF FollowNext, Again, SearchInv
    <2>2. answer.ok /\ answer.exact /\ exact /\ ~answer.cut
      BY <2>1 DEF Told, SearchTypeOK, SearchInv, AnswerKnown
    <2>3. answer.next = Last(answer.total)
      BY <2>1, <2>2 DEF Told, NextOf
    <2>4. /\ AllRows' = AllRows /\ Best' = Best /\ Possible' = Possible /\ Steadily' = Steadily
          /\ \A m : Tied(m)' = Tied(m)
      BY <2>1, SameScopes, SameBest DEF Steadily, Tied
    <2>5. SUFFICES ASSUME Steadily, NEW m \in Possible, NEW up \in BOOLEAN, ~Tied(m),
                          Position(m, AllRows, Best, up) < Last(answer.total)
                   PROVE  m \in shown
      BY <2>1, <2>3, <2>4 DEF Behind
    <2> QED
      BY <2>1, <2>2, <2>5, Advanced
  <1>8. CASE RetrySmaller
    BY <1>8, BehindSame DEF RetrySmaller, Again
  <1> QED
    BY <1>1, <1>2, <1>3, <1>4, <1>5, <1>6, <1>7, <1>8, <1>9 DEF Next

LEMMA AllIsShown ==
  ASSUME SearchInv, PageIsSlice, Thorough, Told, Onward, Behind
  PROVE  NothingSkipped
  <1>1. SUFFICES ASSUME phase = "finished", Steadily, ~failed, ~answer.cut, NEW m \in Certain, ~Tied(m)
                 PROVE  m \in shown
    BY DEF NothingSkipped, Steadily
  <1>2. exact /\ answer.ok /\ answer.next = NoPage /\ SearchTypeOK
    BY <1>1 DEF Thorough, Told, Steadily, SearchInv
  <1>3. Certain = Possible /\ Cardinality(Possible) \in Nat
    BY <1>1, <1>2, PossibleAreCounted DEF Steadily
  <1>4. answer.total = Cardinality(Possible) /\ answer.exact
    <2>1. ask.kind \in {"symbol", "content"} /\ answer.exact
      BY <1>1, <1>2, Request, SearchAssumption DEF Steadily, SearchTypeOK, SearchInv, AnswerKnown
    <2>2. EstimateIsTrue
      BY ExactIsTrue
    <2>3. CASE ask.kind = "symbol"
      <3>1. Matches(rows) = Possible /\ answer.total = Cardinality(Matches(rows))
        BY <1>1, <1>2, <1>3, <2>1, <2>2, <2>3 DEF EstimateIsTrue, Answering
      <3> QED
        BY <2>1, <3>1
    <2>4. CASE ask.kind = "content"
      BY <1>1, <1>2, <1>3, <2>1, <2>2, <2>4 DEF EstimateIsTrue, Answering
    <2> QED
      BY <2>1, <2>3, <2>4
  <1>5. Last(answer.total) \in Nat /\ answer.total \in Nat
    BY <1>1, <1>2, PageBounds, FiniteTotals DEF SearchInv, AnswerKnown
  <1>6. Last(answer.total) >= answer.total
    BY <1>1, <1>2, <1>5, SearchAssumption DEF Told, NextOf, Steadily
  <1>7. PICK up \in BOOLEAN : TRUE
    OBVIOUS
  <1>8. Position(m, AllRows, Best, up) \in Nat /\ Position(m, AllRows, Best, up) < Last(answer.total)
    BY <1>2, <1>3, <1>4, <1>5, <1>6, Ranks
  <1> QED
    BY <1>1, <1>2, <1>3, <1>8, Advanced

\* A client that begins at the first row and follows the answers has seen, at
\* the end, every match that compares equal to no other, unless a scope failed,
\* a file aged, or a single row was cut; for any names, links, scopes, scores
\* and page sizes.
THEOREM PagingSkipsNothing == Spec => []NothingSkipped
  <1> DEFINE Inv == Untiring /\ Thorough /\ Told /\ Onward /\ Behind
  <1>1. SearchInit => Inv
    <2> SUFFICES ASSUME SearchInit PROVE Inv
      OBVIOUS
    <2>1. SearchInv
      BY InitKnown
    <2>2. Untiring /\ Thorough /\ Told /\ Onward
      BY WalkAssumption DEF SearchInit, WalkInit, Untiring, OncePerName, Thorough, Told, Onward
    <2>3. Behind
      BY <2>1, Ranks DEF SearchInit, Behind, Steadily, SearchInv
    <2> QED
      BY <2>2, <2>3
  <1>2. SearchInv /\ PageIsSlice /\ Inv /\ [Next]_allVars => Inv'
    BY UntiringSteps, ThoroughSteps, ToldSteps, OnwardSteps, BehindSteps
  <1>3. SearchInv /\ PageIsSlice /\ Inv => NothingSkipped
    BY AllIsShown
  <1> HIDE DEF Inv
  <1> QED
    BY <1>1, <1>2, <1>3, SearchInvariant, PagesAreSlices, PTL DEF Spec
=============================================================================
