--------------------------- MODULE SessionProofs ---------------------------
(***************************************************************************)
(* Proofs about Session, for any set of calls, definitions and files.      *)
(*                                                                         *)
(* A stub is written when the record of a definition carries the time in   *)
(* hand, so everything rests on what a record says (Recorded): that a call *)
(* rendered the body, then or later, or that a grok dated its text wrongly.*)
(* A search dates the text before it reads it and a grok after it, which   *)
(* is what Dated keeps; a grok that was told the body is known records it  *)
(* again, which is why InHand speaks of a time between the two.            *)
(***************************************************************************)
EXTENDS Session, FiniteSetTheorems, TLAPS

Known(k, t) == Shows(rendered, k, t) \/ <<k, t>> \in misdated

\* A search knows a time no later than its text, a grok one no earlier.
Dated(c) ==
    /\ line[c] \in {"ask", "read", "record"} => time[c] = Never \/ time[c] <= Modified(c)
    /\ line[c] = "record" => time[c] = Never \/ time[c] <= text[c]
    /\ line[c] \in {"resolve", "claimStat", "claim", "restat", "mark", "delegate"}
         => text[c] <= Modified(c)
    /\ line[c] = "claim" => time[c] # Never
    /\ line[c] \in {"claim", "mark"} =>
         time[c] = Never \/ (text[c] <= time[c] /\ time[c] <= Modified(c))

\* What an answer holds has been rendered.
Held == \A c \in Calls : bodies[c] \subseteq rendered

Recorded == \A k \in Keys : expanded[k] # Never => Known(k, expanded[k])

\* After the claim a grok's body is known at a time between its text's and
\* the one it has asked for since.
InHand(c) ==
    line[c] \in {"restat", "mark"} =>
      \E t \in Versions :
        /\ text[c] <= t /\ t <= Modified(c) /\ Known(key[c], t)
        /\ line[c] = "mark" => time[c] = Never \/ t <= time[c]

\* While a file is as it was, a big body that was claimed is recorded.
Claimed ==
    ~cleared =>
      \A k \in Keys : version[FileOf[k]] = 0 =>
        /\ \A c \in Calls : <<c, k>> \in inlined => expanded[k] = 0
        /\ \A c, d \in Calls : <<c, k>> \in inlined /\ <<d, k>> \in inlined => c = d

SessionIInv ==
    /\ TypeOK
    /\ Held
    /\ \A c \in Calls : Dated(c)
    /\ Recorded
    /\ WithheldWasRendered
    /\ \A c \in Calls : InHand(c)
    /\ Claimed

-----------------------------------------------------------------------------

LEMMA VersionsAreNumbers ==
  /\ Versions \subseteq Nat /\ Never \in Nat /\ Never \notin Versions
  /\ \A k \in Keys : FileOf[k] \in Files
  BY SessionAssumption DEF Versions, Never, Files

LEMMA SessionInit == Init => SessionIInv
  <1> SUFFICES ASSUME Init PROVE SessionIInv
    OBVIOUS
  <1>1. TypeOK /\ Held
    <2>1. 0 \in Versions
      BY SessionAssumption DEF Versions
    <2> QED
      BY <2>1 DEF Init, TypeOK, Lines, Held
  <1>2. \A c \in Calls : Dated(c) /\ InHand(c)
    BY DEF Init, Dated, InHand
  <1>3. Recorded /\ WithheldWasRendered /\ Claimed
    BY DEF Init, Recorded, WithheldWasRendered, Claimed
  <1> QED
    BY <1>1, <1>2, <1>3 DEF SessionIInv

LEMMA SessionTypeStep ==
  ASSUME SessionIInv, [Next]_vars
  PROVE  TypeOK' /\ Held'
  <1> USE VersionsAreNumbers, SessionAssumption DEF TypeOK, Lines, Held, SessionIInv
  <1>1. ASSUME NEW c \in Calls, Search(c) PROVE TypeOK' /\ Held'
    <2>1. Modified(c) \in Versions
      BY DEF Modified
    <2>2. CASE SearchStat(c)
      BY <2>1, <2>2 DEF SearchStat, Goto, Stat, past
    <2>3. CASE SearchAsk(c)
      BY <2>3 DEF SearchAsk, Goto, IsExpanded, past
    <2>4. CASE SearchRead(c)
      BY <2>1, <2>4 DEF SearchRead, Goto, past
    <2>5. CASE SearchRecord(c)
      BY <2>5 DEF SearchRecord, Goto, Inline
    <2> QED
      BY <1>1, <2>2, <2>3, <2>4, <2>5 DEF Search
  <1>2. ASSUME NEW c \in Calls, Grok(c) PROVE TypeOK' /\ Held'
    <2>1. Modified(c) \in Versions
      BY DEF Modified
    <2>2. CASE GrokRead(c)
      BY <2>1, <2>2 DEF GrokRead, Goto, past
    <2>3. CASE GrokResolve(c)
      BY <2>3 DEF GrokResolve, Goto, past
    <2>4. CASE GrokStat(c)
      BY <2>1, <2>4 DEF GrokStat, Goto, Inline
    <2>5. CASE GrokClaim(c)
      <3>1. time[c] \in Versions
        BY <2>5 DEF GrokClaim, At, Dated
      <3>2. misdated' \in SUBSET (Keys \X Versions)
        BY <2>5, <3>1 DEF GrokClaim, Misdate
      <3>3. /\ inlined' \in SUBSET (Calls \X Keys)
            /\ stubs' \in [Calls -> SUBSET (Keys \X Versions)]
        BY <2>5, <3>1 DEF GrokClaim
      <3>4. /\ bodies' \in [Calls -> SUBSET (Keys \X Versions)]
            /\ rendered' \in SUBSET (Keys \X Versions)
            /\ rendered \subseteq rendered' /\ Held'
        BY <2>5 DEF GrokClaim, Inline
      <3> QED
        BY <2>5, <3>1, <3>2, <3>3, <3>4 DEF GrokClaim, Goto
    <2>6. CASE GrokRestat(c)
      BY <2>1, <2>6 DEF GrokRestat, Goto, Stat, past
    <2>7. CASE GrokMark(c)
      <3>1. time[c] # Never => time[c] \in Versions
        OBVIOUS
      <3>2. expanded' \in [Keys -> Versions \union {Never}]
        BY <2>7, <3>1 DEF GrokMark
      <3>3. misdated' \in SUBSET (Keys \X Versions)
        BY <2>7, <3>1 DEF GrokMark, Misdate
      <3> QED
        BY <2>7, <3>2, <3>3 DEF GrokMark, Goto
    <2>8. CASE GrokDelegate(c)
      BY <2>8 DEF GrokDelegate, Goto, past
    <2> QED
      BY <1>2, <2>2, <2>3, <2>4, <2>5, <2>6, <2>7, <2>8 DEF Grok
  <1>3. ASSUME NEW c \in Calls, Answer(c) PROVE TypeOK' /\ Held'
    <2>1. 0 \in Versions
      BY DEF Versions
    <2>2. PICK kept \in SUBSET bodies[c] : delivered' = delivered \union kept
      BY <1>3 DEF Answer
    <2>3. bodies[c] \in SUBSET rendered
      OBVIOUS
    <2> QED
      BY <1>3, <2>1, <2>2, <2>3 DEF Answer, Goto
  <1>4. ASSUME NEW f \in Files, Edit(f) PROVE TypeOK' /\ Held'
    BY <1>4 DEF Edit, Versions, call, past
  <1>5. CASE ClearExpanded
    BY <1>5 DEF ClearExpanded, call, past
  <1>6. CASE UNCHANGED vars
    BY <1>6 DEF vars
  <1> QED
    BY <1>1, <1>2, <1>3, <1>4, <1>5, <1>6 DEF Next

\* Nothing that was rendered or misdated is forgotten.
LEMMA HistoryGrows ==
  ASSUME SessionIInv, [Next]_vars
  PROVE  rendered \subseteq rendered' /\ misdated \subseteq misdated'
  BY DEF Next, vars, Search, Grok, SearchStat, SearchAsk, SearchRead, SearchRecord,
         GrokRead, GrokResolve, GrokStat, GrokClaim, GrokRestat, GrokMark, GrokDelegate,
         Answer, Edit, ClearExpanded, past, Inline, Misdate

LEMMA KnownForGood ==
  ASSUME SessionIInv, [Next]_vars, NEW k, NEW t, Known(k, t)
  PROVE  Known(k, t)'
  BY HistoryGrows DEF Known, Shows

\* A call that takes no step keeps its text, its times and its place.
LEMMA OthersStay ==
  ASSUME SessionIInv, [Next]_vars, NEW d \in Calls,
         ~(Search(d) \/ Grok(d) \/ Answer(d))
  PROVE  /\ line'[d] = line[d] /\ time'[d] = time[d] /\ text'[d] = text[d]
         /\ key'[d] = key[d] /\ stubs'[d] = stubs[d]
         /\ Modified(d) <= Modified(d)' /\ Modified(d)' \in Versions
  <1> USE VersionsAreNumbers, SessionAssumption
      DEF SessionIInv, TypeOK, Modified, Versions
  <1>1. CASE \E c \in Calls : Search(c) \/ Grok(c) \/ Answer(c)
    <2>1. PICK c \in Calls : Search(c) \/ Grok(c) \/ Answer(c)
      BY <1>1
    <2>2. c # d
      BY <2>1
    <2>3. version' = version
      BY <2>1 DEF Search, Grok, SearchStat, SearchAsk, SearchRead, SearchRecord,
           GrokRead, GrokResolve, GrokStat, GrokClaim, GrokRestat, GrokMark,
           GrokDelegate, Answer
    <2>4. /\ line'[d] = line[d] /\ time'[d] = time[d] /\ text'[d] = text[d]
          /\ key'[d] = key[d] /\ stubs'[d] = stubs[d]
      BY <2>1, <2>2 DEF Search, Grok, SearchStat, SearchAsk, SearchRead, SearchRecord,
           GrokRead, GrokResolve, GrokStat, GrokClaim, GrokRestat, GrokMark,
           GrokDelegate, Answer, Goto, Stat
    <2> QED
      BY <2>3, <2>4
  <1>2. ASSUME NEW f \in Files, Edit(f)
        PROVE  /\ UNCHANGED call /\ \A g \in Files : version[g] <= version'[g] /\ version'[g] \in Versions
    BY <1>2 DEF Edit
  <1>3. CASE ClearExpanded \/ UNCHANGED vars
    BY <1>3 DEF ClearExpanded, vars, call
  <1> QED
    BY <1>1, <1>2, <1>3 DEF Next, call

\* The steps of the call itself.
LEMMA DatedStep ==
  ASSUME SessionIInv, [Next]_vars, NEW d \in Calls
  PROVE  Dated(d)'
  <1> USE VersionsAreNumbers, SessionAssumption DEF SessionIInv, TypeOK
  <1>1. CASE ~(Search(d) \/ Grok(d) \/ Answer(d))
    <2>0. Modified(d) \in Nat
      BY DEF Modified
    <2>1. /\ Modified(d) \in Nat /\ Modified(d)' \in Nat
          /\ text[d] \in Nat /\ time[d] \in Nat
      BY <1>1, <2>0, OthersStay
    <2> QED
      BY <1>1, <2>1, OthersStay DEF Dated
  <1>2. CASE Search(d)
    <2>1. /\ Modified(d) \in Nat /\ UNCHANGED <<version, key>>
      BY <1>2 DEF Modified, Search, SearchStat, SearchAsk, SearchRead, SearchRecord
    <2>2. Modified(d)' = Modified(d)
      BY <2>1 DEF Modified
    <2>3. CASE SearchStat(d)
      BY <2>1, <2>2, <2>3 DEF SearchStat, Stat, Goto, Dated
    <2>4. CASE SearchAsk(d)
      BY <2>1, <2>2, <2>4 DEF SearchAsk, At, Goto, Dated
    <2>5. CASE SearchRead(d)
      BY <2>1, <2>2, <2>5 DEF SearchRead, At, Goto, Dated
    <2>6. CASE SearchRecord(d)
      BY <2>1, <2>2, <2>6 DEF SearchRecord, At, Goto, Dated
    <2> QED
      BY <1>2, <2>3, <2>4, <2>5, <2>6 DEF Search
  <1>3. CASE Grok(d)
    <2>1. Modified(d) \in Nat
      BY DEF Modified
    <2>2. ~GrokDelegate(d) => Modified(d)' = Modified(d)
      BY <1>3 DEF Modified, Grok, GrokRead, GrokResolve, GrokStat, GrokClaim, GrokRestat, GrokMark
    <2>3. CASE GrokRead(d)
      BY <2>1, <2>2, <2>3 DEF GrokRead, Goto, Dated, GrokDelegate, At
    <2>4. CASE GrokResolve(d)
      BY <2>1, <2>2, <2>4 DEF GrokResolve, At, Goto, Dated, GrokDelegate
    <2>5. CASE GrokStat(d)
      <3>1. line[d] = "claimStat" /\ text' = text /\ Modified(d)' = Modified(d)
        BY <2>2, <2>5 DEF GrokStat, At, GrokDelegate
      <3>2. text[d] <= Modified(d)
        BY <3>1 DEF Dated
      <3>3. \/ line'[d] = "restat"
            \/ line'[d] = "claim" /\ time'[d] = Modified(d)
        BY <2>5 DEF GrokStat, Goto
      <3>4. Modified(d) # Never
        BY DEF Modified
      <3> QED
        BY <2>1, <3>1, <3>2, <3>3, <3>4 DEF Dated
    <2>6. CASE GrokClaim(d)
      BY <2>1, <2>2, <2>6 DEF GrokClaim, At, Goto, Dated, GrokDelegate
    <2>7. CASE GrokRestat(d)
      BY <2>1, <2>2, <2>7 DEF GrokRestat, Stat, At, Goto, Dated, GrokDelegate
    <2>8. CASE GrokMark(d)
      BY <2>1, <2>2, <2>8 DEF GrokMark, At, Goto, Dated, GrokDelegate
    <2>9. CASE GrokDelegate(d)
      <3>1. CASE line'[d] = "answer"
        BY <3>1 DEF Dated
      <3>2. CASE line'[d] # "answer"
        <4>1. line'[d] = "claimStat" /\ version' = version
          BY <2>9, <3>2 DEF GrokDelegate, Goto
        <4>2. PICK k \in Keys : /\ key' = [key EXCEPT ![d] = k]
                                /\ text' = [text EXCEPT ![d] = IF FileOf[k] = FileOf[key[d]] THEN @ ELSE version[FileOf[k]]]
          BY <2>9, <3>2 DEF GrokDelegate, Goto
        <4>3. text[d] <= version[FileOf[key[d]]]
          BY <2>9 DEF GrokDelegate, At, Dated, Modified
        <4>4. text'[d] <= version'[FileOf[key'[d]]]
          <5>1. version[FileOf[k]] \in Nat
            OBVIOUS
          <5> QED
            BY <4>1, <4>2, <4>3, <5>1
        <4> QED
          BY <4>1, <4>4 DEF Dated, Modified
      <3> QED
        BY <3>1, <3>2
    <2> QED
      BY <1>3, <2>3, <2>4, <2>5, <2>6, <2>7, <2>8, <2>9 DEF Grok
  <1>4. CASE Answer(d)
    BY <1>4 DEF Answer, Goto, Dated
  <1> QED
    BY <1>1, <1>2, <1>3, <1>4

\* The records are written by three steps, each for the call's key and time.
LEMMA RecordOf ==
  ASSUME SessionIInv, [Next]_vars
  PROVE  \/ expanded' = expanded
         \/ expanded' = [k \in Keys |-> Never] /\ cleared'
         \/ \E c \in Calls :
              /\ SearchRecord(c) \/ GrokClaim(c) \/ GrokMark(c)
              /\ time[c] # Never
              /\ expanded' = [expanded EXCEPT ![key[c]] = time[c]]
  <1> USE DEF SessionIInv
  <1>1. ASSUME NEW c \in Calls, Search(c) \/ Grok(c) \/ Answer(c),
               ~SearchRecord(c), ~GrokClaim(c), ~GrokMark(c)
        PROVE  expanded' = expanded
    BY <1>1 DEF Search, Grok, SearchStat, SearchAsk, SearchRead, GrokRead, GrokResolve,
                GrokStat, GrokRestat, GrokDelegate, Answer
  <1>2. ASSUME NEW c \in Calls, SearchRecord(c) \/ GrokMark(c)
        PROVE  \/ expanded' = expanded
               \/ time[c] # Never /\ expanded' = [expanded EXCEPT ![key[c]] = time[c]]
    BY <1>2 DEF SearchRecord, GrokMark
  <1>3. ASSUME NEW c \in Calls, GrokClaim(c)
        PROVE  time[c] # Never /\ expanded' = [expanded EXCEPT ![key[c]] = time[c]]
    BY <1>3 DEF GrokClaim, At, Dated
  <1>4. CASE ClearExpanded
    BY <1>4 DEF ClearExpanded
  <1>5. CASE UNCHANGED vars \/ \E f \in Files : Edit(f)
    BY <1>5 DEF vars, Edit
  <1> QED
    BY <1>1, <1>2, <1>3, <1>4, <1>5 DEF Next

LEMMA NewRecordKnown ==
  ASSUME SessionIInv, [Next]_vars, NEW c \in Calls, NEW k, NEW t,
         SearchRecord(c) \/ GrokClaim(c) \/ GrokMark(c),
         k = key[c], t = time[c], t # Never
  PROVE  Known(k, t)'
  <1> USE VersionsAreNumbers DEF SessionIInv
  <1>1. k \in Keys /\ t \in Versions /\ text[c] \in Versions
    BY DEF TypeOK
  <1>2. CASE SearchRecord(c)
    <2>1. PICK v \in Versions : v >= t /\ <<k, v>> \in rendered'
      BY <1>1, <1>2 DEF SearchRecord, At, Dated, Inline
    <2> QED
      BY <2>1 DEF Known, Shows
  <1>3. CASE GrokClaim(c)
    <2>1. CASE IsExpanded(c)
      <3>1. Known(k, t)
        BY <1>3, <2>1 DEF IsExpanded, Recorded, TypeOK
      <3> QED
        BY <3>1, KnownForGood
    <2>2. CASE ~IsExpanded(c) /\ t = text[c]
      <3>1. <<k, t>> \in rendered' /\ t >= t
        BY <1>1, <1>3, <2>2 DEF GrokClaim, Inline
      <3> QED
        BY <1>1, <3>1 DEF Known, Shows
    <2>3. CASE ~IsExpanded(c) /\ t # text[c]
      BY <1>3, <2>3 DEF GrokClaim, Misdate, Known
    <2> QED
      BY <2>1, <2>2, <2>3
  <1>4. CASE GrokMark(c)
    <2>1. CASE t = text[c]
      <3>1. PICK u \in Versions : text[c] <= u /\ u <= time[c] /\ Known(key[c], u)
        BY <1>4 DEF GrokMark, At, InHand, TypeOK
      <3>2. u = t
        BY <1>1, <2>1, <3>1, SessionAssumption DEF Versions
      <3>3. Known(k, t)
        BY <3>1, <3>2
      <3> QED
        BY <3>3, KnownForGood
    <2>2. CASE t # text[c]
      BY <1>4, <2>2 DEF GrokMark, Misdate, Known
    <2> QED
      BY <2>1, <2>2
  <1> QED
    BY <1>2, <1>3, <1>4

LEMMA RecordedStep ==
  ASSUME SessionIInv, [Next]_vars
  PROVE  Recorded'
  <1> SUFFICES ASSUME NEW k \in Keys, NEW t, t = expanded'[k], t # Never
               PROVE  Known(k, t)'
    BY DEF Recorded, Known
  <1>1. CASE t = expanded[k]
    <2>1. Known(k, t)
      BY <1>1 DEF SessionIInv, Recorded
    <2> QED
      BY <2>1, KnownForGood
  <1>2. ASSUME NEW c \in Calls, SearchRecord(c) \/ GrokClaim(c) \/ GrokMark(c),
               time[c] # Never, expanded' = [expanded EXCEPT ![key[c]] = time[c]],
               k = key[c]
        PROVE  Known(k, t)'
    <2>1. t = time[c]
      BY <1>2 DEF SessionIInv, TypeOK
    <2> QED
      BY <1>2, <2>1, NewRecordKnown
  <1> QED
    BY <1>1, <1>2, RecordOf DEF SessionIInv, TypeOK

\* A stub is written when the record has the time in hand.
LEMMA WithheldStep ==
  ASSUME SessionIInv, [Next]_vars
  PROVE  WithheldWasRendered'
  <1> SUFFICES ASSUME NEW c \in Calls, NEW s, s \in stubs'[c]
               PROVE  (Shows(rendered, s[1], s[2]) \/ s \in misdated)'
    BY DEF WithheldWasRendered
  <1>1. CASE s \in stubs[c]
    <2>1. Shows(rendered, s[1], s[2]) \/ s \in misdated
      BY <1>1 DEF SessionIInv, WithheldWasRendered
    <2> QED
      BY <2>1, HistoryGrows DEF Shows
  <1>2. CASE s \notin stubs[c]
    <2>1. (SearchAsk(c) \/ GrokClaim(c)) /\ IsExpanded(c) /\ s = <<key[c], time[c]>>
      <3>1. Search(c) \/ Grok(c)
        BY <1>2, OthersStay DEF Answer
      <3>2. SearchAsk(c) \/ GrokClaim(c)
        BY <1>2, <3>1 DEF Search, Grok, SearchStat, SearchRead, SearchRecord, GrokRead,
               GrokResolve, GrokStat, GrokRestat, GrokMark, GrokDelegate
      <3> QED
        BY <1>2, <3>2 DEF SearchAsk, GrokClaim, SessionIInv, TypeOK
    <2>2. Known(key[c], time[c])
      BY <2>1 DEF IsExpanded, SessionIInv, Recorded, TypeOK
    <2>3. Known(s[1], s[2]) /\ s = <<s[1], s[2]>>
      BY <2>1, <2>2
    <2> QED
      BY <2>3, HistoryGrows DEF Known, Shows
  <1> QED
    BY <1>1, <1>2

LEMMA InHandStep ==
  ASSUME SessionIInv, [Next]_vars, NEW d \in Calls
  PROVE  InHand(d)'
  <1> SUFFICES ASSUME NEW k, NEW x, k = key'[d], x = text'[d], line'[d] \in {"restat", "mark"}
               PROVE  \E t \in Versions :
                        /\ x <= t /\ t <= Modified(d)' /\ Known(k, t)'
                        /\ line'[d] = "mark" => time'[d] = Never \/ t <= time'[d]
    BY DEF InHand, Known
  <1> USE VersionsAreNumbers DEF SessionIInv
  <1>0. Modified(d) \in Nat
    BY DEF Modified, TypeOK
  <1>1. CASE ~(Search(d) \/ Grok(d) \/ Answer(d))
    <2>1. PICK t \in Versions :
            /\ text[d] <= t /\ t <= Modified(d) /\ Known(key[d], t)
            /\ line[d] = "mark" => time[d] = Never \/ t <= time[d]
      BY <1>1, OthersStay DEF InHand
    <2>2. Known(k, t)
      BY <1>1, <2>1, OthersStay
    <2>3. Known(k, t)'
      BY <2>2, KnownForGood
    <2>4. t <= Modified(d)' /\ x <= t
      <3>1. /\ Modified(d)' \in Nat /\ Modified(d) <= Modified(d)'
            /\ x = text[d]
        BY <1>1, OthersStay
      <3> QED
        BY <1>0, <2>1, <3>1, SessionAssumption DEF Versions
    <2> QED
      BY <1>1, <2>1, <2>3, <2>4, OthersStay
  <1>2. CASE GrokStat(d) \/ (GrokClaim(d) /\ ~IsExpanded(d))
    <2>1. /\ x = text[d] /\ x \in Versions /\ key' = key /\ version' = version
          /\ <<k, x>> \in rendered' /\ line'[d] = "restat"
      <3>1. CASE GrokStat(d)
        BY <3>1 DEF GrokStat, Inline, Goto, TypeOK
      <3>2. CASE GrokClaim(d) /\ ~IsExpanded(d)
        BY <3>2 DEF GrokClaim, Inline, Goto, TypeOK
      <3> QED
        BY <1>2, <3>1, <3>2
    <2>2. x <= Modified(d)'
      BY <1>2, <2>1 DEF Dated, GrokStat, GrokClaim, At, Modified
    <2>3. Known(k, x)' /\ x <= x
      <3>1. x <= x /\ x >= x
        BY <2>1, SessionAssumption DEF Versions
      <3> QED
        BY <2>1, <3>1 DEF Known, Shows
    <2> QED
      BY <2>1, <2>2, <2>3
  <1>3. CASE GrokClaim(d) /\ IsExpanded(d)
    <2>1. /\ x = text[d] /\ k = key[d] /\ line'[d] = "restat"
          /\ key' = key /\ version' = version
      BY <1>3 DEF GrokClaim, Goto, TypeOK
    <2>2. PICK t \in Versions : t = time[d]
      BY <1>3 DEF IsExpanded, TypeOK
    <2>3. x <= t /\ t <= Modified(d)'
      BY <1>3, <2>1, <2>2 DEF GrokClaim, At, Dated, Modified
    <2>4. Known(k, t)
      BY <1>3, <2>1, <2>2 DEF IsExpanded, Recorded, TypeOK
    <2>5. Known(k, t)'
      BY <2>4, KnownForGood
    <2> QED
      BY <2>1, <2>3, <2>5
  <1>4. CASE GrokRestat(d)
    <2>1. PICK t \in Versions : text[d] <= t /\ t <= Modified(d) /\ Known(key[d], t)
      BY <1>4 DEF GrokRestat, At, InHand
    <2>2. /\ x = text[d] /\ k = key[d] /\ Modified(d)' = Modified(d)
          /\ time'[d] \in {Modified(d), Never}
      BY <1>4 DEF GrokRestat, Stat, TypeOK, Modified
    <2>3. Known(k, t)'
      BY <2>1, <2>2, KnownForGood
    <2> QED
      BY <2>1, <2>2, <2>3
  <1>5. CASE Search(d) \/ Answer(d) \/ GrokRead(d) \/ GrokResolve(d) \/ GrokMark(d) \/ GrokDelegate(d)
    <2>1. line'[d] \notin {"restat", "mark"}
      BY <1>5 DEF Search, SearchStat, SearchAsk, SearchRead, SearchRecord, Answer,
             GrokRead, GrokResolve, GrokMark, GrokDelegate, Goto, TypeOK
    <2> QED
      BY <2>1
  <1> QED
    BY <1>1, <1>2, <1>3, <1>4, <1>5 DEF Grok

\* A record of an unedited file is at version 0, so a second claim loses.
LEMMA ClaimedStep ==
  ASSUME SessionIInv, [Next]_vars
  PROVE  Claimed'
  <1> SUFFICES ASSUME ~cleared', NEW k \in Keys, version'[FileOf[k]] = 0
               PROVE  /\ \A c \in Calls : <<c, k>> \in inlined' => expanded'[k] = 0
                      /\ \A c, d \in Calls :
                           <<c, k>> \in inlined' /\ <<d, k>> \in inlined' => c = d
    BY DEF Claimed
  <1> USE DEF SessionIInv
  <1>1. ~cleared /\ version[FileOf[k]] = 0
    <2>1. cleared \in BOOLEAN /\ version \in [Files -> Versions] /\ FileOf[k] \in Files
      BY VersionsAreNumbers DEF TypeOK
    <2>2. cleared' = cleared \/ cleared'
      BY DEF Next, Search, Grok, SearchStat, SearchAsk, SearchRead, SearchRecord,
           GrokRead, GrokResolve, GrokStat, GrokClaim, GrokRestat, GrokMark,
           GrokDelegate, Answer, Edit, ClearExpanded, vars
    <2>3. version' = version \/ \E f \in Files : Edit(f)
      BY DEF Next, Search, Grok, SearchStat, SearchAsk, SearchRead, SearchRecord,
           GrokRead, GrokResolve, GrokStat, GrokClaim, GrokRestat, GrokMark,
           GrokDelegate, Answer, ClearExpanded, vars
    <2>4. ASSUME NEW f \in Files, Edit(f) PROVE version[FileOf[k]] = 0
      BY <2>1, <2>4, SessionAssumption DEF Edit, Versions
    <2> QED
      BY <2>2, <2>3, <2>4
  <1>2. ASSUME NEW c \in Calls, <<c, k>> \in inlined PROVE expanded[k] = 0
    BY <1>1, <1>2 DEF Claimed
  \* Whatever is recorded for k is at version 0.
  <1>3. expanded'[k] = expanded[k] \/ expanded'[k] = 0
    <2>1. ASSUME NEW c \in Calls, SearchRecord(c) \/ GrokClaim(c) \/ GrokMark(c),
                 time[c] # Never, k = key[c]
          PROVE  time[c] = 0
      <3>1. time[c] <= Modified(c)
        BY <2>1 DEF SearchRecord, GrokClaim, GrokMark, At, Dated
      <3>2. time[c] \in Versions
        BY <2>1 DEF TypeOK
      <3> QED
        BY <1>1, <2>1, <3>1, <3>2, SessionAssumption DEF Modified, Versions
    <2> QED
      BY <1>1, <2>1, RecordOf DEF TypeOK
  <1>4. CASE inlined' = inlined
    BY <1>1, <1>2, <1>3, <1>4 DEF Claimed
  <1>5. ASSUME NEW c \in Calls, GrokClaim(c), ~IsExpanded(c)
        PROVE  /\ \A x \in Calls : <<x, k>> \in inlined' => expanded'[k] = 0
               /\ \A x, y \in Calls :
                    <<x, k>> \in inlined' /\ <<y, k>> \in inlined' => x = y
    <2>1. inlined' = inlined \union {<<c, key[c]>>}
      BY <1>5 DEF GrokClaim
    <2>2. CASE k # key[c]
      BY <1>1, <1>2, <1>3, <2>1, <2>2 DEF Claimed
    <2>3. CASE k = key[c]
      <3>1. time[c] = 0 /\ time[c] # Never
        <4>1. time[c] \in Versions /\ time[c] <= Modified(c) /\ time[c] # Never
          BY <1>5 DEF GrokClaim, At, Dated, TypeOK
        <4> QED
          BY <1>1, <2>3, <4>1, SessionAssumption DEF Modified, Versions
      <3>2. expanded[k] # 0 /\ expanded'[k] = 0
        BY <1>5, <2>3, <3>1 DEF IsExpanded, GrokClaim, TypeOK
      <3>3. \A x \in Calls : <<x, k>> \in inlined' => x = c
        BY <1>2, <2>1, <3>2
      <3> QED
        BY <3>2, <3>3
    <2> QED
      BY <2>2, <2>3
  <1>6. inlined' = inlined \/ \E c \in Calls : GrokClaim(c) /\ ~IsExpanded(c)
    BY DEF Next, Search, Grok, SearchStat, SearchAsk, SearchRead, SearchRecord,
         GrokRead, GrokResolve, GrokStat, GrokClaim, GrokRestat, GrokMark,
         GrokDelegate, Answer, Edit, ClearExpanded, vars, past
  <1> QED
    BY <1>4, <1>5, <1>6

\* What a session remembers against what its calls have rendered, for any files,
\* versions and calls: the inductive invariant of the session.
THEOREM SessionInvariant == Spec => []SessionIInv
  <1>1. SessionIInv /\ [Next]_vars => SessionIInv'
    <2> SUFFICES ASSUME SessionIInv, [Next]_vars PROVE SessionIInv'
      OBVIOUS
    <2>1. \A d \in Calls : Dated(d)' /\ InHand(d)'
      BY DatedStep, InHandStep
    <2> QED
      BY <2>1, SessionTypeStep, RecordedStep, WithheldStep, ClaimedStep DEF SessionIInv
  <1> QED
    BY <1>1, SessionInit, PTL DEF Spec

\* Session state keeps its types whatever calls run side by side.
THEOREM SessionTypeCorrect == Spec => []TypeOK
  BY SessionInvariant, PTL DEF SessionIInv

\* For any number of calls, definitions and edits, a body is withheld only if
\* a call rendered it at that version or later, or a grok had misdated it.
THEOREM StubsAreOfRenderedBodies == Spec => []WithheldWasRendered
  BY SessionInvariant, PTL DEF SessionIInv

\* However many groks of one unedited big body run at once, one inlines it.
THEOREM OneGrokClaims == Spec => []OneFullBody
  <1>1. SessionIInv => OneFullBody
    <2> SUFFICES ASSUME SessionIInv, ~cleared, NEW k \in Keys, version[FileOf[k]] = 0
                 PROVE  Cardinality({c \in Calls : <<c, k>> \in inlined}) <= 1
      BY DEF OneFullBody
    <2> DEFINE S == {c \in Calls : <<c, k>> \in inlined}
    <2>1. CASE S = {}
      <3>1. Cardinality(S) = 0
        BY <2>1, FS_EmptySet, Zenon
      <3> QED
        BY <3>1
    <2>2. CASE S # {}
      <3>1. PICK c \in Calls : <<c, k>> \in inlined
        BY <2>2
      <3>2. S = {c}
        BY <3>1 DEF SessionIInv, Claimed
      <3>3. Cardinality({c}) = 1
        BY FS_Singleton, Zenon
      <3>4. Cardinality(S) = 1
        BY <3>2, <3>3, Zenon
      <3> QED
        BY <3>4
    <2> QED
      BY <2>1, <2>2
  <1> QED
    BY <1>1, SessionInvariant, PTL
=============================================================================
