--------------------------- MODULE FileCachesProofs ---------------------------
(***************************************************************************)
(* Proofs about FileCaches, for any number of readers and writes.          *)
(*                                                                         *)
(* Exactness is not inductive: it speaks of the present time only, and a   *)
(* stale entry may become anything by the next write.  What every step     *)
(* keeps is an order: the text behind an entry is never older than the     *)
(* time the entry bears, because the time was taken first.  The basename   *)
(* lookup takes them the other way round, and keeps the order only while   *)
(* no write came between (~raced).  Of what goes by the time Epoch nothing *)
(* is known, and no file bears it.                                         *)
(***************************************************************************)
EXTENDS FileCaches, TLAPS

\* A text v is at least as new as time, and exists.
Since(time, v) == v \in Nat /\ time <= v /\ v <= version

EntryOrdered(k) ==
    entry[k] # Nil /\ (k = "outlines" => ~raced) =>
      \/ entry[k].mtime = Epoch
      \/ Since(entry[k].mtime, entry[k].version)
      \/ k # "filters" /\ entry[k].version = Nil

\* Inside which cache a reader is.
HolderKnown ==
    \A k \in Caches, r \in Readers :
      holder[k] = r => pc[r] \in {"entered", "computed"} /\ CacheOf(r) = k

\* Which paths lead to each place.
PathKnown(r) ==
    /\ pc[r] = "stated" => kind[r] \in {"view", "bloom"}
    /\ pc[r] = "text" => kind[r] = "basename"
    /\ pc[r] = "missed" => kind[r] = "bloom"
    /\ pc[r] \in {"entered", "computed"} => kind[r] # "bloom"

\* What the reader knows of the times and texts it saw.
ReaderOrdered(r) ==
    /\ asked[r] <= version
    /\ pc[r] # "idle" => answer[r] = NoAnswer
    /\ pc[r] \notin {"idle", "text"} /\ statted[r] # Epoch =>
         statted[r] <= mtime /\ (kind[r] # "basename" => statted[r] = asked[r])
    /\ pc[r] \in {"ready", "entered", "missed"} /\ kind[r] \in {"view", "bloom"} =>
         text[r] \in Nat /\ (statted[r] # Epoch => Since(statted[r], text[r]))
    /\ pc[r] \in {"text", "ready", "entered"} /\ kind[r] = "basename" =>
         text[r] \in Nat /\ text[r] <= version
    /\ pc[r] \in {"ready", "entered"} /\ kind[r] = "basename" /\ ~raced
       /\ statted[r] # Epoch =>
         Since(statted[r], text[r])
    /\ pc[r] = "computed" /\ (kind[r] = "basename" => ~raced) /\ statted[r] # Epoch =>
         Since(statted[r], text[r]) \/ text[r] = Nil

\* What its last answer says.
AnswerSound(r) ==
    /\ answer[r].verdict = "served" /\ answer[r].version # Nil
       /\ answer[r].time # Epoch /\ ~raced
       => answer[r].version >= asked[r]
    /\ answer[r].verdict = "absent" /\ answer[r].version \in Indexed /\ answer[r].time # Epoch
       => version # asked[r]

IInv == /\ TypeOK /\ version = mtime /\ HolderKnown
        /\ \A k \in Caches : EntryOrdered(k)
        /\ \A r \in Readers : PathKnown(r) /\ ReaderOrdered(r) /\ AnswerSound(r)

Types == /\ TypeOK /\ HolderKnown
         /\ \A r \in Readers : PathKnown(r)

-----------------------------------------------------------------------------

LEMMA InitIInv == Init => IInv
  <1> SUFFICES ASSUME Init PROVE IInv
    OBVIOUS
  <1> USE ReadersAssumption DEF Init
  <1>1. TypeOK /\ HolderKnown
    BY DEF TypeOK, HolderKnown, Caches, Kinds, Version, Time, Answer, NoAnswer, CacheOf
  <1>2. version = mtime /\ \A k \in Caches : EntryOrdered(k)
    BY DEF EntryOrdered
  <1>3. \A r \in Readers : PathKnown(r) /\ ReaderOrdered(r) /\ AnswerSound(r)
    BY DEF PathKnown, ReaderOrdered, AnswerSound, NoAnswer
  <1> QED
    BY <1>1, <1>2, <1>3 DEF IInv

\* Every step keeps the types, the locks and the places.
LEMMA TypesStep ==
  ASSUME Types, [Next]_vars
  PROVE  Types'
  <1> USE ReadersAssumption
      DEF Types, TypeOK, HolderKnown, PathKnown, Caches, Kinds, Entry, Version, Time,
          Answer, NoAnswer, CacheOf, fileVars
  <1>1. CASE Write
    BY <1>1 DEF Write
  <1>2. ASSUME NEW r \in Readers, Stat(r) PROVE Types'
    BY <1>2 DEF Stat, Times, Begin, Goto
  <1>3. ASSUME NEW r \in Readers, ReadText(r) PROVE Types'
    BY <1>3 DEF ReadText, Goto
  <1>4. ASSUME NEW r \in Readers, ReadFirst(r) PROVE Types'
    BY <1>4 DEF ReadFirst, Begin, Goto
  <1>5. ASSUME NEW r \in Readers, StatAfterRead(r) PROVE Types'
    BY <1>5 DEF StatAfterRead, Times, Goto
  <1>6. ASSUME NEW r \in Readers, Enter(r) PROVE Types'
    BY <1>6 DEF Enter, Goto
  <1>7. ASSUME NEW r \in Readers, Hit(r) PROVE Types'
    BY <1>7 DEF Hit, Served, Return, Goto, Unlock, Fresh
  <1>8. ASSUME NEW r \in Readers, Compute(r) PROVE Types'
    BY <1>8 DEF Compute, Source, Goto
  <1>9. ASSUME NEW r \in Readers, Fill(r) PROVE Types'
    BY <1>9 DEF Fill, Served, Return, Goto, Unlock
  <1>10. ASSUME NEW r \in Readers, ParseFails(r) PROVE Types'
    BY <1>10 DEF ParseFails, Return, Goto, Unlock
  <1>11. ASSUME NEW r \in Readers, QueryCached(r) PROVE Types'
    BY <1>11 DEF QueryCached, Claims, Return, Goto, Fresh
  <1>12. ASSUME NEW r \in Readers, MissFilter(r) PROVE Types'
    BY <1>12 DEF MissFilter, Goto
  <1>13. ASSUME NEW r \in Readers, InsertFilter(r) PROVE Types'
    BY <1>13 DEF InsertFilter, Claims, Return, Goto
  <1>14. CASE UNCHANGED vars
    BY <1>14 DEF vars
  <1> QED
    BY <1>1, <1>2, <1>3, <1>4, <1>5, <1>6, <1>7, <1>8, <1>9, <1>10, <1>11, <1>12,
       <1>13, <1>14 DEF Next, Step

\* A text as new as the present one is the present one.
LEMMA SinceNow ==
  ASSUME version \in Nat, NEW v, Since(version, v)
  PROVE  v = version
  BY DEF Since

\* Every step keeps the order of times and texts.
LEMMA OrderStep ==
  ASSUME IInv, [Next]_vars, Types'
  PROVE  (/\ version = mtime
          /\ \A k \in Caches : EntryOrdered(k)
          /\ \A r \in Readers : ReaderOrdered(r) /\ AnswerSound(r))'
  <1> DEFINE Ordered == /\ version = mtime
                        /\ \A k \in Caches : EntryOrdered(k)
                        /\ \A r \in Readers : ReaderOrdered(r) /\ AnswerSound(r)
  <1> SUFFICES Ordered'
    OBVIOUS
  <1> USE ReadersAssumption
      DEF IInv, TypeOK, HolderKnown, PathKnown, ReaderOrdered, AnswerSound, EntryOrdered,
          Since, Caches, Kinds, Entry, Version, Time, Answer, NoAnswer, CacheOf, fileVars
  <1>1. CASE Write
    BY <1>1 DEF Write
  <1>2. ASSUME NEW r \in Readers, Stat(r) PROVE Ordered'
    BY <1>2 DEF Stat, Times, Begin, Goto
  <1>3. ASSUME NEW r \in Readers, ReadText(r) PROVE Ordered'
    BY <1>3 DEF ReadText, Goto
  <1>4. ASSUME NEW r \in Readers, ReadFirst(r) PROVE Ordered'
    BY <1>4 DEF ReadFirst, Begin, Goto
  <1>5. ASSUME NEW r \in Readers, StatAfterRead(r) PROVE Ordered'
    <2>1. PICK t \in Times(kind[r]) :
            /\ statted' = [statted EXCEPT ![r] = t]
            /\ raced' = (raced \/ (t # Epoch /\ text[r] # version))
      BY <1>5 DEF StatAfterRead
    <2>2. /\ pc[r] = "text" /\ pc' = [pc EXCEPT ![r] = "ready"]
          /\ UNCHANGED <<version, mtime, entry, kind, asked, text, answer>>
          /\ t = mtime \/ t = Epoch
      BY <1>5, <2>1 DEF StatAfterRead, Goto, Times
    <2>3. (~raced' => ~raced) /\ (~raced' /\ t # Epoch => text[r] = version)
      BY <2>1, Zenon
    <2>4. version' = mtime' /\ \A k \in Caches : EntryOrdered(k)'
      BY <2>2, <2>3
    <2>5. ReaderOrdered(r)'
      BY <2>1, <2>2, <2>3
    <2>6. \A q \in Readers \ {r} : ReaderOrdered(q)'
      BY <2>1, <2>2, <2>3
    <2>7. \A q \in Readers : AnswerSound(q)'
      <3>1. UNCHANGED <<version, asked, answer>>
        BY <2>2
      <3>2. \A q \in Readers : AnswerSound(q)
        BY DEF IInv
      <3> QED
        BY <2>3, <3>1, <3>2
    <2> HIDE DEF EntryOrdered, ReaderOrdered, AnswerSound
    <2> QED
      BY <2>4, <2>5, <2>6, <2>7
  <1>6. ASSUME NEW r \in Readers, Enter(r) PROVE Ordered'
    BY <1>6 DEF Enter, Goto
  <1>7. ASSUME NEW r \in Readers, Hit(r) PROVE Ordered'
    <2>1. /\ CacheOf(r) \in Caches /\ entry[CacheOf(r)] # Nil
          /\ entry[CacheOf(r)].mtime = statted[r]
      BY <1>7 DEF Hit, Fresh
    <2>2. /\ answer' = [answer EXCEPT ![r] =
                         [verdict |-> Served(r), version |-> entry[CacheOf(r)].version,
                          time |-> statted[r]]]
          /\ pc' = [pc EXCEPT ![r] = "idle"]
          /\ kind' = [kind EXCEPT ![r] = "parse"]
          /\ statted' = [statted EXCEPT ![r] = Epoch]
          /\ text' = [text EXCEPT ![r] = Nil]
          /\ UNCHANGED <<version, mtime, entry, asked, raced>>
          /\ pc[r] = "entered"
      BY <1>7 DEF Hit, Return, Goto
    <2>3. ~raced /\ Served(r) = "served" /\ statted[r] # Epoch
          /\ entry[CacheOf(r)].version # Nil
            => entry[CacheOf(r)].version >= asked[r]
      BY <2>1, <2>2 DEF Served
    <2>4. version' = mtime' /\ \A k \in Caches : EntryOrdered(k)'
      BY <2>2
    <2>5. \A q \in Readers : ReaderOrdered(q)'
      BY <2>2
    <2>6. AnswerSound(r)'
      BY <2>2, <2>3 DEF Served
    <2>7. \A q \in Readers \ {r} : AnswerSound(q)'
      BY <2>2
    <2> QED
      BY <2>4, <2>5, <2>6, <2>7
  <1>8. ASSUME NEW r \in Readers, Compute(r) PROVE Ordered'
    BY <1>8 DEF Compute, Source, Goto
  <1>9. ASSUME NEW r \in Readers, Fill(r) PROVE Ordered'
    BY <1>9 DEF Fill, Served, Return, Goto, Unlock
  <1>10. ASSUME NEW r \in Readers, ParseFails(r) PROVE Ordered'
    BY <1>10 DEF ParseFails, Return, Goto, Unlock
  <1>11. ASSUME NEW r \in Readers, QueryCached(r) PROVE Ordered'
    <2>1. /\ entry["filters"] # Nil /\ entry["filters"].mtime = statted[r]
          /\ statted[r] # Epoch =>
               Since(statted[r], entry["filters"].version) /\ Since(statted[r], text[r])
      BY <1>11 DEF QueryCached, Fresh
    <2>2. PICK a \in Claims(entry["filters"].version) :
            answer' = [answer EXCEPT ![r] =
                         [verdict |-> a, version |-> text[r],
                          time |-> statted[r]]]
      BY <1>11 DEF QueryCached, Return
    <2>3. /\ pc' = [pc EXCEPT ![r] = "idle"]
          /\ kind' = [kind EXCEPT ![r] = "parse"]
          /\ statted' = [statted EXCEPT ![r] = Epoch]
          /\ text' = [text EXCEPT ![r] = Nil]
          /\ UNCHANGED <<version, mtime, entry, asked, raced>>
          /\ statted[r] # Epoch => statted[r] = asked[r]
      BY <1>11 DEF QueryCached, Return, Goto
    <2>4. a # "served" /\ (a = "absent" => entry["filters"].version \notin Indexed)
      BY <2>2 DEF Claims
    <2>5. a = "absent" /\ text[r] \in Indexed /\ statted[r] # Epoch => version # asked[r]
      <3>1. ASSUME version = asked[r], statted[r] # Epoch
            PROVE  text[r] = entry["filters"].version
        <4>1. version \in Nat /\ statted[r] = version
          BY <2>3, <3>1
        <4>2. Since(version, entry["filters"].version) /\ Since(version, text[r])
          BY <2>1, <3>1, <4>1
        <4> QED
          BY <4>1, <4>2, SinceNow
      <3> QED
        BY <2>4, <3>1
    <2>6. version' = mtime' /\ \A k \in Caches : EntryOrdered(k)'
      BY <2>3
    <2>7. \A q \in Readers : ReaderOrdered(q)'
      BY <2>2, <2>3
    <2>8. AnswerSound(r)'
      <3>1. answer'[r] = [verdict |-> a, version |-> text[r], time |-> statted[r]]
        BY <2>2
      <3>2. /\ answer'[r].verdict = a /\ answer'[r].version = text[r]
            /\ answer'[r].time = statted[r]
        BY <3>1
      <3>3. version' = version /\ asked' = asked
        BY <2>3
      <3>4. answer'[r].verdict # "served"
        BY <2>4, <3>2
      <3>5. answer'[r].verdict = "absent" /\ answer'[r].version \in Indexed
            /\ answer'[r].time # Epoch => version' # asked'[r]
        BY <2>5, <3>2, <3>3
      <3> QED
        BY <3>4, <3>5
    <2>9. \A q \in Readers \ {r} : AnswerSound(q)'
      BY <2>2, <2>3
    <2> QED
      BY <2>6, <2>7, <2>8, <2>9
  <1>12. ASSUME NEW r \in Readers, MissFilter(r) PROVE Ordered'
    BY <1>12 DEF MissFilter, Goto
  <1>13. ASSUME NEW r \in Readers, InsertFilter(r) PROVE Ordered'
    BY <1>13 DEF InsertFilter, Claims, Return, Goto
  <1>14. CASE UNCHANGED vars
    BY <1>14 DEF vars
  <1> QED
    BY <1>1, <1>2, <1>3, <1>4, <1>5, <1>6, <1>7, <1>8, <1>9, <1>10, <1>11, <1>12,
       <1>13, <1>14 DEF Next, Step

\* The strengthened invariant: times are never newer than the texts behind them.
THEOREM Invariant == Spec => []IInv
  <1>1. Init => IInv
    BY InitIInv
  <1>2. IInv /\ [Next]_vars => IInv'
    <2> SUFFICES ASSUME IInv, [Next]_vars PROVE IInv'
      OBVIOUS
    <2>1. Types'
      BY TypesStep DEF IInv, Types
    <2> QED
      BY <2>1, OrderStep DEF IInv, Types
  <1> QED
    BY <1>1, <1>2, PTL DEF Spec

\* Every variable keeps its type, and a shard is locked exactly by the reader
\* inside it.
THEOREM TypeCorrect == Spec => []TypeOK
  <1>1. IInv => TypeOK
    BY DEF IInv
  <1> QED
    BY <1>1, Invariant, PTL

\* The order of times and texts makes an entry of the present time exact.
LEMMA OrderedIsExact ==
  ASSUME IInv, NEW k \in Caches, k = "outlines" => ~raced
  PROVE  Exact(k)
  BY ReadersAssumption
     DEF IInv, TypeOK, EntryOrdered, Since, Exact, Fresh, Entry, Version, Time

\* Whatever threads fill the parse cache while the file is written, a parse
\* that bears the file's time is of the file's content.
THEOREM ParsesAreExact == Spec => []ParsesExact
  <1>1. IInv => ParsesExact
    BY OrderedIsExact DEF ParsesExact, Caches
  <1> QED
    BY <1>1, Invariant, PTL

\* The same of filters, whose lookup and insert are two steps.
THEOREM FiltersAreExact == Spec => []FiltersExact
  <1>1. IInv => FiltersExact
    BY OrderedIsExact DEF FiltersExact, Caches
  <1> QED
    BY <1>1, Invariant, PTL

\* The same of outlines, up to the first basename lookup that loses its race.
THEOREM OutlinesAreExactUnlessRaced == Spec => []OutlinesExactUnlessRaced
  <1>1. IInv => OutlinesExactUnlessRaced
    BY OrderedIsExact DEF OutlinesExactUnlessRaced, OutlinesExact, Caches
  <1> QED
    BY <1>1, Invariant, PTL

\* No request is given a parse, outline or view older than itself.
THEOREM NothingOlderThanRequest == Spec => []NeverOlderThanRequest
  <1>1. IInv => NeverOlderThanRequest
    BY DEF IInv, AnswerSound, NeverOlderThanRequest
  <1> QED
    BY <1>1, Invariant, PTL

\* A filter misses a symbol only of a file that is being written.
THEOREM MissesNeedWrites == Spec => []FalseNegativeNeedsWrite
  <1>1. IInv => FalseNegativeNeedsWrite
    BY DEF IInv, AnswerSound, FalseNegativeNeedsWrite
  <1> QED
    BY <1>1, Invariant, PTL
=============================================================================
