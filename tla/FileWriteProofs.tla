---------------------------- MODULE FileWriteProofs ----------------------------
(***************************************************************************)
(* Proofs about FileWrite, for any operations, processes and number of     *)
(* operations under way.                                                   *)
(*                                                                         *)
(* Until its rename an edit's text is in its own inode only, which nobody  *)
(* has open (Unpublished), so an edit that is refused leaves no trace, and *)
(* half of a replacement is nowhere to be seen (PartsHidden).  Between its *)
(* last look and its rename an edit holds what the file shows, unless the  *)
(* file has changed since (InWindow): a rename that nothing raced loses    *)
(* nothing.                                                                *)
(*                                                                         *)
(* NoLostEdit is false where three processes edit (TwoEditors): one brings *)
(* back an edit that the second dropped, and the third has not seen it.    *)
(* Of two, each edit about to publish carries what its process has in the  *)
(* file and in the other's hands (Carries), while the edits of a process   *)
(* have one guard (OneGuard).                                              *)
(***************************************************************************)
EXTENDS FileWrite, TLAPS

Refusals == {"mismatch", "stale", "missing", "error"}
BeforeRename == {"start", "lock", "read", "probe", "temp", "fill", "recheck", "rename"}

\* The steps an operation of each kind takes; that only a finished one has a
\* result, and that an edit has asked for a guard once it is under way.
Stages ==
    \A w \in Ops : /\ result[w] # "none" => pc[w] = "done"
                   /\ Kind[w] = "edit" => pc[w] \notin {"probe", "write", "rest"}
                   /\ pc[w] = "start" => key[w] = Nil
                   /\ Kind[w] = "edit" /\ pc[w] \notin {"start", "dead"} => key[w] # Nil

TempsOwned == \A w \in tmp : pc[w] \in {"fill", "recheck", "rename", "dead"}

\* Nobody has w's inode open, it has no name, and w's text is in no other.
OwnInode(w, part) ==
    /\ path # w
    /\ \A x \in Ops : fd[x] # w /\ <<w, part>> \notin snap[x]
    /\ \A i \in Inodes : <<w, part>> \in data[i] => i = w

Shown(w) == \E i \in Inodes : <<w, "part">> \in data[i]

PartsHidden ==
    \A w \in Ops : fd[w] = Nil =>
      /\ \A x \in Ops : <<w, "part">> \notin snap[x]
      /\ Shown(w) => OwnInode(w, "part") /\ pc[w] \in {"fill", "done", "dead"}

Secret(w) == pc[w] \in BeforeRename \/ (Kind[w] = "edit" /\ result[w] \in Refusals)
Unpublished == \A w \in Ops : Secret(w) => OwnInode(w, "part") /\ OwnInode(w, "whole")

InWindow ==
    \A w \in Ops : Kind[w] = "edit" =>
      /\ pc[w] \in {"recheck", "rename"} => data[w] = snap[w] \union {<<w, "whole">>}
      /\ pc[w] = "rename" /\ ~raced[w] => Visible = snap[w]

WriteIInv == TypeOK /\ Stages /\ TempsOwned /\ PartsHidden /\ Unpublished /\ InWindow

-----------------------------------------------------------------------------

LEMMA WriteInit == Init => WriteIInv
  <1> SUFFICES ASSUME Init PROVE WriteIInv
    OBVIOUS
  <1> USE DEF Init
  <1>1. TypeOK
    <2>1. data \in [Inodes -> Content]
      BY DEF Inodes, Content
    <2>2. /\ path \in Inodes \union {Nil} /\ tmp \in SUBSET Ops
          /\ guard \in SUBSET Ops /\ key \in [Ops -> Keys \union {Nil}] /\ fd \in [Ops -> Inodes \union {Nil}]
      BY DEF Inodes
    <2>3. /\ snap \in [Ops -> Content] /\ raced \in [Ops -> BOOLEAN]
          /\ \A w \in Ops : pc[w] = "start" /\ result[w] = "none"
      BY DEF Content
    <2>4. /\ pc \in [Ops -> {"start", "lock", "read", "temp", "fill", "recheck", "rename",
                            "report", "probe", "write", "rest", "done", "dead"}]
          /\ result \in [Ops -> {"none", "applied", "mismatch", "stale", "exists",
                                "missing", "error", "panic"}]
      OBVIOUS
    <2> HIDE DEF Init
    <2> QED
      BY <2>1, <2>2, <2>3, <2>4 DEF TypeOK
  <1>2. \A w \in Ops, i \in Inodes : <<w, "part">> \notin data[i] /\ <<w, "whole">> \notin data[i]
    BY OpsAssumption
  <1>3. \A w \in Ops : w # Original /\ w # Nil
    BY OpsAssumption
  <1>4. Stages /\ TempsOwned /\ InWindow
    BY DEF Stages, TempsOwned, InWindow
  <1>5. PartsHidden
    BY <1>2 DEF PartsHidden, Shown
  <1>6. Unpublished
    BY <1>2, <1>3 DEF Unpublished, Secret, OwnInode
  <1> QED
    BY <1>1, <1>4, <1>5, <1>6 DEF WriteIInv

\* A step of w is of w only.
LEMMA OthersStay ==
  ASSUME TypeOK, NEW w \in Ops, Step(w)
  PROVE  /\ \A x \in Ops \ {w} : /\ pc'[x] = pc[x] /\ result'[x] = result[x]
                                 /\ snap'[x] = snap[x] /\ fd'[x] = fd[x]
                                 /\ (x \in tmp <=> x \in tmp')
         /\ \A x \in Ops : key'[x] # key[x] => x = w /\ pc[w] = "start"
         /\ pc[w] \notin {"done", "dead"}
         /\ path' \in {path, w}
         /\ \A i \in Inodes : data'[i] # data[i] => i = w \/ (i = fd[w] /\ pc[w] \in {"write", "rest"})
  <1> USE DEF TypeOK
  <1>1. CASE Lock(w)
    BY <1>1, OpsAssumption DEF Lock, Goto, Finish, Discard, Called, Written
  <1>2. CASE ReadFails(w)
    BY <1>2, OpsAssumption DEF ReadFails, Goto, Finish, Discard, Called, Written
  <1>3. CASE ReadMismatch(w)
    BY <1>3, OpsAssumption DEF ReadMismatch, Goto, Finish, Discard, Called, Written
  <1>4. CASE ReadVerified(w)
    BY <1>4, OpsAssumption DEF ReadVerified, Goto, Finish, Discard, Called, Written
  <1>5. CASE OpenTemp(w)
    BY <1>5, OpsAssumption DEF OpenTemp, Goto, Finish, Discard, Called, Written
  <1>6. CASE FillTemp(w)
    BY <1>6, OpsAssumption DEF FillTemp, Goto, Finish, Discard, Called, Written
  <1>7. CASE Recheck(w)
    BY <1>7, OpsAssumption DEF Recheck, Goto, Finish, Discard, Called, Written
  <1>8. CASE RecheckStale(w)
    BY <1>8, OpsAssumption DEF RecheckStale, Goto, Finish, Discard, Called, Written
  <1>9. CASE Rename(w)
    BY <1>9, OpsAssumption DEF Rename, Goto, Finish, Discard, Called, Written
  <1>10. CASE TempFails(w)
    BY <1>10, OpsAssumption DEF TempFails, Goto, Finish, Discard, Called, Written
  <1>11. CASE Report(w)
    BY <1>11, OpsAssumption DEF Report, Goto, Finish, Discard, Called, Written
  <1>12. CASE Panic(w)
    BY <1>12, OpsAssumption DEF Panic, Goto, Finish, Discard, Called, Written
  <1>13. CASE CreateNew(w)
    BY <1>13, OpsAssumption DEF CreateNew, Goto, Finish, Discard, Called, Written
  <1>14. CASE AlreadyExists(w)
    BY <1>14, OpsAssumption DEF AlreadyExists, Goto, Finish, Discard, Called, Written
  <1>15. CASE ReplaceExisting(w)
    BY <1>15, OpsAssumption DEF ReplaceExisting, Goto, Finish, Discard, Called, Written
  <1>16. CASE Probe(w)
    BY <1>16, OpsAssumption DEF Probe, Goto, Finish, Discard, Called, Written
  <1>17. CASE OpenAppend(w)
    BY <1>17, OpsAssumption DEF OpenAppend, Goto, Finish, Discard, Called, Written
  <1>18. CASE WriteAll(w)
    BY <1>18, OpsAssumption DEF WriteAll, Goto, Finish, Discard, Called, Written
  <1>19. CASE WritePart(w)
    BY <1>19, OpsAssumption DEF WritePart, Goto, Finish, Discard, Called, Written
  <1>20. CASE WriteFails(w)
    BY <1>20, OpsAssumption DEF WriteFails, Goto, Finish, Discard, Called, Written
  <1>21. CASE AskGuard(w)
    BY <1>21, OpsAssumption DEF AskGuard, Goto, Finish, Discard, Called, Written
  <1> QED
    BY <1>1, <1>2, <1>3, <1>4, <1>5, <1>6, <1>7, <1>8, <1>9, <1>10, <1>11, <1>12, <1>13, <1>14, <1>15, <1>16, <1>17, <1>18, <1>19, <1>20, <1>21 DEF Step

LEMMA StepTypes ==
  ASSUME WriteIInv, NEW w \in Ops, Step(w), Observe
  PROVE  TypeOK'
  <1>0. raced' \in [Ops -> BOOLEAN]
    BY DEF Observe
  <1> USE DEF WriteIInv, TypeOK
  <1>00. /\ \A i \in Inodes : data[i] \in SUBSET (Inodes \X {"whole", "part"})
         /\ \A x \in Ops : snap[x] \in SUBSET (Inodes \X {"whole", "part"}) /\ x \in Inodes
         /\ pc[w] \in {"write", "rest"} => fd[w] \in Inodes
    BY DEF Inodes, Content
  <1>1. CASE Lock(w)
    BY <1>1, <1>0, OpsAssumption DEF Lock, Goto, Finish, Discard, Called, Written, Inodes, Content
  <1>2. CASE ReadFails(w)
    BY <1>2, <1>0, OpsAssumption DEF ReadFails, Goto, Finish, Discard, Called, Written, Inodes, Content
  <1>3. CASE ReadMismatch(w)
    BY <1>3, <1>0, OpsAssumption DEF ReadMismatch, Goto, Finish, Discard, Called, Written, Inodes, Content
  <1>4. CASE ReadVerified(w)
    <2>1. snap' \in [Ops -> Content]
      BY <1>4 DEF ReadVerified
    <2> QED
      BY <1>4, <2>1, <1>0, OpsAssumption DEF ReadVerified, Goto, Finish, Called
  <1>5. CASE OpenTemp(w)
    <2>1. {<<w, "part">>} \in Content
      BY <1>5, <1>00 DEF OpenTemp, Written, Inodes, Content
    <2>2. data' \in [Inodes -> Content]
      BY <1>5, <2>1 DEF OpenTemp, Inodes
    <2> QED
      BY <1>5, <2>2, <1>0, OpsAssumption DEF OpenTemp, Goto, Finish, Called
  <1>6. CASE FillTemp(w)
    <2>1. snap[w] \union {<<w, "whole">>} \in Content
      BY <1>6, <1>00 DEF FillTemp, Written, Inodes, Content
    <2>2. data' \in [Inodes -> Content]
      BY <1>6, <2>1 DEF FillTemp, Inodes
    <2> QED
      BY <1>6, <2>2, <1>0, OpsAssumption DEF FillTemp, Goto, Finish, Called
  <1>7. CASE Recheck(w)
    BY <1>7, <1>0, OpsAssumption DEF Recheck, Goto, Finish, Discard, Called, Written, Inodes, Content
  <1>8. CASE RecheckStale(w)
    BY <1>8, <1>0, OpsAssumption DEF RecheckStale, Goto, Finish, Discard, Called, Written, Inodes, Content
  <1>9. CASE Rename(w)
    BY <1>9, <1>0, OpsAssumption DEF Rename, Goto, Finish, Discard, Called, Written, Inodes, Content
  <1>10. CASE TempFails(w)
    BY <1>10, <1>0, OpsAssumption DEF TempFails, Goto, Finish, Discard, Called, Written, Inodes, Content
  <1>11. CASE Report(w)
    BY <1>11, <1>0, OpsAssumption DEF Report, Goto, Finish, Discard, Called, Written, Inodes, Content
  <1>12. CASE Panic(w)
    BY <1>12, <1>0, OpsAssumption DEF Panic, Goto, Finish, Discard, Called, Written, Inodes, Content
  <1>13. CASE CreateNew(w)
    BY <1>13, <1>0, OpsAssumption DEF CreateNew, Goto, Finish, Discard, Called, Written, Inodes, Content
  <1>14. CASE AlreadyExists(w)
    BY <1>14, <1>0, OpsAssumption DEF AlreadyExists, Goto, Finish, Discard, Called, Written, Inodes, Content
  <1>15. CASE ReplaceExisting(w)
    BY <1>15, <1>0, OpsAssumption DEF ReplaceExisting, Goto, Finish, Discard, Called, Written, Inodes, Content
  <1>16. CASE Probe(w)
    BY <1>16, <1>0, OpsAssumption DEF Probe, Goto, Finish, Discard, Called, Written, Inodes, Content
  <1>17. CASE OpenAppend(w)
    <2>1. path' \in Inodes
      BY <1>17 DEF OpenAppend, Inodes
    <2>2. fd' \in [Ops -> Inodes \union {Nil}] /\ fd'[w] # Nil
      BY <1>17, <2>1, OpsAssumption DEF OpenAppend, Inodes
    <2> QED
      BY <1>17, <2>1, <2>2, <1>0, OpsAssumption DEF OpenAppend, Goto, Finish, Called
  <1>18. CASE WriteAll(w)
    <2>1. Written(w, "whole") \in Content
      BY <1>18, <1>00 DEF WriteAll, Written, Inodes, Content
    <2>2. data' \in [Inodes -> Content]
      BY <1>18, <2>1 DEF WriteAll, Inodes
    <2> QED
      BY <1>18, <2>2, <1>0, OpsAssumption DEF WriteAll, Goto, Finish, Called
  <1>19. CASE WritePart(w)
    <2>1. Written(w, "part") \in Content
      BY <1>19, <1>00 DEF WritePart, Written, Inodes, Content
    <2>2. data' \in [Inodes -> Content]
      BY <1>19, <2>1 DEF WritePart, Inodes
    <2> QED
      BY <1>19, <2>2, <1>0, OpsAssumption DEF WritePart, Goto, Finish, Called
  <1>20. CASE WriteFails(w)
    BY <1>20, <1>0, OpsAssumption DEF WriteFails, Goto, Finish, Discard, Called, Written, Inodes, Content
  <1>21. CASE AskGuard(w)
    BY <1>21, <1>0, OpsAssumption DEF AskGuard, Goto, Finish, Discard, Called, Written, Inodes, Content
  <1> QED
    BY <1>1, <1>2, <1>3, <1>4, <1>5, <1>6, <1>7, <1>8, <1>9, <1>10, <1>11, <1>12, <1>13, <1>14, <1>15, <1>16, <1>17, <1>18, <1>19, <1>20, <1>21 DEF Step

LEMMA StepStages ==
  ASSUME WriteIInv, NEW w \in Ops, Step(w)
  PROVE  Stages' /\ TempsOwned'
  <1> USE DEF WriteIInv, TypeOK, Stages, TempsOwned
  <1>1. CASE Lock(w)
    BY <1>1, OpsAssumption DEF Lock, Goto, Finish, Discard, Called, Written
  <1>2. CASE ReadFails(w)
    BY <1>2, OpsAssumption DEF ReadFails, Goto, Finish, Discard, Called, Written
  <1>3. CASE ReadMismatch(w)
    BY <1>3, OpsAssumption DEF ReadMismatch, Goto, Finish, Discard, Called, Written
  <1>4. CASE ReadVerified(w)
    BY <1>4, OpsAssumption DEF ReadVerified, Goto, Finish, Discard, Called, Written
  <1>5. CASE OpenTemp(w)
    BY <1>5, OpsAssumption DEF OpenTemp, Goto, Finish, Discard, Called, Written
  <1>6. CASE FillTemp(w)
    BY <1>6, OpsAssumption DEF FillTemp, Goto, Finish, Discard, Called, Written
  <1>7. CASE Recheck(w)
    BY <1>7, OpsAssumption DEF Recheck, Goto, Finish, Discard, Called, Written
  <1>8. CASE RecheckStale(w)
    BY <1>8, OpsAssumption DEF RecheckStale, Goto, Finish, Discard, Called, Written
  <1>9. CASE Rename(w)
    BY <1>9, OpsAssumption DEF Rename, Goto, Finish, Discard, Called, Written
  <1>10. CASE TempFails(w)
    BY <1>10, OpsAssumption DEF TempFails, Goto, Finish, Discard, Called, Written
  <1>11. CASE Report(w)
    BY <1>11, OpsAssumption DEF Report, Goto, Finish, Discard, Called, Written
  <1>12. CASE Panic(w)
    BY <1>12, OpsAssumption DEF Panic, Goto, Finish, Discard, Called, Written
  <1>13. CASE CreateNew(w)
    BY <1>13, OpsAssumption DEF CreateNew, Goto, Finish, Discard, Called, Written
  <1>14. CASE AlreadyExists(w)
    BY <1>14, OpsAssumption DEF AlreadyExists, Goto, Finish, Discard, Called, Written
  <1>15. CASE ReplaceExisting(w)
    BY <1>15, OpsAssumption DEF ReplaceExisting, Goto, Finish, Discard, Called, Written
  <1>16. CASE Probe(w)
    BY <1>16, OpsAssumption DEF Probe, Goto, Finish, Discard, Called, Written
  <1>17. CASE OpenAppend(w)
    BY <1>17, OpsAssumption DEF OpenAppend, Goto, Finish, Discard, Called, Written
  <1>18. CASE WriteAll(w)
    BY <1>18, OpsAssumption DEF WriteAll, Goto, Finish, Discard, Called, Written
  <1>19. CASE WritePart(w)
    BY <1>19, OpsAssumption DEF WritePart, Goto, Finish, Discard, Called, Written
  <1>20. CASE WriteFails(w)
    BY <1>20, OpsAssumption DEF WriteFails, Goto, Finish, Discard, Called, Written
  <1>21. CASE AskGuard(w)
    <2>1. \A x \in Ops : key'[x] = IF x = w THEN key'[w] ELSE key[x]
      BY <1>21 DEF AskGuard
    <2>2. key'[w] # Nil
      <3>1. Canonical # Nil /\ Spelled[w] # Nil
        BY OpsAssumption
      <3>2. key'[w] \in {Canonical, Spelled[w]}
        BY <1>21 DEF AskGuard
      <3> QED
        BY <3>1, <3>2
    <2> QED
      BY <1>21, <2>1, <2>2 DEF AskGuard, Goto, Called
  <1> QED
    BY <1>1, <1>2, <1>3, <1>4, <1>5, <1>6, <1>7, <1>8, <1>9, <1>10, <1>11, <1>12, <1>13, <1>14, <1>15, <1>16, <1>17, <1>18, <1>19, <1>20, <1>21 DEF Step

-----------------------------------------------------------------------------
(* Where an operation's text is.                                           *)

\* A step that touches no file.
QuietStep(w) ==
    /\ UNCHANGED <<path, data, snap, fd>>
    /\ pc[w] = "fill" => pc'[w] = "done"
    /\ pc'[w] \in BeforeRename => pc[w] \in BeforeRename
    /\ result'[w] \in Refusals /\ Kind[w] = "edit" => pc[w] \in BeforeRename
    /\ pc'[w] \in {"recheck", "rename"} => pc[w] = "recheck" /\ Unchanged(w)
    /\ Kind[w] = "edit" => pc'[w] \notin {"temp", "fill"}

LEMMA QuietSteps ==
  ASSUME WriteIInv, NEW w \in Ops, Step(w)
  PROVE  \/ QuietStep(w) \/ ReadVerified(w) \/ OpenTemp(w) \/ FillTemp(w) \/ Rename(w)
         \/ CreateNew(w) \/ OpenAppend(w) \/ WriteAll(w) \/ WritePart(w)
  <1> USE DEF WriteIInv, TypeOK, Stages, QuietStep, BeforeRename, Refusals
  <1>1. CASE Lock(w)
    BY <1>1 DEF Lock, Goto, Finish, Discard, Called
  <1>2. CASE ReadFails(w)
    BY <1>2 DEF ReadFails, Goto, Finish, Discard, Called
  <1>3. CASE ReadMismatch(w)
    BY <1>3 DEF ReadMismatch, Goto, Finish, Discard, Called
  <1>4. CASE Recheck(w)
    BY <1>4 DEF Recheck, Goto, Finish, Discard, Called
  <1>5. CASE RecheckStale(w)
    BY <1>5 DEF RecheckStale, Goto, Finish, Discard, Called
  <1>6. CASE TempFails(w)
    BY <1>6 DEF TempFails, Goto, Finish, Discard, Called
  <1>7. CASE Report(w)
    BY <1>7 DEF Report, Goto, Finish, Discard, Called
  <1>8. CASE Panic(w)
    BY <1>8 DEF Panic, Goto, Finish, Discard, Called
  <1>9. CASE AlreadyExists(w)
    BY <1>9 DEF AlreadyExists, Goto, Finish, Discard, Called
  <1>10. CASE ReplaceExisting(w)
    BY <1>10 DEF ReplaceExisting, Goto, Finish, Discard, Called
  <1>11. CASE Probe(w)
    <2>1. pc[w] = "probe" /\ Kind[w] # "edit" /\ UNCHANGED <<path, data, snap, fd>>
      BY <1>11 DEF Probe
    <2>2. pc'[w] \in {"done", "temp"}
      BY <1>11 DEF Probe, Goto, Finish
    <2> QED
      BY <2>1, <2>2
  <1>12. CASE WriteFails(w)
    BY <1>12 DEF WriteFails, Goto, Finish, Discard, Called
  <1>13. CASE AskGuard(w)
    BY <1>13 DEF AskGuard, Goto, Finish, Discard, Called
  <1> QED
    BY <1>1, <1>2, <1>3, <1>4, <1>5, <1>6, <1>7, <1>8, <1>9, <1>10, <1>11, <1>12, <1>13 DEF Step

\* Of an inode that is x's own: only x gives it a name or changes it.
LEMMA OwnStays ==
  ASSUME WriteIInv, NEW w \in Ops, Step(w), NEW x \in Ops, x # w,
         NEW part \in {"part", "whole"}, OwnInode(x, part)
  PROVE  OwnInode(x, part)'
  <1> USE DEF WriteIInv, TypeOK, OwnInode, Inodes
  <1>1. CASE QuietStep(w)
    BY <1>1 DEF QuietStep
  <1>2. CASE ReadVerified(w)
    BY <1>2 DEF ReadVerified
  <1>3. CASE OpenTemp(w)
    BY <1>3 DEF OpenTemp
  <1>4. CASE FillTemp(w)
    BY <1>4 DEF FillTemp
  <1>5. CASE Rename(w)
    BY <1>5 DEF Rename
  <1>6. CASE CreateNew(w)
    BY <1>6 DEF CreateNew
  <1>7. CASE OpenAppend(w)
    BY <1>7 DEF OpenAppend
  <1>8. CASE WriteAll(w)
    BY <1>8 DEF WriteAll, Written
  <1>9. CASE WritePart(w)
    BY <1>9 DEF WritePart, Written
  <1> QED
    BY <1>1, <1>2, <1>3, <1>4, <1>5, <1>6, <1>7, <1>8, <1>9, QuietSteps

LEMMA SecretIsOwn ==
  ASSUME WriteIInv, NEW w \in Ops, Secret(w)
  PROVE  OwnInode(w, "part") /\ OwnInode(w, "whole")
  BY DEF WriteIInv, Unpublished

LEMMA PartsStep ==
  ASSUME WriteIInv, NEW w \in Ops, Step(w)
  PROVE  PartsHidden'
  <1> USE DEF WriteIInv, TypeOK, Inodes
  <1> SUFFICES ASSUME NEW x \in Ops, fd'[x] = Nil
               PROVE  /\ \A y \in Ops : <<x, "part">> \notin snap'[y]
                      /\ Shown(x)' => OwnInode(x, "part")' /\ pc'[x] \in {"fill", "done", "dead"}
    BY DEF PartsHidden
  <1>1. fd[x] = Nil
    <2>1. CASE x = w
      <3>1. pc[w] \notin {"write", "rest"} \/ fd[w] # Nil
        OBVIOUS
      <3> QED
        BY <2>1, QuietSteps, OpsAssumption
           DEF QuietStep, ReadVerified, OpenTemp, FillTemp, Rename, CreateNew, OpenAppend, WriteAll, WritePart
    <2> QED
      BY <2>1, OthersStay
  <1>2. /\ \A y \in Ops : <<x, "part">> \notin snap[y]
        /\ Shown(x) => OwnInode(x, "part") /\ pc[x] \in {"fill", "done", "dead"}
    BY <1>1 DEF PartsHidden
  \* What an edit reads shows no part of a replacement.
  <1>3. path # Nil => <<x, "part">> \notin data[path]
    BY <1>2 DEF Shown, OwnInode
  <1>4. \A y \in Ops : <<x, "part">> \notin snap'[y]
    <2>1. CASE ReadVerified(w)
      BY <1>2, <1>3, <2>1 DEF ReadVerified
    <2>2. CASE snap' = snap
      BY <1>2, <2>2
    <2> QED
      BY <2>1, <2>2, QuietSteps
         DEF QuietStep, OpenTemp, FillTemp, Rename, CreateNew, OpenAppend, WriteAll, WritePart
  <1>5. CASE x # w
    <2>1. Shown(x)' => Shown(x)
      <3>1. CASE data' = data
        BY <3>1 DEF Shown
      <3>2. CASE OpenTemp(w)
        BY <1>5, <3>2 DEF OpenTemp, Shown
      <3>3. CASE FillTemp(w)
        BY <1>2, <1>5, <3>3 DEF FillTemp, Shown
      <3>4. CASE WriteAll(w)
        BY <1>5, <3>4 DEF WriteAll, Written, Shown
      <3>5. CASE WritePart(w)
        BY <1>5, <3>5 DEF WritePart, Written, Shown
      <3> QED
        BY <3>1, <3>2, <3>3, <3>4, <3>5, QuietSteps
           DEF QuietStep, ReadVerified, Rename, CreateNew, OpenAppend
    <2>2. pc'[x] = pc[x]
      BY <1>5, OthersStay
    <2>3. ASSUME Shown(x)' PROVE OwnInode(x, "part")' /\ pc'[x] \in {"fill", "done", "dead"}
      <3>1. OwnInode(x, "part") /\ pc[x] \in {"fill", "done", "dead"}
        BY <1>2, <2>1, <2>3
      <3>2. OwnInode(x, "part")'
        BY <1>5, <3>1, OwnStays
      <3> QED
        BY <2>2, <3>1, <3>2
    <2> QED
      BY <1>4, <2>3
  <1>6. CASE x = w
    <2>1. pc[w] \notin {"done", "dead"}
      BY OthersStay
    <2>2. CASE QuietStep(w)
      BY <1>2, <1>6, <2>1, <2>2 DEF QuietStep, Shown, OwnInode
    <2>3. CASE OpenTemp(w)
      <3>1. OwnInode(w, "part")
        BY <2>3, SecretIsOwn DEF OpenTemp, Secret, BeforeRename
      <3>2. pc'[w] = "fill"
        BY <2>3 DEF OpenTemp, Goto
      <3>3. OwnInode(w, "part")'
        BY <2>3, <3>1 DEF OpenTemp, OwnInode
      <3> QED
        BY <1>4, <1>6, <3>2, <3>3
    <2>4. CASE FillTemp(w)
      <3>1. OwnInode(w, "part")
        BY <2>4, SecretIsOwn DEF FillTemp, Secret, BeforeRename
      <3>2. ~Shown(w)'
        BY <1>2, <1>6, <2>4, <3>1 DEF FillTemp, OwnInode, Shown
      <3> QED
        BY <1>4, <1>6, <3>2
    <2>5. CASE ReadVerified(w) \/ Rename(w)
      BY <1>2, <1>4, <1>6, <2>5 DEF ReadVerified, Rename, Shown
    <2>6. CASE CreateNew(w) \/ OpenAppend(w) \/ WriteAll(w) \/ WritePart(w)
      <3>1. fd'[w] # Nil
        BY <2>6, OpsAssumption DEF CreateNew, OpenAppend, WriteAll, WritePart
      <3> QED
        BY <1>6, <3>1
    <2> QED
      BY <2>2, <2>3, <2>4, <2>5, <2>6, QuietSteps
  <1> QED
    BY <1>5, <1>6

LEMMA UnpublishedStep ==
  ASSUME WriteIInv, NEW w \in Ops, Step(w)
  PROVE  Unpublished'
  <1> USE DEF WriteIInv, TypeOK, Inodes
  <1> SUFFICES ASSUME NEW x \in Ops, Secret(x)'
               PROVE  OwnInode(x, "part")' /\ OwnInode(x, "whole")'
    BY DEF Unpublished
  <1>1. CASE x # w
    <2>1. Secret(x)
      BY <1>1, OthersStay DEF Secret
    <2> QED
      BY <1>1, <2>1, SecretIsOwn, OwnStays
  <1>2. CASE x = w
    <2>1. result[w] = "none"
      BY OthersStay DEF Stages
    <2>2. pc'[w] \in BeforeRename \/ (Kind[w] = "edit" /\ result'[w] \in Refusals)
      BY <1>2 DEF Secret
    <2>3. CASE QuietStep(w)
      <3>1. Secret(w)
        BY <2>2, <2>3 DEF QuietStep, Secret
      <3>2. OwnInode(w, "part") /\ OwnInode(w, "whole")
        BY <3>1, SecretIsOwn
      <3> QED
        BY <1>2, <2>3, <3>2 DEF QuietStep, OwnInode
    <2>4. ASSUME pc[w] \in BeforeRename PROVE OwnInode(w, "part") /\ OwnInode(w, "whole")
      BY <2>4, SecretIsOwn DEF Secret
    <2>5. CASE ReadVerified(w)
      BY <1>2, <2>4, <2>5 DEF ReadVerified, OwnInode, BeforeRename
    <2>6. CASE OpenTemp(w)
      BY <1>2, <2>4, <2>6 DEF OpenTemp, OwnInode, BeforeRename
    <2>7. CASE FillTemp(w)
      BY <1>2, <2>4, <2>7 DEF FillTemp, OwnInode, BeforeRename
    <2>8. CASE Rename(w) \/ CreateNew(w) \/ OpenAppend(w) \/ WritePart(w)
      <3>1. pc'[w] \in {"report", "write", "rest"} /\ result' = result
        BY <2>8 DEF Rename, CreateNew, OpenAppend, WritePart, Goto
      <3> QED
        BY <2>1, <2>2, <3>1 DEF BeforeRename, Refusals
    <2>9. CASE WriteAll(w)
      <3>1. pc'[w] = "done" /\ result'[w] = "applied"
        BY <2>9 DEF WriteAll, Finish, Goto
      <3> QED
        BY <2>2, <3>1 DEF BeforeRename, Refusals
    <2> QED
      BY <2>3, <2>5, <2>6, <2>7, <2>8, <2>9, QuietSteps
  <1> QED
    BY <1>1, <1>2

LEMMA WindowStep ==
  ASSUME WriteIInv, NEW w \in Ops, Step(w), Observe
  PROVE  InWindow'
  <1> USE DEF WriteIInv, TypeOK, Inodes
  <1> SUFFICES ASSUME NEW x \in Ops, Kind[x] = "edit", pc'[x] \in {"recheck", "rename"}
               PROVE  /\ data'[x] = snap'[x] \union {<<x, "whole">>}
                      /\ pc'[x] = "rename" /\ ~raced'[x] => Visible' = snap'[x]
    BY DEF InWindow
  <1>1. CASE x # w
    <2>1. pc'[x] = pc[x] /\ snap'[x] = snap[x]
      BY <1>1, OthersStay
    <2>2. data'[x] = data[x]
      <3>1. OwnInode(x, "whole")
        BY <2>1, SecretIsOwn DEF Secret, BeforeRename
      <3> QED
        BY <1>1, <3>1, OthersStay DEF OwnInode
    <2>3. pc'[x] = "rename" /\ ~raced'[x] => ~raced[x] /\ Visible' = Visible
      BY <2>1 DEF Observe
    <2> QED
      BY <2>1, <2>2, <2>3 DEF InWindow
  <1>2. CASE x = w
    <2>1. CASE QuietStep(w)
      <3>1. pc[w] = "recheck" /\ Unchanged(w) /\ UNCHANGED <<path, data, snap>>
        BY <1>2, <2>1 DEF QuietStep
      <3> QED
        BY <1>2, <3>1 DEF InWindow, Unchanged, Visible
    <2>2. CASE FillTemp(w)
      <3>1. pc'[w] = "recheck" /\ data'[w] = snap[w] \union {<<w, "whole">>} /\ snap' = snap
        BY <1>2, <2>2 DEF FillTemp, Goto
      <3> QED
        BY <1>2, <3>1
    <2>3. CASE ReadVerified(w) \/ OpenTemp(w) \/ Rename(w) \/ CreateNew(w) \/ OpenAppend(w)
      BY <1>2, <2>3 DEF ReadVerified, OpenTemp, Rename, CreateNew, OpenAppend, Goto
    <2>4. CASE WriteAll(w) \/ WritePart(w)
      BY <1>2, <2>4 DEF WriteAll, WritePart, Finish, Goto
    <2> QED
      BY <2>1, <2>2, <2>3, <2>4, QuietSteps
  <1> QED
    BY <1>1, <1>2

-----------------------------------------------------------------------------

\* Which inode every writer works on and who may still touch a temporary file,
\* for any processes and operations: the inductive invariant of the writes.
THEOREM WriteInvariant == Spec => []WriteIInv
  <1>1. Init => WriteIInv
    BY WriteInit
  <1>2. WriteIInv /\ [Next]_vars => WriteIInv'
    <2> SUFFICES ASSUME WriteIInv, [Next]_vars PROVE WriteIInv'
      OBVIOUS
    <2> USE DEF WriteIInv
    <2>1. ASSUME NEW w \in Ops, Step(w), Observe PROVE WriteIInv'
      BY <2>1, StepTypes, StepStages, PartsStep, UnpublishedStep, WindowStep
    \* A crash ends operations where they are.
    <2>2. ASSUME NEW p \in Procs, Crash(p), Observe PROVE WriteIInv'
      <3>1. /\ UNCHANGED <<path, data, tmp, key, snap, fd, result>>
            /\ pc' \in [Ops -> {"start", "lock", "read", "temp", "fill", "recheck", "rename",
                                "report", "probe", "write", "rest", "done", "dead"}]
            /\ guard' \in SUBSET Ops
            /\ \A x \in Ops : pc'[x] = pc[x] \/ (pc'[x] = "dead" /\ pc[x] # "done")
            /\ raced' \in [Ops -> BOOLEAN]
        BY <2>2 DEF Crash, Observe, TypeOK
      <3>2. TypeOK'
        BY <3>1 DEF TypeOK
      <3>3. Stages' /\ TempsOwned'
        BY <3>1 DEF Stages, TempsOwned, TypeOK
      <3>4. /\ \A x \in Ops : Shown(x)' = Shown(x) /\ (Secret(x)' => Secret(x))
            /\ \A x \in Ops : \A part \in {"part", "whole"} : OwnInode(x, part)' = OwnInode(x, part)
        BY <3>1 DEF Shown, Secret, OwnInode, BeforeRename
      <3>5. PartsHidden' /\ Unpublished'
        BY <3>1, <3>4 DEF PartsHidden, Unpublished
      <3>6. InWindow'
        <4>1. Visible' = Visible
          BY <3>1 DEF Visible
        <4> QED
          BY <2>2, <3>1, <4>1 DEF InWindow, Observe
      <3> QED
        BY <3>2, <3>3, <3>5, <3>6
    <2>3. ASSUME Remove, Observe PROVE WriteIInv'
      <3>1. path' = Nil /\ UNCHANGED <<data, tmp, key, guard, pc, snap, fd, result>>
        BY <2>3 DEF Remove
      <3>2. raced' \in [Ops -> BOOLEAN]
        BY <2>3, <3>1 DEF Observe, TypeOK
      <3>3. TypeOK' /\ Stages' /\ TempsOwned'
        BY <3>1, <3>2 DEF TypeOK, Stages, TempsOwned
      <3>4. \A x \in Ops : /\ Shown(x)' = Shown(x) /\ Secret(x)' = Secret(x)
                           /\ OwnInode(x, "part") => OwnInode(x, "part")'
                           /\ OwnInode(x, "whole") => OwnInode(x, "whole")'
        BY <3>1, OpsAssumption DEF Shown, Secret, OwnInode
      <3>5. PartsHidden' /\ Unpublished'
        BY <3>1, <3>4 DEF PartsHidden, Unpublished
      <3>6. InWindow'
        BY <2>3, <3>1 DEF InWindow, Observe
      <3> QED
        BY <3>3, <3>5, <3>6
    <2>4. CASE UNCHANGED vars
      <3>1. \A x \in Ops : /\ Shown(x)' = Shown(x) /\ Secret(x)' = Secret(x)
                           /\ OwnInode(x, "part")' = OwnInode(x, "part")
                           /\ OwnInode(x, "whole")' = OwnInode(x, "whole")
        BY <2>4 DEF vars, Shown, Secret, OwnInode
      <3>2. TypeOK' /\ Stages' /\ TempsOwned' /\ InWindow'
        BY <2>4 DEF vars, TypeOK, Stages, TempsOwned, InWindow, Visible
      <3> QED
        BY <2>4, <3>1, <3>2 DEF vars, PartsHidden, Unpublished
    <2> QED
      BY <2>1, <2>2, <2>3, <2>4 DEF Next
  <1> QED
    BY <1>1, <1>2, PTL DEF Spec

\* Types, and that only an edit reads and rechecks (edit.rs), and a write goes
\* to a file that was opened (write.rs).
THEOREM WriteTypeCorrect == Spec => []TypeOK
  BY WriteInvariant, PTL DEF WriteIInv

\* The file never shows part of a replacement, whatever crashes.
THEOREM ReplacementsAreWhole == Spec => []WholeReplacement
  <1>1. WriteIInv => WholeReplacement
    BY DEF WriteIInv, TypeOK, PartsHidden, Shown, OwnInode, WholeReplacement, Visible
  <1> QED
    BY <1>1, WriteInvariant, PTL

\* An operation that ended, with whatever result, left no temporary file.
THEOREM NoTempIsLeft == Spec => []NoTempLeft
  <1>1. WriteIInv => NoTempLeft
    BY DEF WriteIInv, TempsOwned, NoTempLeft
  <1> QED
    BY <1>1, WriteInvariant, PTL

\* The text of an edit that reported failure is not in the file.
THEOREM RefusedEditsLeaveNoTrace == Spec => []RefusedEditLeavesNoTrace
  <1>1. WriteIInv => RefusedEditLeavesNoTrace
    <2> SUFFICES ASSUME WriteIInv, NEW w \in Ops, Kind[w] = "edit", result[w] \in Refusals
                 PROVE  path # w /\ \A part \in {"whole", "part"} : <<w, part>> \notin Visible
      BY DEF RefusedEditLeavesNoTrace, Refusals
    <2>1. OwnInode(w, "part") /\ OwnInode(w, "whole")
      BY SecretIsOwn DEF Secret
    <2> QED
      BY <2>1 DEF OwnInode, Visible, WriteIInv, TypeOK
  <1> QED
    BY <1>1, WriteInvariant, PTL

\* A rename wipes out only what came between the edit's last look and it.
THEOREM OnlyTheWindowLoses == Spec => LossOnlyInWindow
  <1> DEFINE Step1 == \A w \in Ops : Publishes(w) /\ ~(Visible \subseteq Visible') => raced[w]
  <1>1. WriteIInv /\ [Next]_vars => [Step1]_vars
    <2> SUFFICES ASSUME WriteIInv, Next, NEW w \in Ops, Publishes(w), ~raced[w]
                 PROVE  Visible \subseteq Visible'
      BY Zenon
    <2>1. Kind[w] = "edit" /\ pc[w] = "rename" /\ path' = w
      BY DEF Publishes
    <2>2. Visible = snap[w] /\ data[w] = snap[w] \union {<<w, "whole">>}
      BY <2>1 DEF WriteIInv, InWindow
    <2>3. OwnInode(w, "whole") /\ w # Nil /\ w \in Inodes
      BY <2>1, SecretIsOwn, OpsAssumption DEF Secret, BeforeRename, Inodes
    <2>4. data'[w] = data[w]
      <3>1. ASSUME NEW x \in Ops, Step(x) PROVE data'[w] = data[w]
        <4>1. CASE x # w
          BY <2>3, <3>1, <4>1, OthersStay DEF OwnInode, WriteIInv
        <4>2. CASE x = w
          BY <2>1, <2>3, <3>1, <4>2, QuietSteps
             DEF QuietStep, ReadVerified, OpenTemp, FillTemp, Rename, CreateNew, OpenAppend, Called,
                 WriteAll, WritePart, OwnInode
        <4> QED
          BY <4>1, <4>2
      <3> QED
        BY <3>1 DEF Next, Crash, Remove
    <2> QED
      BY <2>1, <2>2, <2>3, <2>4 DEF Visible
  <1> QED
    BY <1>1, WriteInvariant, PTL DEF Spec, LossOnlyInWindow

-----------------------------------------------------------------------------
(* Edits of at most two processes.                                         *)

Edits == {w \in Ops : Kind[w] = "edit"}

\* Edits are made in at most two processes.
TwoEditors ==
    \A x, y, z \in Edits : Proc[x] = Proc[y] \/ Proc[y] = Proc[z] \/ Proc[x] = Proc[z]

Holding == {"read", "temp", "fill", "recheck", "rename", "report"}

\* An edit under way holds its guard, which no other holds, and what it read was
\* not written anew.
GuardHeld ==
    /\ \A w \in Edits :
         /\ pc[w] \in Holding => w \in guard
         /\ pc[w] \in {"temp", "fill", "recheck", "rename"} => <<Original, "whole">> \in snap[w]
    /\ \A w \in guard : key[w] # Nil /\ \A x \in guard : SameGuard(w, x) => x = w

\* What is written anew, or by an append, is not the original and not an edit.
NothingOld(S) == \A o \in Edits \union {Original} : <<o, "whole">> \notin S
WrittenAnew == \A u \in Ops \ Edits : snap[u] = {} /\ NothingOld(data[u])

Publishing == {w \in Edits : pc[w] = "rename"}

\* About to publish, an edit carries what its process has in the file; what it
\* carries of another's is in the file, unless that was written anew; and what
\* two such edits carry of the first one's process, the first one carries.
Carries ==
    \A w \in Publishing, e \in Edits :
      /\ Proc[e] = Proc[w] /\ <<e, "whole">> \in Visible => <<e, "whole">> \in snap[w]
      /\ Proc[e] # Proc[w] /\ <<e, "whole">> \in snap[w] /\ <<Original, "whole">> \in Visible
           => <<e, "whole">> \in Visible
      /\ \A x \in Publishing : Proc[e] = Proc[w] /\ <<e, "whole">> \in snap[x]
                                 => <<e, "whole">> \in snap[w]

CarryIInv == GuardHeld /\ WrittenAnew /\ (OneGuard => Carries)

LEMMA CarryInit == Init => CarryIInv
  <1> SUFFICES ASSUME Init PROVE CarryIInv
    OBVIOUS
  <1>1. GuardHeld /\ Carries
    BY DEF Init, GuardHeld, Holding, Carries, Publishing, Edits
  <1>2. WrittenAnew
    BY OpsAssumption DEF Init, WrittenAnew, NothingOld, Edits, Inodes
  <1> QED
    BY <1>1, <1>2 DEF CarryIInv

LEMMA GuardStep ==
  ASSUME WriteIInv, GuardHeld, NEW w \in Ops, Step(w)
  PROVE  GuardHeld'
  <1> USE DEF WriteIInv, TypeOK, Stages
  <1>1. /\ \A x \in Edits : x \in Ops /\ Kind[x] = "edit"
        /\ \A x \in Edits \ {w} : pc'[x] = pc[x] /\ snap'[x] = snap[x]
        /\ pc[w] = "lock" => key[w] # Nil
        /\ \A x \in guard : x \in Ops /\ key'[x] = key[x]
    BY OthersStay DEF GuardHeld, Edits
  \* The guard is taken by one that finds it free, and given back at the end.
  <1>2. \/ guard' = guard /\ (pc'[w] \in Holding => pc[w] \in Holding \/ w \notin Edits)
        \/ guard' = guard \ {w} /\ pc'[w] = "done"
        \/ Lock(w)
    <2>1. CASE ReadFails(w) \/ ReadMismatch(w) \/ RecheckStale(w) \/ TempFails(w) \/ Report(w) \/ Panic(w)
                 \/ AlreadyExists(w) \/ WriteAll(w) \/ WriteFails(w)
      BY <2>1 DEF ReadFails, ReadMismatch, RecheckStale, TempFails, Report, Panic, AlreadyExists,
                  WriteAll, WriteFails, Discard, Finish, Goto
    <2>2. CASE AskGuard(w) \/ ReadVerified(w) \/ OpenTemp(w) \/ FillTemp(w) \/ Recheck(w) \/ Rename(w)
      BY <2>2 DEF AskGuard, ReadVerified, OpenTemp, FillTemp, Recheck, Rename, Holding, Goto
    <2>3. CASE CreateNew(w) \/ ReplaceExisting(w) \/ OpenAppend(w) \/ WritePart(w)
      BY <1>1, <2>3 DEF CreateNew, ReplaceExisting, OpenAppend, WritePart
    <2>4. CASE Probe(w)
      BY <1>1, <2>4 DEF Probe, Finish, Goto
    <2> QED
      BY <2>1, <2>2, <2>3, <2>4 DEF Step
  <1>3. \A x \in Edits : pc'[x] \in Holding => x \in guard'
    BY <1>1, <1>2 DEF GuardHeld, Lock, Holding
  <1>4. \A x \in guard' : key'[x] # Nil /\ \A y \in guard' : SameGuard(x, y)' => y = x
    <2>1. CASE guard' \subseteq guard
      BY <1>1, <2>1 DEF GuardHeld, SameGuard
    <2>2. CASE Lock(w)
      <3>1. key' = key /\ guard' = guard \union {w} /\ \A x \in guard : ~SameGuard(w, x)
        BY <2>2 DEF Lock
      <3> QED
        BY <1>1, <2>2, <3>1 DEF GuardHeld, SameGuard, Lock
    <2> QED
      BY <1>2, <2>1, <2>2
  <1>5. ASSUME NEW x \in Edits, pc'[x] \in {"temp", "fill", "recheck", "rename"}
        PROVE  <<Original, "whole">> \in snap'[x]
    <2>1. CASE x # w
      BY <1>1, <1>5, <2>1 DEF GuardHeld
    <2>2. CASE x = w
      <3>1. CASE ReadVerified(w)
        BY <2>2, <3>1 DEF ReadVerified, Verifies
      <3>2. CASE QuietStep(w)
        <4>1. pc[w] \in {"temp", "fill", "recheck", "rename"}
          BY <1>1, <1>5, <2>2, <3>2, QuietSteps DEF QuietStep
        <4> QED
          BY <2>2, <3>2, <4>1 DEF GuardHeld, QuietStep
      <3>3. CASE OpenTemp(w) \/ FillTemp(w) \/ Rename(w)
        BY <2>2, <3>3 DEF GuardHeld, OpenTemp, FillTemp, Rename
      <3>4. CASE CreateNew(w) \/ OpenAppend(w) \/ WriteAll(w) \/ WritePart(w)
        BY <1>1, <2>2, <3>4 DEF CreateNew, OpenAppend, WriteAll, WritePart
      <3> QED
        BY <3>1, <3>2, <3>3, <3>4, QuietSteps
    <2> QED
      BY <2>1, <2>2
  <1> QED
    BY <1>3, <1>4, <1>5 DEF GuardHeld

LEMMA AnewStep ==
  ASSUME WriteIInv, WrittenAnew, NEW w \in Ops, Step(w)
  PROVE  WrittenAnew'
  <1> USE DEF WriteIInv, TypeOK, Stages, Inodes
  <1> SUFFICES ASSUME NEW u \in Ops \ Edits
               PROVE  snap'[u] = {} /\ NothingOld(data'[u])
    BY DEF WrittenAnew, NothingOld, Edits
  <1>1. /\ snap[u] = {} /\ NothingOld(data[u]) /\ Kind[u] # "edit"
        /\ \A x \in Ops \ Edits : x \notin Edits \union {Original}
    BY OpsAssumption DEF WrittenAnew, Edits
  <1>2. snap'[u] = {}
    BY <1>1, QuietSteps DEF QuietStep, ReadVerified, OpenTemp, FillTemp, Rename, CreateNew, OpenAppend, WriteAll, WritePart
  <1>3. CASE data' = data
    BY <1>1, <1>2, <1>3
  <1>4. CASE OpenTemp(w) \/ FillTemp(w)
    <2>1. data'[u] \subseteq data[u] \union {<<u, "part">>, <<u, "whole">>}
      BY <1>1, <1>4 DEF OpenTemp, FillTemp
    <2> QED
      BY <1>1, <1>2, <2>1 DEF NothingOld
  <1>5. CASE WriteAll(w) \/ WritePart(w)
    <2>1. w \in Ops \ Edits
      BY <1>5 DEF WriteAll, WritePart, Edits
    <2>2. data'[u] \subseteq data[u] \union {<<w, "part">>, <<w, "whole">>}
      BY <1>1, <1>5 DEF WriteAll, WritePart, Written
    <2> QED
      BY <1>1, <1>2, <2>1, <2>2 DEF NothingOld
  <1> QED
    BY <1>3, <1>4, <1>5, QuietSteps DEF QuietStep, ReadVerified, Rename, CreateNew, OpenAppend

\* What a step does to the edits the file shows: nothing; or it brings a file
\* without any, or what the edit that publishes carries.
LEMMA ShowsAfter ==
  ASSUME WriteIInv, WrittenAnew, NEW w \in Ops, Step(w)
  PROVE  \/ \A o \in Edits \union {Original} : <<o, "whole">> \in Visible' <=> <<o, "whole">> \in Visible
         \/ NothingOld(Visible')
         \/ w \in Publishing /\ pc'[w] = "report" /\ Visible' = snap[w] \union {<<w, "whole">>}
  <1> USE DEF WriteIInv, TypeOK, Stages, Inodes
  <1>0. /\ w # Nil /\ w # Original /\ w \in Inodes
        /\ w \notin Edits => w \notin Edits \union {Original}
    BY OpsAssumption
  <1>1. CASE UNCHANGED <<path, data>>
    BY <1>1 DEF Visible
  <1>2. CASE OpenTemp(w) \/ FillTemp(w)
    <2>1. path # w /\ path' = path
      BY <1>2, SecretIsOwn DEF OpenTemp, FillTemp, Secret, BeforeRename, OwnInode
    <2>2. Visible' = Visible
      BY <1>2, <2>1 DEF OpenTemp, FillTemp, Visible
    <2> QED
      BY <2>2
  <1>3. CASE Rename(w)
    <2>1. Visible' = data[w] /\ pc'[w] = "report" /\ pc[w] = "rename"
      BY <1>0, <1>3 DEF Rename, Visible, Goto
    <2>2. CASE w \in Edits
      BY <2>1, <2>2 DEF InWindow, Edits, Publishing
    <2>3. CASE w \notin Edits
      BY <2>1, <2>3 DEF WrittenAnew
    <2> QED
      BY <2>2, <2>3
  <1>4. CASE CreateNew(w) \/ OpenAppend(w)
    <2>1. CASE path = Nil
      <3>1. path' = w /\ data' = data /\ w \notin Edits
        BY <1>4, <2>1 DEF CreateNew, OpenAppend, Edits
      <3>2. NothingOld(data[w])
        BY <3>1 DEF WrittenAnew
      <3> QED
        BY <1>0, <3>1, <3>2 DEF Visible
    <2>2. CASE path # Nil
      BY <1>1, <1>4, <2>2 DEF CreateNew, OpenAppend
    <2> QED
      BY <2>1, <2>2
  <1>5. CASE WriteAll(w) \/ WritePart(w)
    <2>1. w \notin Edits /\ path' = path
      BY <1>5 DEF WriteAll, WritePart, Edits
    <2>2. CASE path = Nil \/ path # fd[w]
      <3>1. Visible' = Visible
        BY <1>5, <2>1, <2>2 DEF WriteAll, WritePart, Visible
      <3> QED
        BY <3>1
    <2>3. CASE path # Nil /\ path = fd[w]
      <3>1. Visible = data[fd[w]] /\ (Visible' = Written(w, "whole") \/ Visible' = Written(w, "part"))
        BY <1>5, <2>1, <2>3 DEF WriteAll, WritePart, Visible
      <3>2. CASE Kind[w] = "append"
        BY <1>0, <2>1, <3>1, <3>2 DEF Written
      <3>3. CASE Kind[w] # "append"
        BY <1>0, <2>1, <3>1, <3>3 DEF Written, NothingOld
      <3> QED
        BY <3>2, <3>3
    <2> QED
      BY <2>2, <2>3
  <1> QED
    BY <1>1, <1>2, <1>3, <1>4, <1>5, QuietSteps DEF QuietStep, ReadVerified

\* Only the last look lets an edit publish.
LEMMA PublishingAfter ==
  ASSUME WriteIInv, NEW w \in Ops, Step(w), NEW x \in Publishing'
  PROVE  /\ x \in Edits /\ snap'[x] = snap[x]
         /\ x # w => x \in Publishing
         /\ x = w => pc[w] = "recheck" /\ Visible = snap[w] /\ Visible' = Visible
  <1> USE DEF WriteIInv, TypeOK
  <1>1. x \in Edits /\ x \in Ops /\ pc'[x] = "rename" /\ Kind[x] = "edit"
    BY DEF Publishing, Edits
  <1>2. CASE x # w
    BY <1>1, <1>2, OthersStay DEF Publishing
  <1>3. CASE x = w
    <2>1. pc'[w] = "rename" /\ Kind[w] = "edit"
      BY <1>1, <1>3
    <2>2. QuietStep(w)
      BY <2>1, QuietSteps DEF ReadVerified, OpenTemp, FillTemp, Rename, CreateNew, OpenAppend,
                              WriteAll, WritePart, Finish, Goto
    <2> QED
      BY <1>1, <1>3, <2>1, <2>2 DEF QuietStep, Unchanged, Visible
  <1> QED
    BY <1>2, <1>3

LEMMA OneAtATime ==
  ASSUME WriteIInv, GuardHeld, OneGuard, NEW x \in Edits, NEW y \in Edits,
         pc[x] \in Holding, pc[y] \in Holding, Proc[x] = Proc[y]
  PROVE  x = y
  <1>1. x \in guard /\ y \in guard /\ x \in Ops /\ y \in Ops
    BY DEF GuardHeld, Edits
  <1> QED
    BY <1>1 DEF GuardHeld, OneGuard, SameGuard

\* A key that was asked for stays.
LEMMA OneGuardStays ==
  ASSUME WriteIInv, [Next]_vars, OneGuard'
  PROVE  OneGuard
  <1>1. \A x \in Ops : key[x] # Nil => key'[x] = key[x]
    <2>1. ASSUME NEW w \in Ops, Step(w) PROVE \A x \in Ops : key[x] # Nil => key'[x] = key[x]
      BY <2>1, OthersStay DEF WriteIInv, Stages
    <2> QED
      BY <2>1 DEF Next, Crash, Remove, vars
  <1> QED
    BY <1>1 DEF OneGuard

LEMMA CarriesStep ==
  ASSUME TwoEditors, WriteIInv, CarryIInv, OneGuard, NEW w \in Ops, Step(w)
  PROVE  Carries'
  <1> DEFINE Has(e, S) == <<e, "whole">> \in S
  <1> SUFFICES ASSUME NEW x \in Publishing', NEW e \in Edits
               PROVE  /\ Proc[e] = Proc[x] /\ Has(e, Visible') => Has(e, snap'[x])
                      /\ Proc[e] # Proc[x] /\ Has(e, snap'[x]) /\ Has(Original, Visible') => Has(e, Visible')
                      /\ \A y \in Publishing' : Proc[e] = Proc[x] /\ Has(e, snap'[y]) => Has(e, snap'[x])
    BY DEF Carries, Edits
  <1>1. /\ x \in Edits /\ snap'[x] = snap[x]
        /\ x # w => x \in Publishing
        /\ x = w => pc[w] = "recheck" /\ Visible = snap[w] /\ Visible' = Visible
    BY PublishingAfter DEF CarryIInv
  <1>2. \A y \in Publishing' :
          /\ y \in Edits /\ snap'[y] = snap[y]
          /\ y # w => y \in Publishing
          /\ y = w => pc[w] = "recheck" /\ Visible = snap[w] /\ Visible' = Visible
    BY PublishingAfter DEF CarryIInv
  <1>3. \A v \in Publishing, d \in Edits :
          /\ Proc[d] = Proc[v] /\ Has(d, Visible) => Has(d, snap[v])
          /\ Proc[d] # Proc[v] /\ Has(d, snap[v]) /\ Has(Original, Visible) => Has(d, Visible)
          /\ \A y \in Publishing : Proc[d] = Proc[v] /\ Has(d, snap[y]) => Has(d, snap[v])
    BY DEF CarryIInv, Carries
  <1>4. ASSUME NEW y \in Publishing', Proc[e] = Proc[x], Has(e, snap'[y])
        PROVE  Has(e, snap'[x])
    <2>1. CASE x = y
      BY <1>4, <2>1
    <2>2. CASE x # w /\ y # w
      BY <1>1, <1>2, <1>3, <1>4, <2>2
    <2>3. CASE x # w /\ y = w
      BY <1>1, <1>2, <1>3, <1>4, <2>3
    <2>4. CASE x = w /\ y # w
      <3>1. Proc[y] # Proc[x]
        BY <1>1, <1>2, <1>4, <2>4, OneAtATime DEF CarryIInv, Publishing, Holding
      <3>2. Has(Original, Visible)
        BY <1>1, <2>4 DEF CarryIInv, GuardHeld
      <3> QED
        BY <1>1, <1>2, <1>3, <1>4, <2>4, <3>1, <3>2
    <2> QED
      BY <2>1, <2>2, <2>3, <2>4
  <1>5. CASE x = w
    BY <1>1, <1>4, <1>5
  <1>6. CASE x # w
    <2>1. x \in Publishing
      BY <1>1, <1>6
    <2>2. CASE \A o \in Edits \union {Original} : Has(o, Visible') <=> Has(o, Visible)
      BY <1>1, <1>3, <1>4, <2>1, <2>2
    <2>3. CASE NothingOld(Visible')
      BY <1>4, <2>3 DEF NothingOld
    <2>4. CASE w \in Publishing /\ Visible' = snap[w] \union {<<w, "whole">>}
      <3>1. Proc[w] # Proc[x] /\ w \in Edits
        BY <1>6, <2>1, <2>4, OneAtATime DEF CarryIInv, Publishing, Holding
      <3>2. Proc[e] = Proc[x] /\ Has(e, Visible') => Has(e, snap'[x])
        BY <1>1, <1>3, <2>1, <2>4, <3>1
      <3>3. Proc[e] # Proc[x] => Proc[e] = Proc[w]
        BY <1>1, <3>1 DEF TwoEditors
      <3>4. Proc[e] # Proc[x] /\ Has(e, snap'[x]) => Has(e, Visible')
        BY <1>1, <1>3, <2>1, <2>4, <3>3
      <3> QED
        BY <1>4, <3>2, <3>4
    <2> QED
      BY <2>2, <2>3, <2>4, ShowsAfter DEF CarryIInv
  <1> QED
    BY <1>5, <1>6

LEMMA CarryStep ==
  ASSUME TwoEditors, WriteIInv, CarryIInv, [Next]_vars
  PROVE  CarryIInv'
  <1>0. OneGuard' => OneGuard
    BY OneGuardStays
  <1>1. ASSUME NEW w \in Ops, Step(w) PROVE CarryIInv'
    <2>1. OneGuard' => OneGuard
      BY <1>0
    <2> QED
      BY <1>1, <2>1, GuardStep, AnewStep, CarriesStep DEF CarryIInv
  \* A crash gives the guards back and leaves their edits where they are.
  <1>2. ASSUME NEW p \in Procs, Crash(p) PROVE CarryIInv'
    <2>1. /\ UNCHANGED <<path, data, key, snap>> /\ guard' = {w \in guard : Proc[w] # p}
          /\ \A x \in Ops : pc'[x] = IF Proc[x] = p /\ pc[x] # "done" THEN "dead" ELSE pc[x]
      BY <1>2 DEF Crash, WriteIInv, TypeOK
    <2>2. GuardHeld'
      <3>1. \A w \in Edits : /\ pc'[w] \in Holding => w \in guard'
                             /\ pc'[w] \in {"temp", "fill", "recheck", "rename"} => <<Original, "whole">> \in snap'[w]
        BY <2>1 DEF CarryIInv, GuardHeld, Holding, Edits
      <3> QED
        BY <2>1, <3>1 DEF CarryIInv, GuardHeld, SameGuard
    <2>3. WrittenAnew'
      BY <2>1 DEF CarryIInv, WrittenAnew
    <2>4. Visible' = Visible /\ Publishing' \subseteq Publishing
      BY <2>1 DEF Visible, Publishing, Edits
    <2>5. Carries => Carries'
      BY <2>1, <2>4 DEF Carries
    <2> QED
      BY <1>0, <2>2, <2>3, <2>5 DEF CarryIInv
  <1>3. CASE Remove
    <2>1. path' = Nil /\ UNCHANGED <<data, key, guard, pc, snap>>
      BY <1>3 DEF Remove
    <2>2. Visible' = {} /\ Publishing' = Publishing
      BY <2>1 DEF Visible, Publishing
    <2>3. GuardHeld' /\ WrittenAnew'
      BY <2>1 DEF CarryIInv, GuardHeld, SameGuard, WrittenAnew
    <2>4. Carries => Carries'
      BY <2>1, <2>2 DEF Carries
    <2> QED
      BY <1>0, <2>3, <2>4 DEF CarryIInv
  <1>4. CASE UNCHANGED vars
    <2>1. Visible' = Visible /\ Publishing' = Publishing /\ UNCHANGED <<data, key, guard, pc, snap>>
      BY <1>4 DEF vars, Visible, Publishing
    <2>2. GuardHeld' /\ WrittenAnew'
      BY <2>1 DEF CarryIInv, GuardHeld, SameGuard, WrittenAnew
    <2>3. Carries => Carries'
      BY <2>1 DEF Carries
    <2> QED
      BY <1>0, <2>2, <2>3 DEF CarryIInv
  <1> QED
    BY <1>1, <1>2, <1>3, <1>4 DEF Next

\* Where edits are made in at most two processes, an edit that publishes carries
\* every edit of its own process that the file shows (the guard of edit.rs), as
\* long as the edits of each process have one guard.
THEOREM TwoEditorsLoseNoEdit ==
  ASSUME TwoEditors PROVE Spec => NoLostEdit
  <1> DEFINE Step2 == \A w, e \in Ops : /\ Publishes(w) /\ OneGuard
                                        /\ Kind[e] = "edit" /\ Proc[e] = Proc[w] /\ <<e, "whole">> \in Visible
                                        => <<e, "whole">> \in Visible'
  <1>1. Spec => []CarryIInv
    <2>1. WriteIInv /\ CarryIInv /\ [Next]_vars => CarryIInv'
      BY CarryStep
    <2> QED
      BY <2>1, CarryInit, WriteInvariant, PTL DEF Spec
  <1>2. WriteIInv /\ CarryIInv /\ [Next]_vars => [Step2]_vars
    <2> SUFFICES ASSUME WriteIInv, CarryIInv, Next, NEW w \in Ops, NEW e \in Ops, Publishes(w), OneGuard,
                        Kind[e] = "edit", Proc[e] = Proc[w], <<e, "whole">> \in Visible
                 PROVE  <<e, "whole">> \in Visible'
      BY Zenon
    <2>1. w \in Publishing /\ e \in Edits /\ path' = w
      BY DEF Publishes, Publishing, Edits
    <2>2. <<e, "whole">> \in snap[w]
      BY <2>1 DEF CarryIInv, Carries
    <2>3. path # w /\ w # Nil /\ w # Original
      BY <2>1, SecretIsOwn, OpsAssumption DEF Secret, BeforeRename, Publishing, Edits, OwnInode
    <2>4. PICK x \in Ops : Step(x)
      BY <2>1, <2>3 DEF Next, Crash, Remove
    <2>5. x = w
      BY <2>1, <2>3, <2>4, OthersStay DEF WriteIInv
    <2>6. pc[w] = "rename" /\ path' # path
      BY <2>1, <2>3 DEF Publishing
    <2>7. Rename(w)
      BY <2>4, <2>5, <2>6, QuietSteps
         DEF QuietStep, ReadVerified, OpenTemp, FillTemp, CreateNew, OpenAppend, Called, WriteAll, WritePart
    <2>8. Visible' = data[w]
      BY <2>3, <2>7 DEF Rename, Visible
    <2> QED
      BY <2>1, <2>2, <2>8 DEF WriteIInv, InWindow, Publishing, Edits
  <1> QED
    BY <1>1, <1>2, WriteInvariant, PTL DEF Spec, NoLostEdit
=============================================================================
