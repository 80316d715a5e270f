----------------------- MODULE ConditionalReadProofs -----------------------
(***************************************************************************)
(* Proofs about ConditionalRead, for any files, links and requests.        *)
(*                                                                         *)
(* The snapshot of a request holds each file once: while no link moves,    *)
(* what it holds under a name it holds under the name's canonical path     *)
(* (Snapshot), so two names of a file show the same.  That a capture was   *)
(* on the disk rests on the comparison of the modification time before and *)
(* after the read (Captured): while the time stands, the inode holds what  *)
(* it held when it was opened, and the path led to it then.                *)
(***************************************************************************)
EXTENDS ConditionalRead, FiniteSetTheorems, SequenceTheorems, TLAPS

Busy == phase \in {"open", "read", "check"}

\* The pages stand for the paths before the one at hand.
Places ==
    /\ \A f \in Files : inode[f] # None => inode[f] <= versions + Cardinality(Files)
    /\ handle <= versions + Cardinality(Files)
    /\ \A i \in Inodes : data[i].mtime <= versions
    /\ pages \in Seq(Bytes \union {None}) /\ Len(pages) < index
    /\ Busy => index <= Len(ask.paths)

Complete ==
    /\ ~incomplete => Len(pages) = index - 1 /\ \A i \in DOMAIN pages : pages[i] # None
    /\ phase = "done" /\ answer.tag # None => ~incomplete /\ index = Len(ask.paths) + 1

\* While no link moves, a file is in the snapshot under its own name if under any.
FilesAgree == \A n \in Names : files[n] # None => files[n] = files[Canonical(n)]
KeyIsNew == Busy => key = Canonical(Path) /\ files[key] = None
PagesAgree == ~incomplete => \A i \in DOMAIN pages : pages[i] = files[Canonical(ask.paths[i])]
Snapshot == phase # "idle" /\ ~moved => FilesAgree /\ KeyIsNew /\ PagesAgree

\* b was what some file held while the request ran, and n may be its name.
WasThere(n, b) == \E f \in Files : n \in Links \union {f} /\ <<f, b>> \in lived

\* What is on the disk now has been noted.
Noted == phase # "idle" => Now \subseteq lived

FilesSeen == \A n \in Names : files[n] # None => WasThere(n, files[n])
PagesSeen == ~incomplete => \A i \in DOMAIN pages : WasThere(ask.paths[i], pages[i])
GotSeen ==
    phase \in {"read", "check"} =>
      /\ before.mtime <= data[handle].mtime
      /\ before.mtime = data[handle].mtime =>
           /\ <<key, data[handle].bytes>> \in lived
           /\ Len(got) <= Len(data[handle].bytes)
           /\ \A j \in 1 .. Len(got) : got[j] = data[handle].bytes[j]

Captured ==
    /\ Busy => Path \in Links \union {key}
    /\ phase # "idle" /\ ~coarse => FilesSeen /\ PagesSeen /\ GotSeen

ReadIInv == TypeOK /\ Places /\ Complete /\ Snapshot /\ Noted /\ Captured

-----------------------------------------------------------------------------

LEMMA BytesAreSequences ==
  \A b : b \in Bytes <=> b \in Seq(Versions) /\ Len(b) <= MaxLength
  <1> SUFFICES ASSUME NEW b PROVE b \in Bytes <=> b \in Seq(Versions) /\ Len(b) <= MaxLength
    OBVIOUS
  <1>1. ASSUME b \in Bytes PROVE b \in Seq(Versions) /\ Len(b) <= MaxLength
    <2>1. PICK n \in 0 .. MaxLength : b \in [1 .. n -> Versions]
      BY <1>1 DEF Bytes
    <2>2. n \in Nat /\ n <= MaxLength
      BY <2>1 DEF MaxLength
    <2> QED
      BY <2>1, <2>2, SeqDef, LenProperties
  <1>2. ASSUME b \in Seq(Versions), Len(b) <= MaxLength PROVE b \in Bytes
    <2>1. b \in [1 .. Len(b) -> Versions] /\ Len(b) \in Nat
      BY <1>2, LenProperties
    <2>2. Len(b) \in 0 .. MaxLength
      BY <1>2, <2>1 DEF MaxLength
    <2> QED
      BY <2>1, <2>2 DEF Bytes
  <1> QED
    BY <1>1, <1>2

LEMMA BytesLength ==
  ASSUME NEW b \in Bytes
  PROVE  Len(b) \in Nat /\ Len(b) \in 0 .. MaxLength /\ DOMAIN b = 1 .. Len(b)
  <1>1. Len(b) \in Nat /\ Len(b) <= MaxLength /\ DOMAIN b = 1 .. Len(b)
    BY BytesAreSequences, LenProperties
  <1> QED
    BY <1>1 DEF MaxLength

\* What the editors and the capture make of blocks are blocks again.
LEMMA BytesClosed ==
  /\ <<>> \in Bytes
  /\ \A v \in Versions : <<v>> \in Bytes /\ <<v, v>> \in Bytes
  /\ \A b \in Bytes, v \in Versions :
       /\ Len(b) < MaxLength => Append(b, v) \in Bytes
       /\ \A k \in DOMAIN b : b[k] \in Versions /\ [b EXCEPT ![k] = v] \in Bytes
  <1>1. <<>> \in Bytes
    <2>1. <<>> \in Seq(Versions) /\ Len(<<>>) = 0
      OBVIOUS
    <2>2. Len(<<>>) <= MaxLength
      BY <2>1 DEF MaxLength
    <2> QED
      BY <2>1, <2>2, BytesAreSequences, Zenon
  <1>2. ASSUME NEW v \in Versions PROVE <<v>> \in Bytes /\ <<v, v>> \in Bytes
    <2>1. /\ <<v, v>> \in Seq(Versions) /\ Len(<<v, v>>) = 2
          /\ <<v>> \in Seq(Versions) /\ Len(<<v>>) = 1
      OBVIOUS
    <2>2. Len(<<v>>) <= MaxLength /\ Len(<<v, v>>) <= MaxLength
      BY <2>1 DEF MaxLength
    <2> QED
      BY <2>1, <2>2, BytesAreSequences, Zenon
  <1>3. ASSUME NEW b \in Bytes, NEW v \in Versions, Len(b) < MaxLength PROVE Append(b, v) \in Bytes
    <2>1. b \in Seq(Versions)
      BY BytesAreSequences
    <2>2. Append(b, v) \in Seq(Versions) /\ Len(Append(b, v)) = Len(b) + 1 /\ Len(b) \in Nat
      BY <2>1, AppendProperties, LenProperties
    <2>3. Len(Append(b, v)) <= MaxLength
      BY <1>3, <2>2 DEF MaxLength
    <2> QED
      BY <2>2, <2>3, BytesAreSequences, Zenon
  <1>4. ASSUME NEW b \in Bytes, NEW v \in Versions, NEW k \in DOMAIN b
        PROVE  b[k] \in Versions /\ [b EXCEPT ![k] = v] \in Bytes
    <2>1. PICK n \in 0 .. MaxLength : b \in [1 .. n -> Versions]
      BY DEF Bytes
    <2>2. b[k] \in Versions /\ [b EXCEPT ![k] = v] \in [1 .. n -> Versions]
      BY <2>1
    <2> QED
      BY <2>1, <2>2 DEF Bytes
  <1> QED
    BY <1>1, <1>2, <1>3, <1>4

LEMMA Basics ==
  /\ Cardinality(Files) \in Nat
  /\ Versions \subseteq Nat /\ 0 \in Versions /\ 0 \in Inodes /\ Inodes \subseteq Nat
  /\ Files \subseteq Names /\ Links \subseteq Names
  /\ \A r \in Requests : r.paths \in Seq(Names)
  <1>1. Cardinality(Files) \in Nat
    BY ReadAssumption, FS_CardinalityType
  <1>2. MaxVersions \in Nat
    BY ReadAssumption
  <1> QED
    BY <1>1, <1>2, ReadAssumption DEF Versions, Inodes, Names, RequestShape

LEMMA CanonicalIsFile ==
  ASSUME TypeOK
  PROVE  /\ \A n \in Names : Canonical(n) \in Files /\ n \in Links \union {Canonical(n)}
         /\ \A f \in Files : Canonical(f) = f
  BY ReadAssumption DEF TypeOK, Canonical, Names

LEMMA ReadInit == Init => ReadIInv
  <1> SUFFICES ASSUME Init PROVE ReadIInv
    OBVIOUS
  <1> USE Basics DEF Init
  <1>1. <<0, 0>> \in Bytes /\ <<>> \in Bytes
    BY BytesAreSequences DEF MaxLength
  <1>2. /\ inode \in [Files -> Inodes]
        /\ \A f \in Files : inode[f] <= Cardinality(Files)
    <2>1. PICK number \in [Files -> 1 .. Cardinality(Files)] : inode = number
      OBVIOUS
    <2>2. 1 .. Cardinality(Files) \subseteq Inodes
      BY ReadAssumption DEF Inodes
    <2> QED
      BY <2>1, <2>2
  <1>3. index \in 1 .. Len(ask.paths) + 1 /\ captured \in 0 .. MaxBlocks /\ requests \in 0 .. MaxRequests
    BY ReadAssumption
  <1>4. data \in [Inodes -> [bytes : Bytes, mtime : 0 .. MaxVersions]]
    BY <1>1, ReadAssumption
  <1>5. before \in [len : 0 .. MaxLength, mtime : 0 .. MaxVersions]
    BY ReadAssumption DEF NoTime, MaxLength
  <1>6. Len(pages) <= Len(ask.paths)
    OBVIOUS
  <1>7. TypeOK
    <2>1. target \in [Links -> Files] /\ versions \in Versions /\ key \in Files
      OBVIOUS
    <2>2. files \in [Names -> Bytes \union {None}] /\ ask \in Requests
      OBVIOUS
    <2>3. inode \in [Files -> Inodes \union {None}]
      BY <1>2
    <2>4. /\ phase \in {"idle", "path", "open", "read", "check", "done"}
          /\ tries \in 0 .. 2 /\ handle \in Inodes
      OBVIOUS
    <2>5. got \in Bytes
      BY <1>1
    <2>6. incomplete \in BOOLEAN /\ coarse \in BOOLEAN /\ moved \in BOOLEAN
      OBVIOUS
    <2> HIDE DEF Init
    <2> QED
      BY <1>3, <1>4, <1>5, <1>6, <2>1, <2>2, <2>3, <2>4, <2>5, <2>6, Zenon DEF TypeOK
  <1>8. Places
    BY <1>2 DEF Places, Busy
  <1>9. Complete /\ Snapshot /\ Noted /\ Captured
    BY DEF Complete, Snapshot, Noted, Captured, Busy, NoAnswer
  <1> QED
    BY <1>7, <1>8, <1>9 DEF ReadIInv

-----------------------------------------------------------------------------
(* Types.                                                                  *)

Editors ==
    \/ \E f \in Files : WriteBlock(f) \/ Replace(f) \/ Remove(f)
    \/ \E l \in Links : Retarget(l)

\* What the editors leave of the request, and what they make of the disk.
LEMMA EditorStep ==
  ASSUME ReadIInv, Editors
  PROVE  /\ UNCHANGED <<phase, index, files, captured, incomplete, pages, capture, rest>>
         /\ versions' = versions + 1 /\ versions < MaxVersions /\ Note
  BY DEF Editors, WriteBlock, Replace, Remove, Retarget, Edits

\* One write into an inode.
LEMMA StampStep ==
  ASSUME ReadIInv, versions < MaxVersions, versions' = versions + 1,
         NEW i \in Inodes, NEW b \in Bytes, Stamp(i, b)
  PROVE  /\ data' \in [Inodes -> [bytes : Bytes, mtime : 0 .. MaxVersions]]
         /\ \A j \in Inodes : data'[j].mtime <= versions'
         /\ coarse' \in BOOLEAN
  <1> USE ReadAssumption DEF ReadIInv, TypeOK, Places, Versions
  <1>1. PICK later \in BOOLEAN :
          /\ data' = [data EXCEPT ![i] = [bytes |-> b, mtime |-> IF later THEN @.mtime + 1 ELSE @.mtime]]
          /\ coarse' = (coarse \/ (~later /\ phase # "idle"))
    BY DEF Stamp
  <1>2. data[i].mtime \in 0 .. MaxVersions /\ data[i].mtime <= versions
    OBVIOUS
  <1>3. DEFINE m == IF later THEN data[i].mtime + 1 ELSE data[i].mtime
  <1>4. m \in 0 .. MaxVersions /\ m <= versions'
    BY <1>2
  <1>5. data' = [data EXCEPT ![i] = [bytes |-> b, mtime |-> m]]
    BY <1>1
  <1> HIDE DEF m
  <1>6. data' \in [Inodes -> [bytes : Bytes, mtime : 0 .. MaxVersions]]
    BY <1>4, <1>5
  <1>7. ASSUME NEW j \in Inodes PROVE data'[j].mtime <= versions'
    <2>1. data[j].mtime <= versions /\ data[j].mtime \in Nat
      OBVIOUS
    <2> QED
      BY <1>4, <1>5, <2>1
  <1> QED
    BY <1>1, <1>6, <1>7

LEMMA WrittenBytes ==
  ASSUME ReadIInv, NEW f \in Files, WriteBlock(f)
  PROVE  \E b \in Bytes : Stamp(inode[f], b)
  <1>1. inode[f] # None /\ versions < MaxVersions
    BY DEF WriteBlock
  <1>2. versions + 1 \in Versions
    BY <1>1, ReadAssumption DEF ReadIInv, TypeOK, Versions
  <1>3. Read(f) \in Bytes
    BY <1>1 DEF ReadIInv, TypeOK, Read
  <1> QED
    BY <1>2, <1>3, BytesClosed DEF WriteBlock

LEMMA EditorTypes ==
  ASSUME ReadIInv, Editors
  PROVE  TypeOK' /\ Places'
  <1> USE Basics DEF ReadIInv
  <1>1. /\ UNCHANGED <<phase, index, files, captured, incomplete, pages, capture, rest>>
        /\ versions' = versions + 1 /\ versions < MaxVersions
    BY EditorStep
  <1>2. versions \in Nat /\ versions' \in Versions /\ MaxVersions \in Nat
    BY <1>1, ReadAssumption DEF TypeOK, Versions
  <1>3. /\ target' \in [Links -> Files]
        /\ inode' \in [Files -> Inodes \union {None}]
        /\ data' \in [Inodes -> [bytes : Bytes, mtime : 0 .. MaxVersions]]
        /\ coarse' \in BOOLEAN /\ moved' \in BOOLEAN
        /\ \A i \in Inodes : data'[i].mtime <= versions'
        /\ \A f \in Files : inode'[f] # None => inode'[f] <= versions' + Cardinality(Files)
    <2>0. /\ \A f \in Files : inode[f] # None => inode[f] <= versions' + Cardinality(Files)
          /\ \A i \in Inodes : data[i].mtime <= versions'
      <3>1. \A f \in Files : inode[f] # None => inode[f] \in Nat
        BY DEF TypeOK
      <3>2. \A i \in Inodes : data[i].mtime \in Nat
        BY DEF TypeOK
      <3> QED
        BY <1>1, <1>2, <3>1, <3>2 DEF Places
    <2>1. ASSUME NEW f \in Files, WriteBlock(f) PROVE <1>3!:
      <3>1. inode[f] \in Inodes
        BY <2>1 DEF WriteBlock, TypeOK
      <3>2. PICK b \in Bytes : Stamp(inode[f], b)
        BY <2>1, WrittenBytes
      <3>3. UNCHANGED <<target, inode, moved>>
        BY <2>1 DEF WriteBlock
      <3> QED
        BY <1>1, <2>0, <3>1, <3>2, <3>3, StampStep DEF TypeOK
    <2>2. ASSUME NEW f \in Files, Replace(f) PROVE <1>3!:
      <3>0. PICK b \in {<<versions + 1>>, <<versions + 1, versions + 1>>} :
               data' = [data EXCEPT ![versions + 1 + Cardinality(Files)] =
                          [bytes |-> b, mtime |-> versions + 1]]
        BY <2>2 DEF Replace
      <3> DEFINE i == versions + 1 + Cardinality(Files)
                 fresh == [bytes |-> b, mtime |-> versions + 1]
      <3>1. i \in Inodes /\ i <= versions' + Cardinality(Files)
        BY <1>1, <1>2, ReadAssumption DEF Inodes
      <3>2. fresh \in [bytes : Bytes, mtime : 0 .. MaxVersions] /\ fresh.mtime <= versions'
        <4>1. b \in Bytes
          BY <1>1, <1>2, BytesClosed
        <4> QED
          BY <1>1, <1>2, <4>1
      <3>3. /\ inode' = [inode EXCEPT ![f] = i] /\ data' = [data EXCEPT ![i] = fresh]
            /\ UNCHANGED <<target, coarse, moved>>
        BY <2>2, <3>0 DEF Replace
      <3> HIDE DEF i, fresh
      <3>4. data' \in [Inodes -> [bytes : Bytes, mtime : 0 .. MaxVersions]]
        BY <3>2, <3>3 DEF TypeOK
      <3>5. \A j \in Inodes : data'[j].mtime <= versions'
        BY <2>0, <3>2, <3>3 DEF TypeOK
      <3>6. /\ inode' \in [Files -> Inodes \union {None}]
            /\ \A g \in Files : inode'[g] # None => inode'[g] <= versions' + Cardinality(Files)
        BY <2>0, <3>1, <3>3 DEF TypeOK
      <3> QED
        BY <3>3, <3>4, <3>5, <3>6 DEF TypeOK
    <2>3. ASSUME NEW f \in Files, Remove(f) PROVE <1>3!:
      BY <2>0, <2>3 DEF Remove, TypeOK
    <2>4. ASSUME NEW l \in Links, Retarget(l) PROVE <1>3!:
      BY <2>0, <2>4 DEF Retarget, TypeOK
    <2> QED
      BY <2>1, <2>2, <2>3, <2>4 DEF Editors
  <1>4. TypeOK'
    BY <1>1, <1>2, <1>3, Zenon DEF TypeOK, capture, rest
  <1>5. Places'
    <2>1. handle \in Nat /\ handle <= versions' + Cardinality(Files)
      BY <1>1, <1>2 DEF TypeOK, Places
    <2> QED
      BY <1>1, <1>3, <2>1 DEF Places, Busy, capture, rest
  <1> QED
    BY <1>4, <1>5

Steps ==
    \/ \E r \in Requests, c \in {None, held} : Begin(r, c)
    \/ NotThere \/ DeadlinePasses \/ Lookup \/ Open \/ ReadBlock
    \/ Accept \/ StartOver \/ Overflows \/ Respond \/ Receive

LEMMA PathAtHand ==
  ASSUME ReadIInv, index <= Len(ask.paths)
  PROVE  Path \in Names /\ Canonical(Path) \in Files /\ Path \in Links \union {Canonical(Path)}
  <1>1. ask.paths \in Seq(Names) /\ index \in 1 .. Len(ask.paths)
    <2>1. ask.paths \in Seq(Names)
      BY Basics DEF ReadIInv, TypeOK
    <2>2. Len(ask.paths) \in Nat
      BY <2>1, LenProperties
    <2> QED
      BY <2>1, <2>2 DEF ReadIInv, TypeOK
  <1>2. Path \in Names
    BY <1>1 DEF Path
  <1> QED
    BY <1>2, CanonicalIsFile DEF ReadIInv

\* What a step leaves that ends with a page.
PageAdded(b) ==
    /\ phase' = "path" /\ index' = index + 1 /\ index' \in 1 .. Len(ask'.paths) + 1
    /\ pages' \in Seq(Bytes \union {None}) /\ Len(pages') = Len(pages) + 1
    /\ Len(pages') < index' /\ Len(pages') <= Len(ask'.paths)
    /\ \A i \in DOMAIN pages' : (i \in DOMAIN pages /\ pages'[i] = pages[i]) \/ (i = Len(pages') /\ pages'[i] = b)
    /\ tries' \in 0 .. 2 /\ handle' = 0
    /\ before' \in [len : 0 .. MaxLength, mtime : 0 .. MaxVersions]
    /\ got' \in Bytes /\ key' = key

LEMMA PageDoneTypes ==
  ASSUME ReadIInv, index <= Len(ask.paths), NEW b \in Bytes \union {None}, PageDone(b), ask' = ask
  PROVE  PageAdded(b)
  <1>1. Len(ask.paths) \in Nat
    BY Basics, LenProperties DEF ReadIInv, TypeOK
  <1>2. pages \in Seq(Bytes \union {None}) /\ Len(pages) \in Nat
    BY LenProperties DEF ReadIInv, Places
  <1>3. /\ pages' \in Seq(Bytes \union {None}) /\ Len(pages') = Len(pages) + 1
        /\ DOMAIN pages = 1 .. Len(pages) /\ DOMAIN pages' = 1 .. Len(pages')
        /\ \A i \in 1 .. Len(pages) : pages'[i] = pages[i]
        /\ pages'[Len(pages) + 1] = b
    <2>1. pages' = Append(pages, b)
      BY DEF PageDone
    <2> QED
      BY <1>2, <2>1, AppendProperties, LenProperties
  <1>4. index \in 1 .. Len(ask.paths) + 1 /\ Len(pages) < index
    BY DEF ReadIInv, TypeOK, Places
  <1>5. NoTime \in [len : 0 .. MaxLength, mtime : 0 .. MaxVersions]
    BY ReadAssumption DEF NoTime, MaxLength
  <1>6. \A i \in DOMAIN pages' : (i \in DOMAIN pages /\ pages'[i] = pages[i]) \/ (i = Len(pages') /\ pages'[i] = b)
    <2> SUFFICES ASSUME NEW i \in DOMAIN pages'
                 PROVE  (i \in DOMAIN pages /\ pages'[i] = pages[i]) \/ (i = Len(pages') /\ pages'[i] = b)
      OBVIOUS
    <2>1. i \in 1 .. Len(pages) \/ i = Len(pages) + 1
      BY <1>2, <1>3
    <2>2. CASE i \in 1 .. Len(pages)
      <3>1. pages'[i] = pages[i]
        BY <1>3, <2>2
      <3>2. i \in DOMAIN pages
        BY <1>3, <2>2
      <3> QED
        BY <3>1, <3>2
    <2>3. CASE i = Len(pages) + 1
      BY <1>3, <2>3
    <2> QED
      BY <2>1, <2>2, <2>3
  <1>7. /\ phase' = "path" /\ index' = index + 1 /\ tries' = 0 /\ handle' = 0
        /\ before' = NoTime /\ got' = <<>> /\ UNCHANGED key
    BY DEF PageDone
  <1>8. index' \in 1 .. Len(ask'.paths) + 1 /\ Len(pages') < index' /\ Len(pages') <= Len(ask'.paths)
    <2>1. index \in Nat /\ index >= 1 /\ index + 1 <= Len(ask.paths) + 1
      BY <1>1, <1>4
    <2>2. ask'.paths = ask.paths
      OBVIOUS
    <2> QED
      BY <1>1, <1>2, <1>3, <1>4, <1>7, <2>1, <2>2
  <1> QED
    BY <1>3, <1>5, <1>6, <1>7, <1>8, BytesClosed DEF PageAdded

\* The step of a request keeps the types; the snapshot stays in its bound.
LEMMA RequestTypes ==
  ASSUME ReadIInv, Steps
  PROVE  TypeOK' /\ Places'
  <1> USE Basics DEF ReadIInv
  <1> DEFINE SameDisk == UNCHANGED <<target, inode, data, versions>>
  \* What the steps that end with a page have in common.
  <1>1. ASSUME index <= Len(ask.paths), NEW b \in Bytes \union {None}, PageDone(b), ask' = ask,
               SameDisk, files' \in [Names -> Bytes \union {None}], captured' \in 0 .. MaxBlocks,
               incomplete' \in BOOLEAN, requests' = requests, UNCHANGED <<coarse, moved>>
        PROVE  TypeOK' /\ Places'
    <2>1. PageAdded(b)
      BY <1>1, PageDoneTypes
    <2>2. /\ phase' \in {"idle", "path", "open", "read", "check", "done"}
          /\ handle' \in Inodes /\ key' \in Files /\ ask' \in Requests
      BY <1>1, <2>1 DEF TypeOK, PageAdded
    <2>3. TypeOK'
      BY <1>1, <2>1, <2>2 DEF TypeOK, PageAdded
    <2>4. versions \in Nat
      BY DEF TypeOK
    <2>5. Places'
      BY <1>1, <2>1, <2>4 DEF Places, Busy, PageAdded
    <2> QED
      BY <2>3, <2>5
  <1>2. ASSUME PageFails, index <= Len(ask.paths), SameDisk,
               UNCHANGED <<ask, files, captured, requests, coarse, moved>>
        PROVE  TypeOK' /\ Places'
    <2>1. PageDone(None) /\ incomplete' = TRUE
      BY <1>2 DEF PageFails
    <2> QED
      BY <1>1, <1>2, <2>1 DEF TypeOK
  <1>3. Len(ask.paths) \in Nat /\ Len(pages) \in Nat
    BY LenProperties DEF TypeOK, Places
  <1>4. ASSUME NEW r \in Requests, NEW c, Begin(r, c) PROVE TypeOK' /\ Places'
    <2>1. Len(r.paths) \in Nat /\ requests' \in 0 .. MaxRequests /\ captured' \in 0 .. MaxBlocks
      <3>1. Len(r.paths) \in Nat
        BY LenProperties
      <3> QED
        BY <1>4, <3>1, ReadAssumption DEF Begin, TypeOK
    <2>2. /\ phase' = "path" /\ ask' = r /\ index' = 1 /\ files' = [n \in Names |-> None]
          /\ incomplete' = FALSE /\ pages' = <<>> /\ coarse' = FALSE /\ moved' = FALSE
          /\ UNCHANGED <<target, inode, data, versions, capture, held>>
      BY <1>4 DEF Begin
    <2>3. index' \in 1 .. Len(ask'.paths) + 1 /\ Len(pages') <= Len(ask'.paths)
      BY <2>1, <2>2
    <2>4. TypeOK'
      BY <2>1, <2>2, <2>3 DEF TypeOK, capture
    <2>5. Places'
      <3>1. pages' \in Seq(Bytes \union {None}) /\ Len(pages') < index'
        BY <2>2, EmptySeq
      <3> QED
        BY <2>2, <3>1 DEF Places, Busy, capture
    <2> QED
      BY <2>4, <2>5
  <1>5. CASE NotThere
    BY <1>2, <1>5 DEF NotThere, MorePaths, disk, rest
  <1>6. CASE DeadlinePasses
    <2>1. /\ index' = Len(ask.paths) + 1 /\ incomplete' = TRUE
          /\ index <= Len(ask.paths)
          /\ UNCHANGED <<disk, rest, phase, files, captured, pages, capture>>
      BY <1>6 DEF DeadlinePasses, MorePaths
    <2>2. index' \in 1 .. Len(ask'.paths) + 1
      BY <1>3, <2>1 DEF rest
    <2>3. TypeOK'
      BY <2>1, <2>2 DEF TypeOK, disk, rest, capture
    <2>4. Places'
      BY <1>3, <1>6, <2>1 DEF Places, Busy, disk, rest, capture, DeadlinePasses, MorePaths, TypeOK
    <2> QED
      BY <2>3, <2>4
  <1>7. CASE Lookup
    <2>1. /\ index <= Len(ask.paths) /\ Path \in Names /\ Canonical(Path) \in Files
          /\ UNCHANGED <<disk, rest, captured, incomplete>>
      BY <1>7, PathAtHand DEF Lookup, MorePaths
    <2>2. CASE files[Path] # None
      <3>1. PageDone(files[Path]) /\ files' = files
        BY <1>7, <2>2 DEF Lookup
      <3> QED
        BY <1>1, <2>1, <3>1 DEF TypeOK, disk, rest
    <2>3. CASE files[Path] = None /\ files[Canonical(Path)] # None
      <3>1. /\ PageDone(files[Canonical(Path)])
            /\ files' = [files EXCEPT ![Path] = files[Canonical(Path)]]
        BY <1>7, <2>3 DEF Lookup
      <3> QED
        BY <1>1, <2>1, <3>1 DEF TypeOK, disk, rest
    <2>4. CASE files[Path] = None /\ files[Canonical(Path)] = None
      <3>1. Capture(Canonical(Path))
        BY <1>7, <2>4 DEF Lookup
      <3> QED
        BY <2>1, <3>1 DEF Capture, TypeOK, Places, Busy, disk, rest
    <2> QED
      BY <2>2, <2>3, <2>4
  <1>8. CASE Open
    <2>1. CASE PageFails
      BY <1>2, <1>8, <2>1 DEF Open, Places, Busy, disk, rest
    <2>2. CASE ~PageFails
      <3>1. PICK i \in Inodes \union {None} : i = inode[key] /\ i # None
        BY <1>8, <2>2 DEF Open, TypeOK
      <3>2. /\ phase = "open" /\ phase' = "read" /\ handle' = i /\ got' = <<>>
            /\ before' = [len |-> Len(data[i].bytes), mtime |-> data[i].mtime]
            /\ UNCHANGED <<index, pages, incomplete, key, tries, disk, rest, files, captured>>
        BY <1>8, <2>2, <3>1 DEF Open
      <3>3. before' \in [len : 0 .. MaxLength, mtime : 0 .. MaxVersions]
        <4>1. data[i].bytes \in Bytes /\ data[i].mtime \in 0 .. MaxVersions
          BY <3>1 DEF TypeOK
        <4>2. Len(data[i].bytes) \in 0 .. MaxLength
          BY <4>1, BytesLength
        <4> QED
          BY <3>2, <4>1, <4>2
      <3>4. i <= versions + Cardinality(Files)
        BY <3>1 DEF Places, TypeOK
      <3>5. TypeOK'
        BY <3>1, <3>2, <3>3, BytesClosed DEF TypeOK, disk, rest
      <3> QED
        BY <3>2, <3>4, <3>5 DEF Places, Busy, disk, rest
    <2> QED
      BY <2>1, <2>2
  <1>9. CASE ReadBlock
    <2>1. /\ phase = "read" /\ phase' \in {"read", "check"}
          /\ UNCHANGED <<disk, rest, index, files, captured, incomplete, pages, key, tries, handle, before>>
      BY <1>9 DEF ReadBlock
    <2>2. got' \in Bytes
      <3> DEFINE b == data[handle].bytes
      <3>1. b \in Bytes /\ got \in Bytes
        BY DEF TypeOK
      <3>2. Len(b) \in Nat /\ Len(got) \in Nat /\ DOMAIN b = 1 .. Len(b) /\ Len(b) <= MaxLength
        BY <3>1, BytesAreSequences, LenProperties
      <3>3. CASE got' = Append(got, b[Len(got) + 1]) /\ Len(got) < Len(b)
        <4>1. Len(got) + 1 \in DOMAIN b /\ Len(got) < MaxLength
          BY <3>2, <3>3 DEF MaxLength
        <4>2. b[Len(got) + 1] \in Versions
          BY <3>1, <4>1, BytesClosed
        <4> QED
          BY <3>1, <3>3, <4>1, <4>2, BytesClosed
      <3> QED
        BY <1>9, <3>1, <3>3 DEF ReadBlock
    <2>3. TypeOK'
      BY <2>1, <2>2 DEF TypeOK, disk, rest
    <2> QED
      BY <2>1, <2>3 DEF Places, Busy, disk, rest
  <1>10. CASE Accept
    <2>1. /\ phase = "check" /\ PageDone(got) /\ captured' = captured + Len(got)
          /\ files' = [files EXCEPT ![key] = got, ![Path] = got] /\ Len(got) <= Remaining
          /\ UNCHANGED <<disk, rest, incomplete>>
      <3>1. Len(got) \in Nat /\ Remaining \in Int
        BY BytesAreSequences, LenProperties, ReadAssumption DEF TypeOK, Remaining
      <3> QED
        BY <1>10, <3>1 DEF Accept, TooLarge
    <2>2. captured' \in 0 .. MaxBlocks
      <3>1. Len(got) \in Nat
        BY BytesLength DEF TypeOK
      <3>2. captured \in Nat /\ MaxBlocks \in Nat
        BY ReadAssumption DEF TypeOK
      <3> HIDE DEF ReadIInv
      <3> QED
        BY <2>1, <3>1, <3>2 DEF Remaining
    <2>3. index <= Len(ask.paths) /\ Path \in Names
      BY <2>1, PathAtHand DEF Places, Busy
    <2> QED
      BY <1>1, <2>1, <2>2, <2>3 DEF TypeOK, disk, rest
  <1>11. CASE StartOver
    <2>1. CASE PageFails
      BY <1>2, <1>11, <2>1 DEF StartOver, Places, Busy, disk, rest
    <2>2. CASE ~PageFails
      <3>1. /\ phase = "check" /\ phase' = "open" /\ tries' = 1
            /\ UNCHANGED <<disk, rest, files, captured, index, pages, incomplete, key, handle, before, got>>
        BY <1>11, <2>2 DEF StartOver
      <3>2. TypeOK'
        BY <3>1 DEF TypeOK, disk, rest
      <3> QED
        BY <3>1, <3>2 DEF Places, Busy, disk, rest
    <2> QED
      BY <2>1, <2>2
  <1>12. CASE Overflows
    BY <1>2, <1>12 DEF Overflows, Places, Busy, disk, rest
  <1>13. CASE Respond
    BY <1>13 DEF Respond, TypeOK, Places, Busy, disk, capture
  <1>14. CASE Receive
    BY <1>14 DEF Receive, TypeOK, Places, Busy, disk, capture
  <1> QED
    BY <1>4, <1>5, <1>6, <1>7, <1>8, <1>9, <1>10, <1>11, <1>12, <1>13, <1>14 DEF Steps

-----------------------------------------------------------------------------
(* What each step of a request does, in few kinds.                         *)

SameRest == UNCHANGED <<disk, rest>>

\* A path of the list has failed.
FailStep ==
    /\ PageFails /\ phase # "idle" /\ index <= Len(ask.paths)
    /\ UNCHANGED files /\ SameRest

\* b is shown of the path at hand, and the snapshot has it under new names.
PageStep(b) ==
    /\ b \in Bytes /\ PageDone(b) /\ phase # "idle" /\ index <= Len(ask.paths)
    /\ UNCHANGED incomplete /\ SameRest
    /\ \/ files[Path] = b /\ UNCHANGED files
       \/ /\ files[Path] = None /\ files[Canonical(Path)] = b
          /\ files' = [files EXCEPT ![Path] = b]
       \/ /\ phase = "check" /\ Unchanged /\ b = got
          /\ files' = [files EXCEPT ![key] = b, ![Path] = b]

\* A step within the capture of one path.
CaptureStep ==
    /\ UNCHANGED <<index, files, incomplete, pages>> /\ SameRest
    /\ phase # "idle" /\ Busy' /\ index <= Len(ask.paths)
    /\ \/ phase' = "open" /\ key' = Canonical(Path) /\ files[Canonical(Path)] = None
       \/ phase' = "open" /\ Busy /\ UNCHANGED key
       \/ phase = "read" /\ ReadBlock
       \/ /\ phase = "open" /\ phase' = "read" /\ inode[key] # None /\ UNCHANGED key
          /\ handle' = inode[key] /\ got' = <<>>
          /\ before' = [len |-> Len(data[handle'].bytes), mtime |-> data[handle'].mtime]

LEMMA StepKinds ==
  ASSUME ReadIInv, Steps
  PROVE  \/ \E r \in Requests, c \in {None, held} : Begin(r, c)
         \/ FailStep \/ DeadlinePasses \/ (\E b : PageStep(b)) \/ CaptureStep \/ Respond \/ Receive
  <1>1. CASE NotThere
    BY <1>1 DEF NotThere, MorePaths, FailStep, SameRest
  <1>2. CASE Lookup
    <2>0. /\ phase = "path" /\ index <= Len(ask.paths) /\ SameRest
          /\ UNCHANGED <<captured, incomplete>> /\ Path \in Names /\ Canonical(Path) \in Names
      BY <1>2, PathAtHand, Basics DEF Lookup, MorePaths, SameRest
    <2>1. CASE files[Path] # None
      <3>1. PageStep(files[Path])
        BY <1>2, <2>0, <2>1 DEF Lookup, PageStep, ReadIInv, TypeOK
      <3> QED
        BY <3>1
    <2>2. CASE files[Path] = None /\ files[Canonical(Path)] # None
      <3>1. PageStep(files[Canonical(Path)])
        BY <1>2, <2>0, <2>2 DEF Lookup, PageStep, ReadIInv, TypeOK
      <3> QED
        BY <3>1
    <2>3. CASE files[Path] = None /\ files[Canonical(Path)] = None
      <3>1. CaptureStep
        BY <1>2, <2>0, <2>3 DEF Lookup, CaptureStep, Capture, Busy
      <3> QED
        BY <3>1
    <2> QED
      BY <2>1, <2>2, <2>3
  <1>3. CASE Open
    <2>1. phase = "open" /\ index <= Len(ask.paths) /\ SameRest /\ UNCHANGED <<files, captured>>
      BY <1>3 DEF Open, SameRest, ReadIInv, Places, Busy
    <2>2. CASE PageFails
      BY <2>1, <2>2 DEF FailStep
    <2>3. CASE ~PageFails
      BY <1>3, <2>1, <2>3 DEF Open, CaptureStep, Busy
    <2> QED
      BY <2>2, <2>3
  <1>4. CASE ReadBlock
    BY <1>4 DEF ReadBlock, CaptureStep, SameRest, ReadIInv, Places, Busy
  <1>5. CASE Accept
    <2>1. PageStep(got)
      BY <1>5 DEF Accept, PageStep, SameRest, ReadIInv, Places, Busy, TypeOK
    <2> QED
      BY <2>1
  <1>6. CASE StartOver
    <2>1. phase = "check" /\ index <= Len(ask.paths) /\ SameRest /\ UNCHANGED <<files, captured>>
      BY <1>6 DEF StartOver, SameRest, ReadIInv, Places, Busy
    <2>2. CASE PageFails
      BY <2>1, <2>2 DEF FailStep
    <2>3. CASE ~PageFails
      BY <1>6, <2>1, <2>3 DEF StartOver, CaptureStep, Busy
    <2> QED
      BY <2>2, <2>3
  <1>7. CASE Overflows
    BY <1>7 DEF Overflows, FailStep, SameRest, ReadIInv, Places, Busy
  <1> QED
    BY <1>1, <1>2, <1>3, <1>4, <1>5, <1>6, <1>7 DEF Steps

-----------------------------------------------------------------------------
(* A tag is for all that was asked.                                        *)

LEMMA CompleteStep ==
  ASSUME ReadIInv, Editors \/ Steps
  PROVE  Complete'
  <1> USE DEF Complete
  <1>1. CASE Editors
    BY <1>1, EditorStep DEF ReadIInv, rest
  <1>2. ASSUME NEW r \in Requests, NEW c, Begin(r, c) PROVE Complete'
    BY <1>2, EmptySeq DEF Begin
  <1>3. CASE FailStep
    BY <1>3 DEF FailStep, PageFails, PageDone
  <1>4. CASE DeadlinePasses
    BY <1>4 DEF DeadlinePasses, MorePaths
  <1>5. ASSUME NEW b, PageStep(b) PROVE Complete'
    <2>1. PageAdded(b) /\ b # None /\ incomplete' = incomplete
      BY <1>5, PageDoneTypes, NoneAssumption DEF PageStep, SameRest, rest
    <2>2. Len(pages) \in Nat /\ index \in Nat
      BY LenProperties DEF ReadIInv, Places, TypeOK
    <2> QED
      BY <2>1, <2>2 DEF ReadIInv, PageAdded
  <1>6. CASE CaptureStep
    BY <1>6 DEF CaptureStep, Busy, ReadIInv
  <1>7. CASE Respond
    BY <1>7 DEF Respond, ReadIInv
  <1>8. CASE Receive
    BY <1>8 DEF Receive, ReadIInv
  <1> QED
    BY <1>1, <1>2, <1>3, <1>4, <1>5, <1>6, <1>7, <1>8, StepKinds

-----------------------------------------------------------------------------
(* A file is in the snapshot once.                                         *)

\* While nothing is incomplete the path at hand is the one after the pages.
LEMMA PathIsNext ==
  ASSUME ReadIInv, ~incomplete
  PROVE  Path = ask.paths[Len(pages) + 1]
  BY LenProperties DEF ReadIInv, Complete, Path, Places, TypeOK

LEMMA PagePaths ==
  ASSUME ReadIInv
  PROVE  \A i \in DOMAIN pages : ask.paths[i] \in Names
  <1>1. ask.paths \in Seq(Names) /\ pages \in Seq(Bytes \union {None})
    BY Basics DEF ReadIInv, TypeOK, Places
  <1>2. Len(pages) \in Nat /\ DOMAIN pages = 1 .. Len(pages) /\ Len(ask.paths) \in Nat
    BY <1>1, LenProperties
  <1> QED
    BY <1>1, <1>2 DEF ReadIInv, TypeOK

LEMMA SnapshotStep ==
  ASSUME ReadIInv, Editors \/ Steps
  PROVE  Snapshot'
  <1> SUFFICES ASSUME phase' # "idle", ~moved' PROVE FilesAgree' /\ KeyIsNew' /\ PagesAgree'
    BY DEF Snapshot
  <1> USE DEF FilesAgree, KeyIsNew, PagesAgree
  <1>1. CASE Editors
    <2>1. UNCHANGED <<phase, index, files, incomplete, pages, key, ask>>
      BY <1>1, EditorStep DEF capture, rest
    <2>2. target' = target /\ ~moved
      <3>1. CASE \E l \in Links : Retarget(l)
        BY <2>1, <3>1 DEF Retarget
      <3>2. CASE \E f \in Files : WriteBlock(f) \/ Replace(f) \/ Remove(f)
        BY <3>2 DEF WriteBlock, Replace, Remove
      <3> QED
        BY <1>1, <3>1, <3>2 DEF Editors
    <2> QED
      BY <2>1, <2>2 DEF ReadIInv, Snapshot, Busy, Canonical, Path
  <1>2. ASSUME NEW r \in Requests, NEW c, Begin(r, c) PROVE FilesAgree' /\ KeyIsNew' /\ PagesAgree'
    BY <1>2, EmptySeq DEF Begin, Busy
  <1>3. ASSUME SameRest, phase # "idle"
        PROVE  /\ \A n : Canonical(n)' = Canonical(n)
               /\ FilesAgree /\ KeyIsNew /\ PagesAgree
    BY <1>3 DEF SameRest, disk, rest, Canonical, ReadIInv, Snapshot
  <1>4. CASE FailStep
    <2>1. /\ files' = files /\ phase' = "path" /\ incomplete' = TRUE
          /\ SameRest /\ phase # "idle"
      BY <1>4 DEF FailStep, PageFails, PageDone
    <2> QED
      BY <1>3, <2>1 DEF Busy
  <1>5. CASE DeadlinePasses
    <2>1. /\ files' = files /\ phase' = "path" /\ incomplete' = TRUE
          /\ SameRest /\ phase # "idle"
      BY <1>5 DEF DeadlinePasses, MorePaths, SameRest
    <2> QED
      BY <1>3, <2>1 DEF Busy
  <1>6. ASSUME NEW b, PageStep(b) PROVE FilesAgree' /\ KeyIsNew' /\ PagesAgree'
    <2>1. /\ PageAdded(b) /\ b # None /\ incomplete' = incomplete /\ phase' = "path"
          /\ SameRest /\ phase # "idle" /\ ask' = ask
          /\ Path \in Names /\ Canonical(Path) \in Files /\ Path \in Links \union {Canonical(Path)}
      BY <1>6, PageDoneTypes, PathAtHand, NoneAssumption DEF PageStep, SameRest, rest, PageAdded
    <2>2. /\ \A n \in Names : Canonical(n) \in Files /\ Canonical(n) \in Names
          /\ \A f \in Files : Canonical(f) = f /\ f \notin Links
      BY CanonicalIsFile, Basics, ReadAssumption DEF ReadIInv
    <2>3. files \in [Names -> Bytes \union {None}]
      BY DEF ReadIInv, TypeOK
    <2>4. FilesAgree /\ PagesAgree /\ KeyIsNew /\ \A n : Canonical(n)' = Canonical(n)
      BY <1>3, <2>1
    \* The snapshot grows under the names of one file, which it did not have.
    <2>5. /\ FilesAgree' /\ files'[Canonical(Path)] = b
          /\ \A n \in Names : files[Canonical(n)] # None => files'[Canonical(n)] = files[Canonical(n)]
      <3>1. CASE files[Path] = b /\ files' = files
        BY <2>1, <2>4, <3>1
      <3>2. CASE /\ files[Path] = None /\ files[Canonical(Path)] = b
                 /\ files' = [files EXCEPT ![Path] = b]
        <4>1. Path \in Links
          BY <2>1, <3>2
        <4> QED
          BY <2>1, <2>2, <2>3, <2>4, <3>2, <4>1
      <3>3. CASE phase = "check" /\ files' = [files EXCEPT ![key] = b, ![Path] = b]
        <4>1. key = Canonical(Path) /\ files[key] = None
          BY <2>4, <3>3 DEF Busy
        <4> QED
          BY <2>1, <2>2, <2>3, <2>4, <3>3, <4>1
      <3> QED
        BY <1>6, <3>1, <3>2, <3>3 DEF PageStep
    <2>6. PagesAgree'
      <3> SUFFICES ASSUME ~incomplete, NEW i \in DOMAIN pages'
                   PROVE  pages'[i] = files'[Canonical(ask.paths[i])]
        BY <2>1, <2>4
      <3>1. CASE i \in DOMAIN pages /\ pages'[i] = pages[i]
        <4>1. pages[i] = files[Canonical(ask.paths[i])] /\ pages[i] # None /\ ask.paths[i] \in Names
          BY <2>4, <3>1, PagePaths DEF ReadIInv, Complete
        <4> QED
          BY <2>5, <3>1, <4>1
      <3>2. CASE i = Len(pages') /\ pages'[i] = b
        <4>1. Len(pages') = Len(pages) + 1
          BY <2>1 DEF PageAdded
        <4> QED
          BY <2>5, <3>2, <4>1, PathIsNext
      <3> QED
        BY <2>1, <3>1, <3>2 DEF PageAdded
    <2> QED
      BY <2>1, <2>5, <2>6 DEF Busy
  <1>7. CASE CaptureStep
    <2>1. /\ UNCHANGED <<index, files, incomplete, pages, ask>> /\ Path' = Path
          /\ SameRest /\ phase # "idle"
          /\ \/ key' = Canonical(Path) /\ files[Canonical(Path)] = None
             \/ Busy /\ key' = key
      BY <1>7 DEF CaptureStep, SameRest, rest, Path, Busy, ReadBlock
    <2> QED
      BY <1>3, <2>1
  <1>8. CASE Respond
    <2>1. /\ UNCHANGED <<files, incomplete, pages, target, ask>> /\ phase' = "done"
          /\ phase # "idle" /\ moved' = moved
      BY <1>8 DEF Respond, disk
    <2> QED
      BY <2>1 DEF ReadIInv, Snapshot, Busy, Canonical
  <1>9. CASE Receive
    BY <1>9 DEF Receive
  <1> QED
    BY <1>1, <1>2, <1>4, <1>5, <1>6, <1>7, <1>8, <1>9, StepKinds

-----------------------------------------------------------------------------
(* What is in the snapshot was on the disk.                                *)

LEMMA NotedStep ==
  ASSUME ReadIInv, Editors \/ Steps
  PROVE  Noted'
  <1> USE DEF Noted
  <1>1. CASE Editors
    BY <1>1, EditorStep DEF Note
  <1>2. ASSUME NEW r \in Requests, NEW c, Begin(r, c) PROVE Noted'
    BY <1>2 DEF Begin, Now, Canonical, Read
  <1>3. ASSUME UNCHANGED disk, phase # "idle" PROVE Noted'
    BY <1>3 DEF disk, Now, Canonical, Read, ReadIInv
  <1> QED
    BY <1>1, <1>2, <1>3, StepKinds
       DEF FailStep, PageStep, CaptureStep, DeadlinePasses, MorePaths, Respond, Receive, SameRest

LEMMA StillThere ==
  ASSUME ReadIInv, lived \subseteq lived', NEW n, NEW b, WasThere(n, b)
  PROVE  \E f \in Files : n \in Links \union {f} /\ <<f, b>> \in lived'
  BY DEF WasThere

\* An editor that leaves the time of the open file leaves its blocks.
LEMMA EditorLeavesHandle ==
  ASSUME ReadIInv, Editors, phase # "idle", ~coarse'
  PROVE  /\ ~coarse /\ lived \subseteq lived'
         /\ data[handle].mtime <= data'[handle].mtime
         /\ data[handle].mtime = data'[handle].mtime => data'[handle] = data[handle]
  <1>1. phase' = phase /\ lived' = lived \union Now'
    BY EditorStep DEF Note
  <1>2. /\ handle \in Inodes /\ handle <= versions + Cardinality(Files)
        /\ data \in [Inodes -> [bytes : Bytes, mtime : 0 .. MaxVersions]]
        /\ versions \in Nat /\ Cardinality(Files) \in Nat /\ handle \in Nat
    BY Basics DEF ReadIInv, TypeOK, Places
  <1>3. data[handle].mtime \in Nat
    BY <1>2
  <1>4. ASSUME NEW f \in Files, WriteBlock(f)
        PROVE  /\ ~coarse /\ data[handle].mtime <= data'[handle].mtime
               /\ data[handle].mtime = data'[handle].mtime => data'[handle] = data[handle]
    <2>1. PICK b \in Bytes : Stamp(inode[f], b)
      BY <1>4, WrittenBytes
    <2>2. /\ ~coarse
          /\ data' = [data EXCEPT ![inode[f]] = [bytes |-> b, mtime |-> @.mtime + 1]]
      BY <2>1 DEF Stamp
    <2>3. CASE inode[f] = handle
      <3>1. data'[handle].mtime = data[handle].mtime + 1
        BY <1>2, <2>2, <2>3
      <3> QED
        BY <1>3, <2>2, <3>1
    <2>4. CASE inode[f] # handle
      BY <1>2, <1>3, <2>2, <2>4
    <2> QED
      BY <2>3, <2>4
  <1>5. ASSUME NEW f \in Files, Replace(f) PROVE ~coarse /\ data'[handle] = data[handle]
    <2>1. handle # versions + 1 + Cardinality(Files)
      BY <1>2
    <2> QED
      BY <1>2, <1>5, <2>1 DEF Replace
  <1>6. ASSUME NEW f \in Files, Remove(f) PROVE ~coarse /\ data'[handle] = data[handle]
    BY <1>6 DEF Remove
  <1>7. ASSUME NEW l \in Links, Retarget(l) PROVE ~coarse /\ data'[handle] = data[handle]
    BY <1>7 DEF Retarget
  <1> QED
    BY <1>1, <1>3, <1>4, <1>5, <1>6, <1>7 DEF Editors

LEMMA KeyStep ==
  ASSUME ReadIInv, Editors \/ Steps
  PROVE  Busy' => Path' \in Links \union {key'}
  <1>1. CASE Editors
    BY <1>1, EditorStep DEF ReadIInv, Captured, Busy, Path, capture, rest
  <1>2. CASE CaptureStep
    <2>1. Path' = Path /\ index <= Len(ask.paths)
      BY <1>2 DEF CaptureStep, SameRest, rest, Path
    <2>2. Path \in Links \union {Canonical(Path)}
      BY <2>1, PathAtHand
    <2> QED
      BY <1>2, <2>1, <2>2 DEF CaptureStep, ReadBlock, ReadIInv, Captured, Busy
  <1>3. CASE FailStep \/ (\E b : PageStep(b))
    BY <1>3 DEF FailStep, PageStep, PageFails, PageDone, Busy
  <1> QED
    BY <1>1, <1>2, <1>3, StepKinds
       DEF Begin, DeadlinePasses, MorePaths, Respond, Receive, Busy

\* An accepted capture is what the open file held, and it was noted then.
LEMMA AcceptedWasThere ==
  ASSUME ReadIInv, phase = "check", Unchanged, ~coarse
  PROVE  <<key, got>> \in lived
  <1>1. data[handle].bytes \in Bytes /\ got \in Bytes
    BY DEF ReadIInv, TypeOK
  <1>2. /\ before.mtime = data[handle].mtime
        /\ Len(got) = Len(data[handle].bytes)
    BY DEF Unchanged
  <1>3. /\ <<key, data[handle].bytes>> \in lived
        /\ \A j \in 1 .. Len(got) : got[j] = data[handle].bytes[j]
    BY <1>2 DEF ReadIInv, Captured, GotSeen
  <1>4. got = data[handle].bytes
    <2> DEFINE b == data[handle].bytes
    <2>1. b \in Seq(Versions) /\ got \in Seq(Versions)
      BY <1>1, BytesAreSequences
    <2>2. \A j \in 1 .. Len(got) : got[j] = b[j]
      BY <1>3
    <2>3. Len(got) = Len(b)
      BY <1>2
    <2> HIDE DEF b
    <2>4. got = b
      BY <2>1, <2>2, <2>3, SeqEqual
    <2> QED
      BY <2>4 DEF b
  <1> QED
    BY <1>3, <1>4

LEMMA CapturedStep ==
  ASSUME ReadIInv, Editors \/ Steps
  PROVE  Captured'
  <1> SUFFICES ASSUME phase' # "idle", ~coarse' PROVE FilesSeen' /\ PagesSeen' /\ GotSeen'
    BY KeyStep DEF Captured
  <1> USE DEF FilesSeen, PagesSeen
  <1>1. CASE Editors
    <2>1. UNCHANGED <<phase, index, files, incomplete, pages, ask, key, handle, before, got>>
      BY <1>1, EditorStep DEF capture, rest
    <2>2. /\ ~coarse /\ lived \subseteq lived'
          /\ data[handle].mtime <= data'[handle].mtime
          /\ data[handle].mtime = data'[handle].mtime => data'[handle] = data[handle]
      BY <1>1, <2>1, EditorLeavesHandle
    <2>3. FilesSeen /\ PagesSeen /\ GotSeen
      BY <2>1, <2>2 DEF ReadIInv, Captured
    <2>4. FilesSeen' /\ PagesSeen'
      <3>1. \A n, b : WasThere(n, b) => WasThere(n, b)'
        BY <2>2, StillThere DEF WasThere
      <3> QED
        BY <2>1, <2>3, <3>1 DEF WasThere
    <2>5. GotSeen'
      <3>1. before.mtime \in Nat /\ data[handle].mtime \in Nat /\ handle \in Inodes
        BY DEF ReadIInv, TypeOK
      <3>2. data'[handle].mtime \in Nat
        <4>1. TypeOK'
          BY <1>1, EditorTypes
        <4> QED
          BY <2>1, <3>1, <4>1 DEF TypeOK
      <3>3. before.mtime = data'[handle].mtime /\ before.mtime <= data[handle].mtime =>
              before.mtime = data[handle].mtime
        BY <2>2, <3>1, <3>2
      <3>4. before.mtime <= data[handle].mtime => before.mtime <= data'[handle].mtime
        BY <2>2, <3>1, <3>2
      <3> QED
        BY <2>1, <2>2, <2>3, <3>3, <3>4 DEF GotSeen
    <2> QED
      BY <2>4, <2>5
  <1>2. ASSUME NEW r \in Requests, NEW c, Begin(r, c) PROVE FilesSeen' /\ PagesSeen' /\ GotSeen'
    BY <1>2, EmptySeq DEF Begin, GotSeen
  <1>3. ASSUME UNCHANGED disk, phase # "idle"
        PROVE  /\ FilesSeen /\ PagesSeen /\ GotSeen /\ lived' = lived
               /\ \A n, b : WasThere(n, b)' <=> WasThere(n, b)
    BY <1>3 DEF ReadIInv, Captured, WasThere, disk
  <1>4. CASE FailStep
    <2>1. files' = files /\ phase' = "path" /\ incomplete' = TRUE /\ UNCHANGED disk /\ phase # "idle"
      BY <1>4 DEF FailStep, PageFails, PageDone, SameRest
    <2> QED
      BY <1>3, <2>1 DEF GotSeen, WasThere
  <1>5. CASE DeadlinePasses
    <2>1. files' = files /\ phase' = "path" /\ incomplete' = TRUE /\ UNCHANGED disk /\ phase # "idle"
      BY <1>5 DEF DeadlinePasses, MorePaths
    <2> QED
      BY <1>3, <2>1 DEF GotSeen, WasThere
  <1>6. ASSUME NEW b, PageStep(b) PROVE FilesSeen' /\ PagesSeen' /\ GotSeen'
    <2>1. /\ PageAdded(b) /\ incomplete' = incomplete /\ phase' = "path" /\ UNCHANGED disk
          /\ SameRest /\ phase # "idle" /\ ask' = ask /\ Path \in Names
          /\ Canonical(Path) \in Files /\ Path \in Links \union {Canonical(Path)}
      BY <1>6, PageDoneTypes, PathAtHand DEF PageStep, SameRest, rest, PageAdded
    <2>2. FilesSeen /\ PagesSeen /\ lived' = lived /\ \A n, x : WasThere(n, x)' <=> WasThere(n, x)
      BY <1>3, <2>1
    <2>3. files \in [Names -> Bytes \union {None}] /\ key \in Files /\ Canonical(Path) \in Names
      BY <2>1, Basics DEF ReadIInv, TypeOK
    <2>4. WasThere(Path, b) /\ \A n \in Names : files'[n] = files[n] \/ (files'[n] = b /\ WasThere(n, b))
      <3>1. CASE files[Path] = b /\ files' = files
        BY <1>6, <2>1, <2>2, <3>1, NoneAssumption DEF PageStep
      <3>2. CASE files[Canonical(Path)] = b /\ files' = [files EXCEPT ![Path] = b]
        <4>1. WasThere(Canonical(Path), b)
          BY <1>6, <2>2, <2>3, <3>2, NoneAssumption DEF PageStep
        <4>2. <<Canonical(Path), b>> \in lived
          BY <2>1, <4>1, ReadAssumption DEF WasThere
        <4>3. WasThere(Path, b)
          BY <2>1, <4>2 DEF WasThere
        <4> QED
          BY <2>3, <3>2, <4>3
      <3>3. CASE phase = "check" /\ Unchanged /\ b = got /\ files' = [files EXCEPT ![key] = b, ![Path] = b]
        <4>1. ~coarse /\ Path \in Links \union {key}
          BY <2>1, <3>3 DEF disk, ReadIInv, Captured, Busy
        <4>2. <<key, b>> \in lived
          BY <3>3, <4>1, AcceptedWasThere
        <4>3. WasThere(Path, b) /\ WasThere(key, b)
          BY <2>3, <4>1, <4>2 DEF WasThere
        <4> QED
          BY <2>3, <3>3, <4>3
      <3> QED
        BY <1>6, <3>1, <3>2, <3>3 DEF PageStep
    <2>5. PagesSeen'
      <3> SUFFICES ASSUME ~incomplete, NEW i \in DOMAIN pages'
                   PROVE  WasThere(ask.paths[i], pages'[i])
        BY <2>1, <2>2 DEF WasThere
      <3>1. CASE i \in DOMAIN pages /\ pages'[i] = pages[i]
        BY <2>2, <3>1
      <3>2. CASE i = Len(pages') /\ pages'[i] = b
        <4>1. Len(pages') = Len(pages) + 1
          BY <2>1 DEF PageAdded
        <4> QED
          BY <2>4, <3>2, <4>1, PathIsNext
      <3> QED
        BY <2>1, <3>1, <3>2 DEF PageAdded
    <2>6. FilesSeen'
      BY <2>2, <2>4 DEF WasThere
    <2> QED
      BY <2>1, <2>5, <2>6 DEF GotSeen
  <1>7. CASE CaptureStep
    <2>1. UNCHANGED <<files, incomplete, pages, ask>> /\ UNCHANGED disk /\ phase # "idle"
      BY <1>7 DEF CaptureStep, SameRest, rest
    <2>2. FilesSeen' /\ PagesSeen'
      BY <1>3, <2>1 DEF WasThere
    <2>3. GotSeen'
      <3>1. CASE phase' = "open"
        BY <3>1 DEF GotSeen
      <3>2. CASE phase = "read" /\ ReadBlock
        <4> DEFINE b == data[handle].bytes
        <4>1. b \in Seq(Versions) /\ got \in Seq(Versions) /\ Len(b) \in Nat /\ Len(got) \in Nat
          BY BytesAreSequences, LenProperties DEF ReadIInv, TypeOK
        <4>2. GotSeen /\ data' = data /\ lived' = lived /\ UNCHANGED <<key, handle, before>>
          BY <1>3, <2>1, <3>2 DEF ReadBlock, disk
        <4>3. CASE got' = Append(got, b[Len(got) + 1]) /\ Len(got) < Len(b)
          <5>1. b[Len(got) + 1] \in Versions
            BY <4>1, <4>3
          <5>2. /\ Len(got') = Len(got) + 1 /\ got'[Len(got) + 1] = b[Len(got) + 1]
                /\ \A j \in 1 .. Len(got) : got'[j] = got[j]
            BY <4>1, <4>3, <5>1, AppendProperties
          <5> QED
            BY <3>2, <4>1, <4>2, <4>3, <5>2 DEF GotSeen
        <4>4. CASE got' = got
          BY <3>2, <4>2, <4>4 DEF GotSeen
        <4> QED
          BY <3>2, <4>3, <4>4 DEF ReadBlock
      <3>3. CASE /\ phase = "open" /\ phase' = "read" /\ inode[key] # None /\ key' = key
                 /\ handle' = inode[key] /\ got' = <<>>
                 /\ before' = [len |-> Len(data[handle'].bytes), mtime |-> data[handle'].mtime]
        <4>1. key \in Names /\ Canonical(key) = key
          BY Basics, CanonicalIsFile DEF ReadIInv, TypeOK
        <4>2. <<key, data[inode[key]].bytes>> \in Now
          BY <3>3, <4>1 DEF Now, Read
        <4>3. <<key, data[inode[key]].bytes>> \in lived /\ UNCHANGED <<data, lived>>
          BY <2>1, <3>3, <4>2 DEF ReadIInv, Noted, disk
        <4>4. data[inode[key]].mtime \in Nat /\ Len(data[inode[key]].bytes) \in Nat
          BY <3>3, BytesLength DEF ReadIInv, TypeOK
        <4> QED
          BY <3>3, <4>3, <4>4 DEF GotSeen
      <3> QED
        BY <1>7, <3>1, <3>2, <3>3 DEF CaptureStep
    <2> QED
      BY <2>2, <2>3
  <1>8. CASE Respond
    <2>1. UNCHANGED <<files, incomplete, pages, ask>> /\ UNCHANGED disk /\ phase # "idle" /\ phase' = "done"
      BY <1>8 DEF Respond
    <2> QED
      BY <1>3, <2>1 DEF GotSeen, WasThere
  <1>9. CASE Receive
    BY <1>9 DEF Receive
  <1> QED
    BY <1>1, <1>2, <1>4, <1>5, <1>6, <1>7, <1>8, <1>9, StepKinds

-----------------------------------------------------------------------------

\* What each read and each snapshot knows of the file's bytes, for any number
\* of readers and versions: the inductive invariant of conditional reads.
THEOREM ReadInvariant == Spec => []ReadIInv
  <1>1. Init => ReadIInv
    BY ReadInit
  <1>2. ReadIInv /\ [Next]_vars => ReadIInv'
    <2> SUFFICES ASSUME ReadIInv, [Next]_vars PROVE ReadIInv'
      OBVIOUS
    <2>1. CASE Editors \/ Steps
      BY <2>1, EditorTypes, RequestTypes, CompleteStep, SnapshotStep, NotedStep, CapturedStep
         DEF ReadIInv
    <2>2. CASE UNCHANGED vars
      <3> USE <2>2 DEF vars, disk, capture, rest, ReadIInv, Busy, Path
      <3>1. TypeOK'
        BY DEF TypeOK
      <3>2. Places' /\ Complete'
        BY DEF Places, Complete
      <3>3. Snapshot'
        BY DEF Snapshot, FilesAgree, KeyIsNew, PagesAgree, Canonical
      <3>4. Noted'
        BY DEF Noted, Now, Canonical, Read
      <3>5. FilesSeen' <=> FilesSeen
        BY DEF FilesSeen, WasThere
      <3>6. PagesSeen' <=> PagesSeen
        BY DEF PagesSeen, WasThere
      <3>7. GotSeen' <=> GotSeen
        BY DEF GotSeen
      <3>8. Captured'
        BY <3>5, <3>6, <3>7 DEF Captured
      <3> QED
        BY <3>1, <3>2, <3>3, <3>4, <3>8
    <2> QED
      BY <2>1, <2>2 DEF Next, Editors, Steps
  <1> QED
    BY <1>1, <1>2, PTL DEF Spec

\* Types: what a request captures stays in the snapshot's bound, however the
\* files grow while they are read.
THEOREM ReadTypeCorrect == Spec => []TypeOK
  BY ReadInvariant, PTL DEF ReadIInv

\* A tag, and the word "unchanged", are given for all that was asked, never
\* for a list of which a path failed or was left out.
THEOREM TagsAreComplete == Spec => []TagIsComplete
  <1>1. ReadIInv => TagIsComplete
    <2> SUFFICES ASSUME ReadIInv, phase = "done", answer.tag # None
                 PROVE  Len(pages) = Len(ask.paths) /\ \A i \in DOMAIN pages : pages[i] # None
      BY DEF TagIsComplete
    <2>1. ~incomplete /\ index = Len(ask.paths) + 1
      BY DEF ReadIInv, Complete
    <2>2. Len(ask.paths) \in Nat
      BY Basics, LenProperties DEF ReadIInv, TypeOK
    <2> QED
      BY <2>1, <2>2 DEF ReadIInv, Complete
  <1> QED
    BY <1>1, ReadInvariant, PTL

\* Two names of a file show the same content in one tagged answer.
THEOREM FilesAreReadOnce == Spec => []OneVersionPerFile
  <1>1. ReadIInv => OneVersionPerFile
    BY DEF ReadIInv, Complete, Snapshot, PagesAgree, OneVersionPerFile
  <1> QED
    BY <1>1, ReadInvariant, PTL

\* What a tagged answer shows of a path was its file's content, whole, at one
\* moment of the request.
THEOREM ViewsWereOnDisk == Spec => []ViewWasOnDisk
  <1>1. ReadIInv => ViewWasOnDisk
    BY DEF ReadIInv, Complete, Captured, PagesSeen, WasThere, ViewWasOnDisk
  <1> QED
    BY <1>1, ReadInvariant, PTL
=============================================================================
