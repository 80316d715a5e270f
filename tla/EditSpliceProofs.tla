-------------------------- MODULE EditSpliceProofs --------------------------
(***************************************************************************)
(* Proofs about EditSplice, for any lines, any batch and any replacements. *)
(*                                                                         *)
(* The batch means one line at a time (Meaning), the code works one edit   *)
(* at a time, first upwards, then downwards.  Both are tied to Kept, the   *)
(* meaning of the first n lines: above the lowest edit still to splice the *)
(* file is as it was read, below it is what Kept has after that line; and  *)
(* the running offset is how much longer Kept is than the lines it stands  *)
(* for.  Facts about Kept go from one line to the next; NatSetInduction    *)
(* gives them for all lines.                                               *)
(***************************************************************************)
EXTENDS EditSplice, SequenceTheorems, FiniteSetTheorems, WellFoundedInduction,
        TLAPS

-----------------------------------------------------------------------------
(* Sequences.                                                              *)

\* Induction, over a set of numbers instead of a predicate.
LEMMA NatSetInduction ==
  ASSUME NEW T, 0 \in T, \A n \in Nat : n \in T => n + 1 \in T
  PROVE  \A n \in Nat : n \in T
  <1> DEFINE Bad == {n \in Nat : n \notin T}
  <1> SUFFICES ASSUME Bad # {} PROVE FALSE
    OBVIOUS
  <1>1. PICK m \in Bad : \A n \in Bad : ~(<<n, m>> \in OpToRel(<, Nat))
    BY NatLessThanWellFounded, WFMin, Zenon
  <1>2. m \in Nat /\ m # 0 /\ m \notin T
    OBVIOUS
  <1>3. m - 1 \in Nat /\ m - 1 < m
    BY <1>2
  <1>4. m - 1 \notin Bad
    BY <1>1, <1>2, <1>3 DEF OpToRel
  <1> QED
    BY <1>2, <1>3, <1>4

LEMMA ConcatSeq ==
  ASSUME NEW S
  PROVE  \A s, t \in Seq(S) : s \o t \in Seq(S)
  BY ConcatProperties

LEMMA ConcatAssoc ==
  \A s, t, u \in Seq(Lines) : (s \o t) \o u = s \o (t \o u)
  <1> SUFFICES ASSUME NEW s \in Seq(Lines), NEW t \in Seq(Lines), NEW u \in Seq(Lines)
               PROVE  (s \o t) \o u = s \o (t \o u)
    OBVIOUS
  <1> QED
    BY ConcatAssociative

\* f[i] is the first i sequences of ss, one after the other.
Joins(f, ss, n) == f[0] = <<>> /\ \A i \in 1..n : f[i] = f[i - 1] \o ss[i]

LEMMA PrefixConcat ==
  ASSUME NEW S, NEW n \in Nat, NEW ss \in [1..n -> Seq(S)]
  PROVE  \E f \in [0..n -> Seq(S)] : Joins(f, ss, n)
  <1> USE DEF Joins
  <1> DEFINE Good(m, f) == Joins(f, ss, m)
             T == {m \in Nat : m <= n => \E f \in [0..m -> Seq(S)] : Good(m, f)}
  <1>1. 0 \in T
    <2> DEFINE f == [i \in 0..0 |-> <<>>]
    <2>1. f \in [0..0 -> Seq(S)] /\ Good(0, f)
      OBVIOUS
    <2> QED
      BY <2>1
  <1>2. ASSUME NEW m \in Nat, m \in T PROVE m + 1 \in T
    <2>0. m + 1 \in Nat
      OBVIOUS
    <2> SUFFICES ASSUME m + 1 <= n
                 PROVE  \E f \in [0..m + 1 -> Seq(S)] : Good(m + 1, f)
      BY <2>0, Zenon
    <2>1. m <= n
      OBVIOUS
    <2>2. PICK f \in [0..m -> Seq(S)] : Good(m, f)
      BY <1>2, <2>1, Zenon
    <2> DEFINE g == [i \in 0..m + 1 |-> IF i <= m THEN f[i] ELSE f[m] \o ss[m + 1]]
    <2>3. f[m] \o ss[m + 1] \in Seq(S)
      <3>1. f[m] \in Seq(S) /\ ss[m + 1] \in Seq(S)
        OBVIOUS
      <3> QED
        BY <3>1, ConcatSeq, Zenon
    <2>4. g \in [0..m + 1 -> Seq(S)]
      BY <2>3
    <2>5. g[0] = <<>>
      BY <2>2
    <2>6. ASSUME NEW i \in 1..m + 1 PROVE g[i] = g[i - 1] \o ss[i]
      <3>1. i - 1 \in 0..m /\ i - 1 \in 0..m + 1 /\ i \in 0..m + 1 /\ i - 1 <= m
        OBVIOUS
      <3>2. g[i - 1] = f[i - 1]
        BY <3>1, Zenon
      <3>3. CASE i <= m
        <4>1. i \in 1..m
          BY <3>3
        <4>2. f[i] = f[i - 1] \o ss[i] /\ g[i] = f[i]
          BY <2>2, <3>1, <3>3, <4>1, Zenon
        <4> QED
          BY <3>2, <4>2, Zenon
      <3>4. CASE i = m + 1
        <4>1. ~(i <= m) /\ i - 1 = m
          BY <3>4
        <4>2. g[i] = f[m] \o ss[i]
          BY <3>1, <3>4, <4>1, Zenon
        <4> QED
          BY <3>2, <4>1, <4>2, Zenon
      <3>5. i <= m \/ i = m + 1
        OBVIOUS
      <3> QED
        BY <3>3, <3>4, <3>5, Zenon
    <2> QED
      BY <2>4, <2>5, <2>6
  <1>3. n \in T
    <2> HIDE DEF T
    <2> QED
      BY <1>1, <1>2, NatSetInduction
  <1>4. n <= n
    OBVIOUS
  <1> QED
    BY <1>3, <1>4, Zenon

\* There is only one such function, from the first index on.
LEMMA FlattenIsConcat ==
  ASSUME NEW S, NEW n \in Nat, NEW ss \in [1..n -> Seq(S)],
         NEW f \in [0..n -> Seq(S)], Joins(f, ss, n)
  PROVE  FlattenSeq(ss) = f[n]
  <1> USE DEF Joins
  <1>1. ss \in Seq(Seq(S)) /\ Len(ss) = n
    OBVIOUS
  <1>2. CASE n = 0
    BY <1>1, <1>2 DEF FlattenSeq
  <1>3. CASE n # 0
    <2> DEFINE F(g) == [i \in 1..n |-> IF i = 1 THEN ss[i] ELSE g[i - 1] \o ss[i]]
               h == [i \in 1..n |-> f[i]]
               g == CHOOSE g : g = F(g)
    <2>1. FlattenSeq(ss) = g[n]
      BY <1>1, <1>3 DEF FlattenSeq
    <2>2. h = F(h)
      <3>1. ASSUME NEW i \in 1..n PROVE h[i] = F(h)[i]
        <4>1. CASE i = 1
          <5>1. 1 \in 1..n /\ 1 - 1 = 0
            BY <1>3
          <5>2. f[1] = f[0] \o ss[1]
            BY <5>1, Zenon
          <5>3. ss[1] \in Seq(S)
            BY <5>1
          <5>4. f[1] = ss[1]
            BY <5>2, <5>3, ConcatEmptySeq, Zenon
          <5> QED
            BY <4>1, <5>4, Zenon
        <4>2. CASE i # 1
          <5>1. i - 1 \in 1..n
            BY <4>2
          <5> QED
            BY <4>2, <5>1, Zenon
        <4> QED
          BY <4>1, <4>2
      <3> QED
        BY <3>1
    <2>3. g = F(g)
      <3> HIDE DEF F, h
      <3> QED
        BY <2>2
    <2>4. ASSUME NEW x, x = F(x), NEW i \in 1..n, i # 1
          PROVE  x[i] = x[i - 1] \o ss[i]
      <3>1. F(x)[i] = x[i - 1] \o ss[i]
        BY <2>4, Zenon
      <3> HIDE DEF F
      <3> QED
        BY <2>4, <3>1, Zenon
    <2>5. \A i \in Nat : i \in {k \in Nat : k + 1 \in 1..n => g[k + 1] = h[k + 1]}
      <3> DEFINE T == {k \in Nat : k + 1 \in 1..n => g[k + 1] = h[k + 1]}
      <3> HIDE DEF g, h
      <3>1. 0 \in T
        <4>1. 1 \in 1..n
          BY <1>3
        <4>2. g[1] = ss[1] /\ h[1] = ss[1]
          BY <2>2, <2>3, <4>1
        <4> QED
          BY <4>2
      <3>2. ASSUME NEW k \in Nat, k \in T PROVE k + 1 \in T
        <4> SUFFICES ASSUME k + 1 + 1 \in 1..n PROVE g[k + 1 + 1] = h[k + 1 + 1]
          OBVIOUS
        <4> HIDE DEF F
        <4>1. PICK i \in 1..n : i = k + 1 + 1
          OBVIOUS
        <4>2. i # 1 /\ i - 1 = k + 1 /\ k + 1 \in 1..n
          BY <4>1
        <4>3. g[i] = g[i - 1] \o ss[i]
          BY <2>3, <2>4, <4>2, Zenon
        <4>4. h[i] = h[i - 1] \o ss[i]
          BY <2>2, <2>4, <4>2, Zenon
        <4>5. g[k + 1] = h[k + 1]
          BY <3>2, <4>2, Zenon
        <4> QED
          BY <4>1, <4>2, <4>3, <4>4, <4>5, Zenon
      <3> HIDE DEF T
      <3>3. \A i \in Nat : i \in T
        BY <3>1, <3>2, NatSetInduction
      <3> QED
        BY <3>3 DEF T
    <2>6. g[n] = h[n]
      <3>1. n - 1 \in Nat /\ n - 1 + 1 = n /\ n \in 1..n
        BY <1>3
      <3>2. n - 1 + 1 \in 1..n => g[n - 1 + 1] = h[n - 1 + 1]
        BY <2>5, <3>1, Zenon
      <3> QED
        BY <3>1, <3>2, Zenon
    <2>7. n \in 1..n
      BY <1>3
    <2> QED
      BY <2>1, <2>6, <2>7, Zenon
  <1> QED
    BY <1>2, <1>3

\* Concatenation under a name of its own, which the provers leave alone.
Cat(s, t) == s \o t

LEMMA CatFour ==
  \A k, n, x, y \in Seq(Lines) :
     Cat(Cat(Cat(k, n), x), y) = Cat(k, Cat(n, Cat(x, y)))
  BY SMT DEF Cat

\* o has the elements of new right after as many as a has.
Follows(o, a, new) ==
    \A j \in 1..Len(new) : Len(a) + j \in 1..Len(o) /\ o[Len(a) + j] = new[j]

LEMMA CatIndex ==
  \A a, new, rest \in Seq(Lines) : Follows(Cat(Cat(a, new), rest), a, new)
  <1> SUFFICES ASSUME NEW a \in Seq(Lines), NEW new \in Seq(Lines),
                      NEW rest \in Seq(Lines)
               PROVE  Follows(Cat(Cat(a, new), rest), a, new)
    OBVIOUS
  <1> DEFINE x == Cat(a, new)
             o == Cat(x, rest)
  <1>1. /\ x \in Seq(Lines) /\ Len(x) = Len(a) + Len(new)
        /\ \A j \in 1..Len(new) : Len(a) + j \in 1..Len(x) /\ x[Len(a) + j] = new[j]
    BY DEF Cat
  <1> HIDE DEF x
  <1>2. /\ o \in Seq(Lines) /\ Len(o) = Len(x) + Len(rest)
        /\ \A i \in 1..Len(x) : i \in 1..Len(o) /\ o[i] = x[i]
    <2>1. x \in Seq(Lines) /\ o = x \o rest
      BY <1>1 DEF Cat
    <2> HIDE DEF o
    <2> QED
      BY <2>1
  <1> HIDE DEF o
  <1>3. Follows(o, a, new)
    BY <1>1, <1>2, Zenon DEF Follows
  <1> QED
    BY <1>3 DEF o, x

LEMMA SubSeqSplit ==
  ASSUME NEW S, NEW x \in Seq(S), NEW t \in 0..Len(x), NEW c \in t..Len(x)
  PROVE  SubSeq(x, t + 1, Len(x)) = SubSeq(x, t + 1, c) \o SubSeq(x, c + 1, Len(x))
  <1>1. /\ Len(x) \in Nat /\ Len(x) \in c..Len(x)
        /\ t + 1 \in 1..Len(x) + 1 /\ c \in t + 1 - 1..Len(x)
    OBVIOUS
  <1>2. PICK m \in 1..Len(x) + 1 : m = t + 1 /\ c \in m - 1..Len(x)
    BY <1>1
  <1>3. SubSeq(x, m, c) \o SubSeq(x, c + 1, Len(x)) = SubSeq(x, m, Len(x))
    BY <1>1, <1>2, ConcatAdjacentSubSeq
  <1> QED
    BY <1>2, <1>3, Zenon

-----------------------------------------------------------------------------
(* The order of the edits.                                                 *)

Hashes == {LineHash[l] : l \in Lines}
AnEdit == [start : Nat \ {0}, startHash : Hashes,
           end : Nat \ {0}, endHash : Hashes, new : Replacements]

LEMMA BatchTypes ==
  ASSUME edits \in Seq(AnEdit)
  PROVE  /\ Len(edits) \in Nat /\ DOMAIN edits = 1..Len(edits)
         /\ \A i \in DOMAIN edits :
              /\ edits[i].start \in Nat \ {0} /\ edits[i].end \in Nat \ {0}
              /\ edits[i].new \in Seq(Lines)
  <1>1. Len(edits) \in Nat /\ DOMAIN edits = 1..Len(edits)
    BY LenProperties
  <1>2. ASSUME NEW i \in DOMAIN edits PROVE edits[i] \in AnEdit
    BY <1>1, ElementOfSeq
  <1> QED
    BY <1>1, <1>2, InputAssumption DEF AnEdit

\* Before is a strict total order, and Position is monotonic in it.
LEMMA PositionIsMonotonic ==
  ASSUME edits \in Seq(AnEdit), NEW i \in DOMAIN edits
  PROVE  /\ Position(i) \in DOMAIN edits
         /\ \A j \in DOMAIN edits : Before(j, i) => Position(j) < Position(i)
  <1> DEFINE Ahead(k) == {j \in DOMAIN edits : Before(j, k)}
  <1>1. IsFiniteSet(DOMAIN edits) /\ Cardinality(DOMAIN edits) = Len(edits)
    <2>1. Len(edits) \in Nat /\ DOMAIN edits = 1..Len(edits)
      BY BatchTypes
    <2>2. IsFiniteSet(1..Len(edits)) /\
          Cardinality(1..Len(edits)) = IF 1 > Len(edits) THEN 0 ELSE Len(edits) - 1 + 1
      BY <2>1, FS_Interval
    <2> HIDE DEF Ahead
    <2> QED
      BY <2>1, <2>2
  <1>2. ASSUME NEW k \in DOMAIN edits
        PROVE  IsFiniteSet(Ahead(k)) /\ Cardinality(Ahead(k)) \in Nat
    BY <1>1, FS_Subset, FS_CardinalityType, Zenon
  <1>3. Cardinality(Ahead(i)) < Len(edits)
    <2>1. Ahead(i) \subseteq DOMAIN edits /\ i \notin Ahead(i)
      BY BatchTypes DEF Before
    <2>2. Ahead(i) # DOMAIN edits
      BY <2>1
    <2>3. /\ Cardinality(Ahead(i)) <= Cardinality(DOMAIN edits)
          /\ Cardinality(DOMAIN edits) = Cardinality(Ahead(i)) => DOMAIN edits = Ahead(i)
      BY <1>1, <2>1, FS_Subset
    <2> HIDE DEF Ahead
    <2> QED
      BY <1>1, <1>2, <2>2, <2>3, BatchTypes
  <1>4. Position(i) \in DOMAIN edits
    <2>1. Position(i) = Cardinality(Ahead(i)) + 1
      BY DEF Position
    <2> HIDE DEF Ahead
    <2> QED
      BY <1>2, <1>3, <2>1, BatchTypes
  <1>5. ASSUME NEW j \in DOMAIN edits, Before(j, i)
        PROVE  Position(j) < Position(i)
    <2>1. Ahead(j) \subseteq Ahead(i) /\ j \in Ahead(i) /\ j \notin Ahead(j)
      BY <1>5, BatchTypes DEF Before
    <2>2. Ahead(j) # Ahead(i)
      BY <2>1
    <2>3. /\ Cardinality(Ahead(j)) <= Cardinality(Ahead(i))
          /\ Cardinality(Ahead(i)) = Cardinality(Ahead(j)) => Ahead(i) = Ahead(j)
      BY <1>2, <2>1, FS_Subset
    <2>4. /\ Position(i) = Cardinality(Ahead(i)) + 1
          /\ Position(j) = Cardinality(Ahead(j)) + 1
      BY DEF Position
    <2> HIDE DEF Ahead
    <2> QED
      BY <1>2, <2>2, <2>3, <2>4
  <1> QED
    BY <1>4, <1>5

\* ByStart is a sequence that holds every edit once, at its position.
LEMMA ByStartSorts ==
  ASSUME edits \in Seq(AnEdit)
  PROVE  /\ ByStart \in Seq(DOMAIN edits) /\ Len(ByStart) = Len(edits)
         /\ \A k \in DOMAIN edits : ByStart[k] \in DOMAIN edits
         /\ \A i \in DOMAIN edits : \E k \in DOMAIN edits : ByStart[k] = i
         /\ \A k, l \in DOMAIN edits :
              k < l => edits[ByStart[k]].start <= edits[ByStart[l]].start
  <1> DEFINE N == DOMAIN edits
             pos == [i \in N |-> Position(i)]
  <1>1. IsFiniteSet(N)
    BY BatchTypes, FS_Interval
  <1>2. pos \in [N -> N]
    BY PositionIsMonotonic
  <1>3. ASSUME NEW i \in N, NEW j \in N, i # j PROVE Position(i) # Position(j)
    <2>1. Before(i, j) \/ Before(j, i)
      BY <1>3, BatchTypes DEF Before
    <2>2. Position(i) \in Nat /\ Position(j) \in Nat
      BY PositionIsMonotonic, BatchTypes
    <2> QED
      BY <2>1, <2>2, PositionIsMonotonic
  <1>4. pos \in Injection(N, N)
    BY <1>2, <1>3 DEF Injection, IsInjective
  <1>5. pos \in Surjection(N, N)
    BY <1>1, <1>4, FS_Injection, Zenon
  <1>6. \A k \in N : \E i \in N : Position(i) = k
    BY <1>5 DEF Surjection
  <1>7. \A k \in N : ByStart[k] \in N /\ Position(ByStart[k]) = k
    BY <1>6 DEF ByStart
  <1>8. ByStart \in Seq(N) /\ Len(ByStart) = Len(edits)
    <2>1. ByStart = [k \in N |-> ByStart[k]]
      BY DEF ByStart
    <2>2. N = 1..Len(edits) /\ Len(edits) \in Nat
      BY BatchTypes
    <2>3. ByStart \in [1..Len(edits) -> N]
      BY <1>7, <2>1, <2>2
    <2> QED
      BY <2>2, <2>3
  <1>9. \A i \in N : \E k \in N : ByStart[k] = i
    BY <1>3, <1>7, PositionIsMonotonic
  <1>10. ASSUME NEW k \in N, NEW l \in N, k < l
         PROVE  edits[ByStart[k]].start <= edits[ByStart[l]].start
    <2>1. PICK i \in N, j \in N : i = ByStart[k] /\ j = ByStart[l]
      BY <1>7
    <2>2. Position(i) = k /\ Position(j) = l
      BY <1>7, <2>1
    <2>3. ~Before(j, i)
      <3>1. k \in Nat /\ l \in Nat
        BY BatchTypes
      <3> QED
        BY <1>10, <2>2, <3>1, PositionIsMonotonic
    <2> QED
      BY <2>1, <2>3, BatchTypes DEF Before
  <1> QED
    BY <1>7, <1>8, <1>9, <1>10

-----------------------------------------------------------------------------
(* What a batch means, line by line.                                       *)

\* The meaning of the first n lines.
Kept[n \in 0..Len(lines)] == IF n = 0 THEN <<>> ELSE Kept[n - 1] \o Meaning[n]

Batch == lines \in Seq(Lines) /\ edits \in Seq(AnEdit)

LEMMA KeptAddsMeaning ==
  ASSUME Batch
  PROVE  /\ Meaning \in [1..Len(lines) -> Seq(Lines)]
         /\ Kept \in [0..Len(lines) -> Seq(Lines)]
         /\ Kept[0] = <<>>
         /\ \A n \in 1..Len(lines) : Kept[n] = Kept[n - 1] \o Meaning[n]
         /\ Reference = Kept[Len(lines)]
  <1>0. Len(lines) \in Nat
    BY DEF Batch
  <1>1. Meaning \in [1..Len(lines) -> Seq(Lines)]
    <2>1. ASSUME NEW n \in 1..Len(lines) PROVE <<lines[n]>> \in Seq(Lines)
      BY ElementOfSeq DEF Batch
    <2>2. \A i \in DOMAIN edits : edits[i].new \in Seq(Lines)
      BY BatchTypes DEF Batch
    <2>3. <<>> \in Seq(Lines)
      OBVIOUS
    <2>4. ASSUME NEW n \in 1..Len(lines) PROVE Meaning[n] \in Seq(Lines)
      <3>1. CASE \E i \in DOMAIN edits : Covers(edits[i], n)
        <4> DEFINE i == CHOOSE i \in DOMAIN edits : Covers(edits[i], n)
        <4>1. i \in DOMAIN edits
          BY <3>1, Zenon
        <4>2. Meaning[n] = IF n = edits[i].start THEN edits[i].new ELSE <<>>
          BY <3>1 DEF Meaning
        <4> HIDE DEF i
        <4> QED
          BY <2>2, <2>3, <4>1, <4>2
      <3>2. CASE ~\E i \in DOMAIN edits : Covers(edits[i], n)
        <4>1. Meaning[n] = <<lines[n]>>
          BY <3>2 DEF Meaning
        <4> QED
          BY <2>1, <4>1, Zenon
      <3> QED
        BY <3>1, <3>2, Zenon
    <2>5. Meaning = [n \in 1..Len(lines) |-> Meaning[n]]
      BY Zenon DEF Meaning
    <2> HIDE DEF Meaning
    <2> QED
      BY <2>4, <2>5
  <1>2. /\ Kept \in [0..Len(lines) -> Seq(Lines)]
        /\ Kept[0] = <<>>
        /\ \A n \in 1..Len(lines) : Kept[n] = Kept[n - 1] \o Meaning[n]
    <2> DEFINE F(g) == [n \in 0..Len(lines) |->
                          IF n = 0 THEN <<>> ELSE g[n - 1] \o Meaning[n]]
    <2>1. PICK f \in [0..Len(lines) -> Seq(Lines)] : Joins(f, Meaning, Len(lines))
      BY <1>0, <1>1, PrefixConcat, Zenon
    <2>2. f = F(f)
      <3>1. ASSUME NEW n \in 0..Len(lines) PROVE f[n] = F(f)[n]
        <4>1. CASE n = 0
          BY <2>1, <4>1, Zenon DEF Joins
        <4>2. CASE n # 0
          <5>1. n \in 1..Len(lines)
            BY <4>2
          <5> QED
            BY <2>1, <4>2, <5>1, Zenon DEF Joins
        <4> QED
          BY <4>1, <4>2, Zenon
      <3> HIDE DEF Meaning
      <3> QED
        BY <3>1
    <2>3. Kept = F(Kept)
      <3>1. Kept = CHOOSE g : g = F(g)
        BY Zenon DEF Kept
      <3> HIDE DEF F
      <3> QED
        BY <2>2, <3>1, Zenon
    <2>4. ASSUME NEW x, x = F(x), NEW n \in 0..Len(lines)
          PROVE  x[n] = IF n = 0 THEN <<>> ELSE x[n - 1] \o Meaning[n]
      <3>1. F(x)[n] = IF n = 0 THEN <<>> ELSE x[n - 1] \o Meaning[n]
        BY Zenon
      <3> HIDE DEF F
      <3> QED
        BY <2>4, <3>1, Zenon
    <2>5. Kept[0] = <<>>
      <3>1. 0 \in 0..Len(lines)
        BY <1>0
      <3> HIDE DEF F
      <3> QED
        BY <2>3, <2>4, <3>1, Zenon
    <2>6. ASSUME NEW n \in 1..Len(lines) PROVE Kept[n] = Kept[n - 1] \o Meaning[n]
      <3>1. n \in 0..Len(lines) /\ n # 0
        OBVIOUS
      <3> HIDE DEF F
      <3> QED
        BY <2>3, <2>4, <3>1, Zenon
    <2>7. \A n \in Nat : n \in {m \in Nat : m <= Len(lines) => Kept[m] \in Seq(Lines)}
      <3> DEFINE T == {m \in Nat : m <= Len(lines) => Kept[m] \in Seq(Lines)}
      <3>1. 0 \in T
        <4>1. <<>> \in Seq(Lines)
          OBVIOUS
        <4> QED
          BY <2>5, <4>1, Zenon
      <3>2. ASSUME NEW m \in Nat, m \in T PROVE m + 1 \in T
        <4> SUFFICES ASSUME m + 1 <= Len(lines) PROVE Kept[m + 1] \in Seq(Lines)
          OBVIOUS
        <4>1. PICK n \in 1..Len(lines) : n = m + 1
          BY <1>0
        <4>2. m = n - 1 /\ Kept[m] \in Seq(Lines)
          BY <1>0, <3>2, <4>1
        <4>3. Kept[n] = Kept[m] \o Meaning[n] /\ Meaning[n] \in Seq(Lines)
          BY <1>1, <2>6, <4>2
        <4> QED
          BY <4>1, <4>2, <4>3, ConcatSeq, Zenon
      <3> HIDE DEF T
      <3>3. \A n \in Nat : n \in T
        BY <3>1, <3>2, NatSetInduction
      <3> QED
        BY <3>3 DEF T
    <2>8. Kept \in [0..Len(lines) -> Seq(Lines)]
      <3>1. Kept = [n \in 0..Len(lines) |-> Kept[n]]
        <4>1. \A x : x = F(x) => x = [n \in 0..Len(lines) |-> x[n]]
          OBVIOUS
        <4> HIDE DEF F
        <4> QED
          BY <2>3, <4>1, Zenon
      <3>2. \A n \in 0..Len(lines) : Kept[n] \in Seq(Lines)
        BY <1>0, <2>7
      <3> HIDE DEF Kept
      <3> QED
        BY <3>1, <3>2
    <2> QED
      BY <2>5, <2>6, <2>8, Zenon
  <1>3. Reference = Kept[Len(lines)]
    <2> HIDE DEF Kept, Meaning
    <2> QED
      BY <1>0, <1>1, <1>2, FlattenIsConcat DEF Reference, Joins
  <1> QED
    BY <1>1, <1>2, <1>3, Zenon

\* A lemma of one step of Kept, for all the lines from a to b.
LEMMA KeptGap ==
  ASSUME Batch, NEW a \in 0..Len(lines),
         NEW b \in a..Len(lines),
         \A n \in a + 1..b : Meaning[n] = <<lines[n]>>
  PROVE  Kept[b] = Kept[a] \o SubSeq(lines, a + 1, b)
  <1>0. Len(lines) \in Nat /\ lines \in Seq(Lines)
    BY DEF Batch
  <1>1. /\ Kept \in [0..Len(lines) -> Seq(Lines)]
        /\ \A n \in 1..Len(lines) : Kept[n] = Kept[n - 1] \o Meaning[n]
    BY KeptAddsMeaning
  <1> HIDE DEF Kept, Meaning
  <1> DEFINE T == {d \in Nat : a + d <= b =>
                     Kept[a + d] = Kept[a] \o SubSeq(lines, a + 1, a + d)}
  <1>2. 0 \in T
    <2>1. SubSeq(lines, a + 1, a) = <<>>
      BY SubSeqEmpty
    <2>2. Kept[a] = Kept[a] \o SubSeq(lines, a + 1, a)
      BY <1>1, <2>1, ConcatEmptySeq
    <2>3. a + 0 = a
      OBVIOUS
    <2> QED
      BY <2>2, <2>3
  <1>3. ASSUME NEW d \in Nat, d \in T PROVE d + 1 \in T
    <2>0. d + 1 \in Nat
      OBVIOUS
    <2> SUFFICES ASSUME a + (d + 1) <= b
                 PROVE  Kept[a + (d + 1)] = Kept[a] \o SubSeq(lines, a + 1, a + (d + 1))
      BY <2>0, Zenon
    <2>1. PICK n \in 1..Len(lines) : n = a + (d + 1)
      BY <1>0
    <2>2. /\ a + d = n - 1 /\ a + d <= b
          /\ n \in a + 1..b /\ n \in a + 1..Len(lines)
          /\ n - 1 \in 0..Len(lines) /\ a + 1 \in 1..Len(lines)
      BY <2>1, <1>0
    <2>3. Kept[n - 1] = Kept[a] \o SubSeq(lines, a + 1, n - 1)
      <3>1. Kept[a + d] = Kept[a] \o SubSeq(lines, a + 1, a + d)
        BY <1>3, <2>2, Zenon
      <3> QED
        BY <2>2, <3>1, Zenon
    <2>4. Kept[n] = Kept[n - 1] \o <<lines[n]>>
      BY <1>1, <2>2
    <2>5. SubSeq(lines, a + 1, n) = SubSeq(lines, a + 1, n - 1) \o <<lines[n]>>
      BY <1>0, <2>2, SubSeqRecursiveSecond, Zenon
    <2>6. Kept[a] \in Seq(Lines)
      BY <1>1
    <2>7. <<lines[n]>> \in Seq(Lines)
      BY <1>0, ElementOfSeq
    <2>8. SubSeq(lines, a + 1, n - 1) \in Seq(Lines)
      <3>1. \A i \in a + 1..n - 1 : lines[i] \in Lines
        BY <1>0, <2>2, ElementOfSeq
      <3>2. a + 1 \in Int /\ n - 1 \in Int
        OBVIOUS
      <3> QED
        BY <3>1, <3>2, SubSeqProperties
    <2>9. (Kept[a] \o SubSeq(lines, a + 1, n - 1)) \o <<lines[n]>>
            = Kept[a] \o (SubSeq(lines, a + 1, n - 1) \o <<lines[n]>>)
      BY <2>6, <2>7, <2>8, ConcatAssoc, Zenon
    <2>10. Kept[n] = Kept[a] \o SubSeq(lines, a + 1, n)
      BY <2>3, <2>4, <2>5, <2>9, Zenon
    <2> QED
      BY <2>1, <2>10, Zenon
  <1>4. b - a \in T
    <2> HIDE DEF T
    <2>1. \A d \in Nat : d \in T
      BY <1>2, <1>3, NatSetInduction
    <2> QED
      BY <2>1
  <1>5. a + (b - a) = b /\ b <= b
    OBVIOUS
  <1> QED
    BY <1>4, <1>5, Zenon

\* What comes before stays when lines are added.
LEMMA KeptPrefix ==
  ASSUME Batch, NEW a \in 0..Len(lines), NEW b \in a..Len(lines)
  PROVE  \E t \in Seq(Lines) : Kept[b] = Kept[a] \o t
  <1>0. Len(lines) \in Nat
    BY DEF Batch
  <1>1. /\ Kept \in [0..Len(lines) -> Seq(Lines)]
        /\ Meaning \in [1..Len(lines) -> Seq(Lines)]
        /\ \A n \in 1..Len(lines) : Kept[n] = Kept[n - 1] \o Meaning[n]
    BY KeptAddsMeaning
  <1> DEFINE Longer(n) == \E t \in Seq(Lines) : Kept[n] = Kept[a] \o t
             T == {d \in Nat : a + d <= b => Longer(a + d)}
  <1>2. 0 \in T
    <2>1. Kept[a] = Kept[a] \o <<>> /\ <<>> \in Seq(Lines)
      BY <1>1, ConcatEmptySeq
    <2>2. Longer(a)
      BY <2>1, Zenon
    <2> HIDE DEF Longer
    <2> QED
      BY <2>2
  <1>3. ASSUME NEW d \in Nat, d \in T PROVE d + 1 \in T
    <2>0. d + 1 \in Nat
      OBVIOUS
    <2> SUFFICES ASSUME a + (d + 1) <= b PROVE Longer(a + (d + 1))
      BY <2>0, Zenon
    <2>1. PICK n \in 1..Len(lines) : n = a + (d + 1)
      BY <1>0
    <2>2. a + d = n - 1 /\ a + d <= b
      BY <2>1
    <2>3. PICK t \in Seq(Lines) : Kept[a + d] = Kept[a] \o t
      BY <1>3, <2>2, Zenon
    <2>4. Kept[n - 1] = Kept[a] \o t
      BY <2>2, <2>3, Zenon
    <2>5. Kept[n] = Kept[n - 1] \o Meaning[n] /\ Meaning[n] \in Seq(Lines)
      BY <1>1
    <2>6. Kept[n] = Kept[a] \o (t \o Meaning[n]) /\ t \o Meaning[n] \in Seq(Lines)
      <3>1. Kept[a] \in Seq(Lines)
        BY <1>1
      <3>3. t \o Meaning[n] \in Seq(Lines)
        BY <2>3, <2>5, ConcatSeq, Zenon
      <3>4. (Kept[a] \o t) \o Meaning[n] = Kept[a] \o (t \o Meaning[n])
        BY <2>3, <2>5, <3>1, ConcatAssoc, Zenon
      <3>5. Kept[n] = (Kept[a] \o t) \o Meaning[n]
        BY <2>4, <2>5, Zenon
      <3> QED
        BY <3>3, <3>4, <3>5, Zenon
    <2> QED
      BY <2>1, <2>6, Zenon
  <1>4. b - a \in T
    <2> HIDE DEF T
    <2>1. \A d \in Nat : d \in T
      BY <1>2, <1>3, NatSetInduction
    <2> QED
      BY <2>1
  <1>5. a + (b - a) = b /\ b <= b
    OBVIOUS
  <1> QED
    BY <1>4, <1>5, Zenon

-----------------------------------------------------------------------------
(* A verified batch: ranges within the file, none running into another.    *)

Verified == \A i \in DOMAIN edits : Matches(edits[i])
Apart == \A k \in 1..Len(edits) - 1 : ~Collide(ByStart[k], ByStart[k + 1])
Sound == Batch /\ Verified /\ Apart

\* The k-th edit from the top.
Nth(k) == edits[ByStart[k]]

LEMMA RangesApart ==
  ASSUME Sound
  PROVE  /\ \A k \in 1..Len(edits) :
              /\ ByStart[k] \in DOMAIN edits
              /\ Nth(k).start \in Nat /\ Nth(k).end \in Nat
              /\ 1 <= Nth(k).start /\ Nth(k).start <= Nth(k).end
              /\ Nth(k).end <= Len(lines)
              /\ Nth(k).new \in Seq(Lines)
         /\ \A k, l \in 1..Len(edits) : k < l => Nth(k).end < Nth(l).start
  <1>0. Len(lines) \in Nat /\ Len(edits) \in Nat /\ DOMAIN edits = 1..Len(edits)
    BY BatchTypes DEF Sound, Batch
  <1>1. ASSUME NEW k \in 1..Len(edits)
        PROVE  /\ ByStart[k] \in DOMAIN edits
               /\ Nth(k).start \in Nat /\ Nth(k).end \in Nat
               /\ 1 <= Nth(k).start /\ Nth(k).start <= Nth(k).end
               /\ Nth(k).end <= Len(lines)
               /\ Nth(k).new \in Seq(Lines)
    <2>1. ByStart[k] \in DOMAIN edits
      BY <1>0, ByStartSorts DEF Sound, Batch
    <2>2. /\ Nth(k).start \in Nat \ {0} /\ Nth(k).end \in Nat \ {0}
          /\ Nth(k).new \in Seq(Lines)
      BY <2>1, BatchTypes DEF Sound, Batch, Nth
    <2>3. /\ Nth(k).start <= Len(lines) /\ Nth(k).end <= Len(lines)
          /\ Nth(k).start <= Nth(k).end
      BY <2>1 DEF Sound, Verified, Matches, Nth
    <2> QED
      BY <1>0, <2>1, <2>2, <2>3
  <1>2. ASSUME NEW k \in 1..Len(edits), NEW l \in 1..Len(edits), k < l
        PROVE  Nth(k).end < Nth(l).start
    <2>1. k + 1 \in 1..Len(edits) /\ k \in 1..Len(edits) - 1
      BY <1>0, <1>2
    <2>2. Nth(k).end < Nth(k + 1).start
      <3>1. ~(Nth(k).end >= Nth(k + 1).start)
        BY <2>1 DEF Sound, Apart, Collide, Nth
      <3> QED
        BY <1>0, <1>1, <2>1, <3>1
    <2>3. Nth(k + 1).start <= Nth(l).start
      <3>1. k + 1 < l \/ k + 1 = l
        BY <1>0, <1>2
      <3>2. CASE k + 1 < l
        BY <1>0, <2>1, <3>2, ByStartSorts DEF Sound, Batch, Nth
      <3>3. CASE k + 1 = l
        BY <1>0, <1>1, <3>3
      <3> QED
        BY <3>1, <3>2, <3>3
    <2> QED
      BY <1>0, <1>1, <2>1, <2>2, <2>3
  <1> QED
    BY <1>1, <1>2

\* A line of the k-th range means its replacement, or nothing.
LEMMA EditedLine ==
  ASSUME Sound, NEW k \in 1..Len(edits), NEW n \in Nth(k).start..Nth(k).end
  PROVE  Meaning[n] = IF n = Nth(k).start THEN Nth(k).new ELSE <<>>
  <1>1. /\ ByStart[k] \in DOMAIN edits /\ n \in 1..Len(lines)
        /\ Covers(edits[ByStart[k]], n)
    BY RangesApart DEF Nth, Covers
  <1>2. ASSUME NEW i \in DOMAIN edits, Covers(edits[i], n) PROVE i = ByStart[k]
    <2>1. PICK l \in 1..Len(edits) : i = ByStart[l]
      BY ByStartSorts, BatchTypes DEF Sound, Batch
    <2>2. ~(k < l) /\ ~(l < k)
      <3>1. n \in Nth(l).start..Nth(l).end
        BY <1>1, <1>2, <2>1, RangesApart DEF Covers, Nth
      <3>2. /\ Nth(k).end \in Nat /\ Nth(l).end \in Nat
            /\ Nth(k).start \in Nat /\ Nth(l).start \in Nat
            /\ Nth(k).start <= n /\ n <= Nth(k).end
        BY RangesApart
      <3>3. /\ k < l => Nth(k).end < Nth(l).start
            /\ l < k => Nth(l).end < Nth(k).start
        BY RangesApart
      <3> QED
        BY <1>1, <3>1, <3>2, <3>3
    <2>3. k = l
      BY <2>2
    <2> QED
      BY <2>1, <2>3
  <1>3. (CHOOSE i \in DOMAIN edits : Covers(edits[i], n)) = ByStart[k]
    BY <1>1, <1>2
  <1>4. Meaning[n] = LET e == edits[CHOOSE i \in DOMAIN edits : Covers(edits[i], n)]
                     IN IF n = e.start THEN e.new ELSE <<>>
    BY <1>1 DEF Meaning
  <1> QED
    BY <1>3, <1>4 DEF Nth

\* Where the k-th range begins and ends; the file's ends for none.
Begin(k) == IF k = Len(edits) + 1 THEN Len(lines) + 1 ELSE Nth(k).start
End(k) == IF k = 0 THEN 0 ELSE Nth(k).end

LEMMA GapTypes ==
  ASSUME Sound, NEW k \in 0..Len(edits)
  PROVE  /\ End(k) \in 0..Len(lines)
         /\ Begin(k + 1) - 1 \in End(k)..Len(lines)
  <1>0. Len(lines) \in Nat /\ Len(edits) \in Nat
    BY BatchTypes DEF Sound, Batch
  <1>1. End(k) \in 0..Len(lines)
    BY <1>0, RangesApart DEF End
  <1>2. CASE k = Len(edits)
    BY <1>0, <1>1, <1>2 DEF Begin
  <1>3. CASE k < Len(edits)
    <2>1. k + 1 \in 1..Len(edits) /\ Begin(k + 1) = Nth(k + 1).start
      BY <1>0, <1>3 DEF Begin
    <2>2. Nth(k + 1).start \in 1..Len(lines)
      <3>1. /\ Nth(k + 1).start \in Nat /\ Nth(k + 1).end \in Nat
            /\ 1 <= Nth(k + 1).start /\ Nth(k + 1).start <= Nth(k + 1).end
            /\ Nth(k + 1).end <= Len(lines)
        BY <2>1, RangesApart
      <3> QED
        BY <1>0, <3>1
    <2>3. k = 0 \/ (k \in 1..Len(edits) /\ k < k + 1)
      BY <1>3
    <2>4. k # 0 => Nth(k).end < Nth(k + 1).start /\ End(k) = Nth(k).end
      BY <2>1, <2>3, RangesApart DEF End
    <2>5. k = 0 => End(k) = 0
      BY DEF End
    <2> QED
      BY <1>0, <1>1, <2>1, <2>2, <2>4, <2>5
  <1> QED
    BY <1>2, <1>3

\* A line between two neighbouring ranges means itself.
LEMMA PlainLine ==
  ASSUME Sound, NEW k \in 0..Len(edits), NEW n \in End(k) + 1..Begin(k + 1) - 1
  PROVE  Meaning[n] = <<lines[n]>>
  <1>0. Len(lines) \in Nat /\ Len(edits) \in Nat
    BY BatchTypes DEF Sound, Batch
  <1>1. n \in 1..Len(lines)
    BY <1>0, GapTypes
  <1>2. ASSUME NEW i \in DOMAIN edits, Covers(edits[i], n) PROVE FALSE
    <2>1. PICK l \in 1..Len(edits) : i = ByStart[l]
      BY ByStartSorts, BatchTypes DEF Sound, Batch
    <2>2. Nth(l).start <= n /\ n <= Nth(l).end
      BY <1>2, <2>1 DEF Covers, Nth
    <2>3. CASE l <= k
      <3>1. k \in 1..Len(edits) /\ End(k) = Nth(k).end
        BY <1>0, <2>3 DEF End
      <3>2. Nth(l).end <= Nth(k).end
        <4>1. /\ Nth(k).start \in Nat /\ Nth(l).end \in Nat /\ Nth(k).end \in Nat
              /\ Nth(k).start <= Nth(k).end
          BY <1>0, <3>1, RangesApart
        <4>2. CASE l < k
          BY <3>1, <4>1, <4>2, RangesApart
        <4>3. CASE l = k
          BY <4>1, <4>3
        <4> QED
          BY <2>3, <3>1, <4>2, <4>3
      <3> QED
        BY <1>0, <1>1, <2>2, <3>1, <3>2, RangesApart
    <2>4. CASE k < l
      <3>1. k + 1 \in 1..Len(edits) /\ Begin(k + 1) = Nth(k + 1).start
        BY <1>0, <2>4 DEF Begin
      <3>2. Nth(k + 1).start <= Nth(l).start
        <4>1. k + 1 < l \/ k + 1 = l
          BY <2>4
        <4>2. /\ Nth(k + 1).start \in Nat /\ Nth(k + 1).end \in Nat
              /\ Nth(l).start \in Nat /\ Nth(k + 1).start <= Nth(k + 1).end
          BY <1>0, <3>1, RangesApart
        <4>3. CASE k + 1 < l
          BY <3>1, <4>2, <4>3, RangesApart
        <4> QED
          BY <4>1, <4>2, <4>3
      <3> QED
        BY <1>0, <1>1, <2>2, <3>1, <3>2, RangesApart
    <2> QED
      BY <2>3, <2>4
  <1> QED
    BY <1>1, <1>2 DEF Meaning

\* Up to its last line the k-th range has added its replacement, once.
LEMMA KeptRange ==
  ASSUME Sound, NEW k \in 1..Len(edits)
  PROVE  Kept[Nth(k).end] = Kept[Nth(k).start - 1] \o Nth(k).new
  <1> DEFINE s == Nth(k).start
             t == Nth(k).end
  <1>0. /\ Len(lines) \in Nat /\ s \in Nat /\ t \in Nat
        /\ 1 <= s /\ s <= t /\ t <= Len(lines) /\ Nth(k).new \in Seq(Lines)
    BY RangesApart, BatchTypes DEF Sound, Batch
  <1>1. /\ Kept \in [0..Len(lines) -> Seq(Lines)]
        /\ \A n \in 1..Len(lines) : Kept[n] = Kept[n - 1] \o Meaning[n]
    BY KeptAddsMeaning DEF Sound
  <1>2. \A n \in s..t : Meaning[n] = IF n = s THEN Nth(k).new ELSE <<>>
    BY EditedLine
  <1> HIDE DEF s, t
  <1> DEFINE T == {d \in Nat : s + d <= t => Kept[s + d] = Kept[s - 1] \o Nth(k).new}
  <1>3. 0 \in T
    <2>1. s \in 1..Len(lines) /\ s \in s..t
      BY <1>0
    <2>2. Kept[s] = Kept[s - 1] \o Nth(k).new
      BY <1>1, <1>2, <2>1, Zenon
    <2>3. s + 0 = s
      BY <1>0
    <2> QED
      BY <2>2, <2>3
  <1>4. ASSUME NEW d \in Nat, d \in T PROVE d + 1 \in T
    <2>0. d + 1 \in Nat
      OBVIOUS
    <2> SUFFICES ASSUME s + (d + 1) <= t
                 PROVE  Kept[s + (d + 1)] = Kept[s - 1] \o Nth(k).new
      BY <2>0, Zenon
    <2>1. PICK n \in 1..Len(lines) : n = s + (d + 1)
      BY <1>0
    <2>2. s + d = n - 1 /\ s + d <= t /\ n \in s..t /\ n # s /\ n - 1 \in 0..Len(lines)
      BY <1>0, <2>1
    <2>3. Kept[n - 1] = Kept[s - 1] \o Nth(k).new
      <3>1. Kept[s + d] = Kept[s - 1] \o Nth(k).new
        BY <1>4, <2>2, Zenon
      <3> QED
        BY <2>2, <3>1, Zenon
    <2>4. Kept[n] = Kept[n - 1] \o <<>>
      BY <1>1, <1>2, <2>2, Zenon
    <2>5. Kept[n] = Kept[n - 1]
      BY <1>1, <2>2, <2>4, ConcatEmptySeq
    <2> QED
      BY <2>1, <2>3, <2>5, Zenon
  <1>5. t - s \in T
    <2> HIDE DEF T
    <2>1. \A d \in Nat : d \in T
      BY <1>3, <1>4, NatSetInduction
    <2> QED
      BY <1>0, <2>1
  <1>6. s + (t - s) = t /\ t <= t
    BY <1>0
  <1>7. Kept[t] = Kept[s - 1] \o Nth(k).new
    BY <1>5, <1>6, Zenon
  <1> QED
    BY <1>7 DEF s, t

\* Between two ranges it adds the lines there are.
LEMMA KeptBetween ==
  ASSUME Sound, NEW k \in 0..Len(edits)
  PROVE  Kept[Begin(k + 1) - 1] =
           Kept[End(k)] \o SubSeq(lines, End(k) + 1, Begin(k + 1) - 1)
  <1>1. /\ End(k) \in 0..Len(lines)
        /\ Begin(k + 1) - 1 \in End(k)..Len(lines)
    BY GapTypes
  <1>2. \A n \in End(k) + 1..Begin(k + 1) - 1 : Meaning[n] = <<lines[n]>>
    BY PlainLine
  <1> QED
    BY <1>1, <1>2, KeptGap DEF Sound

\* r is ow with new put for its elements s..t.
Replaced(r, ow, new, s, t) ==
    r = SubSeq(ow, 1, s - 1) \o new \o SubSeq(ow, t + 1, Len(ow))

\* From s on r is new, then the elements of ls up to c, then those of ow.
Resumes(r, ls, ow, new, c, s, t) ==
    SubSeq(r, s, Len(r)) = new \o (SubSeq(ls, t + 1, c) \o SubSeq(ow, c + 1, Len(ow)))

\* Replacing in the part of a sequence that is as in ls.
LEMMA SplicedBelow ==
  ASSUME NEW S, NEW ls \in Seq(S), NEW ow \in Seq(S), NEW new \in Seq(S),
         NEW c \in 0..Len(ls), c <= Len(ow),
         SubSeq(ow, 1, c) = SubSeq(ls, 1, c),
         NEW s \in 1..c, NEW t \in s..c,
         NEW r, Replaced(r, ow, new, s, t)
  PROVE  /\ r \in Seq(S) /\ s - 1 <= Len(r)
         /\ SubSeq(r, 1, s - 1) = SubSeq(ls, 1, s - 1)
         /\ Resumes(r, ls, ow, new, c, s, t)
  <1> DEFINE A == SubSeq(ow, 1, s - 1)
             B == SubSeq(ow, t + 1, Len(ow))
             X == SubSeq(ls, t + 1, c)
             Y == SubSeq(ow, c + 1, Len(ow))
  <1>0. Len(ow) \in Nat /\ Len(ls) \in Nat /\ Len(new) \in Nat
    OBVIOUS
  <1>1. /\ A \in Seq(S) /\ Len(A) = s - 1
        /\ \A i \in 1..s - 1 : A[i] = ow[i]
    <2>1. s - 1 \in Int /\ \A i \in 1..s - 1 : ow[i] \in S
      OBVIOUS
    <2>2. /\ A \in Seq(S) /\ Len(A) = (IF 1 <= s - 1 THEN s - 1 - 1 + 1 ELSE 0)
          /\ \A i \in 1..s - 1 - 1 + 1 : A[i] = ow[1 + i - 1]
      BY <2>1, SubSeqProperties
    <2> HIDE DEF A
    <2> QED
      BY <2>2
  <1>2. /\ B \in Seq(S) /\ Len(B) = Len(ow) - t
        /\ \A i \in 1..Len(ow) - t : B[i] = ow[t + i]
    OBVIOUS
  <1>3. /\ X \in Seq(S) /\ Len(X) = c - t
        /\ \A i \in 1..c - t : X[i] = ls[t + i]
    OBVIOUS
  <1>4. /\ Y \in Seq(S) /\ Len(Y) = Len(ow) - c
        /\ \A i \in 1..Len(ow) - c : Y[i] = ow[c + i]
    OBVIOUS
  <1>5. \A i \in 1..c : ow[i] = ls[i]
    <2>1. ASSUME NEW i \in 1..c PROVE SubSeq(ow, 1, c)[i] = ow[i] /\ SubSeq(ls, 1, c)[i] = ls[i]
      OBVIOUS
    <2> QED
      BY <2>1
  <1>6. B = X \o Y
    <2>1. SubSeq(ow, t + 1, c) = X
      <3>1. /\ SubSeq(ow, t + 1, c) \in Seq(S) /\ Len(SubSeq(ow, t + 1, c)) = c - t
            /\ \A i \in 1..c - t : SubSeq(ow, t + 1, c)[i] = ow[t + i]
        OBVIOUS
      <3>2. \A i \in 1..c - t : t + i \in 1..c
        OBVIOUS
      <3> HIDE DEF X
      <3> QED
        BY <1>3, <1>5, <3>1, <3>2, SeqEqual
    <2>2. B = SubSeq(ow, t + 1, c) \o Y
      <3>1. t \in 0..Len(ow) /\ c \in t..Len(ow)
        BY <1>0
      <3> QED
        BY <3>1, SubSeqSplit
    <2> QED
      BY <2>1, <2>2, Zenon
  <1>7. r = A \o (new \o B)
    <2>1. \A x, y, z \in Seq(S) : (x \o y) \o z = x \o (y \o z)
      BY SMT
    <2>2. r = (A \o new) \o B
      BY DEF Replaced
    <2> HIDE DEF A, B
    <2> QED
      BY <1>1, <1>2, <2>1, <2>2, Zenon
  <1>8. new \o B \in Seq(S) /\ Len(new \o B) = Len(new) + Len(B)
    BY <1>2
  <1> DEFINE Z == new \o B
  <1>9. \A x, y \in Seq(S) :
           /\ x \o y \in Seq(S) /\ Len(x \o y) = Len(x) + Len(y)
           /\ SubSeq(x \o y, 1, Len(x)) = x
           /\ SubSeq(x \o y, Len(x) + 1, Len(x \o y)) = y
    <2> TAKE x \in Seq(S), y \in Seq(S)
    <2>1. x \o y \in Seq(S) /\ Len(x \o y) = Len(x) + Len(y)
      OBVIOUS
    <2>2. SubSeq(x \o y, 1, Len(x)) = x
      BY <2>1
    <2>3. SubSeq(x \o y, Len(x) + 1, Len(x \o y)) = y
      BY <2>1
    <2> QED
      BY <2>1, <2>2, <2>3
  <1>10. SubSeq(ls, 1, s - 1) = A
    <2>1. /\ SubSeq(ls, 1, s - 1) \in Seq(S) /\ Len(SubSeq(ls, 1, s - 1)) = s - 1
          /\ \A i \in 1..s - 1 : SubSeq(ls, 1, s - 1)[i] = ls[i]
      OBVIOUS
    <2> HIDE DEF A
    <2> QED
      BY <1>1, <1>5, <2>1, SeqEqual
  <1> HIDE DEF A, B, X, Y, Z
  <1>11. r = A \o Z /\ Z \in Seq(S)
    BY <1>7, <1>8 DEF Z
  <1>12. /\ r \in Seq(S) /\ Len(r) = s - 1 + Len(Z)
         /\ SubSeq(r, 1, s - 1) = A /\ SubSeq(r, s - 1 + 1, Len(r)) = Z
    <2>1. /\ A \o Z \in Seq(S) /\ Len(A \o Z) = Len(A) + Len(Z)
          /\ SubSeq(A \o Z, 1, Len(A)) = A
          /\ SubSeq(A \o Z, Len(A) + 1, Len(A \o Z)) = Z
      BY <1>1, <1>9, <1>11, Zenon
    <2> QED
      BY <1>1, <1>11, <2>1, Zenon
  <1>13. s - 1 + 1 = s /\ s - 1 <= Len(r)
    <2>1. Len(Z) \in Nat
      BY <1>11
    <2>2. PICK z \in Nat : z = Len(Z)
      BY <2>1, Zenon
    <2>3. PICK l : l = Len(r) /\ l = s - 1 + z
      BY <1>12, <2>2, Zenon
    <2>4. s - 1 + 1 = s /\ \A n \in Nat : s - 1 <= s - 1 + n
      OBVIOUS
    <2> QED
      BY <2>2, <2>3, <2>4, Zenon
  <1>14. Z = new \o (X \o Y)
    BY <1>6 DEF Z
  <1> QED
    BY <1>10, <1>12, <1>13, <1>14, Zenon DEF X, Y, Resumes

-----------------------------------------------------------------------------
(* The inductive invariant.                                                *)

Typed ==
    /\ lines \in Contents /\ seen \in Contents /\ newline \in BOOLEAN
    /\ IsFile(lines, newline)
    /\ edits \in Seq(AnEdit) /\ Len(edits) <= MaxEdits
    /\ phase \in {"compose", "verify", "overlap", "splice", "echo", "done",
                  "mismatch", "overlapping"}
    /\ owned \in Seq(Lines) /\ offset \in Int

\* Before the first splice nothing has moved.
Untouched ==
    /\ phase \notin {"splice", "echo", "done"} =>
         owned = lines /\ todo = <<>>
    /\ phase \notin {"echo", "done"} => offset = 0 /\ echoed = {}

\* From a check on, what it checked.
Checked ==
    /\ phase \in {"overlap", "splice", "echo", "done"} => Verified
    /\ phase \in {"splice", "echo", "done"} => Apart

\* The top m edits are still to splice: down to the m-th gap the file is as it
\* was, and from there it is what the batch means.
SplicedTo(m) ==
    LET c == Begin(m + 1) - 1
    IN  /\ c <= Len(owned)
        /\ SubSeq(owned, 1, c) = SubSeq(lines, 1, c)
        /\ Kept[Len(lines)] = Kept[c] \o SubSeq(owned, c + 1, Len(owned))

Splicing ==
    phase = "splice" =>
        \E m \in 0..Len(edits) : todo = SubSeq(ByStart, 1, m) /\ SplicedTo(m)

\* The top p edits have been echoed, with the numbers their lines have now.
EchoedTo(p) == Len(Kept[End(p)]) = End(p) + offset

InOwned(pair) == \E i \in DOMAIN owned : pair = <<i, owned[i]>>

Echoing ==
    phase \in {"echo", "done"} =>
        /\ owned = Kept[Len(lines)]
        /\ \A pair \in echoed : InOwned(pair)
        /\ \E p \in 0..Len(edits) :
              todo = SubSeq(ByStart, p + 1, Len(edits)) /\ EchoedTo(p)

IInv == Typed /\ Untouched /\ Checked /\ Splicing /\ Echoing

LEMMA ContentsAreSeqs == Contents \subseteq Seq(Lines)
  BY DEF Contents

LEMMA TypedBatch ==
  ASSUME Typed
  PROVE  Batch /\ Len(lines) \in Nat /\ Len(edits) \in Nat
  BY ContentsAreSeqs, BatchTypes DEF Typed, Batch

LEMMA InitIInv == Init => IInv
  <1> SUFFICES ASSUME Init PROVE IInv
    OBVIOUS
  <1>1. lines \in Seq(Lines) /\ Len(lines) \in 0..MaxLines
    BY InputAssumption DEF Init, Contents
  <1>2. \A s \in Seq(Lines) : Len(s) <= MaxLines => s \in Contents
    <2> SUFFICES ASSUME NEW s \in Seq(Lines), Len(s) <= MaxLines
                 PROVE  s \in Contents
      OBVIOUS
    <2>1. Len(s) \in 0..MaxLines /\ s \in [1..Len(s) -> Lines]
      BY InputAssumption, LenProperties
    <2> QED
      BY <2>1 DEF Contents
  <1>3. seen \in Contents
    <2>1. CASE seen = lines
      BY <2>1 DEF Init
    <2>2. ASSUME NEW i \in DOMAIN lines, NEW l \in Lines,
                 seen = [lines EXCEPT ![i] = l]
          PROVE  seen \in Contents
      <3>1. seen \in Seq(Lines) /\ Len(seen) = Len(lines)
        BY <1>1, <2>2, ExceptSeq
      <3> QED
        BY <1>1, <1>2, <3>1, InputAssumption
    <2>3. CASE lines # <<>> /\ seen = Front(lines)
      <3>1. seen \in Seq(Lines) /\ Len(seen) <= Len(lines)
        BY <1>1, <2>3 DEF Front
      <3> QED
        BY <1>1, <1>2, <3>1, InputAssumption
    <2>4. ASSUME Len(lines) < MaxLines, NEW l \in Lines, seen = Append(lines, l)
          PROVE  seen \in Contents
      <3>1. seen \in Seq(Lines) /\ Len(seen) = Len(lines) + 1
        BY <1>1, <2>4
      <3>2. Len(seen) <= MaxLines
        BY <1>1, <2>4, <3>1, InputAssumption
      <3> QED
        BY <1>2, <3>1, <3>2
    <2> QED
      BY <2>1, <2>2, <2>3, <2>4 DEF Init
  <1>4. edits \in Seq(AnEdit) /\ Len(edits) <= MaxEdits
    BY InputAssumption DEF Init
  <1>5. Typed
    BY <1>1, <1>3, <1>4 DEF Init, Typed
  <1> QED
    BY <1>5 DEF Init, IInv, Untouched, Checked, Splicing, Echoing

-----------------------------------------------------------------------------
(* Every step keeps it.                                                    *)

\* What a batch means depends on the lines and the edits alone.
LEMMA InputFixes ==
  ASSUME UNCHANGED input
  PROVE  /\ Kept' = Kept /\ ByStart' = ByStart
         /\ Verified' = Verified /\ Apart' = Apart /\ Batch' = Batch
  <1>1. lines' = lines /\ edits' = edits
    BY DEF input
  <1>2. ByStart' = ByStart
    BY <1>1 DEF ByStart, Position, Before
  <1>3. Meaning' = Meaning
    BY <1>1 DEF Meaning
  <1>4. Kept' = Kept
    BY <1>1, <1>3 DEF Kept
  <1>5. Verified' = Verified /\ Batch' = Batch
    BY <1>1 DEF Verified, Matches, Batch
  <1>6. Apart' = Apart
    BY <1>1, <1>2 DEF Apart, Collide
  <1> QED
    BY <1>2, <1>4, <1>5, <1>6

LEMMA ComposeStep ==
  ASSUME IInv, Compose
  PROVE  IInv'
  <1>1. PICK e \in ClientEdits : edits' = Append(edits, e)
    BY DEF Compose
  <1>2. e \in AnEdit
    <2>1. PICK r \in (1..Len(seen)) \X (1..Len(seen)), new \in Replacements :
             e = Anchored(r[1], r[2], new)
      BY <1>1 DEF ClientEdits
    <2>2. seen \in Seq(Lines)
      BY ContentsAreSeqs DEF IInv, Typed
    <2>3. r[1] \in 1..Len(seen) /\ r[2] \in 1..Len(seen)
      BY <2>1
    <2>4. seen[r[1]] \in Lines /\ seen[r[2]] \in Lines
      BY <2>2, <2>3, ElementOfSeq
    <2>5. LineHash[seen[r[1]]] \in Hashes /\ LineHash[seen[r[2]]] \in Hashes
      BY <2>4 DEF Hashes
    <2>6. r[1] \in Nat \ {0} /\ r[2] \in Nat \ {0}
      BY <2>2, <2>3
    <2> QED
      BY <2>1, <2>5, <2>6 DEF Anchored, AnEdit
  <1>3. edits' \in Seq(AnEdit) /\ Len(edits') <= MaxEdits
    <2>1. edits' \in Seq(AnEdit) /\ Len(edits') = Len(edits) + 1 /\ Len(edits) \in Nat
      BY <1>1, <1>2, AppendProperties DEF IInv, Typed
    <2> QED
      BY <2>1, InputAssumption DEF Compose
  <1>4. Typed'
    BY <1>3 DEF Compose, IInv, Typed
  <1>5. (Untouched /\ Checked /\ Splicing /\ Echoing)'
    BY DEF Compose, IInv, Untouched, Checked, Splicing, Echoing
  <1> QED
    BY <1>4, <1>5 DEF IInv

LEMMA SendStep ==
  ASSUME IInv, Send
  PROVE  IInv'
  <1>1. Typed'
    BY DEF Send, IInv, Typed, input
  <1>2. (Untouched /\ Checked /\ Splicing /\ Echoing)'
    BY DEF Send, IInv, Untouched, Checked, Splicing, Echoing, input
  <1> QED
    BY <1>1, <1>2 DEF IInv

LEMMA VerifyStep ==
  ASSUME IInv, Verify
  PROVE  IInv'
  <1>1. Typed'
    BY DEF Verify, IInv, Typed, input
  <1>2. (Untouched /\ Splicing /\ Echoing)'
    BY DEF Verify, IInv, Untouched, Splicing, Echoing, input
  <1>3. Checked'
    <2>1. phase' = "overlap" => Verified
      BY DEF Verify, Verified
    <2>2. phase' = "overlap" \/ phase' = "mismatch"
      BY DEF Verify
    <2> QED
      BY <2>1, <2>2, InputFixes DEF Verify, Checked
  <1> QED
    BY <1>1, <1>2, <1>3 DEF IInv

LEMMA CheckOverlapStep ==
  ASSUME IInv, CheckOverlap
  PROVE  IInv'
  <1>0. UNCHANGED input /\ UNCHANGED <<owned, offset, echoed>> /\ phase = "overlap"
    BY DEF CheckOverlap
  <1>1. Typed'
    BY DEF CheckOverlap, IInv, Typed, input
  <1>2. CASE phase' = "overlapping" /\ UNCHANGED todo
    BY <1>0, <1>1, <1>2 DEF IInv, Untouched, Checked, Splicing, Echoing, input
  <1>3. CASE Apart /\ phase' = "splice" /\ todo' = ByStart
    <2>1. Batch /\ Len(lines) \in Nat /\ Len(edits) \in Nat
      BY TypedBatch DEF IInv
    <2>2. Sound
      BY <1>0, <1>3, <2>1 DEF IInv, Checked, Sound
    <2>3. owned = lines /\ lines \in Seq(Lines)
      BY <1>0, <2>1 DEF IInv, Untouched, Batch
    <2>4. SplicedTo(Len(edits))
      <3>1. Begin(Len(edits) + 1) - 1 = Len(lines)
        BY <2>1 DEF Begin
      <3>2. SubSeq(owned, Len(lines) + 1, Len(owned)) = <<>>
        BY <2>1, <2>3, SubSeqEmpty
      <3>3. Kept[Len(lines)] = Kept[Len(lines)] \o <<>>
        BY <2>1, KeptAddsMeaning, ConcatEmptySeq
      <3>4. Len(lines) <= Len(owned)
        BY <2>1, <2>3
      <3> QED
        BY <2>3, <3>1, <3>2, <3>3, <3>4 DEF SplicedTo
    <2>5. ByStart = SubSeq(ByStart, 1, Len(edits))
      BY <2>1, ByStartSorts, SubSeqFull DEF Batch
    <2>6. Splicing'
      <3>1. PICK m \in 0..Len(edits) : m = Len(edits)
        BY <2>1
      <3>2. SplicedTo(m)' = SplicedTo(m)
        BY <1>0, InputFixes DEF SplicedTo, Begin, Nth, input
      <3>3. (0..Len(edits))' = 0..Len(edits) /\ todo' = SubSeq(ByStart, 1, m)'
        BY <1>0, <1>3, <2>5, <3>1, InputFixes DEF input
      <3> QED
        BY <2>4, <3>1, <3>2, <3>3 DEF Splicing
    <2>7. Checked'
      BY <1>0, <1>3, <2>2, InputFixes DEF Checked, Sound
    <2>8. Untouched' /\ Echoing'
      BY <1>0, <1>3 DEF IInv, Untouched, Echoing
    <2> QED
      BY <1>1, <2>6, <2>7, <2>8 DEF IInv
  <1> QED
    BY <1>2, <1>3 DEF CheckOverlap, Apart

LEMMA SpliceStep ==
  ASSUME IInv, Splice
  PROVE  IInv'
  <1>0. /\ UNCHANGED input /\ UNCHANGED <<phase, offset, echoed>>
        /\ phase = "splice" /\ todo # <<>> /\ todo' = Front(todo)
    BY DEF Splice
  <1>1. Sound /\ Batch /\ Len(lines) \in Nat /\ Len(edits) \in Nat /\ owned \in Seq(Lines)
    BY <1>0, TypedBatch DEF IInv, Typed, Checked, Sound
  <1>2. PICK m \in 0..Len(edits) : todo = SubSeq(ByStart, 1, m) /\ SplicedTo(m)
    BY <1>0 DEF IInv, Splicing
  <1>3. ByStart \in Seq(DOMAIN edits) /\ Len(ByStart) = Len(edits)
    BY <1>1, ByStartSorts DEF Batch
  <1>4. m \in 1..Len(edits)
    <2>1. m # 0
      BY <1>0, <1>2, <1>3, SubSeqEmpty
    <2> QED
      BY <1>1, <2>1
  <1>5. Last(todo) = ByStart[m] /\ Front(todo) = SubSeq(ByStart, 1, m - 1)
    <2>1. \A i \in 1..m : ByStart[i] \in DOMAIN edits
      BY <1>1, <1>3, <1>4, ElementOfSeq
    <2>2. /\ todo \in Seq(DOMAIN edits) /\ Len(todo) = m
          /\ \A i \in 1..m : todo[i] = ByStart[i]
      BY <1>2, <1>4, <2>1, SubSeqProperties
    <2>3. Last(todo) = ByStart[m]
      BY <1>4, <2>2 DEF Last
    <2>4. /\ Front(todo) \in Seq(DOMAIN edits) /\ Len(Front(todo)) = m - 1
          /\ \A i \in 1..m - 1 : Front(todo)[i] = ByStart[i]
      <3>1. \A i \in 1..m - 1 : todo[i] \in DOMAIN edits
        BY <1>4, <2>1, <2>2
      <3>2. /\ Front(todo) \in Seq(DOMAIN edits)
            /\ Len(Front(todo)) = IF 1 <= m - 1 THEN m - 1 - 1 + 1 ELSE 0
            /\ \A i \in 1..m - 1 - 1 + 1 : Front(todo)[i] = todo[1 + i - 1]
        BY <1>4, <2>2, <3>1, SubSeqProperties DEF Front
      <3> QED
        BY <1>4, <2>2, <3>2
    <2>5. /\ SubSeq(ByStart, 1, m - 1) \in Seq(DOMAIN edits)
          /\ Len(SubSeq(ByStart, 1, m - 1)) = m - 1
          /\ \A i \in 1..m - 1 : SubSeq(ByStart, 1, m - 1)[i] = ByStart[i]
      <3>1. /\ SubSeq(ByStart, 1, m - 1) \in Seq(DOMAIN edits)
            /\ Len(SubSeq(ByStart, 1, m - 1)) = IF 1 <= m - 1 THEN m - 1 - 1 + 1 ELSE 0
            /\ \A i \in 1..m - 1 - 1 + 1 : SubSeq(ByStart, 1, m - 1)[i] = ByStart[1 + i - 1]
        BY <1>4, <2>1, SubSeqProperties
      <3> QED
        BY <1>4, <3>1
    <2>6. Front(todo) = SubSeq(ByStart, 1, m - 1)
      BY <2>4, <2>5, SeqEqual
    <2> QED
      BY <2>3, <2>6
  <1> DEFINE c == Begin(m + 1) - 1
             s == Nth(m).start
             t == Nth(m).end
             new == Nth(m).new
             X == SubSeq(lines, t + 1, c)
             Y == SubSeq(owned, c + 1, Len(owned))
  <1>6. /\ s \in Nat /\ t \in Nat /\ 1 <= s /\ s <= t /\ new \in Seq(Lines)
    BY <1>1, <1>4, RangesApart
  <1>7. t = End(m) /\ c \in t..Len(lines) /\ c \in 0..Len(lines)
    <2>1. t = End(m)
      BY <1>4 DEF End
    <2>2. c \in End(m)..Len(lines)
      BY <1>1, <1>4, GapTypes
    <2> QED
      BY <1>1, <1>6, <2>1, <2>2
  <1>8. /\ c <= Len(owned) /\ SubSeq(owned, 1, c) = SubSeq(lines, 1, c)
        /\ Kept[Len(lines)] = Kept[c] \o Y
    BY <1>2 DEF SplicedTo
  <1>9. owned' = SubSeq(owned, 1, s - 1) \o new \o SubSeq(owned, t + 1, Len(owned))
    BY <1>5 DEF Splice, Spliced, Nth
  <1>10. s \in 1..c /\ t \in s..c
    <2> HIDE DEF s, t, c
    <2> QED
      BY <1>6, <1>7
  <1>11. /\ owned' \in Seq(Lines) /\ s - 1 <= Len(owned')
         /\ SubSeq(owned', 1, s - 1) = SubSeq(lines, 1, s - 1)
         /\ SubSeq(owned', s, Len(owned')) = new \o (X \o Y)
    <2>1. lines \in Seq(Lines)
      BY <1>1 DEF Batch
    <2>2. Replaced(owned', owned, new, s, t)
      BY <1>9 DEF Replaced
    <2> HIDE DEF s, t, c, new
    <2>3. /\ owned' \in Seq(Lines) /\ s - 1 <= Len(owned')
          /\ SubSeq(owned', 1, s - 1) = SubSeq(lines, 1, s - 1)
          /\ Resumes(owned', lines, owned, new, c, s, t)
      BY <1>1, <1>6, <1>7, <1>8, <1>10, <2>1, <2>2, SplicedBelow
    <2> QED
      BY <2>3, Zenon DEF Resumes
  <1>12. Kept[Len(lines)] = Kept[s - 1] \o (new \o (X \o Y))
    <2>1. Kept[c] = Kept[t] \o X
      BY <1>1, <1>4, <1>7, KeptBetween
    <2>2. Kept[t] = Kept[s - 1] \o new
      BY <1>1, <1>4, KeptRange
    <2> HIDE DEF s, t, c, new
    <2>3. Kept[s - 1] \in Seq(Lines)
      <3>1. s - 1 \in 0..Len(lines)
        BY <1>1, <1>7, <1>10
      <3> QED
        BY <1>1, <3>1, KeptAddsMeaning
    <2>4. X \in Seq(Lines) /\ Y \in Seq(Lines)
      <3>1. lines \in Seq(Lines)
        BY <1>1 DEF Batch
      <3>2. \A i \in t + 1..c : lines[i] \in Lines
        BY <1>1, <1>6, <1>7, <3>1, ElementOfSeq
      <3>3. \A i \in c + 1..Len(owned) : owned[i] \in Lines
        BY <1>1, <1>7, ElementOfSeq
      <3>4. c \in Int /\ t \in Int /\ Len(owned) \in Int
        BY <1>1, <1>6, <1>7
      <3> QED
        BY <3>2, <3>3, <3>4, SubSeqProperties
    <2> HIDE DEF X, Y
    <2>5. Kept[Len(lines)] = ((Kept[s - 1] \o new) \o X) \o Y
      BY <1>8, <2>1, <2>2, Zenon
    <2>6. ((Kept[s - 1] \o new) \o X) \o Y = Kept[s - 1] \o (new \o (X \o Y))
      <3>1. Cat(Cat(Cat(Kept[s - 1], new), X), Y) = Cat(Kept[s - 1], Cat(new, Cat(X, Y)))
        BY <1>6, <2>3, <2>4, CatFour
      <3> QED
        BY <3>1, Zenon DEF Cat
    <2> QED
      BY <2>5, <2>6, Zenon
  <1>13. Splicing'
    <2>1. PICK b : b = s - 1 /\ b + 1 = s
      BY <1>6
    <2>2. PICK d \in 0..Len(edits) : d = m - 1 /\ d + 1 = m
      BY <1>4
    <2>3. (Begin(d + 1) - 1)' = b
      <3>1. (Begin(m))' = Nth(m)'.start
        BY <1>1, <1>4, <1>0 DEF Begin, input
      <3>2. Nth(m)' = Nth(m)
        BY <1>0, InputFixes DEF Nth, input
      <3> QED
        BY <2>1, <2>2, <3>1, <3>2
    <2>4. (SplicedTo(d))'
      BY <1>0, <1>11, <1>12, <2>1, <2>3, InputFixes DEF SplicedTo, input
    <2>5. todo' = SubSeq(ByStart, 1, d)' /\ (0..Len(edits))' = 0..Len(edits)
      BY <1>0, <1>5, <2>2, InputFixes DEF input
    <2> QED
      BY <2>4, <2>5 DEF Splicing
  <1>14. Typed' /\ Untouched' /\ Echoing'
    BY <1>0, <1>11 DEF IInv, Typed, Untouched, Echoing, input
  <1>15. Checked'
    BY <1>0, InputFixes DEF IInv, Checked
  <1> QED
    BY <1>13, <1>14, <1>15 DEF IInv

LEMMA WriteStep ==
  ASSUME IInv, Write
  PROVE  IInv'
  <1>0. /\ UNCHANGED input /\ UNCHANGED <<owned, offset, echoed>>
        /\ phase = "splice" /\ todo = <<>> /\ phase' = "echo" /\ todo' = ByStart
    BY DEF Write
  <1>1. Sound /\ Batch /\ Len(lines) \in Nat /\ Len(edits) \in Nat /\ owned \in Seq(Lines)
    BY <1>0, TypedBatch DEF IInv, Typed, Checked, Sound
  <1>2. ByStart \in Seq(DOMAIN edits) /\ Len(ByStart) = Len(edits)
    BY <1>1, ByStartSorts DEF Batch
  <1>3. SplicedTo(0)
    <2>1. PICK m \in 0..Len(edits) : todo = SubSeq(ByStart, 1, m) /\ SplicedTo(m)
      BY <1>0 DEF IInv, Splicing
    <2>2. Len(todo) = m
      <3>0. 1..m \subseteq DOMAIN ByStart /\ \A i \in DOMAIN ByStart : ByStart[i] \in DOMAIN edits
        BY <1>2
      <3>1. \A i \in 1..m : ByStart[i] \in DOMAIN edits
        BY <3>0, Zenon
      <3>2. Len(todo) = IF 1 <= m THEN m - 1 + 1 ELSE 0
        BY <2>1, <3>1, SubSeqProperties
      <3> QED
        BY <1>1, <3>2
    <2>3. Len(todo) = 0
      BY <1>0
    <2> QED
      BY <2>1, <2>2, <2>3, Zenon
  <1>4. owned = Kept[Len(lines)]
    <2> DEFINE c == Begin(0 + 1) - 1
               Y == SubSeq(owned, c + 1, Len(owned))
    <2>1. /\ c <= Len(owned) /\ SubSeq(owned, 1, c) = SubSeq(lines, 1, c)
          /\ Kept[Len(lines)] = Kept[c] \o Y
      BY <1>3 DEF SplicedTo
    <2>2. c \in 0..Len(lines) /\ End(0) = 0
      BY <1>1, GapTypes DEF End
    <2>3. Kept[c] = Kept[0] \o SubSeq(lines, 0 + 1, c)
      <3>1. 0 \in 0..Len(edits)
        BY <1>1
      <3>2. Kept[c] = Kept[End(0)] \o SubSeq(lines, End(0) + 1, c)
        BY <1>1, <3>1, KeptBetween, Zenon
      <3> QED
        BY <2>2, <3>2, Zenon
    <2> HIDE DEF c
    <2>4. Kept[0] = <<>>
      BY <1>1, KeptAddsMeaning
    <2>5. SubSeq(lines, 1, c) \in Seq(Lines) /\ 0 + 1 = 1
      <3>1. \A i \in 1..c : lines[i] \in Lines
        BY <1>1, <2>2, ElementOfSeq DEF Batch
      <3> QED
        BY <2>2, <3>1, SubSeqProperties
    <2>6. Kept[c] = SubSeq(owned, 1, c)
      BY <2>1, <2>3, <2>4, <2>5, ConcatEmptySeq
    <2>7. owned = SubSeq(owned, 1, c) \o Y
      <3>1. 0 \in 0..Len(owned) /\ c \in 0..Len(owned)
        BY <1>1, <2>1, <2>2
      <3>2. SubSeq(owned, 0 + 1, Len(owned)) = SubSeq(owned, 0 + 1, c) \o Y
        BY <1>1, <3>1, SubSeqSplit
      <3>3. SubSeq(owned, 1, Len(owned)) = owned
        BY <1>1, SubSeqFull
      <3> QED
        BY <2>5, <3>2, <3>3, Zenon
    <2> QED
      BY <2>1, <2>6, <2>7, Zenon
  <1>5. EchoedTo(0) /\ offset = 0 /\ echoed = {}
    <2>1. Kept[0] = <<>> /\ End(0) = 0
      BY <1>1, KeptAddsMeaning DEF End
    <2>2. offset = 0 /\ echoed = {}
      BY <1>0 DEF IInv, Untouched
    <2> QED
      BY <2>1, <2>2 DEF EchoedTo
  <1>6. Echoing'
    <2>1. (EchoedTo(0))' = EchoedTo(0)
      BY <1>0, InputFixes DEF EchoedTo, End, Nth, input
    <2>2. ByStart = SubSeq(ByStart, 0 + 1, Len(edits))
      BY <1>1, <1>2, SubSeqFull
    <2>3. todo' = SubSeq(ByStart, 0 + 1, Len(edits))'
      BY <1>0, <2>2, InputFixes DEF input
    <2>4. 0 \in (0..Len(edits))'
      BY <1>0, <1>1 DEF input
    <2>5. (owned = Kept[Len(lines)])'
      BY <1>0, <1>4, InputFixes DEF input
    <2> QED
      BY <1>0, <1>5, <2>1, <2>3, <2>4, <2>5 DEF Echoing
  <1>7. Typed' /\ Untouched' /\ Splicing'
    BY <1>0 DEF IInv, Typed, Untouched, Splicing, input
  <1>8. Checked'
    BY <1>0, InputFixes DEF IInv, Checked
  <1> QED
    BY <1>6, <1>7, <1>8 DEF IInv

\* Where the next edit's lines are in the new file.
LEMMA EchoedLines ==
  ASSUME Sound, owned = Kept[Len(lines)], offset \in Int,
         NEW k \in 1..Len(edits), EchoedTo(k - 1)
  PROVE  /\ \A j \in 1..Len(Nth(k).new) :
              /\ Nth(k).start + offset + j - 1 \in 1..Len(owned)
              /\ owned[Nth(k).start + offset + j - 1] = Nth(k).new[j]
         /\ Len(Kept[Nth(k).end]) = Nth(k).end + offset + Growth(Nth(k))
         /\ Nth(k).start + offset >= 1
  <1> DEFINE s == Nth(k).start
             t == Nth(k).end
             new == Nth(k).new
             g == End(k - 1)
  <1>1. /\ Batch /\ Len(lines) \in Nat /\ Len(edits) \in Nat
        /\ lines \in Seq(Lines) /\ k - 1 \in 0..Len(edits) /\ k - 1 + 1 = k
    BY BatchTypes DEF Sound, Batch
  <1>2. /\ s \in Nat /\ t \in Nat /\ 1 <= s /\ s <= t /\ t <= Len(lines)
        /\ new \in Seq(Lines)
    BY RangesApart
  <1>3. Begin(k) = s /\ g \in 0..Len(lines) /\ s - 1 \in g..Len(lines)
    <2>1. Begin(k) = s
      BY <1>1 DEF Begin
    <2> QED
      BY <1>1, <2>1, GapTypes
  <1>4. Kept[s - 1] = Kept[g] \o SubSeq(lines, g + 1, s - 1)
    BY <1>1, <1>3, KeptBetween
  <1>5. Kept[t] = Kept[s - 1] \o new
    BY KeptRange
  <1>6. PICK rest \in Seq(Lines) : Kept[Len(lines)] = Kept[t] \o rest
    <2>1. t \in 0..Len(lines) /\ Len(lines) \in t..Len(lines)
      BY <1>1, <1>2
    <2> QED
      BY <1>1, <2>1, KeptPrefix
  <1>7. Len(Kept[g]) = g + offset
    BY DEF EchoedTo
  <1>8. Growth(Nth(k)) = Len(new) - (t - s + 1)
    BY DEF Growth
  <1> HIDE DEF s, t, new, g
  <1>9. Kept[g] \in Seq(Lines) /\ Kept[s - 1] \in Seq(Lines)
    <2>1. g \in 0..Len(lines) /\ s - 1 \in 0..Len(lines)
      BY <1>1, <1>2, <1>3
    <2> QED
      BY <1>1, <2>1, KeptAddsMeaning
  <1>10. Len(Kept[s - 1]) = s - 1 + offset
    <2>1. /\ SubSeq(lines, g + 1, s - 1) \in Seq(Lines)
          /\ Len(SubSeq(lines, g + 1, s - 1)) = s - 1 - g
      <3>1. \A i \in g + 1..s - 1 : lines[i] \in Lines
        BY <1>1, <1>2, <1>3, ElementOfSeq
      <3>2. g + 1 \in Int /\ s - 1 \in Int /\ g \in Nat /\ g <= s - 1
        BY <1>1, <1>2, <1>3
      <3>3. /\ SubSeq(lines, g + 1, s - 1) \in Seq(Lines)
            /\ Len(SubSeq(lines, g + 1, s - 1)) =
                 IF g + 1 <= s - 1 THEN s - 1 - (g + 1) + 1 ELSE 0
        BY <3>1, <3>2, SubSeqProperties
      <3> QED
        BY <1>2, <3>2, <3>3
    <2>2. Len(Kept[s - 1]) = Len(Kept[g]) + (s - 1 - g)
      BY <1>4, <1>9, <2>1, ConcatProperties
    <2>3. g \in Nat
      BY <1>3
    <2> QED
      BY <1>2, <1>7, <2>2, <2>3
  <1>11. Len(Kept[t]) = t + offset + Growth(Nth(k))
    <2>1. Len(Kept[t]) = Len(Kept[s - 1]) + Len(new) /\ Len(new) \in Nat
      BY <1>2, <1>5, <1>9, ConcatProperties
    <2> QED
      BY <1>2, <1>8, <1>10, <2>1
  <1>12. s + offset >= 1
    <2>1. Len(Kept[s - 1]) \in Nat
      BY <1>9
    <2> QED
      BY <1>2, <1>10, <2>1
  <1>13. ASSUME NEW j \in 1..Len(new)
         PROVE  /\ s + offset + j - 1 \in 1..Len(owned)
                /\ owned[s + offset + j - 1] = new[j]
    <2>1. owned = Cat(Cat(Kept[s - 1], new), rest)
      BY <1>5, <1>6, Zenon DEF Cat
    <2>2. /\ Len(Kept[s - 1]) + j \in 1..Len(owned)
          /\ owned[Len(Kept[s - 1]) + j] = new[j]
      <3>1. PICK a \in Seq(Lines) : a = Kept[s - 1]
        BY <1>9, Zenon
      <3>2. PICK n \in Seq(Lines) : n = new
        BY <1>2, Zenon
      <3>3. owned = Cat(Cat(a, n), rest) /\ j \in 1..Len(n)
        BY <1>13, <2>1, <3>1, <3>2, Zenon
      <3>4. Follows(owned, a, n)
        BY <1>6, <3>1, <3>2, <3>3, CatIndex, Zenon
      <3>5. Len(a) + j \in 1..Len(owned) /\ owned[Len(a) + j] = n[j]
        BY <3>3, <3>4, Zenon DEF Follows
      <3> QED
        BY <3>1, <3>2, <3>5, Zenon
    <2>3. s + offset + j - 1 = Len(Kept[s - 1]) + j
      BY <1>2, <1>10
    <2> QED
      BY <2>2, <2>3, Zenon
  <1> QED
    BY <1>11, <1>12, <1>13 DEF s, t, new

\* The edits that follow the first p of them.
LEMMA RestOfOrder ==
  ASSUME Batch, NEW p \in 0..Len(edits), NEW ts,
         ts = SubSeq(ByStart, p + 1, Len(edits)), ts # <<>>
  PROVE  /\ p + 1 \in 1..Len(edits)
         /\ Head(ts) = ByStart[p + 1]
         /\ Tail(ts) = SubSeq(ByStart, p + 1 + 1, Len(edits))
  <1>0. Len(edits) \in Nat /\ DOMAIN edits = 1..Len(edits)
    BY BatchTypes DEF Batch
  <1>1. ByStart \in Seq(DOMAIN edits) /\ Len(ByStart) = Len(edits)
    BY ByStartSorts DEF Batch
  <1>2. PICK n \in Nat : n = Len(edits) /\ p \in 0..n
    BY <1>0
  <1>3. p # n
    <2>1. n + 1 > n
      BY <1>2
    <2> QED
      BY <1>1, <1>2, <2>1, SubSeqEmpty
  <1>4. PICK k \in 1..n : k = p + 1
    BY <1>2, <1>3
  <1>5. k \in 1..Len(ByStart) /\ n \in k..Len(ByStart)
    BY <1>1, <1>2, <1>4
  <1>6. /\ Head(SubSeq(ByStart, k, n)) = ByStart[k]
        /\ Tail(SubSeq(ByStart, k, n)) = SubSeq(ByStart, k + 1, n)
    BY <1>1, <1>5, HeadTailOfSubSeq
  <1> QED
    BY <1>2, <1>4, <1>6, Zenon

LEMMA EchoStep ==
  ASSUME IInv, Echo
  PROVE  IInv'
  <1> DEFINE e == edits[Head(todo)]
  <1>0. /\ UNCHANGED input /\ UNCHANGED <<phase, owned>>
        /\ phase = "echo" /\ todo # <<>> /\ todo' = Tail(todo)
        /\ echoed' = echoed \union {<<e.start + offset + j - 1, e.new[j]>> : j \in DOMAIN e.new}
        /\ offset' = offset + Growth(e)
    BY DEF Echo
  <1>1. /\ Sound /\ Batch /\ Len(lines) \in Nat /\ Len(edits) \in Nat
        /\ owned \in Seq(Lines) /\ offset \in Int
    BY <1>0, TypedBatch DEF IInv, Typed, Checked, Sound
  <1>2. /\ owned = Kept[Len(lines)]
        /\ \A pair \in echoed : InOwned(pair)
    BY <1>0 DEF IInv, Echoing
  <1>3. PICK p \in 0..Len(edits) :
           todo = SubSeq(ByStart, p + 1, Len(edits)) /\ EchoedTo(p)
    BY <1>0 DEF IInv, Echoing
  <1>4. /\ p + 1 \in 1..Len(edits) /\ Head(todo) = ByStart[p + 1]
        /\ Tail(todo) = SubSeq(ByStart, p + 1 + 1, Len(edits))
    BY <1>0, <1>1, <1>3, RestOfOrder, Zenon
  <1>5. PICK k \in 1..Len(edits) : k = p + 1 /\ k - 1 = p
    BY <1>4
  <1>6. e = Nth(k) /\ todo' = SubSeq(ByStart, k + 1, Len(edits))
    BY <1>0, <1>4, <1>5, Zenon DEF Nth
  <1> HIDE DEF e
  <1>7. EchoedTo(k - 1)
    BY <1>3, <1>5, Zenon
  <1>8. /\ \A j \in 1..Len(e.new) :
             /\ e.start + offset + j - 1 \in 1..Len(owned)
             /\ owned[e.start + offset + j - 1] = e.new[j]
        /\ Len(Kept[e.end]) = e.end + offset + Growth(e)
    BY <1>1, <1>2, <1>5, <1>6, <1>7, EchoedLines, Zenon
  <1>9. e.new \in Seq(Lines) /\ DOMAIN e.new = 1..Len(e.new) /\ e.end \in Nat /\ e.start \in Nat
    <2>1. e.new \in Seq(Lines) /\ e.end \in Nat /\ e.start \in Nat
      BY <1>1, <1>5, <1>6, RangesApart
    <2> QED
      BY <2>1, LenProperties
  <1>10. DOMAIN owned = 1..Len(owned)
    BY <1>1, LenProperties
  <1>11. \A pair \in echoed' : InOwned(pair)'
    <2> SUFFICES ASSUME NEW pair \in echoed' PROVE InOwned(pair)
      BY <1>0 DEF InOwned
    <2>1. CASE pair \in echoed
      BY <1>2, <2>1
    <2>2. ASSUME NEW j \in DOMAIN e.new, pair = <<e.start + offset + j - 1, e.new[j]>>
          PROVE  InOwned(pair)
      <3>1. j \in 1..Len(e.new)
        BY <1>9, <2>2, Zenon
      <3>2. PICK i : i = e.start + offset + j - 1
        OBVIOUS
      <3>3. i \in DOMAIN owned /\ pair = <<i, owned[i]>>
        BY <1>8, <1>10, <2>2, <3>1, <3>2, Zenon
      <3> QED
        BY <3>3 DEF InOwned
    <2> QED
      BY <1>0, <2>1, <2>2, Zenon
  <1>12. Growth(e) \in Int
    <2>1. PICK l \in Nat : l = Len(e.new)
      BY <1>9
    <2> QED
      BY <1>9, <2>1 DEF Growth
  <1>13. EchoedTo(k)'
    <2>1. Len(Kept[Nth(k).end])' = Len(Kept[Nth(k).end])
      BY <1>0, InputFixes DEF Nth, input
    <2>2. EchoedTo(k)' = (Len(Kept[Nth(k).end]) = Nth(k).end + offset)'
      BY <1>5 DEF EchoedTo, End
    <2>3. Nth(k).end' = Nth(k).end
      BY <1>0, InputFixes DEF Nth, input
    <2>4. e.end + offset + Growth(e) = e.end + offset'
      BY <1>0, <1>1, <1>9, <1>12
    <2> QED
      BY <1>6, <1>8, <2>1, <2>2, <2>3, <2>4, Zenon
  <1>14. Echoing'
    <2>1. (owned = Kept[Len(lines)])'
      BY <1>0, <1>2, InputFixes DEF input
    <2>2. todo' = SubSeq(ByStart, k + 1, Len(edits))' /\ k \in (0..Len(edits))'
      <3>1. ByStart' = ByStart /\ Len(edits)' = Len(edits) /\ k \in 0..Len(edits)
        BY <1>0, <1>1, <1>5, InputFixes DEF input
      <3> QED
        BY <1>0, <1>6, <3>1 DEF input
    <2> QED
      BY <1>11, <1>13, <2>1, <2>2, Zenon DEF Echoing
  <1>15. Typed' /\ Untouched' /\ Splicing'
    <2>1. offset' \in Int
      BY <1>0, <1>1, <1>12
    <2> QED
      BY <1>0, <2>1 DEF IInv, Typed, Untouched, Splicing, input
  <1>16. Checked'
    BY <1>0, InputFixes DEF IInv, Checked
  <1> QED
    BY <1>14, <1>15, <1>16 DEF IInv

\* A step that changes nothing but the phase, to "done", or nothing at all.
LEMMA SettledStep ==
  ASSUME IInv, UNCHANGED <<input, todo, owned, offset, echoed>>,
         phase' = phase \/ (phase = "echo" /\ phase' = "done")
  PROVE  IInv'
  <1>0. /\ UNCHANGED input /\ todo' = todo /\ owned' = owned
        /\ offset' = offset /\ echoed' = echoed
    OBVIOUS
  <1>1. Typed' /\ Untouched'
    BY <1>0 DEF IInv, Typed, Untouched, input
  <1>2. Checked'
    BY <1>0, InputFixes DEF IInv, Checked
  <1>3. Splicing'
    <2> SUFFICES ASSUME phase' = "splice"
                 PROVE  (\E m \in 0..Len(edits) : todo = SubSeq(ByStart, 1, m) /\ SplicedTo(m))'
      BY DEF Splicing
    <2>1. PICK m \in 0..Len(edits) : todo = SubSeq(ByStart, 1, m) /\ SplicedTo(m)
      BY <1>0 DEF IInv, Splicing
    <2>2. SplicedTo(m)'
      BY <1>0, <2>1, InputFixes DEF SplicedTo, Begin, Nth, input
    <2>3. (m \in 0..Len(edits) /\ todo = SubSeq(ByStart, 1, m))'
      BY <1>0, <2>1, InputFixes DEF input
    <2> QED
      BY <2>2, <2>3
  <1>4. Echoing'
    <2> SUFFICES ASSUME phase' \in {"echo", "done"}
                 PROVE  (/\ owned = Kept[Len(lines)]
                         /\ \A pair \in echoed : InOwned(pair)
                         /\ \E p \in 0..Len(edits) :
                               /\ todo = SubSeq(ByStart, p + 1, Len(edits))
                               /\ EchoedTo(p))'
      BY DEF Echoing
    <2>1. owned = Kept[Len(lines)] /\ \A pair \in echoed : InOwned(pair)
      BY <1>0 DEF IInv, Echoing
    <2>2. PICK p \in 0..Len(edits) :
             todo = SubSeq(ByStart, p + 1, Len(edits)) /\ EchoedTo(p)
      BY <1>0 DEF IInv, Echoing
    <2>3. (owned = Kept[Len(lines)])'
      BY <1>0, <2>1, InputFixes DEF input
    <2>4. (\A pair \in echoed : InOwned(pair))'
      BY <1>0, <2>1 DEF InOwned
    <2>5. EchoedTo(p)'
      BY <1>0, <2>2, InputFixes DEF EchoedTo, End, Nth, input
    <2>6. (p \in 0..Len(edits) /\ todo = SubSeq(ByStart, p + 1, Len(edits)))'
      BY <1>0, <2>2, InputFixes DEF input
    <2> QED
      BY <2>3, <2>4, <2>5, <2>6
  <1> QED
    BY <1>1, <1>2, <1>3, <1>4 DEF IInv

LEMMA NextKeepsIInv == IInv /\ [Next]_vars => IInv'
  <1> SUFFICES ASSUME IInv, [Next]_vars PROVE IInv'
    OBVIOUS
  <1>1. CASE Applied
    BY <1>1, SettledStep DEF Applied
  <1>2. CASE UNCHANGED vars
    BY <1>2, SettledStep DEF vars, input
  <1> QED
    BY <1>1, <1>2, ComposeStep, SendStep, VerifyStep, CheckOverlapStep,
       SpliceStep, WriteStep, EchoStep DEF Next

-----------------------------------------------------------------------------
(* The theorems.                                                           *)

\* The inductive invariant holds in every state of apply_edits: above the
\* lowest edit still to splice the file is untouched and below it is what the
\* batch means; while echoing, the offset is what the edits above have grown.
THEOREM Invariant == Spec => []IInv
  <1>1. Init => IInv
    BY InitIInv
  <1>2. IInv /\ [Next]_vars => IInv'
    BY NextKeepsIInv
  <1> QED
    BY <1>1, <1>2, PTL DEF Spec

LEMMA OffsetIsKept ==
  ASSUME IInv
  PROVE  Len(lines) + offset \in Nat
  <1>1. Batch /\ Len(lines) \in Nat /\ offset \in Int
    BY TypedBatch DEF IInv, Typed
  <1>2. CASE phase \notin {"echo", "done"}
    BY <1>1, <1>2 DEF IInv, Untouched
  <1>3. CASE phase \in {"echo", "done"}
    <2>1. Sound
      BY <1>1, <1>3 DEF IInv, Checked, Sound
    <2>2. PICK p \in 0..Len(edits) : EchoedTo(p)
      BY <1>3 DEF IInv, Echoing
    <2>3. End(p) \in 0..Len(lines)
      BY <2>1, GapTypes
    <2>4. Kept[End(p)] \in Seq(Lines)
      BY <1>1, <2>3, KeptAddsMeaning
    <2>5. Len(Kept[End(p)]) \in Nat /\ Len(Kept[End(p)]) = End(p) + offset
      BY <2>2, <2>4 DEF EchoedTo
    <2> QED
      BY <1>1, <2>3, <2>5
  <1> QED
    BY <1>2, <1>3

LEMMA TodoAreEdits ==
  ASSUME IInv
  PROVE  ToSet(todo) \subseteq DOMAIN edits
  <1>0. Batch /\ Len(edits) \in Nat
    BY TypedBatch DEF IInv
  <1>1. ByStart \in Seq(DOMAIN edits) /\ Len(ByStart) = Len(edits)
    BY <1>0, ByStartSorts DEF Batch
  <1>2. CASE todo = <<>>
    BY <1>2 DEF ToSet
  <1>3. ASSUME NEW i \in 1..Len(edits) + 1, NEW j \in 0..Len(edits),
               todo = SubSeq(ByStart, i, j)
        PROVE  ToSet(todo) \subseteq DOMAIN edits
    <2>1. \A n \in i..j : ByStart[n] \in DOMAIN edits
      <3>1. PICK n \in Nat : n = Len(edits)
        BY <1>0
      <3>2. i..j \subseteq 1..Len(ByStart)
        <4>1. i \in 1..n + 1 /\ j \in 0..n
          BY <1>3, <3>1, Zenon
        <4>2. i..j \subseteq 1..n
          BY <3>1, <4>1
        <4> QED
          BY <1>1, <3>1, <4>2, Zenon
      <3> QED
        BY <1>1, <3>2, ElementOfSeq
    <2>2. i \in Int /\ j \in Int
      BY <1>0, <1>3
    <2>3. todo \in Seq(DOMAIN edits)
      BY <1>3, <2>1, <2>2, SubSeqProperties
    <2> QED
      BY <2>3 DEF ToSet
  <1>4. CASE phase = "splice"
    <2>1. PICK m \in 0..Len(edits) : todo = SubSeq(ByStart, 1, m)
      BY <1>4 DEF IInv, Splicing
    <2>2. 1 \in 1..Len(edits) + 1
      BY <1>0
    <2> QED
      BY <1>3, <2>1, <2>2
  <1>5. CASE phase \in {"echo", "done"}
    <2>1. PICK p \in 0..Len(edits) : todo = SubSeq(ByStart, p + 1, Len(edits))
      BY <1>5 DEF IInv, Echoing
    <2>2. p + 1 \in 1..Len(edits) + 1 /\ Len(edits) \in 0..Len(edits)
      BY <1>0
    <2> QED
      BY <1>3, <2>1, <2>2, Zenon
  <1> QED
    BY <1>2, <1>4, <1>5 DEF IInv, Untouched

\* Every variable has its type, and the running offset of the echo never takes
\* the file below no lines.
THEOREM TypeCorrect == Spec => []TypeOK
  <1>1. ASSUME IInv PROVE TypeOK
    BY <1>1, OffsetIsKept, TodoAreEdits DEF IInv, Typed, TypeOK
  <1> QED
    BY <1>1, Invariant, PTL

\* The splices of apply_edits, taken from the bottom of the file, make of it
\* what the batch means line by line, whatever the edits and their order.
THEOREM SplicesAreTheBatch == Spec => []SpliceMatchesReference
  <1>1. ASSUME IInv PROVE SpliceMatchesReference
    <2> SUFFICES ASSUME phase = "done" PROVE owned = Reference
      BY DEF SpliceMatchesReference, Done
    <2>1. owned = Kept[Len(lines)]
      BY <1>1 DEF IInv, Echoing
    <2>2. Batch
      BY <1>1, TypedBatch DEF IInv
    <2> QED
      BY <2>1, <2>2, KeptAddsMeaning
  <1> QED
    BY <1>1, Invariant, PTL

\* Every "+" line the answer echoes is the line of that number in the file as
\* it is read again, but for a blank last line that was lost.
THEOREM EchoIsTheFile == Spec => []EchoMatchesFile
  <1>1. ASSUME IInv PROVE EchoMatchesFile
    <2> SUFFICES ASSUME phase = "done", NEW pair \in echoed
                 PROVE  \/ pair[1] \in DOMAIN Output /\ Output[pair[1]] = pair[2]
                        \/ /\ ~newline /\ pair = <<Len(Output) + 1, Blank>>
                           /\ Len(owned) = Len(Output) + 1
      BY DEF EchoMatchesFile, Done
    <2>1. owned \in Seq(Lines) /\ newline \in BOOLEAN
      BY <1>1 DEF IInv, Typed
    <2>2. PICK i \in DOMAIN owned : pair = <<i, owned[i]>>
      BY <1>1 DEF IInv, Echoing, InOwned
    <2>3. owned # <<>> /\ i \in 1..Len(owned) /\ Len(owned) \in Nat
      BY <2>1, <2>2
    <2>4. CASE Output = owned
      BY <2>2, <2>4
    <2>5. CASE ~newline /\ Output = Front(owned) /\ Last(owned) = Blank
      <3>1. /\ Output \in Seq(Lines) /\ Len(Output) = Len(owned) - 1
            /\ \A j \in 1..Len(owned) - 1 : Output[j] = owned[j]
        <4>0. PICK n \in Nat : n = Len(owned) - 1
          BY <2>3
        <4>1. \A j \in 1..n : owned[j] \in Lines
          BY <2>1, <4>0, ElementOfSeq
        <4>2. PICK s : s = SubSeq(owned, 1, n)
          OBVIOUS
        <4>3. /\ s \in Seq(Lines) /\ Len(s) = IF 1 <= n THEN n - 1 + 1 ELSE 0
              /\ \A j \in 1..n - 1 + 1 : s[j] = owned[1 + j - 1]
          BY <4>0, <4>1, <4>2, SubSeqProperties
        <4>4. Len(s) = n /\ \A j \in 1..n : s[j] = owned[j]
          BY <4>0, <4>3
        <4>5. Output = s
          BY <2>5, <4>0, <4>2 DEF Front
        <4> QED
          BY <4>0, <4>3, <4>4, <4>5, Zenon
      <3>2. DOMAIN Output = 1..Len(owned) - 1
        BY <3>1, LenProperties
      <3>3. CASE i = Len(owned)
        <4>1. owned[i] = Blank /\ i = Len(Output) + 1
          BY <2>3, <2>5, <3>1, <3>3 DEF Last
        <4> QED
          BY <2>2, <2>5, <3>1, <3>3, <4>1
      <3>4. CASE i # Len(owned)
        <4>1. i \in 1..Len(owned) - 1
          BY <2>3, <3>4
        <4> QED
          BY <2>2, <3>1, <3>2, <4>1
      <3> QED
        BY <3>3, <3>4
    <2>6. \/ Output = owned
          \/ ~newline /\ Output = Front(owned) /\ Last(owned) = Blank
      BY <2>1, <2>3 DEF Output, Rows
    <2> QED
      BY <2>4, <2>5, <2>6
  <1> QED
    BY <1>1, Invariant, PTL

\* The "+" lines of an edit are never numbered from before the file's start.
FirstIsInFile ==
    phase = "echo" /\ todo # <<>> => edits[Head(todo)].start + offset >= 1

\* The clamp of apply_edits at zero (edit.rs:282), which Echo leaves out, never
\* changes a number: the lines kept above an edit are never fewer than none.
THEOREM ClampIsIdle == Spec => []FirstIsInFile
  <1>1. ASSUME IInv PROVE FirstIsInFile
    <2> SUFFICES ASSUME phase = "echo", todo # <<>>
                 PROVE  edits[Head(todo)].start + offset >= 1
      BY DEF FirstIsInFile
    <2>1. /\ Sound /\ Batch /\ offset \in Int /\ owned = Kept[Len(lines)]
      BY <1>1, TypedBatch DEF IInv, Typed, Checked, Echoing, Sound
    <2>2. PICK p \in 0..Len(edits) :
             todo = SubSeq(ByStart, p + 1, Len(edits)) /\ EchoedTo(p)
      BY <1>1 DEF IInv, Echoing
    <2>3. p + 1 \in 1..Len(edits) /\ Head(todo) = ByStart[p + 1]
      BY <2>1, <2>2, RestOfOrder, Zenon
    <2>4. PICK k \in 1..Len(edits) : k = p + 1 /\ k - 1 = p
      BY <2>3
    <2>5. EchoedTo(k - 1)
      BY <2>2, <2>4, Zenon
    <2>6. Nth(k).start + offset >= 1
      BY <2>1, <2>4, <2>5, EchoedLines, Zenon
    <2> QED
      BY <2>3, <2>4, <2>6, Zenon DEF Nth
  <1> QED
    BY <1>1, Invariant, PTL

=============================================================================
