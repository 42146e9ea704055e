---------------------------- MODULE LogTail_proofs ----------------------------
(***************************************************************************)
(* What the tails report, show and take, for any number of lines and any    *)
(* number of faults.                                                        *)
(***************************************************************************)
EXTENDS LogTail, FiniteSetTheorems, SequenceTheorems, WellFoundedInduction, TLAPS

-----------------------------------------------------------------------------
(* Numbers and their order. *)

LEMMA LeastOf ==
  ASSUME NEW S \in SUBSET Nat, S # {}
  PROVE  \E n \in S : \A m \in S : n <= m
<1> DEFINE Less == {ss \in Nat \X Nat : ss[1] < ss[2]}
<1>1. IsWellFoundedOn(Less, Nat)
  BY NatLessThanWellFounded DEF OpToRel
<1> HIDE DEF Less
<1>2. PICK n \in S : \A m \in S : ~(<<m, n>> \in Less)
  BY <1>1, WFMin
<1>3. \A m \in S : ~(m < n)
  BY <1>2 DEF Less
<1> QED BY <1>3

LEMMA GreatestOf ==
  ASSUME NEW n \in Nat, NEW S \in SUBSET (1..n), S # {}
  PROVE  \E m \in S : \A i \in S : i <= m
<1> DEFINE T == {n - i : i \in S}
<1>0. \A i \in S : i \in 1..n /\ n - i \in Nat
  OBVIOUS
<1>1. T \in SUBSET Nat /\ T # {}
  BY <1>0
<1>2. \A i \in S : n - i \in T
  OBVIOUS
<1>3. \A t \in T : \E m \in S : t = n - m
  OBVIOUS
<1> HIDE DEF T
<1>4. PICK t \in T : \A u \in T : t <= u
  BY <1>1, LeastOf
<1>5. PICK m \in S : t = n - m
  BY <1>3
<1>6. \A i \in S : n - m <= n - i
  BY <1>2, <1>4, <1>5
<1>7. \A i \in S : i <= m
  BY <1>6
<1> QED BY <1>7

\* Positions of a run of n pieces.
LEMMA RankBounds ==
  ASSUME NEW n \in Nat, NEW at \in SUBSET (1..n)
  PROVE  /\ IsFiniteSet(at) /\ Cardinality(at) \in Nat
         /\ \A i \in at : i \in Nat /\ rank(at, i) \in 1..Cardinality(at)
         /\ \A i, j \in at : i < j => rank(at, i) < rank(at, j)
<1>0. \A i \in at : i \in Nat
  OBVIOUS
<1>1. IsFiniteSet(at) /\ Cardinality(at) \in Nat
  <2>1. IsFiniteSet(1..n)
    BY FS_Interval
  <2> QED BY <2>1, FS_Subset, FS_CardinalityType
<1>2. ASSUME NEW i \in at
      PROVE  /\ IsFiniteSet({j \in at : j <= i}) /\ rank(at, i) \in Nat
             /\ rank(at, i) <= Cardinality(at) /\ rank(at, i) > 0
  <2> DEFINE S == {j \in at : j <= i}
  <2>0. rank(at, i) = Cardinality(S)
    BY DEF rank
  <2>1. S \in SUBSET at /\ i \in S
    BY <1>0
  <2> HIDE DEF S
  <2>2. IsFiniteSet(S) /\ Cardinality(S) <= Cardinality(at) /\ Cardinality(S) \in Nat
    BY <1>1, <2>1, FS_Subset, FS_CardinalityType
  <2>3. Cardinality(S) # 0
    BY <2>1, <2>2, FS_EmptySet
  <2>4. rank(at, i) \in Nat /\ rank(at, i) <= Cardinality(at) /\ rank(at, i) > 0
    BY <1>1, <2>0, <2>2, <2>3
  <2> QED BY <2>2, <2>4 DEF S
<1>3. ASSUME NEW i \in at, NEW j \in at, i < j PROVE rank(at, i) < rank(at, j)
  <2> DEFINE S == {k \in at : k <= i}
             T == {k \in at : k <= j}
  <2>0. rank(at, i) = Cardinality(S) /\ rank(at, j) = Cardinality(T)
    BY DEF rank
  <2>a. i \in Nat /\ j \in Nat
    BY <1>0
  <2>b. \A k \in at : k <= i => k <= j
    BY <1>0, <1>3, <2>a
  <2>c. j <= j /\ ~(j <= i)
    BY <1>3, <2>a
  <2>1. (\A k \in S : k \in T) /\ j \in T /\ j \notin S
    BY <2>b, <2>c
  <2>2. IsFiniteSet(T) /\ Cardinality(T) \in Nat /\ Cardinality(S) \in Nat
    BY <1>2, <2>0
  <2> HIDE DEF S, T
  <2>3. Cardinality(S) <= Cardinality(T) /\ Cardinality(S) # Cardinality(T)
    BY <2>1, <2>2, FS_Subset
  <2> QED BY <2>0, <2>2, <2>3
<1>4. ASSUME NEW i \in at PROVE rank(at, i) \in 1..Cardinality(at)
  <2>1. rank(at, i) \in Nat /\ rank(at, i) <= Cardinality(at) /\ rank(at, i) > 0
    BY <1>2
  <2> QED BY <1>1, <2>1
<1> QED BY <1>0, <1>1, <1>3, <1>4

\* The k-th position is where k positions have been passed.
LEMMA NthInverts ==
  ASSUME NEW n \in Nat, NEW at \in SUBSET (1..n)
  PROVE  /\ IsFiniteSet(at) /\ Cardinality(at) \in Nat
         /\ \A i \in at : \E k \in 1..Cardinality(at) : nth(at, k) = i
         /\ \A k \in 1..Cardinality(at) : nth(at, k) \in at
         /\ \A k, l \in 1..Cardinality(at) : k < l => nth(at, k) < nth(at, l)
<1> DEFINE N == Cardinality(at)
           r == [i \in at |-> rank(at, i)]
<1>0. /\ IsFiniteSet(at) /\ N \in Nat
      /\ \A i \in at : rank(at, i) \in 1..N /\ i \in Nat
      /\ \A i, j \in at : i < j => rank(at, i) < rank(at, j)
  BY RankBounds
<1>1. \A i, j \in at : rank(at, i) = rank(at, j) => i = j
  BY <1>0
<1>2. r \in Injection(at, 1..N)
  BY <1>0, <1>1 DEF Injection, IsInjective
<1>3. IsFiniteSet(1..N) /\ Cardinality(1..N) = N
  BY <1>0, FS_Interval
<1>4. r \in Surjection(at, 1..N)
  BY <1>2, <1>3, FS_Injection
<1>5. \A k \in 1..N : \E i \in at : rank(at, i) = k
  BY <1>4 DEF Surjection
<1>6. \A k \in 1..N : nth(at, k) \in at /\ rank(at, nth(at, k)) = k
  BY <1>5 DEF nth
<1>7. \A i \in at : nth(at, rank(at, i)) = i
  BY <1>0, <1>1, <1>6
<1> HIDE DEF N, r
<1>8. ASSUME NEW k \in 1..N, NEW l \in 1..N, k < l PROVE nth(at, k) < nth(at, l)
  <2> DEFINE a == nth(at, k)
             b == nth(at, l)
  <2>1. a \in at /\ b \in at /\ rank(at, a) = k /\ rank(at, b) = l
    BY <1>6
  <2> HIDE DEF a, b
  <2>2. a \in Nat /\ b \in Nat /\ k \in Nat /\ l \in Nat
    BY <1>0, <2>1
  <2>3. ~(b < a) /\ a # b
    BY <1>0, <1>8, <2>1, <2>2
  <2>4. a < b
    BY <2>2, <2>3
  <2> QED BY <2>4 DEF a, b
<1> QED BY <1>0, <1>6, <1>7, <1>8 DEF N

\* An increasing list of all of a set's members is the list of them.
LEMMA Enumerates ==
  ASSUME NEW n \in Nat, NEW at \in SUBSET (1..n), NEW m \in Nat, NEW f \in [1..m -> at],
         \A k, l \in 1..m : k < l => f[k] < f[l],
         \A i \in at : \E k \in 1..m : f[k] = i
  PROVE  Cardinality(at) = m /\ \A k \in 1..m : nth(at, k) = f[k]
<1>0. \A k \in 1..m : f[k] \in Nat /\ f[k] \in at
  <2>1. \A i \in at : i \in Nat
    OBVIOUS
  <2>2. \A k \in 1..m : f[k] \in at
    OBVIOUS
  <2> QED BY <2>1, <2>2
<1>1. \A k, l \in 1..m : f[k] = f[l] => k = l
  <2>1. ASSUME NEW k \in 1..m, NEW l \in 1..m, k # l PROVE f[k] # f[l]
    <3>1. k < l \/ l < k
      BY <2>1
    <3> QED BY <1>0, <3>1
  <2> QED BY <2>1
<1>2. f \in Bijection(1..m, at)
  BY <1>1 DEF Bijection, Injection, IsInjective, Surjection
<1>3. Cardinality(at) = m
  BY <1>2, FS_CountingElements DEF ExistsBijection
<1>4. ASSUME NEW k \in 1..m PROVE rank(at, f[k]) = k
  <2> DEFINE S == {j \in at : j <= f[k]}
             g == [l \in 1..k |-> f[l]]
  <2>1. ASSUME NEW l \in 1..k PROVE l \in 1..m /\ f[l] \in S
    <3>1. l \in 1..m /\ (l < k \/ l = k)
      OBVIOUS
    <3>2. f[l] \in Nat /\ f[k] \in Nat /\ f[l] \in at
      BY <1>0, <3>1
    <3>3. f[l] < f[k] \/ f[l] = f[k]
      BY <3>1
    <3> QED BY <3>1, <3>2, <3>3
  <2>2. ASSUME NEW j \in S PROVE \E l \in 1..k : f[l] = j
    <3>1. PICK l \in 1..m : f[l] = j
      OBVIOUS
    <3>2. ~(k < l)
      BY <1>0, <2>2, <3>1
    <3> QED BY <3>1, <3>2
  <2>3. g \in Bijection(1..k, S)
    <3>1. g \in [1..k -> S]
      BY <2>1
    <3>2. \A a, b \in 1..k : g[a] = g[b] => a = b
      BY <1>1, <2>1
    <3>3. \A j \in S : \E l \in 1..k : g[l] = j
      BY <2>2
    <3> HIDE DEF g, S
    <3> QED BY <3>1, <3>2, <3>3 DEF Bijection, Injection, IsInjective, Surjection
  <2> HIDE DEF g
  <2>4. Cardinality(S) = k
    BY <2>3, FS_CountingElements DEF ExistsBijection
  <2> QED BY <2>4 DEF rank
<1>5. ASSUME NEW k \in 1..m PROVE nth(at, k) = f[k]
  <2>1. nth(at, k) \in at /\ rank(at, nth(at, k)) = k
    BY <1>4, <1>0 DEF nth
  <2>2. PICK l \in 1..m : f[l] = nth(at, k)
    BY <2>1
  <2> QED BY <1>4, <2>1, <2>2
<1> QED BY <1>3, <1>5

-----------------------------------------------------------------------------
(* Complete lines and what follows them. *)

Piece == [id : Nat, kind : Kinds, end : BOOLEAN]
Entry == [id : Nat, outcome : Outcomes]
Complete(c) == Len(c) = 0 \/ c[Len(c)].end

LEMMA LastEndIs ==
  ASSUME NEW b \in Seq(Piece)
  PROVE  /\ LastEnd(b) \in 0..Len(b)
         /\ LastEnd(b) # 0 => b[LastEnd(b)].end
         /\ \A i \in 1..Len(b) : b[i].end => i <= LastEnd(b)
<1>0. Len(b) \in Nat /\ DOMAIN b = 1..Len(b)
  BY LenProperties
<1>1. CASE Ends(b) = {}
  BY <1>0, <1>1 DEF LastEnd, Ends
<1>2. CASE Ends(b) # {}
  <2>1. Ends(b) \in SUBSET (1..Len(b))
    BY <1>0 DEF Ends
  <2>2. \E m \in Ends(b) : \A i \in Ends(b) : i <= m
    BY <1>0, <1>2, <2>1, GreatestOf
  <2>3. LastEnd(b) \in Ends(b) /\ \A i \in Ends(b) : i <= LastEnd(b)
    BY <1>2, <2>2 DEF LastEnd
  <2> QED BY <1>0, <2>1, <2>3 DEF Ends
<1> QED BY <1>1, <1>2

\* The last end is the one behind which there is none.
LEMMA LastEndIsThe ==
  ASSUME NEW b \in Seq(Piece), NEW m \in 0..Len(b), m # 0 => b[m].end,
         \A i \in 1..Len(b) : b[i].end => i <= m
  PROVE  LastEnd(b) = m
<1>1. Len(b) \in Nat
  BY LenProperties
<1>2. /\ LastEnd(b) \in 0..Len(b)
      /\ LastEnd(b) # 0 => b[LastEnd(b)].end
      /\ \A i \in 1..Len(b) : b[i].end => i <= LastEnd(b)
  BY LastEndIs
<1>3. LastEnd(b) <= m
  BY <1>1, <1>2
<1>4. m <= LastEnd(b)
  BY <1>1, <1>2
<1> QED BY <1>1, <1>2, <1>3, <1>4

\* A run of pieces is its complete lines and the pieces behind them.
LEMMA LinesAndRest ==
  ASSUME NEW b \in Seq(Piece)
  PROVE  /\ completeLines(b) \in Seq(Piece) /\ unfinished(b) \in Seq(Piece)
         /\ Complete(completeLines(b)) /\ Len(completeLines(b)) = LastEnd(b)
         /\ Len(unfinished(b)) = Len(b) - LastEnd(b)
         /\ completeLines(b) \o unfinished(b) = b
         /\ \A i \in 1..Len(unfinished(b)) : ~unfinished(b)[i].end
         /\ \A i \in 1..LastEnd(b) : completeLines(b)[i] = b[i]
         /\ \A i \in 1..Len(unfinished(b)) : unfinished(b)[i] = b[LastEnd(b) + i]
<1> DEFINE m == LastEnd(b)
           n == Len(b)
<1>0. /\ m \in 0..n /\ n \in Nat
      /\ m # 0 => b[m].end
      /\ \A i \in 1..n : b[i].end => i <= m
      /\ \A i \in 1..n : b[i] \in Piece
  BY LastEndIs, LenProperties, ElementOfSeq
<1>1. /\ SubSeq(b, 1, m) \in Seq(Piece) /\ Len(SubSeq(b, 1, m)) = m
      /\ \A i \in 1..m : SubSeq(b, 1, m)[i] = b[i]
  <2>1. /\ SubSeq(b, 1, m) \in Seq(Piece)
        /\ Len(SubSeq(b, 1, m)) = IF 1 <= m THEN m - 1 + 1 ELSE 0
        /\ \A i \in 1..(m - 1 + 1) : SubSeq(b, 1, m)[i] = b[1 + i - 1]
    <3> HIDE DEF m, n
    <3>1. 1 \in Int /\ m \in Int /\ \A i \in 1..m : b[i] \in Piece
      BY <1>0
    <3> QED BY <3>1, SubSeqProperties
  <2> HIDE DEF m, n
  <2> QED BY <1>0, <2>1
<1>2. /\ SubSeq(b, m + 1, n) \in Seq(Piece) /\ Len(SubSeq(b, m + 1, n)) = n - m
      /\ \A i \in 1..(n - m) : SubSeq(b, m + 1, n)[i] = b[m + i]
  <2>1. /\ SubSeq(b, m + 1, n) \in Seq(Piece)
        /\ Len(SubSeq(b, m + 1, n)) = IF m + 1 <= n THEN n - (m + 1) + 1 ELSE 0
        /\ \A i \in 1..(n - (m + 1) + 1) : SubSeq(b, m + 1, n)[i] = b[m + 1 + i - 1]
    <3> HIDE DEF m, n
    <3>1. m + 1 \in Int /\ n \in Int /\ \A i \in (m + 1)..n : b[i] \in Piece
      BY <1>0
    <3> QED BY <3>1, SubSeqProperties
  <2> HIDE DEF m, n
  <2> QED BY <1>0, <2>1
<1>3. SubSeq(b, 1, m) \o SubSeq(b, m + 1, n) = b
  <2>1. SubSeq(b, 1, m) \o SubSeq(b, m + 1, n) = SubSeq(b, 1, n)
    <3> HIDE DEF m
    <3>1. 1 \in 1..Len(b) + 1 /\ m \in 1 - 1 .. Len(b) /\ n \in m..Len(b)
      BY <1>0
    <3> HIDE DEF n
    <3> QED BY <3>1, ConcatAdjacentSubSeq
  <2> QED BY <2>1, SubSeqFull
<1>4. completeLines(b) = SubSeq(b, 1, m) /\ unfinished(b) = SubSeq(b, m + 1, n)
  BY DEF completeLines, unfinished
<1> HIDE DEF m, n
<1>5. Complete(completeLines(b))
  BY <1>0, <1>1, <1>4 DEF Complete
<1>6. \A i \in 1..Len(unfinished(b)) : ~unfinished(b)[i].end
  <2>1. ASSUME NEW i \in 1..(n - m) PROVE ~b[m + i].end
    <3>1. m + i \in 1..n /\ ~(m + i <= m)
      BY <1>0
    <3> QED BY <1>0, <3>1
  <2> QED BY <1>2, <1>4, <2>1
<1> QED BY <1>1, <1>2, <1>3, <1>4, <1>5, <1>6 DEF m, n

LEMMA LastEndGoesOn ==
  ASSUME NEW c \in Seq(Piece), Complete(c), NEW y \in Seq(Piece)
  PROVE  LastEnd(c \o y) = Len(c) + LastEnd(y)
<1> DEFINE n == Len(c)
           m == LastEnd(y)
           b == c \o y
<1>1. /\ b \in Seq(Piece) /\ Len(b) = n + Len(y)
      /\ \A i \in 1..n + Len(y) : b[i] = IF i <= n THEN c[i] ELSE y[i - n]
      /\ n \in Nat /\ Len(y) \in Nat
  BY ConcatProperties, LenProperties
<1>2. /\ m \in 0..Len(y)
      /\ m # 0 => y[m].end
      /\ \A i \in 1..Len(y) : y[i].end => i <= m
  BY LastEndIs
<1>3. Len(c) = n
  OBVIOUS
<1> HIDE DEF n, m, b
<1>4. n + m \in 0..Len(b)
  BY <1>1, <1>2
<1>5. n + m # 0 => b[n + m].end
  <2>1. CASE m = 0
    BY <1>1, <1>3, <2>1 DEF Complete
  <2>2. CASE m # 0
    <3>1. n + m \in 1..n + Len(y) /\ ~(n + m <= n) /\ n + m - n = m
      BY <1>1, <1>2, <2>2
    <3> QED BY <1>1, <1>2, <2>2, <3>1
  <2> QED BY <2>1, <2>2
<1>6. ASSUME NEW i \in 1..Len(b), b[i].end PROVE i <= n + m
  <2>1. CASE i <= n
    BY <1>1, <1>2, <2>1
  <2>2. CASE ~(i <= n)
    <3>1. i - n \in 1..Len(y) /\ b[i] = y[i - n]
      BY <1>1, <2>2
    <3>2. i - n <= m
      BY <1>2, <1>6, <3>1
    <3> QED BY <1>1, <1>2, <3>2
  <2> QED BY <2>1, <2>2
<1>7. LastEnd(b) = n + m
  BY <1>1, <1>4, <1>5, <1>6, LastEndIsThe
<1> QED BY <1>7 DEF n, m, b

\* Behind complete lines, the lines go on as if nothing stood before them.
LEMMA LinesGoOn ==
  ASSUME NEW c \in Seq(Piece), Complete(c), NEW y \in Seq(Piece)
  PROVE  /\ completeLines(c \o y) = c \o completeLines(y)
         /\ unfinished(c \o y) = unfinished(y)
<1> DEFINE b == c \o y
<1>1. b = c \o (completeLines(y) \o unfinished(y))
  BY LinesAndRest
<1>2. b = (c \o completeLines(y)) \o unfinished(y)
  <2>1. completeLines(y) \in Seq(Piece) /\ unfinished(y) \in Seq(Piece)
    BY LinesAndRest
  <2>2. (c \o completeLines(y)) \o unfinished(y) = c \o (completeLines(y) \o unfinished(y))
    BY <2>1, ConcatAssociative
  <2> HIDE DEF b
  <2> QED BY <1>1, <2>2
<1>3. /\ c \o completeLines(y) \in Seq(Piece) /\ Len(c \o completeLines(y)) = LastEnd(b)
      /\ unfinished(y) \in Seq(Piece) /\ b \in Seq(Piece) /\ LastEnd(b) \in Nat
  <2>1. Len(c) \in Nat /\ LastEnd(y) \in 0..Len(y) /\ Len(y) \in Nat
    BY LenProperties, LastEndIs
  <2>2. /\ completeLines(y) \in Seq(Piece) /\ unfinished(y) \in Seq(Piece)
        /\ Len(completeLines(y)) = LastEnd(y)
    BY LinesAndRest
  <2>3. LastEnd(b) = Len(c) + LastEnd(y)
    BY LastEndGoesOn
  <2>4. /\ c \o completeLines(y) \in Seq(Piece) /\ b \in Seq(Piece)
        /\ Len(c \o completeLines(y)) = Len(c) + Len(completeLines(y))
    BY <2>2, ConcatProperties
  <2> QED BY <2>1, <2>2, <2>3, <2>4
<1>4. ASSUME NEW s \in Seq(Piece), NEW t \in Seq(Piece)
      PROVE  /\ SubSeq(s \o t, 1, Len(s)) = s
             /\ SubSeq(s \o t, Len(s) + 1, Len(s \o t)) = t
  <2>0. /\ Len(s) \in Nat /\ Len(t) \in Nat /\ s \o t \in Seq(Piece) /\ Len(s \o t) = Len(s) + Len(t)
    BY LenProperties, ConcatProperties
  <2>1. SubSeq(s \o t, 1, Len(s)) = s
    <3>1. CASE Len(s) = 0
      <4>1. s = <<>>
        BY <3>1, EmptySeq
      <4> QED BY <3>1, <4>1, SubSeqEmpty
    <3>2. CASE Len(s) # 0
      <4>1. SubSeq(s \o t, 1, Len(s)) = SubSeq(s, 1, Len(s))
        BY <2>0, <3>2, SubSeqOfConcat1
      <4> QED BY <4>1, SubSeqFull
    <3> QED BY <3>1, <3>2
  <2>2. SubSeq(s \o t, Len(s) + 1, Len(s \o t)) = t
    <3>1. CASE Len(t) = 0
      <4>1. t = <<>> /\ Len(s \o t) < Len(s) + 1
        BY <2>0, <3>1, EmptySeq
      <4>2. Len(s) + 1 \in Int /\ Len(s \o t) \in Int
        BY <2>0
      <4>3. SubSeq(s \o t, Len(s) + 1, Len(s \o t)) = <<>>
        BY <4>1, <4>2, SubSeqEmpty
      <4> QED BY <4>1, <4>3
    <3>2. CASE Len(t) # 0
      <4>1. /\ Len(s) + 1 \in Len(s) + 1 .. Len(s) + Len(t)
            /\ Len(s) + Len(t) \in Len(s) + 1 .. Len(s) + Len(t)
        BY <2>0, <3>2
      <4>2. SubSeq(s \o t, Len(s) + 1, Len(s) + Len(t))
              = SubSeq(t, Len(s) + 1 - Len(s), Len(s) + Len(t) - Len(s))
        BY <4>1, SubSeqOfConcat2
      <4>3. Len(s) + 1 - Len(s) = 1 /\ Len(s) + Len(t) - Len(s) = Len(t)
        BY <2>0
      <4> QED BY <2>0, <4>2, <4>3, SubSeqFull
    <3> QED BY <3>1, <3>2
  <2> QED BY <2>1, <2>2
<1>5. /\ SubSeq(b, 1, LastEnd(b)) = c \o completeLines(y)
      /\ SubSeq(b, LastEnd(b) + 1, Len(b)) = unfinished(y)
  <2> DEFINE d == c \o completeLines(y)
             u == unfinished(y)
  <2>1. b = d \o u /\ d \in Seq(Piece) /\ u \in Seq(Piece) /\ Len(d) = LastEnd(b)
    BY <1>2, <1>3
  <2> HIDE DEF b, d, u
  <2>2. SubSeq(d \o u, 1, Len(d)) = d /\ SubSeq(d \o u, Len(d) + 1, Len(d \o u)) = u
    BY <1>4, <2>1
  <2>3. SubSeq(b, 1, LastEnd(b)) = d /\ SubSeq(b, LastEnd(b) + 1, Len(b)) = u
    BY <2>1, <2>2
  <2> QED BY <2>3 DEF d, u
<1> QED BY <1>5 DEF completeLines, unfinished

-----------------------------------------------------------------------------
(* The entries of a run of pieces. *)

LEMMA EntriesArePlaces ==
  ASSUME NEW b \in Seq(Piece)
  PROVE  /\ Len(b) \in Nat /\ Entries(b) \in SUBSET (1..Len(b))
         /\ \A i \in Entries(b) : /\ i \in 2..Len(b) /\ i - 1 \in 1..Len(b)
                                  /\ b[i].end /\ ~b[i - 1].end /\ b[i - 1].id = b[i].id
                                  /\ entryAt(b, i) \in Entry
<1>1. Len(b) \in Nat /\ DOMAIN b = 1..Len(b) /\ \A i \in 1..Len(b) : b[i] \in Piece
  BY LenProperties, ElementOfSeq
<1>2. Entries(b) \in SUBSET (1..Len(b))
  BY <1>1 DEF Entries
<1>3. ASSUME NEW i \in Entries(b)
      PROVE  /\ i \in 2..Len(b) /\ i - 1 \in 1..Len(b)
             /\ b[i].end /\ ~b[i - 1].end /\ b[i - 1].id = b[i].id
             /\ entryAt(b, i) \in Entry
  <2>1. /\ i \in 1..Len(b) /\ i > 1 /\ b[i].kind \in Outcomes
        /\ b[i].end /\ ~b[i - 1].end /\ b[i - 1].id = b[i].id
    BY <1>1 DEF Entries, IsEntry
  <2>2. b[i] \in Piece
    BY <1>1, <2>1
  <2>3. entryAt(b, i) \in Entry
    BY <2>1, <2>2 DEF entryAt, Piece, Entry
  <2> QED BY <1>1, <2>1, <2>3
<1> QED BY <1>1, <1>2, <1>3

\* The list of entries goes through the places where they end, in order.
LEMMA ParsedIs ==
  ASSUME NEW b \in Seq(Piece)
  PROVE  /\ parsed(b) \in Seq(Entry) /\ Len(parsed(b)) = Cardinality(Entries(b))
         /\ Cardinality(Entries(b)) \in Nat
         /\ \A k \in 1..Len(parsed(b)) : /\ nth(Entries(b), k) \in Entries(b)
                                         /\ parsed(b)[k] = entryAt(b, nth(Entries(b), k))
         /\ \A k, l \in 1..Len(parsed(b)) : k < l => nth(Entries(b), k) < nth(Entries(b), l)
<1> DEFINE at == Entries(b)
           N == Cardinality(at)
<1>1. /\ Len(b) \in Nat /\ at \in SUBSET (1..Len(b))
      /\ \A i \in at : entryAt(b, i) \in Entry
  BY EntriesArePlaces
<1> HIDE DEF at
<1>2. /\ N \in Nat
      /\ \A k \in 1..N : nth(at, k) \in at
      /\ \A k, l \in 1..N : k < l => nth(at, k) < nth(at, l)
  BY <1>1, NthInverts
<1>3. parsed(b) = [k \in 1..N |-> entryAt(b, nth(at, k))]
  BY DEF parsed, entriesAt, at
<1> HIDE DEF N
<1>4. \A k \in 1..N : entryAt(b, nth(at, k)) \in Entry
  BY <1>1, <1>2
<1>5. parsed(b) \in [1..N -> Entry] /\ \A k \in 1..N : parsed(b)[k] = entryAt(b, nth(at, k))
  BY <1>3, <1>4
<1>6. parsed(b) \in Seq(Entry) /\ Len(parsed(b)) = N
  <2>1. parsed(b) \in Seq(Entry)
    BY <1>2, <1>5, SeqDef
  <2>2. DOMAIN parsed(b) = 1..N
    BY <1>5
  <2> QED BY <1>2, <2>1, <2>2, LenProperties
<1> QED BY <1>2, <1>5, <1>6 DEF at, N

LEMMA EntriesGoOn ==
  ASSUME NEW c \in Seq(Piece), Complete(c), NEW d \in Seq(Piece)
  PROVE  /\ \A i \in 1..Len(c) : i \in Entries(c \o d) <=> i \in Entries(c)
         /\ \A i \in 1..Len(d) : Len(c) + i \in Entries(c \o d) <=> i \in Entries(d)
         /\ \A i \in 1..Len(c) : i \in Entries(c) => entryAt(c \o d, i) = entryAt(c, i)
         /\ \A i \in 1..Len(d) : i \in Entries(d) => entryAt(c \o d, Len(c) + i) = entryAt(d, i)
<1> DEFINE n == Len(c)
           b == c \o d
<1>1. /\ b \in Seq(Piece) /\ Len(b) = n + Len(d)
      /\ \A i \in 1..n + Len(d) : b[i] = IF i <= n THEN c[i] ELSE d[i - n]
      /\ n \in Nat /\ Len(d) \in Nat
      /\ DOMAIN b = 1..Len(b) /\ DOMAIN c = 1..n /\ DOMAIN d = 1..Len(d)
  BY ConcatProperties, LenProperties
<1>2. n = 0 \/ c[n].end
  BY DEF Complete
<1> HIDE DEF n, b
<1>3. \A i \in 1..n : b[i] = c[i]
  BY <1>1
<1>4. ASSUME NEW i \in 1..Len(d) PROVE b[n + i] = d[i]
  <2>1. n + i \in 1..n + Len(d) /\ ~(n + i <= n) /\ (n + i) - n = i
    BY <1>1
  <2> QED BY <1>1, <2>1
<1>5. ASSUME NEW i \in 1..n PROVE i \in Entries(b) <=> i \in Entries(c)
  <2>1. i \in DOMAIN b /\ i \in DOMAIN c /\ b[i] = c[i]
    BY <1>1, <1>3
  <2>2. i > 1 => b[i - 1] = c[i - 1]
    BY <1>1, <1>3
  <2>3. i > 2 => b[i - 1 - 1] = c[i - 1 - 1]
    BY <1>1, <1>3
  <2>4. i > 1 => i = 2 \/ i > 2
    OBVIOUS
  <2> QED BY <2>1, <2>2, <2>3, <2>4 DEF Entries, IsEntry, StartsLine
<1>6. ASSUME NEW i \in 1..Len(d) PROVE n + i \in Entries(b) <=> i \in Entries(d)
  <2>1. n + i \in DOMAIN b /\ i \in DOMAIN d /\ b[n + i] = d[i]
    BY <1>1, <1>4
  <2>2. CASE i = 1
    <3>1. n # 0 => b[(n + i) - 1].end
      BY <1>1, <1>2, <1>3, <2>2
    <3>2. ~(n + i \in Entries(b))
      BY <1>1, <2>2, <3>1 DEF Entries, IsEntry
    <3>3. ~(i \in Entries(d))
      BY <2>2 DEF Entries, IsEntry
    <3> QED BY <3>2, <3>3
  <2>3. CASE i = 2
    <3>1. (n + i) - 1 = n + 1 /\ b[(n + i) - 1] = d[i - 1] /\ n + i > 1 /\ i > 1
      BY <1>1, <1>4, <2>3
    <3>2. StartsLine(b, (n + i) - 1) /\ StartsLine(d, i - 1)
      <4>1. ((n + i) - 1) - 1 = n
        BY <1>1, <2>3
      <4> QED BY <1>1, <1>2, <1>3, <2>3, <3>1, <4>1 DEF StartsLine
    <3>3. n + i \in DOMAIN b /\ i \in DOMAIN d /\ b[n + i] = d[i] /\ b[(n + i) - 1] = d[i - 1]
      BY <2>1, <3>1
    <3>4. n + i > 1 /\ i > 1
      BY <3>1
    <3>5. IsEntry(b, n + i) <=> IsEntry(d, i)
      BY <1>1, <3>2, <3>3, <3>4 DEF IsEntry
    <3> QED BY <3>3, <3>5 DEF Entries
  <2>4. CASE i > 2
    <3>1. i - 1 \in 1..Len(d) /\ n + (i - 1) = (n + i) - 1
      BY <1>1, <2>4
    <3>2. b[(n + i) - 1] = d[i - 1] /\ n + i > 1 /\ i > 1
      BY <1>1, <1>4, <2>4, <3>1
    <3>3. i - 1 - 1 \in 1..Len(d) /\ n + (i - 1 - 1) = ((n + i) - 1) - 1
      BY <1>1, <2>4
    <3>4. b[((n + i) - 1) - 1] = d[i - 1 - 1]
      BY <1>4, <3>3
    <3>5. (n + i) - 1 # 1 /\ i - 1 # 1
      BY <1>1, <2>4
    <3>6. StartsLine(b, (n + i) - 1) <=> StartsLine(d, i - 1)
      BY <3>4, <3>5 DEF StartsLine
    <3>7. n + i \in DOMAIN b /\ i \in DOMAIN d /\ b[n + i] = d[i] /\ b[(n + i) - 1] = d[i - 1]
      BY <2>1, <3>2
    <3>8. n + i > 1 /\ i > 1
      BY <3>2
    <3>9. IsEntry(b, n + i) <=> IsEntry(d, i)
      BY <3>4, <3>6, <3>7, <3>8 DEF IsEntry
    <3> QED BY <3>7, <3>9 DEF Entries
  <2> QED BY <2>2, <2>3, <2>4
<1>7. \A i \in 1..n : entryAt(b, i) = entryAt(c, i)
  BY <1>3 DEF entryAt
<1>8. \A i \in 1..Len(d) : entryAt(b, n + i) = entryAt(d, i)
  BY <1>4 DEF entryAt
<1> QED BY <1>5, <1>6, <1>7, <1>8 DEF n, b

\* The entries of complete lines and more are theirs, and then the others.
LEMMA ParsedGoesOn ==
  ASSUME NEW c \in Seq(Piece), Complete(c), NEW d \in Seq(Piece)
  PROVE  parsed(c \o d) = parsed(c) \o parsed(d)
<1> DEFINE n == Len(c)
           b == c \o d
           C == Entries(c)
           D == Entries(d)
           B == Entries(b)
           p == Cardinality(C)
           q == Cardinality(D)
           f == [k \in 1..p + q |-> IF k <= p THEN nth(C, k) ELSE n + nth(D, k - p)]
<1>1. /\ b \in Seq(Piece) /\ Len(b) = n + Len(d) /\ n \in Nat /\ Len(d) \in Nat
  BY ConcatProperties, LenProperties
<1>2. /\ \A i \in 1..n : i \in B <=> i \in C
      /\ \A i \in 1..Len(d) : n + i \in B <=> i \in D
      /\ \A i \in 1..n : i \in C => entryAt(b, i) = entryAt(c, i)
      /\ \A i \in 1..Len(d) : i \in D => entryAt(b, n + i) = entryAt(d, i)
  BY EntriesGoOn
<1>3. C \in SUBSET (1..n) /\ D \in SUBSET (1..Len(d)) /\ B \in SUBSET (1..Len(b))
  BY <1>1, EntriesArePlaces
<1>4. /\ parsed(c) \in Seq(Entry) /\ Len(parsed(c)) = p
      /\ \A k \in 1..p : parsed(c)[k] = entryAt(c, nth(C, k))
  BY ParsedIs
<1>5. /\ parsed(d) \in Seq(Entry) /\ Len(parsed(d)) = q
      /\ \A k \in 1..q : parsed(d)[k] = entryAt(d, nth(D, k))
  BY ParsedIs
<1>6. /\ parsed(b) \in Seq(Entry) /\ Len(parsed(b)) = Cardinality(B)
      /\ \A k \in 1..Len(parsed(b)) : parsed(b)[k] = entryAt(b, nth(B, k))
  BY <1>1, ParsedIs
<1> HIDE DEF b, C, D, B
<1>7. /\ p \in Nat
      /\ \A i \in C : \E k \in 1..p : nth(C, k) = i
      /\ \A k \in 1..p : nth(C, k) \in C
      /\ \A k, l \in 1..p : k < l => nth(C, k) < nth(C, l)
  BY <1>1, <1>3, NthInverts
<1>8. /\ q \in Nat
      /\ \A i \in D : \E k \in 1..q : nth(D, k) = i
      /\ \A k \in 1..q : nth(D, k) \in D
      /\ \A k, l \in 1..q : k < l => nth(D, k) < nth(D, l)
  BY <1>1, <1>3, NthInverts
<1> HIDE DEF n, p, q
<1>9. \A k \in 1..p + q : f[k] = IF k <= p THEN nth(C, k) ELSE n + nth(D, k - p)
  OBVIOUS
<1>10. DOMAIN f = 1..p + q /\ f = [k \in 1..p + q |-> f[k]]
  OBVIOUS
<1> HIDE DEF f
<1>11. ASSUME NEW k \in 1..p
       PROVE  k \in 1..p + q /\ f[k] = nth(C, k) /\ f[k] \in 1..n /\ f[k] \in C
  <2>1. k \in 1..p + q /\ k <= p
    BY <1>7, <1>8
  <2>2. f[k] = nth(C, k) /\ nth(C, k) \in C
    BY <1>7, <1>9, <2>1
  <2> QED BY <1>3, <2>1, <2>2
<1>12. ASSUME NEW k \in 1..q
       PROVE  p + k \in 1..p + q /\ f[p + k] = n + nth(D, k) /\ nth(D, k) \in 1..Len(d) /\ nth(D, k) \in D
  <2>1. p + k \in 1..p + q /\ ~(p + k <= p) /\ (p + k) - p = k
    BY <1>7, <1>8
  <2>2. f[p + k] = n + nth(D, (p + k) - p) /\ nth(D, k) \in D
    BY <1>8, <1>9, <2>1
  <2>3. f[p + k] = n + nth(D, k)
    BY <2>1, <2>2
  <2> QED BY <1>3, <2>1, <2>2, <2>3
<1>13. ASSUME NEW k \in 1..p + q PROVE k \in 1..p \/ (k - p \in 1..q /\ p + (k - p) = k)
  BY <1>7, <1>8
<1>14. ASSUME NEW k \in 1..p + q PROVE f[k] \in B
  <2>1. CASE k \in 1..p
    BY <1>2, <1>11, <2>1
  <2>2. CASE k - p \in 1..q /\ p + (k - p) = k
    BY <1>2, <1>12, <2>2
  <2> QED BY <1>13, <2>1, <2>2
<1>15. f \in [1..p + q -> B]
  BY <1>10, <1>14
<1>16. ASSUME NEW k \in 1..p + q, NEW l \in 1..p + q, k < l PROVE f[k] < f[l]
  <2>1. CASE l \in 1..p
    <3>1. k \in 1..p
      BY <1>7, <1>8, <1>16, <2>1
    <3> QED BY <1>7, <1>11, <1>16, <2>1, <3>1
  <2>2. CASE l - p \in 1..q /\ p + (l - p) = l /\ k \in 1..p
    <3>1. f[k] \in 1..n
      BY <1>11, <2>2
    <3>2. f[l] = n + nth(D, l - p) /\ nth(D, l - p) \in 1..Len(d)
      BY <1>12, <2>2
    <3> QED BY <1>1, <3>1, <3>2
  <2>3. CASE l - p \in 1..q /\ p + (l - p) = l /\ k - p \in 1..q /\ p + (k - p) = k
    <3>1. f[l] = n + nth(D, l - p) /\ nth(D, l - p) \in 1..Len(d)
      BY <1>12, <2>3
    <3>2. f[k] = n + nth(D, k - p) /\ nth(D, k - p) \in 1..Len(d)
      BY <1>12, <2>3
    <3>3. k - p < l - p
      BY <1>7, <1>8, <1>16
    <3>4. nth(D, k - p) < nth(D, l - p)
      BY <1>8, <2>3, <3>3
    <3> QED BY <1>1, <3>1, <3>2, <3>4
  <2> QED BY <1>13, <2>1, <2>2, <2>3
<1>17. ASSUME NEW i \in B PROVE \E k \in 1..p + q : f[k] = i
  <2>1. i \in 1..n \/ (i - n \in 1..Len(d) /\ n + (i - n) = i)
    BY <1>1, <1>3
  <2>2. CASE i \in 1..n
    <3>1. PICK k \in 1..p : nth(C, k) = i
      BY <1>2, <1>7, <1>17, <2>2
    <3> QED BY <1>11, <3>1
  <2>3. CASE i - n \in 1..Len(d) /\ n + (i - n) = i
    <3>1. PICK k \in 1..q : nth(D, k) = i - n
      BY <1>2, <1>8, <1>17, <2>3
    <3>2. p + k \in 1..p + q /\ f[p + k] = i
      BY <1>12, <2>3, <3>1
    <3> QED BY <3>2
  <2> QED BY <2>1, <2>2, <2>3
<1>18. Cardinality(B) = p + q /\ \A k \in 1..p + q : nth(B, k) = f[k]
  <2>1. p + q \in Nat /\ Len(b) \in Nat
    BY <1>1, <1>7, <1>8
  <2> QED BY <1>3, <1>15, <1>16, <1>17, <2>1, Enumerates
<1>19. /\ parsed(c) \o parsed(d) \in Seq(Entry) /\ Len(parsed(c) \o parsed(d)) = p + q
       /\ \A k \in 1..p + q : (parsed(c) \o parsed(d))[k]
                                = IF k <= p THEN parsed(c)[k] ELSE parsed(d)[k - p]
  BY <1>4, <1>5, ConcatProperties
<1>20. ASSUME NEW k \in 1..p + q PROVE parsed(b)[k] = (parsed(c) \o parsed(d))[k]
  <2>0. parsed(b)[k] = entryAt(b, f[k])
    BY <1>6, <1>18
  <2>1. CASE k \in 1..p
    <3>1. f[k] \in C /\ f[k] \in 1..n /\ f[k] = nth(C, k) /\ k <= p
      BY <1>7, <1>11, <2>1
    <3>2. parsed(b)[k] = entryAt(c, nth(C, k))
      BY <1>2, <2>0, <3>1
    <3> QED BY <1>4, <1>19, <2>1, <3>1, <3>2
  <2>2. CASE k - p \in 1..q /\ p + (k - p) = k
    <3>1. f[k] = n + nth(D, k - p) /\ nth(D, k - p) \in 1..Len(d) /\ nth(D, k - p) \in D
      BY <1>12, <2>2
    <3>2. parsed(b)[k] = entryAt(d, nth(D, k - p))
      BY <1>2, <2>0, <3>1
    <3>3. ~(k <= p)
      BY <1>7, <1>8, <2>2
    <3> QED BY <1>5, <1>19, <2>2, <3>2, <3>3
  <2> QED BY <1>13, <2>1, <2>2
<1>21. Len(parsed(b)) = p + q
  BY <1>6, <1>18
<1>22. parsed(b) = parsed(c) \o parsed(d)
  BY <1>6, <1>19, <1>20, <1>21, SeqEqual
<1> QED BY <1>22 DEF b

-----------------------------------------------------------------------------
(* Types. *)

Rested == [id : Nat, kind : Kinds, end : {TRUE}]
Phases == {"idle", "stat", "read"}
Consumers == {"unstarted", "parked", "woken", "holding", "done"}

FileTypes ==
  /\ disk \in Seq(Piece) /\ present \in BOOLEAN /\ readable \in BOOLEAN
  /\ writing \in Rested \cup {None}
  /\ lines \in Nat /\ faults \in [removed : Nat, other : Nat]
TailTypes ==
  /\ tracksAbsence \in BOOLEAN /\ phase \in Phases /\ size \in Nat
  /\ offset \in Nat /\ pending \in Seq(Piece)
  /\ everExisted \in BOOLEAN /\ missing \in BOOLEAN /\ failing \in BOOLEAN
  /\ reports \in [missing : Nat, failing : Nat]
QueueTypes ==
  /\ ready \in Seq(Entry) /\ stopped \in BOOLEAN /\ consumer \in Consumers
  /\ shown \in Seq(Entry) /\ badge \in [posture : {"proceed", "deny", None}, proceeds : Nat]
HistoryTypes ==
  /\ base \in Nat /\ taken \in Seq(Entry) /\ stale \in BOOLEAN /\ raced \in BOOLEAN
Types == FileTypes /\ TailTypes /\ QueueTypes /\ HistoryTypes

LEMMA SizeIsNat == ASSUME FileTypes PROVE sizeOf \in Nat
  BY LenProperties DEF FileTypes, sizeOf

LEMMA InitTypes == ASSUME Init PROVE Types
<1>0. <<>> \in Seq(Piece) /\ <<>> \in Seq(Entry)
  BY EmptySeq
<1> USE DEF Init
<1>1. FileTypes
  <2>1. ASSUME NEW k \in FirstKinds
        PROVE <<[id |-> 1, kind |-> k, end |-> FALSE], [id |-> 1, kind |-> k, end |-> TRUE]>> \in Seq(Piece)
    <3>1. k \in Kinds
      BY TailAssumption DEF Kinds
    <3>2. [id |-> 1, kind |-> k, end |-> FALSE] \in Piece /\ [id |-> 1, kind |-> k, end |-> TRUE] \in Piece
      BY <3>1 DEF Piece
    <3> QED BY <3>2
  <2>2. disk \in Seq(Piece)
    <3>1. \/ disk = <<>>
          \/ \E k \in FirstKinds :
               disk = <<[id |-> 1, kind |-> k, end |-> FALSE], [id |-> 1, kind |-> k, end |-> TRUE]>>
      OBVIOUS
    <3> QED BY <1>0, <2>1, <3>1
  <2> QED BY <2>2 DEF FileTypes
<1>2. TailTypes
  <2>1. offset \in Nat
    BY <1>1, SizeIsNat
  <2> QED BY <1>0, <2>1 DEF TailTypes, Phases
<1>3. QueueTypes
  BY <1>0 DEF QueueTypes, Consumers
<1>4. HistoryTypes
  <2>1. offset \in Nat
    BY <1>1, SizeIsNat
  <2> QED BY <1>0, <2>1 DEF HistoryTypes
<1> QED BY <1>1, <1>2, <1>3, <1>4 DEF Types

\* A read takes the pieces up to the size it had, or to the end of the file.
LEMMA ReadIs ==
  ASSUME FileTypes, TailTypes
  PROVE  readRange \in Seq(Piece) /\ pending \o readRange \in Seq(Piece)
<1> DEFINE k == IF size < Len(disk) THEN size ELSE Len(disk)
<1>1. Len(disk) \in Nat /\ \A i \in 1..Len(disk) : disk[i] \in Piece
  BY LenProperties, ElementOfSeq DEF FileTypes
<1>2. k \in Nat /\ k <= Len(disk) /\ offset \in Nat
  BY <1>1 DEF TailTypes
<1>3. readRange = SubSeq(disk, offset + 1, k)
  BY DEF readRange
<1> HIDE DEF k
<1>4. \A i \in (offset + 1)..k : disk[i] \in Piece
  BY <1>1, <1>2
<1>5. readRange \in Seq(Piece)
  BY <1>2, <1>3, <1>4, SubSeqProperties
<1> QED BY <1>5, ConcatProperties DEF TailTypes

\* A restart of the tail forgets everything it had; otherwise it keeps all of it.
LEMMA ResetOrKeepTypes ==
  ASSUME Types, reset \/ keep
  PROVE  /\ offset' \in Nat /\ pending' \in Seq(Piece)
         /\ base' \in Nat /\ taken' \in Seq(Entry) /\ stale' \in BOOLEAN
<1>0. <<>> \in Seq(Piece) /\ <<>> \in Seq(Entry)
  BY EmptySeq
<1>1. CASE reset
  BY <1>0, <1>1 DEF reset
<1>2. CASE keep
  BY <1>2 DEF keep, Types, TailTypes, HistoryTypes
<1> QED BY <1>1, <1>2

LEMMA EnvironmentTypes == ASSUME Types, Environment PROVE Types'
<1>1. TailTypes' /\ QueueTypes' /\ HistoryTypes'
  <2>1. stale' \in BOOLEAN /\ raced' \in BOOLEAN
    BY DEF Environment, Writer, Replaced, Types, HistoryTypes
  <2> QED BY <2>1 DEF Environment, Types, TailTypes, QueueTypes, HistoryTypes, reader, queue
<1>2. FileTypes'
  <2>0. <<>> \in Seq(Piece) /\ \A x \in Piece : Append(disk, x) \in Seq(Piece)
    BY EmptySeq, AppendProperties DEF Types, FileTypes
  <2> USE DEF Types, FileTypes
  <2>1. CASE WriteHead
    <3>1. PICK kind \in LineKinds \ {"blank"} :
            /\ lines' = lines + 1
            /\ disk' = Append(disk, piece(lines + 1, kind, FALSE))
            /\ present' = TRUE /\ readable' = (readable \/ ~present)
            /\ writing' = piece(lines + 1, kind, TRUE)
            /\ UNCHANGED faults
      BY <2>1 DEF WriteHead
    <3>2. kind \in Kinds
      BY TailAssumption
    <3>3. piece(lines + 1, kind, FALSE) \in Piece /\ piece(lines + 1, kind, TRUE) \in Rested
      BY <3>2 DEF piece, Piece, Rested
    <3>4. disk' \in Seq(Piece)
      BY <2>0, <3>1, <3>3
    <3>5. readable' \in BOOLEAN /\ lines' \in Nat
      BY <3>1
    <3> QED BY <3>1, <3>3, <3>4, <3>5
  <2>2. CASE WriteRest
    <3>1. writing \in Rested
      BY <2>2 DEF WriteRest
    <3>2. writing \in Piece
      BY <3>1 DEF Piece, Rested
    <3>3. disk' \in Seq(Piece)
      BY <2>0, <2>2, <3>2 DEF WriteRest
    <3>4. writing' \in Rested \cup {None} /\ UNCHANGED <<present, readable, faults, lines>>
      BY <2>2 DEF WriteRest
    <3> QED BY <3>3, <3>4
  <2>3. CASE WriteBlank
    <3>1. piece(lines + 1, "blank", TRUE) \in Piece
      BY DEF piece, Piece, Kinds
    <3>2. disk' \in Seq(Piece)
      BY <2>0, <2>3, <3>1 DEF WriteBlank
    <3>3. lines' = lines + 1 /\ UNCHANGED <<present, readable, writing, faults>>
      BY <2>3 DEF WriteBlank
    <3> QED BY <3>2, <3>3
  <2>4. CASE Truncate
    <3>1. disk' \in Seq(Piece)
      BY <2>0, <2>4 DEF Truncate
    <3>2. faults' = [faults EXCEPT !.other = @ + 1] /\ UNCHANGED <<present, readable, writing, lines>>
      BY <2>4 DEF Truncate
    <3> QED BY <3>1, <3>2
  <2>5. CASE Unlink
    <3>1. disk' \in Seq(Piece)
      BY <2>0, <2>5 DEF Unlink
    <3>2. /\ present' = FALSE /\ readable' = TRUE /\ writing' = None
          /\ faults' = [faults EXCEPT !.removed = @ + 1] /\ UNCHANGED lines
      BY <2>5 DEF Unlink
    <3>3. faults' \in [removed : Nat, other : Nat]
      BY <3>2
    <3> QED BY <3>1, <3>2, <3>3
  <2>6. CASE Deny
    <3>1. /\ readable' = FALSE /\ faults' = [faults EXCEPT !.other = @ + 1]
          /\ UNCHANGED <<disk, present, writing, lines>>
      BY <2>6 DEF Deny
    <3>2. faults' \in [removed : Nat, other : Nat]
      BY <3>1
    <3> QED BY <3>1, <3>2
  <2>7. CASE Allow
    BY <2>7 DEF Allow
  <2> QED BY <2>1, <2>2, <2>3, <2>4, <2>5, <2>6, <2>7 DEF Environment, Writer
<1> QED BY <1>1, <1>2 DEF Types

LEMMA PollTypes == ASSUME Types, Poll PROVE Types'
<1>0. <<>> \in Seq(Piece) /\ <<>> \in Seq(Entry)
  BY EmptySeq
<1>1. FileTypes'
  BY DEF Types, Poll, file, FileTypes
<1>2. CASE PollLook
  <2>1. QueueTypes'
    BY <1>2 DEF Types, Poll, PollLook, QueueTypes
  <2>2. CASE Absent
    <3>1. /\ phase' = "idle" /\ missing' \in {TRUE, missing}
          /\ \/ reports' = reports
             \/ reports' = [reports EXCEPT !.missing = @ + 1]
          /\ UNCHANGED <<tracksAbsence, size, offset, pending, everExisted, failing, base, taken, stale, raced>>
      BY <1>2, <2>2 DEF Poll, PollLook, Absent, keep
    <3>2. TailTypes'
      <4>1. reports' \in [missing : Nat, failing : Nat]
        BY <3>1 DEF Types, TailTypes
      <4>2. missing' \in BOOLEAN
        BY <3>1 DEF Types, TailTypes
      <4> QED BY <3>1, <4>1, <4>2 DEF Types, TailTypes, Phases
    <3>3. HistoryTypes'
      BY <3>1 DEF Types, HistoryTypes
    <3> QED BY <1>1, <2>1, <3>2, <3>3 DEF Types
  <2>3. CASE Seen
    <3>1. /\ phase' = "stat" /\ missing' = FALSE /\ everExisted' \in BOOLEAN
          /\ (reset \/ keep)
          /\ UNCHANGED <<tracksAbsence, size, failing, reports, raced>>
      BY <1>2, <2>3 DEF Poll, PollLook, Seen, SeenLeaving, Types, TailTypes
    <3>a. /\ offset' \in Nat /\ pending' \in Seq(Piece)
          /\ base' \in Nat /\ taken' \in Seq(Entry) /\ stale' \in BOOLEAN
      BY <3>1, ResetOrKeepTypes
    <3>2. TailTypes'
      BY <3>1, <3>a DEF Types, TailTypes, Phases
    <3>3. HistoryTypes'
      BY <3>1, <3>a DEF Types, HistoryTypes
    <3> QED BY <1>1, <2>1, <3>2, <3>3 DEF Types
  <2> QED BY <1>2, <2>2, <2>3 DEF PollLook
<1>3. CASE PollStat
  <2>1. sizeOf \in Nat
    BY SizeIsNat DEF Types
  <2>2. QueueTypes'
    BY <1>3 DEF Types, Poll, PollStat, QueueTypes
  <2>3. /\ phase' \in Phases /\ size' \in {size, sizeOf} /\ failing' \in {failing, TRUE, FALSE}
        /\ \/ reports' = reports
           \/ reports' = [reports EXCEPT !.failing = @ + 1]
        /\ (reset \/ keep)
        /\ UNCHANGED <<tracksAbsence, everExisted, missing, raced>>
    BY <1>3 DEF Poll, PollStat, Throws, Phases
  <2>a. /\ offset' \in Nat /\ pending' \in Seq(Piece)
        /\ base' \in Nat /\ taken' \in Seq(Entry) /\ stale' \in BOOLEAN
    BY <2>3, ResetOrKeepTypes
  <2>b. reports' \in [missing : Nat, failing : Nat]
    BY <2>3 DEF Types, TailTypes
  <2>c. size' \in Nat /\ failing' \in BOOLEAN
    BY <2>1, <2>3 DEF Types, TailTypes
  <2>4. TailTypes'
    BY <2>3, <2>a, <2>b, <2>c DEF Types, TailTypes
  <2>5. HistoryTypes'
    BY <2>3, <2>a DEF Types, HistoryTypes
  <2> QED BY <1>1, <2>2, <2>4, <2>5 DEF Types
<1>4. CASE PollRead
  <2>1. CASE Take
    <3> DEFINE run == pending \o readRange
               entries == parsed(completeLines(run))
    <3>1. run \in Seq(Piece)
      BY ReadIs DEF Types
    <3> HIDE DEF run
    <3>2. unfinished(run) \in Seq(Piece) /\ completeLines(run) \in Seq(Piece)
      BY <3>1, LinesAndRest
    <3>3. entries \in Seq(Entry)
      BY <3>2, ParsedIs
    <3>4. /\ pending' = unfinished(run) /\ offset' = size
          /\ ready' = ready \o entries /\ taken' = taken \o entries
          /\ consumer' = IF TRUE /\ entries # <<>> /\ consumer = "parked" THEN "woken" ELSE consumer
          /\ failing' = FALSE /\ phase' = "idle" /\ UNCHANGED <<base, stale, reports>>
      BY <2>1 DEF Take, TakeBytes, run
    <3> HIDE DEF entries
    <3>5. ready' \in Seq(Entry) /\ taken' \in Seq(Entry)
      BY <3>3, <3>4, ConcatProperties DEF Types, QueueTypes, HistoryTypes
    <3>6. QueueTypes'
      BY <1>4, <3>4, <3>5 DEF Types, Poll, PollRead, QueueTypes, Consumers
    <3> QED BY <1>1, <1>4, <3>2, <3>4, <3>5, <3>6
            DEF Types, Poll, PollRead, TailTypes, HistoryTypes, Phases
  <2>2. CASE Throws /\ keep /\ UNCHANGED <<ready, consumer>>
    BY <1>1, <1>4, <2>2
       DEF Types, Poll, PollRead, Throws, keep, TailTypes, HistoryTypes, QueueTypes, Phases
  <2> QED BY <1>4, <2>1, <2>2 DEF PollRead
<1> QED BY <1>2, <1>3, <1>4 DEF Poll

LEMMA DrainTypes == ASSUME Types, Drain PROVE Types'
<1>1. FileTypes' /\ TailTypes' /\ HistoryTypes'
  BY DEF Types, Drain, file, reader, FileTypes, TailTypes, HistoryTypes
<1>2. CASE ready # <<>>
  <2>1. Head(ready) \in Entry /\ Tail(ready) \in Seq(Entry)
    BY <1>2, HeadTailProperties DEF Types, QueueTypes
  <2>2. /\ consumer' = "holding" /\ ready' = Tail(ready)
        /\ shown' = Append(shown, Head(ready)) /\ badge' = noteAuditEntry(Head(ready))
        /\ stopped' = stopped
    BY <1>2 DEF Drain
  <2>3. badge' \in [posture : {"proceed", "deny", None}, proceeds : Nat]
    BY <2>1, <2>2 DEF Types, QueueTypes, noteAuditEntry, posture, Entry
  <2> QED BY <1>1, <2>1, <2>2, <2>3 DEF Types, QueueTypes, Consumers
<1>3. CASE ready = <<>>
  BY <1>1, <1>3 DEF Types, Drain, QueueTypes, Consumers
<1> QED BY <1>2, <1>3

LEMMA TypesKept == ASSUME Types, [Next]_vars PROVE Types'
<1>1. CASE Environment
  BY <1>1, EnvironmentTypes
<1>2. CASE Poll
  BY <1>2, PollTypes
<1>3. CASE Drain
  BY <1>3, DrainTypes
<1>4. CASE Abort
  BY <1>4 DEF Types, Abort, file, reader, FileTypes, TailTypes, QueueTypes, HistoryTypes, Consumers
<1>5. CASE UNCHANGED vars
  BY <1>5 DEF vars, file, reader, queue, Types, FileTypes, TailTypes, QueueTypes, HistoryTypes
<1> QED BY <1>1, <1>2, <1>3, <1>4, <1>5 DEF Next

LEMMA TypesHold == Spec => []Types
<1>1. Types /\ [Next]_vars => Types'
  BY TypesKept
<1> QED BY <1>1, InitTypes, PTL DEF Spec

-----------------------------------------------------------------------------
(* The badge. *)

LEMMA ShowingMovesTheBadge ==
  ASSUME Types, BadgeIsWhatWasShown, NEW e \in Entry,
         shown' = Append(shown, e), badge' = noteAuditEntry(e)
  PROVE  BadgeIsWhatWasShown'
<1> DEFINE n == Len(shown)
           P == {i \in DOMAIN shown : shown[i].outcome = "proceeded"}
           R == {i \in DOMAIN shown : shown[i].outcome # "ungoverned"}
           nP == {i \in DOMAIN shown' : shown'[i].outcome = "proceeded"}
           nR == {i \in DOMAIN shown' : shown'[i].outcome # "ungoverned"}
<1>1. /\ n \in Nat /\ DOMAIN shown = 1..n /\ DOMAIN shown' = 1..n + 1
      /\ \A i \in 1..n : shown'[i] = shown[i]
      /\ shown'[n + 1] = e
  BY AppendProperties, LenProperties DEF Types, QueueTypes
<1>2. nP = IF e.outcome = "proceeded" THEN P \cup {n + 1} ELSE P
  <2>1. \A i \in 1..n + 1 : i \in 1..n \/ i = n + 1
    BY <1>1
  <2> QED BY <1>1, <2>1
<1>3. nR = IF e.outcome # "ungoverned" THEN R \cup {n + 1} ELSE R
  <2>1. \A i \in 1..n + 1 : i \in 1..n \/ i = n + 1
    BY <1>1
  <2> QED BY <1>1, <2>1
<1>4. P \in SUBSET (1..n) /\ R \in SUBSET (1..n) /\ n + 1 \notin P
  BY <1>1
<1>5. /\ badge.proceeds = Cardinality(P)
      /\ IF R = {} THEN badge.posture = None
         ELSE \E last \in R : /\ \A i \in R : i <= last
                              /\ badge.posture = posture(shown[last].outcome)
  BY DEF BadgeIsWhatWasShown
<1> SUFFICES /\ badge'.proceeds = Cardinality(nP)
             /\ IF nR = {} THEN badge'.posture = None
                ELSE \E last \in nR : /\ \A i \in nR : i <= last
                                      /\ badge'.posture = posture(shown'[last].outcome)
  BY DEF BadgeIsWhatWasShown, posture
<1> HIDE DEF n, P, R, nP, nR
<1>6. IsFiniteSet(P) /\ Cardinality(P) \in Nat /\ Cardinality(P \cup {n + 1}) = Cardinality(P) + 1
  <2>1. IsFiniteSet(1..n)
    BY <1>1, FS_Interval
  <2>2. IsFiniteSet(P) /\ Cardinality(P) \in Nat
    BY <1>4, <2>1, FS_Subset, FS_CardinalityType
  <2> QED BY <1>4, <2>2, FS_AddElement
<1>7. badge'.proceeds = Cardinality(nP)
  <2>1. CASE e.outcome = "proceeded"
    BY <1>2, <1>5, <1>6, <2>1 DEF noteAuditEntry
  <2>2. CASE e.outcome = "ungoverned"
    BY <1>2, <1>5, <2>2 DEF noteAuditEntry
  <2>3. CASE e.outcome = "blocked"
    BY <1>2, <1>5, <1>6, <2>3 DEF noteAuditEntry
  <2> QED BY <2>1, <2>2, <2>3 DEF Entry, Outcomes
<1>8. CASE e.outcome = "ungoverned"
  <2>1. nR = R /\ badge' = badge
    BY <1>3, <1>8 DEF noteAuditEntry
  <2>2. \A i \in R : shown'[i] = shown[i]
    BY <1>1, <1>4
  <2> QED BY <1>5, <1>7, <2>1, <2>2
<1>9. CASE e.outcome # "ungoverned"
  <2>1. nR = R \cup {n + 1} /\ badge'.posture = posture(e.outcome)
    BY <1>3, <1>9 DEF noteAuditEntry
  <2>2. \A i \in nR : i <= n + 1
    BY <1>1, <1>4, <2>1
  <2>3. n + 1 \in nR /\ nR # {} /\ badge'.posture = posture(shown'[n + 1].outcome)
    BY <1>1, <2>1
  <2> QED BY <1>7, <2>2, <2>3
<1> QED BY <1>8, <1>9

(* What the operator's badge says is the posture of the last posture-       *)
(* resolved entry printed and the number of proceeds printed, whatever was  *)
(* truncated, removed or unreadable meanwhile (main.ts:94-113).             *)
THEOREM BadgeHolds == Spec => []BadgeIsWhatWasShown
<1>1. ASSUME Init PROVE BadgeIsWhatWasShown
  <2>1. shown = <<>> /\ badge = [posture |-> None, proceeds |-> 0] /\ DOMAIN shown = {}
    BY <1>1 DEF Init
  <2>2. /\ {i \in DOMAIN shown : shown[i].outcome = "proceeded"} = {}
        /\ {i \in DOMAIN shown : shown[i].outcome # "ungoverned"} = {}
    BY <2>1
  <2> QED BY <2>1, <2>2, FS_EmptySet DEF BadgeIsWhatWasShown
<1>2. ASSUME Types, BadgeIsWhatWasShown, [Next]_vars PROVE BadgeIsWhatWasShown'
  <2>1. CASE Drain /\ ready # <<>>
    <3>1. Head(ready) \in Entry
      BY <1>2, <2>1, HeadTailProperties DEF Types, QueueTypes
    <3>2. shown' = Append(shown, Head(ready)) /\ badge' = noteAuditEntry(Head(ready))
      BY <2>1 DEF Drain
    <3> QED BY <1>2, <3>1, <3>2, ShowingMovesTheBadge
  <2>2. CASE ~(Drain /\ ready # <<>>)
    <3>1. UNCHANGED <<shown, badge>>
      <4>1. CASE Environment
        BY <4>1 DEF Environment, queue
      <4>2. CASE Poll
        BY <4>2 DEF Poll
      <4>3. CASE Drain
        BY <2>2, <4>3 DEF Drain
      <4>4. CASE Abort
        BY <4>4 DEF Abort
      <4>5. CASE UNCHANGED vars
        BY <4>5 DEF vars, queue
      <4> QED BY <1>2, <4>1, <4>2, <4>3, <4>4, <4>5 DEF Next
    <3> QED BY <1>2, <3>1 DEF BadgeIsWhatWasShown
  <2> QED BY <2>1, <2>2
<1>3. Types /\ BadgeIsWhatWasShown /\ [Next]_vars => BadgeIsWhatWasShown'
  BY <1>2
<1>4. Init => BadgeIsWhatWasShown
  BY <1>1
<1> QED BY <1>3, <1>4, TypesHold, PTL DEF Spec

-----------------------------------------------------------------------------
(* What is reported. *)

\* 1 for what is so and 0 for what is not.
One(P) == IF P THEN 1 ELSE 0

\* A file that is not there is empty, denied to nobody and held by no writer; only a tail that has
\* seen its file can miss it, and a poll past its first look does not.
FileOK ==
  /\ ~readable => present
  /\ ~present => disk = <<>> /\ writing = None
  /\ everExisted => tracksAbsence
  /\ missing => everExisted
  /\ phase # "idle" => ~missing

\* A report that the log is gone, or one that the next look will make, has a
\* removal of its own.
Missed == reports.missing + One(everExisted /\ ~missing /\ ~present) <= faults.removed

\* So has every failed read reported an incident, and one that the poll under way
\* would report; and what keeps a tail failing keeps an incident for the next one.
Failing ==
  ~failing /\ (\/ ~readable \/ (phase = "read" /\ ~present)
               \/ (phase = "stat" /\ tracksAbsence /\ ~present))
Owed ==
  present /\ Len(disk) <= offset /\ ((phase = "read" /\ ~failing) \/ (failing /\ ~readable))
Failed == reports.failing + One(Failing) + One(Owed) <= faults.removed + faults.other

ReportsInv == FileOK /\ Missed /\ Failed

\* Every write puts one piece behind what the file holds; it makes a file that
\* was not there, readable, and changes nothing else of what is reported on.
Wrote(x) ==
  /\ disk' = Append(disk, x) /\ present' = TRUE /\ readable' = (readable \/ ~present)
  /\ UNCHANGED faults

LEMMA WritesAppend ==
  ASSUME Types, FileOK, WriteHead \/ WriteRest \/ WriteBlank
  PROVE  \E x \in Piece : Wrote(x) /\ writing' \in Rested \cup {None}
<1> USE DEF Types, FileTypes
<1>1. CASE WriteHead
  <2>1. PICK kind \in LineKinds \ {"blank"} :
          /\ disk' = Append(disk, piece(lines + 1, kind, FALSE))
          /\ present' = TRUE /\ readable' = (readable \/ ~present)
          /\ writing' = piece(lines + 1, kind, TRUE) /\ UNCHANGED faults
    BY <1>1 DEF WriteHead
  <2>2. kind \in Kinds
    BY TailAssumption
  <2>3. piece(lines + 1, kind, FALSE) \in Piece /\ piece(lines + 1, kind, TRUE) \in Rested
    BY <2>2 DEF piece, Piece, Rested
  <2> QED BY <2>1, <2>3 DEF Wrote
<1>2. CASE WriteRest
  <2>1. writing \in Piece /\ present
    BY <1>2 DEF WriteRest, Rested, Piece, FileOK
  <2>2. disk' = Append(disk, writing) /\ writing' = None /\ UNCHANGED <<present, readable, faults>>
    BY <1>2 DEF WriteRest
  <2>3. Wrote(writing)
    BY <2>1, <2>2 DEF Wrote
  <2> QED BY <2>1, <2>2, <2>3
<1>3. CASE WriteBlank
  <2>1. piece(lines + 1, "blank", TRUE) \in Piece
    BY DEF piece, Piece, Kinds
  <2>2. Wrote(piece(lines + 1, "blank", TRUE)) /\ writing' = writing
    BY <1>3 DEF WriteBlank, Wrote
  <2> QED BY <2>1, <2>2
<1> QED BY <1>1, <1>2, <1>3

LEMMA EnvironmentReports == ASSUME Types, ReportsInv, Environment PROVE ReportsInv'
<1> USE DEF ReportsInv
<1>1. UNCHANGED <<tracksAbsence, phase, size, offset, everExisted, missing, failing, reports>>
  BY DEF Environment, reader
<1>2. /\ Len(disk) \in Nat /\ offset \in Nat
      /\ present \in BOOLEAN /\ readable \in BOOLEAN
      /\ everExisted \in BOOLEAN /\ missing \in BOOLEAN /\ failing \in BOOLEAN /\ tracksAbsence \in BOOLEAN
  BY LenProperties DEF Types, FileTypes, TailTypes
<1>3. /\ faults \in [removed : Nat, other : Nat] /\ reports \in [missing : Nat, failing : Nat]
      /\ faults.removed \in Nat /\ faults.other \in Nat /\ reports.missing \in Nat /\ reports.failing \in Nat
  BY DEF Types, FileTypes, TailTypes
<1>4. CASE WriteHead \/ WriteRest \/ WriteBlank
  <2>1. PICK x \in Piece : Wrote(x)
    BY <1>4, WritesAppend
  <2>2. Len(disk') = Len(disk) + 1
    BY <2>1, AppendProperties DEF Types, FileTypes, Wrote
  <2>3. present' = TRUE /\ readable' = (readable \/ ~present) /\ UNCHANGED faults
    BY <2>1 DEF Wrote
  <2>4. FileOK'
    BY <1>1, <2>3 DEF FileOK
  <2>5. Missed'
    BY <1>1, <1>2, <1>3, <2>3 DEF Missed, One
  <2>6. Failing' => Failing
    BY <1>1, <1>2, <2>3 DEF Failing
  <2>7. Owed' => Owed \/ (Failing /\ ~Failing')
    BY <1>1, <1>2, <2>2, <2>3 DEF Failing, Owed, FileOK
  <2>8. Failed'
    BY <1>1, <1>3, <2>3, <2>6, <2>7 DEF Failed, One
  <2> QED BY <2>4, <2>5, <2>8
<1>5. CASE Truncate
  <2>1. /\ disk' = <<>> /\ present /\ UNCHANGED <<present, readable, writing>>
        /\ faults'.removed = faults.removed /\ faults'.other = faults.other + 1
    BY <1>3, <1>5 DEF Truncate, Faulty
  <2>2. FileOK'
    BY <1>1, <2>1 DEF FileOK
  <2>3. Missed'
    BY <1>1, <2>1 DEF Missed
  <2>4. Failing' <=> Failing
    BY <1>1, <2>1 DEF Failing
  <2>5. Failed'
    BY <1>1, <1>3, <2>1, <2>4 DEF Failed, One
  <2> QED BY <2>2, <2>3, <2>5
<1>6. CASE Unlink
  <2>1. /\ disk' = <<>> /\ present' = FALSE /\ readable' = TRUE /\ writing' = None /\ present
        /\ faults'.removed = faults.removed + 1 /\ faults'.other = faults.other
    BY <1>3, <1>6 DEF Unlink, Faulty
  <2>2. FileOK'
    BY <1>1, <2>1 DEF FileOK
  <2>3. Missed'
    BY <1>1, <1>3, <2>1 DEF Missed, One
  <2>4. ~Owed'
    BY <2>1 DEF Owed
  <2>5. Failed'
    BY <1>1, <1>3, <2>1, <2>4 DEF Failed, One
  <2> QED BY <2>2, <2>3, <2>5
<1>7. CASE Deny
  <2>1. /\ present /\ readable /\ readable' = FALSE /\ UNCHANGED <<disk, present, writing>>
        /\ faults'.removed = faults.removed /\ faults'.other = faults.other + 1
    BY <1>3, <1>7 DEF Deny, Faulty
  <2>2. FileOK'
    BY <1>1, <2>1 DEF FileOK
  <2>3. Missed'
    BY <1>1, <2>1 DEF Missed
  <2>4. ~failing => (Owed' => Owed)
    BY <1>1, <2>1 DEF Owed
  <2>5. failing => ~Failing'
    BY <1>1 DEF Failing
  <2>6. Failed'
    BY <1>1, <1>2, <1>3, <2>1, <2>4, <2>5 DEF Failed, One
  <2> QED BY <2>2, <2>3, <2>6
<1>8. CASE Allow
  <2>1. ~readable /\ readable' = TRUE /\ UNCHANGED <<disk, present, writing, faults>>
    BY <1>8 DEF Allow
  <2>2. FileOK'
    BY <1>1, <2>1 DEF FileOK
  <2>3. Missed'
    BY <1>1, <2>1 DEF Missed
  <2>4. (Failing' => Failing) /\ (Owed' => Owed)
    BY <1>1, <2>1 DEF Failing, Owed
  <2>5. Failed'
    BY <1>1, <1>3, <2>1, <2>4 DEF Failed, One
  <2> QED BY <2>2, <2>3, <2>5
<1> QED BY <1>4, <1>5, <1>6, <1>7, <1>8 DEF Environment, Writer

LEMMA PollReports == ASSUME Types, ReportsInv, Poll PROVE ReportsInv'
<1> USE DEF ReportsInv
<1>1. UNCHANGED <<tracksAbsence, disk, present, readable, writing, faults>>
  BY DEF Poll, file
<1>2. /\ Len(disk) \in Nat /\ offset \in Nat /\ sizeOf \in Nat
      /\ present \in BOOLEAN /\ readable \in BOOLEAN
      /\ everExisted \in BOOLEAN /\ missing \in BOOLEAN /\ failing \in BOOLEAN /\ tracksAbsence \in BOOLEAN
  BY LenProperties, SizeIsNat DEF Types, FileTypes, TailTypes
<1>3. /\ faults \in [removed : Nat, other : Nat] /\ reports \in [missing : Nat, failing : Nat]
      /\ faults.removed \in Nat /\ faults.other \in Nat /\ reports.missing \in Nat /\ reports.failing \in Nat
  BY DEF Types, FileTypes, TailTypes
<1>4. CASE PollLook /\ Absent
  <2>1. ~present /\ tracksAbsence /\ phase' = "idle" /\ UNCHANGED <<offset, everExisted, failing>>
    BY <1>4 DEF Absent, keep
  <2>2. \/ /\ everExisted /\ ~missing /\ missing' = TRUE
           /\ reports'.missing = reports.missing + 1 /\ reports'.failing = reports.failing
        \/ ~(everExisted /\ ~missing) /\ missing' = missing /\ reports' = reports
    BY <1>3, <1>4 DEF Absent
  <2>3. FileOK'
    BY <1>1, <2>1, <2>2 DEF FileOK
  <2>4. Missed'
    BY <1>1, <1>2, <1>3, <2>1, <2>2 DEF Missed, One
  <2>5. ~Failing' /\ ~Owed'
    BY <1>1, <2>1 DEF Failing, Owed, FileOK
  <2>6. reports'.failing = reports.failing
    BY <2>2
  <2>7. Failed'
    BY <1>1, <1>3, <2>5, <2>6 DEF Failed, One
  <2> QED BY <2>3, <2>4, <2>7
<1>5. CASE PollLook /\ Seen
  <2>1. /\ tracksAbsence => present
        /\ everExisted' = (everExisted \/ tracksAbsence) /\ missing' = FALSE
        /\ phase = "idle" /\ phase' = "stat" /\ UNCHANGED <<failing, reports>>
    BY <1>5 DEF PollLook, Seen, SeenLeaving
  <2>2. offset' = 0 \/ offset' = offset
    BY <1>5 DEF Seen, SeenLeaving, reset, keep
  <2>3. FileOK'
    BY <1>1, <1>2, <2>1 DEF FileOK
  <2>4. Missed'
    BY <1>1, <1>2, <1>3, <2>1 DEF Missed, One, FileOK
  <2>5. (Failing' => Failing) /\ (Owed' => Owed)
    BY <1>1, <1>2, <2>1, <2>2 DEF Failing, Owed
  <2>6. Failed'
    BY <1>1, <1>3, <2>1, <2>5 DEF Failed, One
  <2> QED BY <2>3, <2>4, <2>6
<1>6. CASE PollStat /\ tracksAbsence /\ ~present
  <2>1. /\ phase = "stat" /\ failing' = TRUE /\ phase' = "idle"
        /\ UNCHANGED <<offset, everExisted, missing>>
        /\ \/ failing /\ reports' = reports
           \/ /\ ~failing
              /\ reports'.missing = reports.missing /\ reports'.failing = reports.failing + 1
    BY <1>3, <1>6 DEF PollStat, Throws, keep
  <2>2. FileOK'
    BY <1>1, <2>1 DEF FileOK
  <2>3. reports'.missing = reports.missing
    BY <2>1
  <2>4. Missed'
    BY <1>1, <2>1, <2>3 DEF Missed
  <2>5. ~Failing' /\ ~Owed' /\ (~failing => Failing)
    BY <1>1, <1>6, <2>1 DEF Failing, Owed
  <2>6. Failed'
    BY <1>1, <1>2, <1>3, <2>1, <2>5 DEF Failed, One
  <2> QED BY <2>2, <2>4, <2>6
<1>7. CASE PollStat /\ ~(tracksAbsence /\ ~present)
  <2>1. /\ phase = "stat" /\ size' = sizeOf /\ UNCHANGED <<everExisted, missing, reports>>
        /\ IF sizeOf < offset THEN offset' = 0 ELSE offset' = offset
        /\ IF size' > offset' THEN phase' = "read" /\ failing' = failing
                              ELSE phase' = "idle" /\ failing' = FALSE
    BY <1>7 DEF PollStat, reset, keep
  <2>2. FileOK'
    BY <1>1, <2>1 DEF FileOK
  <2>3. Missed'
    BY <1>1, <2>1 DEF Missed
  <2>4. CASE size' > offset'
    <3>1. present /\ size' = Len(disk)
      BY <1>2, <2>1, <2>4 DEF sizeOf
    <3>2. ~Owed' /\ (Failing' => Failing)
      BY <1>1, <1>2, <2>1, <2>4, <3>1 DEF Owed, Failing
    <3>3. Failed'
      BY <1>1, <1>3, <2>1, <3>2 DEF Failed, One
    <3> QED BY <2>2, <2>3, <3>3
  <2>5. CASE ~(size' > offset')
    <3>1. phase' = "idle" /\ failing' = FALSE /\ (present => Len(disk) <= offset)
      BY <1>2, <2>1, <2>5 DEF sizeOf
    <3>2. ~Owed' /\ (Failing' => Failing \/ Owed)
      BY <1>1, <1>2, <3>1 DEF Owed, Failing, FileOK
    <3>3. Failed'
      BY <1>1, <1>3, <2>1, <3>2 DEF Failed, One
    <3> QED BY <2>2, <2>3, <3>3
  <2> QED BY <2>4, <2>5
<1>8. CASE PollRead /\ present /\ readable
  <2>1. /\ phase = "read" /\ phase' = "idle" /\ failing' = FALSE
        /\ UNCHANGED <<everExisted, missing, reports>>
    BY <1>8 DEF PollRead, Take, TakeBytes
  <2>2. FileOK'
    BY <1>1, <2>1 DEF FileOK
  <2>3. Missed'
    BY <1>1, <2>1 DEF Missed
  <2>4. ~Failing' /\ ~Owed'
    BY <1>1, <1>8, <2>1 DEF Failing, Owed
  <2>5. Failed'
    BY <1>1, <1>3, <2>1, <2>4 DEF Failed, One
  <2> QED BY <2>2, <2>3, <2>5
<1>9. CASE PollRead /\ ~(present /\ readable)
  <2>1. /\ phase = "read" /\ failing' = TRUE /\ phase' = "idle"
        /\ UNCHANGED <<offset, everExisted, missing>>
        /\ \/ failing /\ reports' = reports
           \/ /\ ~failing
              /\ reports'.missing = reports.missing /\ reports'.failing = reports.failing + 1
    BY <1>3, <1>9 DEF PollRead, Throws, keep
  <2>2. FileOK'
    BY <1>1, <2>1 DEF FileOK
  <2>3. reports'.missing = reports.missing
    BY <2>1
  <2>4. Missed'
    BY <1>1, <2>1, <2>3 DEF Missed
  <2>5. ~Failing' /\ (~failing => Failing) /\ (Owed' => Owed)
    BY <1>1, <1>2, <1>9, <2>1 DEF Failing, Owed
  <2>6. Failed'
    BY <1>1, <1>2, <1>3, <2>1, <2>5 DEF Failed, One
  <2> QED BY <2>2, <2>4, <2>6
<1> QED BY <1>4, <1>5, <1>6, <1>7, <1>8, <1>9 DEF Poll, PollLook

LEMMA ReportsInvKept == ASSUME Types, ReportsInv, [Next]_vars PROVE ReportsInv'
<1>1. CASE Environment
  BY <1>1, EnvironmentReports
<1>2. CASE Poll
  BY <1>2, PollReports
<1>3. CASE Drain \/ Abort \/ UNCHANGED vars
  <2>1. UNCHANGED <<tracksAbsence, disk, present, readable, writing, faults, phase, size, offset,
                    everExisted, missing, failing, reports>>
    BY <1>3 DEF Drain, Abort, vars, file, reader
  <2> QED BY <2>1 DEF ReportsInv, FileOK, Missed, Failed, Failing, Owed
<1> QED BY <1>1, <1>2, <1>3 DEF Next

LEMMA ReportsInvHolds == Spec => []ReportsInv
<1>1. ASSUME Init PROVE ReportsInv
  <2>1. /\ readable = TRUE /\ writing = None /\ (~present => disk = <<>>) /\ phase = "idle"
        /\ everExisted = FALSE /\ missing = FALSE /\ failing = FALSE
        /\ reports = [missing |-> 0, failing |-> 0] /\ faults = [removed |-> 0, other |-> 0]
    BY <1>1 DEF Init
  <2>2. FileOK
    BY <2>1 DEF FileOK
  <2>3. Missed
    BY <2>1 DEF Missed, One
  <2>4. ~Failing /\ ~Owed
    BY <2>1 DEF Failing, Owed
  <2>5. Failed
    BY <2>1, <2>4 DEF Failed, One
  <2> QED BY <2>2, <2>3, <2>5 DEF ReportsInv
<1>2. Init => ReportsInv
  BY <1>1
<1>3. Types /\ ReportsInv /\ [Next]_vars => ReportsInv'
  BY ReportsInvKept
<1> QED BY <1>2, <1>3, TypesHold, PTL DEF Spec

(* However often the timer fires, a human is told once per incident: every  *)
(* report that the log is gone has a removal of its own, and every report   *)
(* of a failed read a removal, truncation or denial of its own              *)
(* (tail-audit-log.ts:211, :234, :325).                                     *)
THEOREM ReportsAreFewHolds == Spec => []ReportsAreFew
<1>1. Types /\ ReportsInv => ReportsAreFew
  <2>1. SUFFICES ASSUME Types, ReportsInv PROVE ReportsAreFew
    OBVIOUS
  <2>2. /\ faults.removed \in Nat /\ faults.other \in Nat
        /\ reports.missing \in Nat /\ reports.failing \in Nat
    BY <2>1 DEF Types, FileTypes, TailTypes
  <2>3. Missed /\ Failed
    BY <2>1 DEF ReportsInv
  <2> QED BY <2>2, <2>3 DEF Missed, Failed, One, ReportsAreFew
<1> QED BY <1>1, TypesHold, ReportsInvHolds, PTL

-----------------------------------------------------------------------------
(* What is taken. *)

\* The pieces behind the complete lines are where the next ones begin.
LEMMA TakingGoesOn ==
  ASSUME NEW x \in Seq(Piece), NEW r \in Seq(Piece)
  PROVE  /\ unfinished(unfinished(x) \o r) = unfinished(x \o r)
         /\ parsed(completeLines(x)) \o parsed(completeLines(unfinished(x) \o r))
              = parsed(completeLines(x \o r))
<1> DEFINE c == completeLines(x)
           y == unfinished(x) \o r
<1>1. /\ c \in Seq(Piece) /\ unfinished(x) \in Seq(Piece) /\ Complete(c)
      /\ c \o unfinished(x) = x
  BY LinesAndRest
<1>2. y \in Seq(Piece)
  BY <1>1, ConcatProperties
<1>3. x \o r = c \o y
  <2>1. (c \o unfinished(x)) \o r = c \o (unfinished(x) \o r)
    <3> DEFINE u == unfinished(x)
    <3>1. c \in Seq(Piece) /\ u \in Seq(Piece)
      BY <1>1
    <3> HIDE DEF c, y, u
    <3>2. (c \o u) \o r = c \o (u \o r)
      BY <3>1, ConcatAssociative
    <3> QED BY <3>2 DEF u
  <2> QED BY <1>1, <2>1
<1> HIDE DEF c, y
<1>4. completeLines(c \o y) = c \o completeLines(y) /\ unfinished(c \o y) = unfinished(y)
  BY <1>1, <1>2, LinesGoOn
<1>5. completeLines(y) \in Seq(Piece)
  BY <1>2, LinesAndRest
<1>6. parsed(c \o completeLines(y)) = parsed(c) \o parsed(completeLines(y))
  BY <1>1, <1>5, ParsedGoesOn
<1>7. unfinished(y) = unfinished(x \o r) /\ parsed(c) \o parsed(completeLines(y)) = parsed(completeLines(x \o r))
  BY <1>3, <1>4, <1>6
<1> QED BY <1>7 DEF c, y

LEMMA NothingTaken ==
  ASSUME NEW d, NEW k \in Nat
  PROVE  /\ SubSeq(d, k + 1, k) = <<>>
         /\ parsed(completeLines(<<>>)) = <<>> /\ unfinished(<<>>) = <<>>
<1>1. SubSeq(d, k + 1, k) = <<>>
  BY SubSeqEmpty
<1>2. <<>> \in Seq(Piece) /\ Len(<<>>) = 0
  BY EmptySeq
<1>3. /\ completeLines(<<>>) \in Seq(Piece) /\ unfinished(<<>>) \in Seq(Piece)
      /\ completeLines(<<>>) \o unfinished(<<>>) = <<>>
  BY <1>2, LinesAndRest
<1>4. completeLines(<<>>) = <<>> /\ unfinished(<<>>) = <<>>
  BY <1>3, ConcatEqualIffEmpty
<1>5. parsed(<<>>) = <<>>
  <2>1. Entries(<<>>) = {}
    BY DEF Entries
  <2>2. parsed(<<>>) \in Seq(Entry) /\ Len(parsed(<<>>)) = 0
    BY <1>2, <2>1, ParsedIs, FS_EmptySet
  <2> QED BY <2>2, EmptySeq
<1> QED BY <1>1, <1>4, <1>5

\* The part of the file that was read.
LEMMA PartIs ==
  ASSUME NEW d \in Seq(Piece), NEW m \in Nat, NEW n \in Nat, m <= n, n <= Len(d)
  PROVE  /\ SubSeq(d, m + 1, n) \in Seq(Piece)
         /\ \A x \in Piece : SubSeq(Append(d, x), m + 1, n) = SubSeq(d, m + 1, n)
<1>1. Len(d) \in Nat /\ \A i \in 1..Len(d) : d[i] \in Piece
  BY LenProperties, ElementOfSeq
<1>2. \A i \in (m + 1)..n : i \in 1..Len(d)
  BY <1>1
<1>3. /\ SubSeq(d, m + 1, n) \in Seq(Piece)
      /\ Len(SubSeq(d, m + 1, n)) = IF m + 1 <= n THEN n - (m + 1) + 1 ELSE 0
      /\ \A i \in 1..n - (m + 1) + 1 : SubSeq(d, m + 1, n)[i] = d[m + 1 + i - 1]
  BY <1>1, <1>2, SubSeqProperties
<1>4. ASSUME NEW x \in Piece PROVE SubSeq(Append(d, x), m + 1, n) = SubSeq(d, m + 1, n)
  <2> DEFINE e == Append(d, x)
  <2>1. \A i \in 1..Len(d) : e[i] = d[i]
    BY AppendProperties
  <2> HIDE DEF e
  <2>2. /\ SubSeq(e, m + 1, n) \in Seq(Piece)
        /\ Len(SubSeq(e, m + 1, n)) = IF m + 1 <= n THEN n - (m + 1) + 1 ELSE 0
        /\ \A i \in 1..n - (m + 1) + 1 : SubSeq(e, m + 1, n)[i] = e[m + 1 + i - 1]
    BY <1>1, <1>2, <2>1, SubSeqProperties
  <2>3. Len(SubSeq(e, m + 1, n)) = Len(SubSeq(d, m + 1, n))
    BY <1>3, <2>2
  <2>4. ASSUME NEW i \in 1..Len(SubSeq(e, m + 1, n))
        PROVE  SubSeq(e, m + 1, n)[i] = SubSeq(d, m + 1, n)[i]
    <3>1. i \in 1..n - (m + 1) + 1 /\ m + 1 + i - 1 \in 1..Len(d)
      BY <1>1, <2>2
    <3> QED BY <1>3, <2>1, <2>2, <3>1
  <2>5. SubSeq(e, m + 1, n) = SubSeq(d, m + 1, n)
    BY <1>3, <2>2, <2>3, <2>4, SeqEqual
  <2> QED BY <2>5 DEF e
<1> QED BY <1>3, <1>4

\* Reading on from n to s reads what follows.
LEMMA PartGoesOn ==
  ASSUME NEW d \in Seq(Piece), NEW m \in Nat, NEW n \in Nat, NEW s \in Nat,
         m <= n, n <= s, s <= Len(d)
  PROVE  SubSeq(d, m + 1, n) \o SubSeq(d, n + 1, s) = SubSeq(d, m + 1, s)
<1>1. Len(d) \in Nat
  BY LenProperties
<1>2. m + 1 \in 1..Len(d) + 1 /\ n \in (m + 1) - 1..Len(d) /\ s \in n..Len(d)
  BY <1>1
<1> QED BY <1>2, ConcatAdjacentSubSeq

\* A poll that has looked holds a size that is in the file still, if the file is.
TakenInv ==
  ~stale => /\ base <= offset
            /\ phase = "read" => size <= Len(disk) /\ offset < size

\* A tail that starts again has taken nothing of what it has read: nothing.
LEMMA Restarted ==
  ASSUME base' \in Nat, offset' = base', taken' = <<>>, pending' = <<>>, base' <= Len(disk'),
         phase' = "read" => size' <= Len(disk') /\ offset' < size'
  PROVE  TakenInv' /\ TakenExactly'
<1>1. /\ SubSeq(disk', base' + 1, base') = <<>>
      /\ parsed(completeLines(<<>>)) = <<>> /\ unfinished(<<>>) = <<>>
  BY NothingTaken
<1>2. TakenInv'
  BY DEF TakenInv
<1>3. TakenExactly'
  BY <1>1 DEF TakenExactly
<1> QED BY <1>2, <1>3

LEMMA TakenKept ==
  ASSUME Types, FileOK, TakenInv, TakenExactly, [Next]_vars
  PROVE  TakenInv' /\ TakenExactly'
<1>0. /\ disk \in Seq(Piece) /\ Len(disk) \in Nat /\ offset \in Nat /\ base \in Nat /\ size \in Nat
      /\ stale \in BOOLEAN
  BY LenProperties DEF Types, FileTypes, TailTypes, HistoryTypes
<1> DEFINE part == SubSeq(disk, base + 1, offset)
<1>1. ASSUME ~stale
      PROVE  /\ base <= offset /\ offset <= Len(disk)
             /\ phase = "read" => size <= Len(disk) /\ offset < size
             /\ taken = parsed(completeLines(part)) /\ pending = unfinished(part)
  BY <1>1 DEF TakenInv, TakenExactly
<1>2. ASSUME ~stale PROVE part \in Seq(Piece)
  BY <1>0, <1>1, <1>2, PartIs
<1>3. sizeOf = Len(disk)
  BY EmptySeq DEF sizeOf, FileOK
<1>4. CASE UNCHANGED <<disk, phase, size, offset, pending, base, taken, stale>>
  BY <1>4 DEF TakenInv, TakenExactly
<1>5. CASE Environment
  <2>1. UNCHANGED <<phase, size, offset, pending, base, taken>>
    BY <1>5 DEF Environment, reader
  <2>2. CASE Writer
    <3>1. UNCHANGED stale
      BY <2>2 DEF Writer
    <3>2. CASE WriteHead \/ WriteRest \/ WriteBlank
      <4>1. PICK x \in Piece : Wrote(x)
        BY <3>2, WritesAppend
      <4>2. disk' = Append(disk, x) /\ Len(disk') = Len(disk) + 1
        BY <1>0, <4>1, AppendProperties DEF Wrote
      <4>3. CASE stale
        BY <3>1, <4>3 DEF TakenInv, TakenExactly
      <4>4. CASE ~stale
        <5>1. SubSeq(disk', base' + 1, offset') = part
          BY <1>0, <1>1, <2>1, <4>2, <4>4, PartIs
        <5>2. TakenInv'
          BY <1>0, <1>1, <2>1, <3>1, <4>2, <4>4 DEF TakenInv
        <5>3. TakenExactly'
          <6>1. offset' <= Len(disk')
            BY <1>0, <1>1, <2>1, <4>2, <4>4
          <6>2. taken' = parsed(completeLines(part)) /\ pending' = unfinished(part)
            BY <1>1, <2>1, <4>4
          <6> HIDE DEF part
          <6> QED BY <5>1, <6>1, <6>2 DEF TakenExactly
        <5> QED BY <5>2, <5>3
      <4> QED BY <1>0, <4>3, <4>4
    <3>3. CASE Deny \/ Allow
      BY <1>4, <2>1, <3>1, <3>3 DEF Deny, Allow
    <3> QED BY <2>2, <3>2, <3>3 DEF Writer
  <2>3. CASE (Truncate \/ Unlink) /\ Replaced
    <3>1. disk' = <<>> /\ Len(disk') = 0
      BY <2>3 DEF Truncate, Unlink
    <3>2. stale' = (stale \/ offset > 0 \/ phase = "read")
      BY <2>3 DEF Replaced
    <3>3. CASE stale'
      BY <3>3 DEF TakenInv, TakenExactly
    <3>4. CASE ~stale'
      <4>1. ~stale /\ offset = 0 /\ phase # "read" /\ base = 0
        <5>1. ~stale /\ ~(offset > 0) /\ phase # "read"
          BY <1>0, <3>2, <3>4
        <5>2. base <= offset
          BY <1>1, <5>1
        <5> QED BY <1>0, <5>1, <5>2
      <4>2. part = <<>>
        BY <4>1, NothingTaken
      <4>3. taken = <<>> /\ pending = <<>>
        BY <1>1, <4>1, <4>2, NothingTaken
      <4> QED BY <2>1, <3>1, <4>1, <4>3, Restarted
    <3> QED BY <3>3, <3>4
  <2> QED BY <1>5, <2>2, <2>3 DEF Environment
<1>6. CASE PollLook /\ UNCHANGED disk
  <2>1. reset \/ (keep /\ UNCHANGED size)
    BY <1>6 DEF PollLook, Absent, Seen, SeenLeaving
  <2>2. phase' # "read"
    BY <1>6 DEF PollLook, Absent, Seen, SeenLeaving
  <2>3. CASE reset
    BY <1>0, <1>6, <2>2, <2>3, Restarted DEF reset
  <2>4. CASE keep
    BY <1>6, <2>2, <2>4 DEF keep, TakenInv, TakenExactly
  <2> QED BY <2>1, <2>3, <2>4
<1>7. CASE PollStat /\ UNCHANGED disk
  <2>1. CASE tracksAbsence /\ ~present
    BY <1>7, <2>1 DEF PollStat, Throws, keep, TakenInv, TakenExactly
  <2>2. CASE ~(tracksAbsence /\ ~present)
    <3>1. /\ size' = Len(disk)
          /\ IF Len(disk) < offset THEN reset ELSE keep
          /\ phase' = "read" => size' > offset'
      BY <1>3, <1>7, <2>2 DEF PollStat
    <3>2. CASE Len(disk) < offset
      BY <1>0, <1>7, <3>1, <3>2, Restarted DEF reset
    <3>3. CASE ~(Len(disk) < offset)
      <4>1. UNCHANGED <<offset, pending, base, taken, stale>>
        BY <3>1, <3>3 DEF keep
      <4>2. TakenInv'
        BY <1>0, <1>7, <3>1, <4>1 DEF TakenInv
      <4> QED BY <1>7, <4>1, <4>2 DEF TakenExactly
    <3> QED BY <3>2, <3>3
  <2> QED BY <2>1, <2>2
<1>8. CASE PollRead /\ UNCHANGED disk
  <2>1. CASE Take
    <3> DEFINE run == pending \o readRange
    <3>1. /\ pending' = unfinished(run) /\ offset' = size
          /\ taken' = taken \o parsed(completeLines(run))
          /\ phase' = "idle" /\ UNCHANGED <<base, stale>>
      BY <2>1 DEF Take, TakeBytes
    <3>2. CASE stale
      BY <3>1, <3>2 DEF TakenInv, TakenExactly
    <3>3. CASE ~stale
      <4> DEFINE more == SubSeq(disk, offset + 1, size)
                 whole == SubSeq(disk, base + 1, size)
      <4>1. base <= offset /\ offset < size /\ size <= Len(disk)
        BY <1>1, <1>8, <3>3 DEF PollRead
      <4>2. readRange = more
        <5>1. (IF size < Len(disk) THEN size ELSE Len(disk)) = size
          BY <1>0, <4>1
        <5> QED BY <5>1 DEF readRange
      <4>3. whole = part \o more /\ more \in Seq(Piece)
        BY <1>0, <4>1, PartGoesOn, PartIs
      <4>4. run = unfinished(part) \o more /\ taken = parsed(completeLines(part))
        BY <1>1, <3>3, <4>2
      <4>5. part \in Seq(Piece)
        BY <1>2, <3>3
      <4> HIDE DEF part, more, run
      <4>6. /\ unfinished(run) = unfinished(part \o more)
            /\ parsed(completeLines(part)) \o parsed(completeLines(run))
                 = parsed(completeLines(part \o more))
        BY <4>3, <4>4, <4>5, TakingGoesOn
      <4>7. pending' = unfinished(whole) /\ taken' = parsed(completeLines(whole))
        BY <3>1, <4>3, <4>4, <4>6
      <4>8. whole = SubSeq(disk', base' + 1, offset')
        BY <1>8, <3>1
      <4> HIDE DEF whole
      <4>9. offset' <= Len(disk') /\ base' <= offset' /\ phase' # "read"
        BY <1>0, <1>8, <3>1, <4>1
      <4> QED BY <4>7, <4>8, <4>9 DEF TakenInv, TakenExactly
    <3> QED BY <1>0, <3>2, <3>3
  <2>2. CASE Throws /\ keep
    BY <1>8, <2>2 DEF Throws, keep, TakenInv, TakenExactly
  <2> QED BY <1>8, <2>1, <2>2 DEF PollRead
<1>9. CASE Poll
  <2>1. UNCHANGED disk
    BY <1>9 DEF Poll, file
  <2> QED BY <1>6, <1>7, <1>8, <1>9, <2>1 DEF Poll
<1>10. CASE Drain \/ Abort \/ UNCHANGED vars
  BY <1>4, <1>10 DEF Drain, Abort, vars, file, reader
<1> QED BY <1>5, <1>9, <1>10 DEF Next

(* The tail has taken the entries whose lines end in the part of the file   *)
(* it has read, each once and in order, and holds the pieces behind the     *)
(* last newline: however its polls fall between the writes, no line is      *)
(* lost, doubled or cut, of a file that was not replaced unnoticed          *)
(* (tail-audit-log.ts:265).                                                 *)
THEOREM TakenExactlyHolds == Spec => []TakenExactly
<1>1. ASSUME Init PROVE TakenInv /\ TakenExactly
  <2>1. base \in Nat /\ base <= Len(disk) /\ offset = base
    <3>1. disk \in Seq(Piece) /\ Len(disk) \in Nat
      BY <1>1, InitTypes, LenProperties DEF Types, FileTypes
    <3>2. offset \in {0, sizeOf} /\ base = offset
      BY <1>1 DEF Init
    <3> QED BY <3>1, <3>2 DEF sizeOf
  <2>2. taken = <<>> /\ pending = <<>> /\ phase = "idle"
    BY <1>1 DEF Init
  <2>3. SubSeq(disk, base + 1, base) = <<>> /\ parsed(completeLines(<<>>)) = <<>> /\ unfinished(<<>>) = <<>>
    BY <2>1, NothingTaken
  <2>4. TakenInv
    BY <2>1, <2>2 DEF TakenInv
  <2>5. TakenExactly
    BY <2>1, <2>2, <2>3 DEF TakenExactly
  <2> QED BY <2>4, <2>5
<1>2. Init => TakenInv /\ TakenExactly
  BY <1>1
<1>3. Types /\ ReportsInv /\ TakenInv /\ TakenExactly /\ [Next]_vars => TakenInv' /\ TakenExactly'
  BY TakenKept DEF ReportsInv
<1> QED BY <1>2, <1>3, TypesHold, ReportsInvHolds, PTL DEF Spec

-----------------------------------------------------------------------------
(* The order of what is shown. *)

Handed == shown \o ready                                   \* all that was taken, in a row
Behind(d, k) == SubSeq(d, k + 1, Len(d))
Ahead == pending \o Behind(disk, offset)                  \* all that is to be taken

\* The heads of lines stand in the order of their numbers, ...
InOrder(b) == \A i, j \in DOMAIN b : ~b[i].end /\ ~b[j].end /\ i < j => b[i].id < b[j].id
\* ... and all of them above the numbers of these entries.
Above(b, s) == \A i \in DOMAIN b : ~b[i].end => \A j \in DOMAIN s : s[j].id < b[i].id
UpTo(b, n) == \A i \in DOMAIN b : b[i].id <= n
Sorted(s) == \A i, j \in DOMAIN s : i < j => s[i].id < s[j].id

LEMMA BehindIs ==
  ASSUME NEW d \in Seq(Piece), NEW k \in Nat
  PROVE  /\ Behind(d, k) \in Seq(Piece)
         /\ \A n \in Nat : UpTo(d, n) => UpTo(Behind(d, k), n)
         /\ Len(d) <= k => Behind(d, k) = <<>>
         /\ Behind(d, 0) = d
         /\ Len(Behind(d, k)) = IF k <= Len(d) THEN Len(d) - k ELSE 0
         /\ \A i \in 1..Len(Behind(d, k)) : Behind(d, k)[i] = d[k + i] /\ k + i \in 1..Len(d)
<1>1. Len(d) \in Nat /\ DOMAIN d = 1..Len(d) /\ \A i \in 1..Len(d) : d[i] \in Piece
  BY LenProperties, ElementOfSeq
<1>2. \A i \in k + 1..Len(d) : d[i] \in Piece
  BY <1>1
<1>3. /\ Behind(d, k) \in Seq(Piece)
      /\ Len(Behind(d, k)) = IF k + 1 <= Len(d) THEN Len(d) - (k + 1) + 1 ELSE 0
      /\ \A i \in 1..Len(d) - (k + 1) + 1 : Behind(d, k)[i] = d[k + 1 + i - 1]
  BY <1>1, <1>2, SubSeqProperties DEF Behind
<1>4. ASSUME NEW n \in Nat, NEW l, l = IF k + 1 <= n THEN n - (k + 1) + 1 ELSE 0
      PROVE  /\ l = IF k <= n THEN n - k ELSE 0
             /\ \A i \in 1..l : i \in 1..(n - (k + 1) + 1) /\ (k + 1) + (i - 1) = k + i /\ k + i \in 1..n
  <2>1. CASE k + 1 <= n
    BY <1>4, <2>1
  <2>2. CASE ~(k + 1 <= n)
    BY <1>4, <2>2
  <2> QED BY <2>1, <2>2
<1>a. /\ Len(Behind(d, k)) = IF k <= Len(d) THEN Len(d) - k ELSE 0
      /\ \A i \in 1..Len(Behind(d, k)) : /\ i \in 1..(Len(d) - (k + 1) + 1)
                                         /\ (k + 1) + (i - 1) = k + i /\ k + i \in 1..Len(d)
  BY <1>1, <1>3, <1>4
<1>5. ASSUME NEW i \in 1..Len(Behind(d, k))
      PROVE  Behind(d, k)[i] = d[k + i] /\ k + i \in 1..Len(d)
  BY <1>3, <1>a
<1>6. ASSUME NEW n \in Nat, UpTo(d, n) PROVE UpTo(Behind(d, k), n)
  <2>1. DOMAIN Behind(d, k) = 1..Len(Behind(d, k))
    BY <1>3, LenProperties
  <2> QED BY <1>1, <1>5, <1>6, <2>1 DEF UpTo
<1>7. Len(d) <= k => Behind(d, k) = <<>>
  BY <1>1, SubSeqEmpty DEF Behind
<1>8. Behind(d, 0) = d
  BY SubSeqFull DEF Behind
<1> QED BY <1>3, <1>a, <1>5, <1>6, <1>7, <1>8

LEMMA OneMoreBehind ==
  ASSUME NEW d \in Seq(Piece), NEW k \in Nat, NEW x \in Piece
  PROVE  Behind(Append(d, x), k) \in {Behind(d, k), Append(Behind(d, k), x)}
<1> DEFINE e == Append(d, x)
           b == Behind(d, k)
           g == Behind(e, k)
<1>1. /\ e \in Seq(Piece) /\ Len(e) = Len(d) + 1 /\ Len(d) \in Nat
      /\ \A i \in 1..Len(d) : e[i] = d[i]
      /\ e[Len(d) + 1] = x
  BY AppendProperties, LenProperties
<1> HIDE DEF e
<1>2. /\ b \in Seq(Piece) /\ Len(b) = (IF k <= Len(d) THEN Len(d) - k ELSE 0)
      /\ \A i \in 1..Len(b) : b[i] = d[k + i] /\ k + i \in 1..Len(d)
      /\ Len(d) <= k => b = <<>>
  BY BehindIs
<1>3. /\ g \in Seq(Piece) /\ Len(g) = (IF k <= Len(e) THEN Len(e) - k ELSE 0)
      /\ \A i \in 1..Len(g) : g[i] = e[k + i] /\ k + i \in 1..Len(e)
      /\ Len(e) <= k => g = <<>>
  BY <1>1, BehindIs
<1> HIDE DEF b, g
<1>4. /\ Append(b, x) \in Seq(Piece) /\ Len(Append(b, x)) = Len(b) + 1
      /\ \A i \in 1..Len(b) : Append(b, x)[i] = b[i]
      /\ Append(b, x)[Len(b) + 1] = x
  BY <1>2, AppendProperties
<1>5. CASE Len(d) < k
  <2>1. b = <<>> /\ g = <<>>
    BY <1>1, <1>2, <1>3, <1>5
  <2> QED BY <2>1 DEF e, b, g
<1>6. CASE ~(Len(d) < k)
  <2>1. Len(b) = Len(d) - k /\ Len(g) = Len(b) + 1
    BY <1>1, <1>2, <1>3, <1>6
  <2>2. ASSUME NEW i \in 1..Len(g) PROVE g[i] = Append(b, x)[i]
    <3>1. CASE i \in 1..Len(b)
      BY <1>1, <1>2, <1>3, <1>4, <3>1
    <3>2. CASE ~(i \in 1..Len(b))
      <4>1. i = Len(b) + 1 /\ k + i = Len(d) + 1
        BY <1>1, <2>1, <3>2
      <4> QED BY <1>1, <1>3, <1>4, <4>1
    <3> QED BY <3>1, <3>2
  <2>3. Len(g) = Len(Append(b, x))
    BY <1>4, <2>1
  <2>4. g = Append(b, x)
    BY <1>3, <1>4, <2>2, <2>3, SeqEqual
  <2> QED BY <2>4 DEF e, b, g
<1> QED BY <1>1, <1>5, <1>6

\* What holds of two runs in a row holds of each, and between them.
LEMMA InARow ==
  ASSUME NEW c \in Seq(Piece), NEW z \in Seq(Piece), NEW s \in Seq(Entry),
         InOrder(c \o z), Above(c \o z, s)
  PROVE  /\ InOrder(c) /\ InOrder(z) /\ Above(c, s) /\ Above(z, s)
         /\ \A i \in 1..Len(c), j \in 1..Len(z) : ~c[i].end /\ ~z[j].end => c[i].id < z[j].id
<1> DEFINE n == Len(c)
           m == Len(z)
           b == c \o z
<1>1. /\ n \in Nat /\ m \in Nat /\ DOMAIN c = 1..n /\ DOMAIN z = 1..m /\ DOMAIN b = 1..n + m
      /\ \A i \in 1..n + m : b[i] = IF i <= n THEN c[i] ELSE z[i - n]
  BY ConcatProperties, LenProperties
<1>2. InOrder(b) /\ Above(b, s)
  OBVIOUS
<1> HIDE DEF n, m, b
<1>3. \A i \in 1..n : i \in DOMAIN b /\ b[i] = c[i]
  BY <1>1
<1>4. ASSUME NEW i \in 1..m PROVE n + i \in DOMAIN b /\ b[n + i] = z[i]
  <2>1. n + i \in 1..n + m /\ ~(n + i <= n) /\ (n + i) - n = i
    BY <1>1
  <2> QED BY <1>1, <2>1
<1>5. InOrder(c)
  BY <1>1, <1>2, <1>3 DEF InOrder
<1>6. ASSUME NEW i \in 1..m, NEW j \in 1..m, ~z[i].end, ~z[j].end, i < j PROVE z[i].id < z[j].id
  <2>1. n + i < n + j
    BY <1>1, <1>6
  <2> QED BY <1>2, <1>4, <1>6, <2>1 DEF InOrder
<1>7. Above(c, s) /\ Above(z, s)
  BY <1>1, <1>2, <1>3, <1>4 DEF Above
<1>8. ASSUME NEW i \in 1..n, NEW j \in 1..m, ~c[i].end, ~z[j].end PROVE c[i].id < z[j].id
  <2>1. i < n + j
    BY <1>1
  <2> QED BY <1>2, <1>3, <1>4, <1>8, <2>1 DEF InOrder
<1>9. InOrder(z)
  BY <1>1, <1>6 DEF InOrder
<1> QED BY <1>5, <1>7, <1>8, <1>9 DEF n, m

\* One more piece keeps the order, if it does not begin a line or begins the latest.
LEMMA OneMoreInOrder ==
  ASSUME NEW b \in Seq(Piece), NEW s \in Seq(Entry), NEW x \in Piece, NEW n \in Nat,
         UpTo(b, n), UpTo(s, n), x.end \/ x.id = n + 1
  PROVE  /\ InOrder(b) => InOrder(Append(b, x))
         /\ Above(b, s) => Above(Append(b, x), s)
<1> DEFINE e == Append(b, x)
           m == Len(b)
<1>1. /\ m \in Nat /\ DOMAIN b = 1..m /\ DOMAIN e = 1..m + 1
      /\ \A i \in 1..m : e[i] = b[i]
      /\ e[m + 1] = x
  BY AppendProperties, LenProperties
<1> HIDE DEF e, m
<1>2. /\ \A i \in 1..m : b[i] \in Piece /\ b[i].id \in Nat /\ b[i].id <= n
      /\ \A j \in DOMAIN s : s[j].id \in Nat /\ s[j].id <= n
      /\ x.id \in Nat
  <2>a. \A i \in 1..m : b[i] \in Piece
    BY <1>1, ElementOfSeq DEF m
  <2>1. \A i \in 1..m : b[i] \in Piece /\ b[i].id \in Nat
    BY <2>a DEF Piece
  <2>b. \A j \in DOMAIN s : s[j] \in Entry
    BY LenProperties, ElementOfSeq
  <2>2. \A j \in DOMAIN s : s[j].id \in Nat
    BY <2>b DEF Entry
  <2> QED BY <1>1, <2>1, <2>2 DEF UpTo, Piece
<1>3. ASSUME InOrder(b), NEW i \in 1..m + 1, NEW j \in 1..m + 1, ~e[i].end, ~e[j].end, i < j
      PROVE  e[i].id < e[j].id
  <2>1. i \in 1..m
    BY <1>1, <1>3
  <2>2. CASE j \in 1..m
    BY <1>1, <1>3, <2>1, <2>2 DEF InOrder
  <2>3. CASE j = m + 1
    BY <1>1, <1>2, <1>3, <2>1, <2>3
  <2> QED BY <1>1, <2>2, <2>3
<1>4. ASSUME Above(b, s), NEW i \in 1..m + 1, ~e[i].end, NEW j \in DOMAIN s PROVE s[j].id < e[i].id
  <2>1. CASE i \in 1..m
    BY <1>1, <1>4, <2>1 DEF Above
  <2>2. CASE i = m + 1
    BY <1>1, <1>2, <1>4, <2>2
  <2> QED BY <1>1, <2>1, <2>2
<1>5. InOrder(b) => InOrder(e)
  BY <1>1, <1>3 DEF InOrder
<1>6. Above(b, s) => Above(e, s)
  BY <1>1, <1>4 DEF Above
<1> QED BY <1>5, <1>6 DEF e

\* The entries of lines whose heads are in order, and above what was taken, may
\* be taken behind it: what follows is above all of them then.
LEMMA TakenInOrder ==
  ASSUME NEW c \in Seq(Piece), NEW z \in Seq(Piece), NEW s \in Seq(Entry),
         InOrder(c \o z), Above(c \o z, s), Sorted(s)
  PROVE  Sorted(s \o parsed(c)) /\ Above(z, s \o parsed(c))
<1> DEFINE p == parsed(c)
           q == s \o p
           N == Len(p)
           n == Len(s)
           head(k) == nth(Entries(c), k) - 1
<1>1. /\ InOrder(c) /\ Above(c, s) /\ Above(z, s)
      /\ \A i \in 1..Len(c), j \in 1..Len(z) : ~c[i].end /\ ~z[j].end => c[i].id < z[j].id
  BY InARow
<1>2. /\ p \in Seq(Entry) /\ N \in Nat
      /\ \A k \in 1..N : nth(Entries(c), k) \in Entries(c) /\ p[k] = entryAt(c, nth(Entries(c), k))
      /\ \A k, l \in 1..N : k < l => nth(Entries(c), k) < nth(Entries(c), l)
  BY ParsedIs, LenProperties
<1>3. /\ Len(c) \in Nat
      /\ \A i \in Entries(c) : i \in 2..Len(c) /\ i - 1 \in 1..Len(c) /\ ~c[i - 1].end /\ c[i - 1].id = c[i].id
  BY EntriesArePlaces
<1>4. ASSUME NEW k \in 1..N
      PROVE  head(k) \in 1..Len(c) /\ ~c[head(k)].end /\ p[k].id = c[head(k)].id
  <2> DEFINE i == nth(Entries(c), k)
  <2>1. i \in Entries(c) /\ p[k] = entryAt(c, i)
    BY <1>2
  <2> HIDE DEF i, p, N
  <2>2. p[k].id = c[i].id
    BY <2>1 DEF entryAt
  <2>3. i - 1 \in 1..Len(c) /\ ~c[i - 1].end /\ c[i - 1].id = c[i].id
    BY <1>3, <2>1
  <2> QED BY <2>2, <2>3 DEF i
<1>5. \A k, l \in 1..N : k < l => head(k) < head(l)
  <2>1. \A k \in 1..N : nth(Entries(c), k) \in Nat
    BY <1>2, <1>3
  <2> QED BY <1>2, <2>1
<1>6. DOMAIN c = 1..Len(c) /\ DOMAIN z = 1..Len(z) /\ DOMAIN s = 1..n /\ n \in Nat /\ DOMAIN p = 1..N
  BY <1>2, LenProperties
<1>7. /\ DOMAIN q = 1..n + N
      /\ \A i \in 1..n + N : q[i] = IF i <= n THEN s[i] ELSE p[i - n]
  BY <1>2, ConcatProperties, LenProperties
<1> HIDE DEF p, q, N, n, head
<1>8. ASSUME NEW i \in 1..n + N
      PROVE  (i \in 1..n /\ q[i] = s[i]) \/ (i - n \in 1..N /\ q[i] = p[i - n])
  BY <1>2, <1>6, <1>7
<1>9. ASSUME NEW i \in 1..n + N, NEW j \in 1..n + N, i < j PROVE q[i].id < q[j].id
  <2>1. CASE j \in 1..n /\ q[j] = s[j]
    <3>1. i \in 1..n /\ q[i] = s[i]
      BY <1>6, <1>7, <1>9, <2>1
    <3> QED BY <1>6, <1>9, <2>1, <3>1 DEF Sorted
  <2>2. CASE j - n \in 1..N /\ q[j] = p[j - n] /\ i \in 1..n /\ q[i] = s[i]
    <3>1. head(j - n) \in DOMAIN c /\ ~c[head(j - n)].end /\ q[j].id = c[head(j - n)].id
      BY <1>4, <1>6, <2>2
    <3> QED BY <1>1, <1>6, <2>2, <3>1 DEF Above
  <2>3. CASE j - n \in 1..N /\ q[j] = p[j - n] /\ i - n \in 1..N /\ q[i] = p[i - n]
    <3>1. head(j - n) \in DOMAIN c /\ ~c[head(j - n)].end /\ q[j].id = c[head(j - n)].id
      BY <1>4, <1>6, <2>3
    <3>2. head(i - n) \in DOMAIN c /\ ~c[head(i - n)].end /\ q[i].id = c[head(i - n)].id
      BY <1>4, <1>6, <2>3
    <3>3. i - n < j - n
      BY <1>2, <1>6, <1>9
    <3>4. head(i - n) < head(j - n)
      BY <1>5, <2>3, <3>3
    <3> QED BY <1>1, <3>1, <3>2, <3>4 DEF InOrder
  <2> QED BY <1>8, <2>1, <2>2, <2>3
<1>10. ASSUME NEW i \in DOMAIN z, ~z[i].end, NEW j \in 1..n + N PROVE q[j].id < z[i].id
  <2>1. CASE j \in 1..n /\ q[j] = s[j]
    BY <1>1, <1>6, <1>10, <2>1 DEF Above
  <2>2. CASE j - n \in 1..N /\ q[j] = p[j - n]
    <3>1. head(j - n) \in 1..Len(c) /\ ~c[head(j - n)].end /\ q[j].id = c[head(j - n)].id
      BY <1>4, <2>2
    <3> QED BY <1>1, <1>6, <1>10, <3>1
  <2> QED BY <1>8, <2>1, <2>2
<1>11. Sorted(q) /\ Above(z, q)
  BY <1>7, <1>9, <1>10 DEF Sorted, Above
<1> QED BY <1>11 DEF q, p

OrderInv ==
  /\ UpTo(disk, lines) /\ UpTo(pending, lines) /\ UpTo(Handed, lines)
  /\ writing # None => writing.id <= lines
  /\ InOrder(disk)
  /\ ~raced => /\ phase = "read" => size <= Len(disk) /\ offset < size
               /\ InOrder(Ahead) /\ Above(Ahead, Handed) /\ Sorted(Handed)
               \* a tail that will start again has not shown what it will find
               /\ (missing \/ Len(disk) < offset) => Above(disk, Handed)

LEMMA OrderTypes ==
  ASSUME Types
  PROVE  /\ disk \in Seq(Piece) /\ Len(disk) \in Nat /\ pending \in Seq(Piece) /\ Handed \in Seq(Entry)
         /\ offset \in Nat /\ size \in Nat /\ lines \in Nat
         /\ Behind(disk, offset) \in Seq(Piece) /\ Ahead \in Seq(Piece)
<1>1. /\ disk \in Seq(Piece) /\ pending \in Seq(Piece) /\ offset \in Nat /\ size \in Nat /\ lines \in Nat
      /\ ready \in Seq(Entry) /\ shown \in Seq(Entry)
  BY DEF Types, FileTypes, TailTypes, QueueTypes
<1>2. Len(disk) \in Nat /\ Handed \in Seq(Entry)
  BY <1>1, LenProperties, ConcatProperties DEF Handed
<1>3. Behind(disk, offset) \in Seq(Piece)
  BY <1>1, BehindIs
<1>4. Ahead \in Seq(Piece)
  BY <1>1, <1>3, ConcatProperties DEF Ahead
<1> QED BY <1>1, <1>2, <1>3, <1>4

LEMMA UpToInARow ==
  ASSUME NEW c \in Seq(Piece), NEW z \in Seq(Piece), NEW n \in Nat
  PROVE  UpTo(c \o z, n) <=> UpTo(c, n) /\ UpTo(z, n)
<1> DEFINE k == Len(c)
           m == Len(z)
           b == c \o z
<1>1. /\ k \in Nat /\ m \in Nat /\ DOMAIN c = 1..k /\ DOMAIN z = 1..m /\ DOMAIN b = 1..k + m
      /\ \A i \in 1..k + m : b[i] = IF i <= k THEN c[i] ELSE z[i - k]
  BY ConcatProperties, LenProperties
<1> HIDE DEF k, m, b
<1>2. \A i \in 1..k : i \in 1..k + m /\ b[i] = c[i]
  BY <1>1
<1>3. ASSUME NEW i \in 1..m PROVE k + i \in 1..k + m /\ b[k + i] = z[i]
  <2>1. k + i \in 1..k + m /\ ~(k + i <= k) /\ (k + i) - k = i
    BY <1>1
  <2> QED BY <1>1, <2>1
<1>4. ASSUME NEW i \in 1..k + m PROVE (i \in 1..k /\ b[i] = c[i]) \/ (i - k \in 1..m /\ b[i] = z[i - k])
  BY <1>1
<1>5. UpTo(b, n) => UpTo(c, n) /\ UpTo(z, n)
  BY <1>1, <1>2, <1>3 DEF UpTo
<1>6. UpTo(c, n) /\ UpTo(z, n) => UpTo(b, n)
  BY <1>1, <1>4 DEF UpTo
<1> QED BY <1>5, <1>6 DEF b

\* Numbers are given out in order, and a line's newline comes with its head's.
LEMMA WritesInOrder ==
  ASSUME Types, FileOK, writing # None => writing.id <= lines, WriteHead \/ WriteRest \/ WriteBlank
  PROVE  \E x \in Piece : /\ disk' = Append(disk, x)
                          /\ lines' \in Nat /\ lines <= lines' /\ x.id <= lines'
                          /\ x.end \/ x.id = lines + 1
                          /\ writing' # None => writing'.id <= lines'
<1> USE DEF Types, FileTypes
<1>1. CASE WriteHead
  <2>1. PICK kind \in LineKinds \ {"blank"} :
          /\ lines' = lines + 1 /\ disk' = Append(disk, piece(lines + 1, kind, FALSE))
          /\ writing' = piece(lines + 1, kind, TRUE)
    BY <1>1 DEF WriteHead
  <2>2. kind \in Kinds
    BY TailAssumption
  <2>3. /\ piece(lines + 1, kind, FALSE) \in Piece /\ piece(lines + 1, kind, FALSE).id = lines + 1
        /\ piece(lines + 1, kind, TRUE).id = lines + 1
    BY <2>2 DEF piece, Piece
  <2>4. lines' \in Nat /\ lines <= lines' /\ lines + 1 <= lines'
    BY <2>1
  <2> QED BY <2>1, <2>3, <2>4
<1>2. CASE WriteRest
  <2>1. writing \in Piece /\ writing.end /\ writing.id <= lines
    BY <1>2 DEF WriteRest, Rested, Piece
  <2>2. disk' = Append(disk, writing) /\ writing' = None /\ lines' = lines /\ lines \in Nat
    BY <1>2 DEF WriteRest
  <2> QED BY <2>1, <2>2
<1>3. CASE WriteBlank
  <2>1. piece(lines + 1, "blank", TRUE) \in Piece /\ piece(lines + 1, "blank", TRUE).id = lines + 1
    BY DEF piece, Piece, Kinds
  <2>2. /\ lines' = lines + 1 /\ disk' = Append(disk, piece(lines + 1, "blank", TRUE))
        /\ writing' = writing /\ lines \in Nat
    BY <1>3 DEF WriteBlank
  <2>3. writing \in Rested \cup {None} /\ (writing # None => writing.id <= lines')
    <3>1. writing # None => writing.id \in Nat
      BY DEF Rested
    <3> QED BY <2>2, <3>1
  <2>4. lines' \in Nat /\ lines <= lines' /\ lines + 1 <= lines'
    BY <2>2
  <2> DEFINE x == piece(lines + 1, "blank", TRUE)
  <2>5. x \in Piece /\ x.id = lines + 1 /\ disk' = Append(disk, x) /\ (writing' # None => writing'.id <= lines')
    BY <2>1, <2>2, <2>3
  <2> HIDE DEF x
  <2> QED BY <2>4, <2>5
<1> QED BY <1>1, <1>2, <1>3

LEMMA UpToMore ==
  ASSUME NEW b, \A i \in DOMAIN b : b[i].id \in Nat, NEW n \in Nat, NEW m \in Nat, n <= m, UpTo(b, n)
  PROVE  UpTo(b, m)
BY DEF UpTo

LEMMA NumbersAreNumbers ==
  /\ \A b \in Seq(Piece) : \A i \in DOMAIN b : b[i].id \in Nat
  /\ \A s \in Seq(Entry) : \A i \in DOMAIN s : s[i].id \in Nat
<1>1. ASSUME NEW b \in Seq(Piece), NEW i \in DOMAIN b PROVE b[i].id \in Nat
  <2>1. b[i] \in Piece
    BY LenProperties, ElementOfSeq
  <2> QED BY <2>1 DEF Piece
<1>2. ASSUME NEW s \in Seq(Entry), NEW i \in DOMAIN s PROVE s[i].id \in Nat
  <2>1. s[i] \in Entry
    BY LenProperties, ElementOfSeq
  <2> QED BY <2>1 DEF Entry
<1> QED BY <1>1, <1>2

LEMMA WritingKeepsOrder ==
  ASSUME Types, FileOK, OrderInv, WriteHead \/ WriteRest \/ WriteBlank,
         UNCHANGED <<phase, size, offset, pending, missing, ready, shown, raced>>
  PROVE  OrderInv'
<1>0. /\ disk \in Seq(Piece) /\ Len(disk) \in Nat /\ pending \in Seq(Piece) /\ Handed \in Seq(Entry)
      /\ offset \in Nat /\ size \in Nat /\ lines \in Nat
      /\ Behind(disk, offset) \in Seq(Piece) /\ Ahead \in Seq(Piece)
  BY OrderTypes
<1>1. PICK x \in Piece : /\ disk' = Append(disk, x)
                         /\ lines' \in Nat /\ lines <= lines' /\ x.id <= lines'
                         /\ x.end \/ x.id = lines + 1
                         /\ writing' # None => writing'.id <= lines'
  BY WritesInOrder DEF OrderInv
<1>2. Handed' = Handed
  BY DEF Handed
<1>3. /\ Len(disk') = Len(disk) + 1 /\ DOMAIN disk' = 1..Len(disk) + 1
      /\ \A i \in 1..Len(disk) : disk'[i] = disk[i]
      /\ disk'[Len(disk) + 1] = x /\ DOMAIN disk = 1..Len(disk)
  BY <1>0, <1>1, AppendProperties, LenProperties
<1>4. UpTo(disk', lines') /\ UpTo(pending', lines') /\ UpTo(Handed', lines')
  <2>1. UpTo(disk, lines') /\ UpTo(pending, lines') /\ UpTo(Handed, lines')
    BY <1>0, <1>1, UpToMore, NumbersAreNumbers DEF OrderInv
  <2>2. UpTo(disk', lines')
    <3>1. ASSUME NEW i \in 1..Len(disk) + 1 PROVE disk'[i].id <= lines'
      <4>1. CASE i \in 1..Len(disk)
        BY <1>3, <2>1, <4>1 DEF UpTo
      <4>2. CASE ~(i \in 1..Len(disk))
        BY <1>0, <1>1, <1>3, <4>2
      <4> QED BY <4>1, <4>2
    <3> QED BY <1>3, <3>1 DEF UpTo
  <2>3. pending' = pending
    OBVIOUS
  <2> QED BY <1>2, <2>1, <2>2, <2>3
<1>5. InOrder(disk')
  <2>1. <<>> \in Seq(Entry) /\ UpTo(<<>>, lines)
    BY EmptySeq DEF UpTo
  <2> QED BY <1>0, <1>1, <2>1, OneMoreInOrder DEF OrderInv
<1>6. ASSUME ~raced'
      PROVE  /\ phase' = "read" => size' <= Len(disk') /\ offset' < size'
             /\ InOrder(Ahead') /\ Above(Ahead', Handed') /\ Sorted(Handed')
             /\ (missing' \/ Len(disk') < offset') => Above(disk', Handed')
  <2>0. /\ phase = "read" => size <= Len(disk) /\ offset < size
        /\ InOrder(Ahead) /\ Above(Ahead, Handed) /\ Sorted(Handed)
        /\ (missing \/ Len(disk) < offset) => Above(disk, Handed)
    BY <1>6 DEF OrderInv
  <2>1. phase' = "read" => size' <= Len(disk') /\ offset' < size'
    BY <1>0, <1>3, <2>0
  <2>2. Ahead' \in {Ahead, Append(Ahead, x)}
    <3>1. Ahead' = pending \o Behind(Append(disk, x), offset)
      BY <1>1 DEF Ahead, Behind
    <3>2. Behind(Append(disk, x), offset) \in {Behind(disk, offset), Append(Behind(disk, offset), x)}
      BY <1>0, OneMoreBehind
    <3>3. pending \o Append(Behind(disk, offset), x) = Append(Ahead, x)
      <4> DEFINE p == pending
                 b == Behind(disk, offset)
      <4>1. p \in Seq(Piece) /\ b \in Seq(Piece) /\ p \o b \in Seq(Piece) /\ <<x>> \in Seq(Piece)
        BY <1>0 DEF Ahead
      <4>2. Ahead = p \o b
        BY DEF Ahead
      <4> HIDE DEF p, b
      <4>3. Append(b, x) = b \o <<x>> /\ Append(p \o b, x) = (p \o b) \o <<x>>
        BY <4>1, AppendIsConcat
      <4>4. (p \o b) \o <<x>> = p \o (b \o <<x>>)
        BY <4>1, ConcatAssociative
      <4>5. p \o Append(b, x) = Append(p \o b, x)
        BY <4>3, <4>4
      <4> QED BY <4>2, <4>5 DEF p, b
    <3> QED BY <3>1, <3>2, <3>3 DEF Ahead
  <2>3. UpTo(Ahead, lines)
    <3>1. UpTo(Behind(disk, offset), lines) /\ UpTo(pending, lines)
      BY <1>0, BehindIs DEF OrderInv
    <3> QED BY <1>0, <3>1, UpToInARow DEF Ahead
  <2>4. InOrder(Append(Ahead, x)) /\ Above(Append(Ahead, x), Handed)
    BY <1>0, <1>1, <2>0, <2>3, OneMoreInOrder DEF OrderInv
  <2>5. InOrder(Ahead') /\ Above(Ahead', Handed') /\ Sorted(Handed')
    BY <1>2, <2>0, <2>2, <2>4
  <2>6. ASSUME missing' \/ Len(disk') < offset' PROVE Above(disk', Handed')
    <3>1. missing \/ Len(disk) < offset
      BY <1>0, <1>3, <2>6
    <3>2. Above(Append(disk, x), Handed)
      BY <1>0, <1>1, <2>0, <3>1, OneMoreInOrder DEF OrderInv
    <3> QED BY <1>1, <1>2, <3>2
  <2> QED BY <2>1, <2>5, <2>6
<1> QED BY <1>1, <1>4, <1>5, <1>6 DEF OrderInv

LEMMA EnvironmentKeepsOrder ==
  ASSUME Types, FileOK, OrderInv, Environment
  PROVE  OrderInv'
<1>0. /\ disk \in Seq(Piece) /\ Len(disk) \in Nat /\ pending \in Seq(Piece) /\ Handed \in Seq(Entry)
      /\ offset \in Nat /\ size \in Nat /\ lines \in Nat
      /\ Behind(disk, offset) \in Seq(Piece) /\ Ahead \in Seq(Piece)
  BY OrderTypes
<1>1. UNCHANGED <<phase, size, offset, pending, missing, ready, shown>>
  BY DEF Environment, reader, queue
<1>2. CASE Writer
  <2>1. UNCHANGED raced
    BY <1>2 DEF Writer
  <2>2. CASE WriteHead \/ WriteRest \/ WriteBlank
    BY <1>1, <2>1, <2>2, WritingKeepsOrder
  <2>3. CASE Deny \/ Allow
    <3>1. UNCHANGED <<disk, writing, lines>>
      BY <2>3 DEF Deny, Allow
    <3> QED BY <1>1, <2>1, <3>1 DEF OrderInv, Handed, Ahead, Behind
  <2> QED BY <1>2, <2>2, <2>3 DEF Writer
<1>3. CASE (Truncate \/ Unlink) /\ Replaced
  <2>1. disk' = <<>> /\ lines' = lines /\ writing' \in {None, writing}
    BY <1>3 DEF Truncate, Unlink
  <2>2. raced' = (raced \/ phase = "read")
    BY <1>3 DEF Replaced
  <2>3. Handed' = Handed /\ DOMAIN disk' = {}
    BY <1>1, <2>1 DEF Handed
  <2>4. UpTo(disk', lines') /\ UpTo(pending', lines') /\ UpTo(Handed', lines') /\ InOrder(disk')
    BY <1>1, <2>1, <2>3 DEF OrderInv, UpTo, InOrder
  <2>5. writing' # None => writing'.id <= lines'
    BY <2>1 DEF OrderInv
  <2>6. ASSUME ~raced'
        PROVE  /\ phase' # "read"
               /\ InOrder(Ahead') /\ Above(Ahead', Handed') /\ Sorted(Handed') /\ Above(disk', Handed')
    <3>1. ~raced /\ phase # "read"
      BY <2>2, <2>6 DEF Types, HistoryTypes
    <3>2. InOrder(Ahead) /\ Above(Ahead, Handed) /\ Sorted(Handed)
      BY <3>1 DEF OrderInv
    <3>3. Behind(disk', offset') = <<>>
      <4>1. <<>> \in Seq(Piece) /\ Len(<<>>) <= offset
        BY <1>0, EmptySeq
      <4> QED BY <1>0, <1>1, <2>1, <4>1, BehindIs
    <3>4. Ahead' = pending
      BY <1>0, <1>1, <3>3, ConcatEmptySeq DEF Ahead
    <3>5. InOrder(pending) /\ Above(pending, Handed)
      BY <1>0, <3>2, InARow DEF Ahead
    <3>6. Above(disk', Handed')
      BY <2>3 DEF Above
    <3> QED BY <1>1, <2>3, <3>1, <3>2, <3>4, <3>5, <3>6
  <2> QED BY <2>4, <2>5, <2>6 DEF OrderInv
<1> QED BY <1>2, <1>3 DEF Environment

\* Starting again, at the beginning of a file none of whose lines was shown.
LEMMA StartingAgainKeepsOrder ==
  ASSUME Types, OrderInv, Above(disk, Handed) \/ raced, reset,
         phase' = "read" => size' <= Len(disk) /\ offset' < size',
         UNCHANGED <<disk, lines, writing, raced, ready, shown>>
  PROVE  OrderInv'
<1>0. /\ disk \in Seq(Piece) /\ Len(disk) \in Nat
  BY OrderTypes
<1>1. Handed' = Handed
  BY DEF Handed
<1>2. Ahead' = disk
  <2>1. offset' = 0 /\ pending' = <<>> /\ disk' = disk
    BY DEF reset
  <2>2. Ahead' = <<>> \o Behind(disk, 0)
    BY <2>1 DEF Ahead, Behind
  <2> QED BY <1>0, <2>2, BehindIs, ConcatEmptySeq
<1>3. UpTo(pending', lines')
  BY DEF reset, UpTo
<1>4. UpTo(disk', lines') /\ UpTo(Handed', lines') /\ InOrder(disk') /\ (writing' # None => writing'.id <= lines')
  BY <1>1 DEF OrderInv
<1>5. ~raced' => InOrder(Ahead') /\ Above(Ahead', Handed') /\ Sorted(Handed') /\ Above(disk', Handed')
  BY <1>1, <1>2 DEF OrderInv
<1> QED BY <1>3, <1>4, <1>5 DEF OrderInv

\* A poll that takes nothing and goes on from where it was.
LEMMA StayingKeepsOrder ==
  ASSUME Types, OrderInv, keep, (missing' \/ Len(disk) < offset) => Above(disk, Handed) \/ raced,
         phase' = "read" => size' <= Len(disk) /\ offset < size',
         UNCHANGED <<disk, lines, writing, raced, ready, shown>>
  PROVE  OrderInv'
<1>1. Handed' = Handed /\ Ahead' = Ahead /\ pending' = pending /\ offset' = offset
  BY DEF Handed, Ahead, Behind, keep
<1>2. /\ UpTo(disk', lines') /\ UpTo(pending', lines') /\ UpTo(Handed', lines') /\ InOrder(disk')
      /\ writing' # None => writing'.id <= lines'
  BY <1>1 DEF OrderInv
<1>3. ~raced' => InOrder(Ahead') /\ Above(Ahead', Handed') /\ Sorted(Handed')
  BY <1>1 DEF OrderInv
<1>4. ~raced' => ((missing' \/ Len(disk') < offset') => Above(disk', Handed'))
  BY <1>1
<1>5. phase' = "read" => size' <= Len(disk') /\ offset' < size'
  BY <1>1
<1> QED BY <1>2, <1>3, <1>4, <1>5 DEF OrderInv

LEMMA TakingKeepsOrder ==
  ASSUME Types, FileOK, OrderInv, Take, phase = "read",
         UNCHANGED <<disk, lines, writing, raced, shown, missing, size>>
  PROVE  OrderInv'
<1>0. /\ disk \in Seq(Piece) /\ Len(disk) \in Nat /\ pending \in Seq(Piece) /\ Handed \in Seq(Entry)
      /\ offset \in Nat /\ size \in Nat /\ lines \in Nat
      /\ Behind(disk, offset) \in Seq(Piece) /\ Ahead \in Seq(Piece)
  BY OrderTypes
<1> DEFINE run == pending \o readRange
           c == completeLines(run)
           u == unfinished(run)
           p == parsed(c)
<1>1. readRange \in Seq(Piece) /\ run \in Seq(Piece)
  BY ReadIs DEF Types
<1>2. pending' = u /\ offset' = size /\ ready' = ready \o p /\ phase' = "idle"
  BY DEF Take, TakeBytes
<1>3. c \in Seq(Piece) /\ u \in Seq(Piece) /\ c \o u = run
  BY <1>1, LinesAndRest
<1>4. p \in Seq(Entry)
  BY <1>3, ParsedIs
<1>5. Handed' = Handed \o p
  <2> HIDE DEF p
  <2>1. shown \in Seq(Entry) /\ ready \in Seq(Entry)
    BY DEF Types, QueueTypes
  <2>2. (shown \o ready) \o p = shown \o (ready \o p)
    BY <1>4, <2>1, ConcatAssociative
  <2> QED BY <1>2, <2>2 DEF Handed
<1>6. UpTo(run, lines)
  <2>1. UpTo(readRange, lines)
    <3> DEFINE k == IF size < Len(disk) THEN size ELSE Len(disk)
    <3>1. k \in Nat /\ k <= Len(disk) /\ DOMAIN disk = 1..Len(disk)
      BY <1>0, LenProperties
    <3>2. readRange = SubSeq(disk, offset + 1, k)
      BY DEF readRange
    <3> HIDE DEF k
    <3>3. \A i \in offset + 1..k : i \in 1..Len(disk) /\ disk[i] \in Piece
      BY <1>0, <3>1, ElementOfSeq
    <3>4. /\ readRange \in Seq(Piece)
          /\ Len(readRange) = IF offset + 1 <= k THEN k - (offset + 1) + 1 ELSE 0
          /\ \A i \in 1..k - (offset + 1) + 1 : readRange[i] = disk[offset + 1 + i - 1]
      <4>1. offset + 1 \in Int /\ k \in Int /\ \A i \in offset + 1..k : disk[i] \in Piece
        BY <1>0, <3>1, <3>3
      <4> QED BY <3>2, <4>1, SubSeqProperties
    <3>5. ASSUME NEW i \in 1..Len(readRange)
          PROVE  i \in 1..k - (offset + 1) + 1 /\ offset + 1 + i - 1 \in 1..Len(disk)
      BY <1>0, <3>1, <3>4
    <3>6. DOMAIN readRange = 1..Len(readRange)
      BY <1>1, LenProperties
    <3>7. ASSUME NEW i \in 1..Len(readRange) PROVE readRange[i].id <= lines
      <4>1. readRange[i] = disk[offset + 1 + i - 1] /\ offset + 1 + i - 1 \in DOMAIN disk
        BY <3>1, <3>4, <3>5
      <4> QED BY <4>1 DEF OrderInv, UpTo
    <3> QED BY <3>6, <3>7 DEF UpTo
  <2> QED BY <1>0, <1>1, <2>1, UpToInARow DEF OrderInv
<1>7. UpTo(c, lines) /\ UpTo(u, lines)
  <2> HIDE DEF c, u, run
  <2> QED BY <1>0, <1>3, <1>6, UpToInARow
<1>8. UpTo(Handed', lines)
  <2>1. ASSUME NEW k \in 1..Len(p) PROVE p[k].id <= lines
    <3>1. /\ nth(Entries(c), k) \in Entries(c) /\ p[k] = entryAt(c, nth(Entries(c), k))
          /\ nth(Entries(c), k) \in 2..Len(c) /\ DOMAIN c = 1..Len(c) /\ Len(c) \in Nat
      BY <1>3, ParsedIs, EntriesArePlaces, LenProperties
    <3> HIDE DEF c, p
    <3>2. nth(Entries(c), k) \in DOMAIN c
      BY <3>1
    <3>3. p[k].id = c[nth(Entries(c), k)].id
      BY <3>1 DEF entryAt
    <3> QED BY <1>7, <3>2, <3>3 DEF UpTo
  <2> HIDE DEF p
  <2>2. /\ DOMAIN Handed = 1..Len(Handed) /\ DOMAIN (Handed \o p) = 1..Len(Handed) + Len(p)
        /\ Len(Handed) \in Nat /\ Len(p) \in Nat
        /\ \A i \in 1..Len(Handed) + Len(p) :
             (Handed \o p)[i] = IF i <= Len(Handed) THEN Handed[i] ELSE p[i - Len(Handed)]
    BY <1>0, <1>4, ConcatProperties, LenProperties
  <2>3. ASSUME NEW i \in 1..Len(Handed) + Len(p) PROVE (Handed \o p)[i].id <= lines
    <3>1. CASE i <= Len(Handed)
      <4>1. i \in DOMAIN Handed /\ (Handed \o p)[i] = Handed[i]
        BY <2>2, <3>1
      <4> QED BY <4>1 DEF OrderInv, UpTo
    <3>2. CASE ~(i <= Len(Handed))
      <4>1. i - Len(Handed) \in 1..Len(p) /\ (Handed \o p)[i] = p[i - Len(Handed)]
        BY <2>2, <3>2
      <4> QED BY <2>1, <4>1
    <3> QED BY <3>1, <3>2
  <2> QED BY <1>5, <2>2, <2>3 DEF UpTo
<1>9. ASSUME ~raced'
      PROVE  /\ InOrder(Ahead') /\ Above(Ahead', Handed') /\ Sorted(Handed')
             /\ ~(missing' \/ Len(disk') < offset')
  <2>1. /\ size <= Len(disk) /\ offset < size
        /\ InOrder(Ahead) /\ Above(Ahead, Handed) /\ Sorted(Handed)
    BY <1>9 DEF OrderInv
  <2> DEFINE z == u \o Behind(disk, size)
  <2>2. Behind(disk, size) \in Seq(Piece)
    BY <1>0, BehindIs
  <2>3. Behind(disk, offset) = readRange \o Behind(disk, size)
    <3>1. (IF size < Len(disk) THEN size ELSE Len(disk)) = size
      BY <1>0, <2>1
    <3>2. readRange = SubSeq(disk, offset + 1, size)
      BY <3>1 DEF readRange
    <3>3. SubSeq(disk, offset + 1, size) \o SubSeq(disk, size + 1, Len(disk)) = SubSeq(disk, offset + 1, Len(disk))
      <4>1. offset <= offset /\ offset <= size
        BY <1>0, <2>1
      <4>2. \A m, n, t \in Nat : m <= n /\ n <= t /\ t <= Len(disk) =>
               SubSeq(disk, m + 1, n) \o SubSeq(disk, n + 1, t) = SubSeq(disk, m + 1, t)
        BY <1>0, PartGoesOn
      <4>3. Len(disk) <= Len(disk)
        BY <1>0
      <4> QED BY <1>0, <2>1, <4>1, <4>2, <4>3
    <3> QED BY <3>2, <3>3 DEF Behind
  <2>4. Ahead = c \o z
    <3> DEFINE w == Behind(disk, size)
               r == readRange
               q == pending
    <3>1. w \in Seq(Piece) /\ r \in Seq(Piece) /\ q \in Seq(Piece) /\ c \in Seq(Piece) /\ u \in Seq(Piece)
      BY <1>0, <1>1, <1>3, <2>2
    <3>2. Ahead = q \o (r \o w) /\ q \o r = c \o u
      BY <1>3, <2>3 DEF Ahead
    <3> HIDE DEF w, r, q, c, u
    <3>a. (q \o r) \o w = q \o (r \o w)
      BY <3>1, ConcatAssociative
    <3>b. (c \o u) \o w = c \o (u \o w)
      BY <3>1, ConcatAssociative
    <3>4. Ahead = c \o (u \o w)
      BY <3>2, <3>a, <3>b
    <3> QED BY <3>4 DEF w
  <2>5. z \in Seq(Piece)
    BY <1>3, <2>2, ConcatProperties
  <2>6. Ahead' = z
    BY <1>2 DEF Ahead, Behind
  <2> HIDE DEF z, c, u, run
  <2>7. InOrder(z)
    BY <1>0, <1>3, <2>1, <2>4, <2>5, InARow
  <2>8. Sorted(Handed \o p) /\ Above(z, Handed \o p)
    BY <1>0, <1>3, <2>1, <2>4, <2>5, TakenInOrder
  <2>9. ~missing
    BY DEF FileOK
  <2>10. ~(Len(disk') < offset')
    BY <1>0, <1>2, <2>1
  <2> QED BY <1>5, <2>6, <2>7, <2>8, <2>9, <2>10
<1>10. /\ UpTo(disk', lines') /\ InOrder(disk') /\ lines' = lines
       /\ writing' # None => writing'.id <= lines'
  BY DEF OrderInv
<1> HIDE DEF run, c, u, p
<1>11. UpTo(pending', lines') /\ UpTo(Handed', lines')
  BY <1>2, <1>7, <1>8, <1>10
<1> QED BY <1>2, <1>9, <1>10, <1>11 DEF OrderInv

LEMMA PollKeepsOrder ==
  ASSUME Types, FileOK, OrderInv, Poll
  PROVE  OrderInv'
<1>0. Len(disk) \in Nat /\ offset \in Nat /\ sizeOf = Len(disk)
  BY OrderTypes, EmptySeq DEF sizeOf, FileOK
<1>1. UNCHANGED <<disk, lines, writing, shown, raced>>
  BY DEF Poll, PollLook, PollStat, PollRead, file
<1>2. CASE PollLook /\ Absent
  <2>1. disk = <<>> /\ keep /\ phase' = "idle" /\ UNCHANGED ready
    BY <1>2 DEF PollLook, Absent, FileOK
  <2>2. Above(disk, Handed)
    BY <2>1 DEF Above
  <2> QED BY <1>1, <2>1, <2>2, StayingKeepsOrder
<1>3. CASE PollLook /\ Seen
  <2>1. missing' = FALSE /\ phase' = "stat" /\ UNCHANGED ready
    BY <1>3 DEF PollLook, Seen, SeenLeaving
  <2>2. CASE missing
    <3>1. reset
      BY <1>3, <2>2 DEF Seen, SeenLeaving
    <3>2. Above(disk, Handed) \/ raced
      BY <2>2 DEF OrderInv
    <3> QED BY <1>1, <2>1, <3>1, <3>2, StartingAgainKeepsOrder
  <2>3. CASE ~missing
    <3>1. keep
      BY <1>3, <2>3 DEF Seen, SeenLeaving
    <3>2. Len(disk) < offset => Above(disk, Handed) \/ raced
      BY DEF OrderInv
    <3> QED BY <1>1, <2>1, <3>1, <3>2, StayingKeepsOrder
  <2> QED BY <2>2, <2>3
<1>4. CASE PollStat
  <2>0. missing' = missing /\ (missing \/ Len(disk) < offset => Above(disk, Handed) \/ raced) /\ UNCHANGED ready
    BY <1>4 DEF PollStat, OrderInv
  <2>1. CASE tracksAbsence /\ ~present
    <3>1. keep /\ phase' = "idle"
      BY <1>4, <2>1 DEF PollStat, Throws
    <3> QED BY <1>1, <2>0, <3>1, StayingKeepsOrder
  <2>2. CASE ~(tracksAbsence /\ ~present)
    <3>1. /\ size' = Len(disk)
          /\ IF Len(disk) < offset THEN reset ELSE keep
          /\ phase' = "read" => size' > offset'
      BY <1>0, <1>4, <2>2 DEF PollStat
    <3>2. CASE Len(disk) < offset
      <4>1. reset /\ (Above(disk, Handed) \/ raced)
        BY <2>0, <3>1, <3>2
      <4>2. phase' = "read" => size' <= Len(disk) /\ offset' < size'
        <5>1. offset' = 0
          BY <4>1 DEF reset
        <5> QED BY <1>0, <3>1, <5>1
      <4> QED BY <1>1, <2>0, <4>1, <4>2, StartingAgainKeepsOrder
    <3>3. CASE ~(Len(disk) < offset)
      <4>1. keep /\ offset' = offset
        BY <3>1, <3>3 DEF keep
      <4>2. phase' = "read" => size' <= Len(disk) /\ offset < size'
        BY <1>0, <3>1, <4>1
      <4> QED BY <1>1, <2>0, <4>1, <4>2, StayingKeepsOrder
    <3> QED BY <3>2, <3>3
  <2> QED BY <2>1, <2>2
<1>5. CASE PollRead
  <2>0. /\ phase = "read" /\ missing' = missing /\ size' = size
        /\ (missing \/ Len(disk) < offset => Above(disk, Handed) \/ raced)
    BY <1>5 DEF PollRead, OrderInv
  <2>1. CASE Take
    BY <1>1, <2>0, <2>1, TakingKeepsOrder
  <2>2. CASE Throws /\ keep /\ UNCHANGED <<ready, consumer>>
    <3>1. keep /\ phase' = "idle" /\ UNCHANGED ready
      BY <2>2 DEF Throws
    <3> QED BY <1>1, <2>0, <3>1, StayingKeepsOrder
  <2> QED BY <1>5, <2>1, <2>2 DEF PollRead
<1> QED BY <1>2, <1>3, <1>4, <1>5 DEF Poll, PollLook

LEMMA DrainKeepsOrder ==
  ASSUME Types, OrderInv, Drain
  PROVE  OrderInv'
<1>1. UNCHANGED <<disk, lines, writing, raced, phase, size, offset, pending, missing>>
  BY DEF Drain, file, reader
<1>2. Handed' = Handed
  <2>1. CASE ready # <<>>
    <3> DEFINE e == Head(ready)
               t == Tail(ready)
               s == shown
    <3>1. ready \in Seq(Entry) /\ s \in Seq(Entry)
      BY DEF Types, QueueTypes
    <3>2. e \in Entry /\ t \in Seq(Entry) /\ <<e>> \in Seq(Entry)
      BY <2>1, <3>1, HeadTailProperties
    <3>3. ready = <<e>> \o t
      <4>1. /\ Len(ready) \in Nat /\ Len(ready) # 0
        BY <2>1, <3>1, EmptySeq, LenProperties
      <4>2. SubSeq(ready, 1, Len(ready)) = <<ready[1]>> \o SubSeq(ready, 2, Len(ready))
        <5>1. 1 \in 1..Len(ready) /\ Len(ready) \in 1..Len(ready)
          BY <4>1
        <5>2. SubSeq(ready, 1, Len(ready)) = <<ready[1]>> \o SubSeq(ready, 1 + 1, Len(ready))
          BY <3>1, <5>1, SubSeqRecursiveFirst
        <5> QED BY <5>2
      <4>3. SubSeq(ready, 1, Len(ready)) = ready /\ Tail(ready) = SubSeq(ready, 2, Len(ready))
        BY <2>1, <3>1, SubSeqFull, TailIsSubSeq
      <4>4. Head(ready) = ready[1]
        <5>1. 1 \in 1..Len(ready) /\ Len(ready) \in 1..Len(ready)
          BY <4>1
        <5>2. Head(SubSeq(ready, 1, Len(ready))) = ready[1]
          BY <3>1, <5>1, HeadTailOfSubSeq
        <5> QED BY <4>3, <5>2
      <4> QED BY <4>2, <4>3, <4>4
    <3>4. shown' = Append(s, e) /\ ready' = t
      BY <2>1 DEF Drain
    <3> HIDE DEF e, t, s
    <3>5. Append(s, e) = s \o <<e>> /\ (s \o <<e>>) \o t = s \o (<<e>> \o t)
      BY <3>1, <3>2, AppendIsConcat, ConcatAssociative
    <3> QED BY <3>3, <3>4, <3>5 DEF Handed, s
  <2>2. CASE ready = <<>>
    BY <2>2 DEF Drain, Handed
  <2> QED BY <2>1, <2>2
<1>3. Ahead' = Ahead
  BY <1>1 DEF Ahead, Behind
<1> QED BY <1>1, <1>2, <1>3 DEF OrderInv

LEMMA OrderKept ==
  ASSUME Types, FileOK, OrderInv, [Next]_vars
  PROVE  OrderInv'
<1>1. CASE Environment
  BY <1>1, EnvironmentKeepsOrder
<1>2. CASE Poll
  BY <1>2, PollKeepsOrder
<1>3. CASE Drain
  BY <1>3, DrainKeepsOrder
<1>4. CASE Abort \/ UNCHANGED vars
  <2>1. UNCHANGED <<disk, lines, writing, raced, phase, size, offset, pending, missing, ready, shown>>
    BY <1>4 DEF Abort, vars, file, reader, queue
  <2> QED BY <2>1 DEF OrderInv, Handed, Ahead, Behind
<1> QED BY <1>1, <1>2, <1>3, <1>4 DEF Next

LEMMA OrderInvHolds == Spec => []OrderInv
<1>1. ASSUME Init PROVE OrderInv
  <2>1. Types
    BY <1>1, InitTypes
  <2>2. /\ pending = <<>> /\ ready = <<>> /\ shown = <<>> /\ writing = None /\ phase = "idle"
        /\ missing = FALSE
        /\ \/ disk = <<>> /\ lines = 0
           \/ /\ lines = 1
              /\ \E k \in FirstKinds :
                   disk = <<[id |-> 1, kind |-> k, end |-> FALSE], [id |-> 1, kind |-> k, end |-> TRUE]>>
    BY <1>1 DEF Init
  <2>3. /\ DOMAIN disk \in SUBSET {1, 2}
        /\ \A i \in DOMAIN disk : disk[i].id = 1 /\ 1 <= lines /\ (~disk[i].end => i = 1)
    <3>1. CASE disk = <<>>
      BY <3>1
    <3>2. CASE lines = 1 /\ \E k \in FirstKinds :
                 disk = <<[id |-> 1, kind |-> k, end |-> FALSE], [id |-> 1, kind |-> k, end |-> TRUE]>>
      <4>1. PICK k \in FirstKinds :
              disk = <<[id |-> 1, kind |-> k, end |-> FALSE], [id |-> 1, kind |-> k, end |-> TRUE]>>
        BY <3>2
      <4>2. /\ DOMAIN disk = {1, 2}
            /\ disk[1] = [id |-> 1, kind |-> k, end |-> FALSE] /\ disk[2] = [id |-> 1, kind |-> k, end |-> TRUE]
        BY <4>1
      <4> QED BY <3>2, <4>2
    <3> QED BY <2>2, <3>1, <3>2
  <2>4. Handed = <<>> /\ DOMAIN Handed = {}
    <3>1. Handed = <<>>
      BY <2>2, EmptySeq, ConcatEmptySeq DEF Handed
    <3> QED BY <3>1
  <2>5. UpTo(disk, lines) /\ UpTo(pending, lines) /\ UpTo(Handed, lines)
    BY <2>2, <2>3, <2>4 DEF UpTo
  <2>6. \A b \in Seq(Piece) : Above(b, Handed)
    BY <2>4 DEF Above
  <2>7. disk \in Seq(Piece) /\ Behind(disk, offset) \in Seq(Piece) /\ Ahead \in Seq(Piece) /\ Len(disk) \in Nat
    BY <2>1, OrderTypes
  <2>8. Sorted(Handed)
    BY <2>4 DEF Sorted
  <2>9. InOrder(disk)
    BY <2>3 DEF InOrder
  <2>10. InOrder(Ahead)
    <3>1. Ahead = Behind(disk, offset)
      BY <2>2, <2>7, ConcatEmptySeq DEF Ahead
    <3>2. offset = 0 \/ Len(disk) <= offset
      BY <1>1, <2>7 DEF Init, sizeOf
    <3>3. CASE offset = 0
      BY <2>7, <2>9, <3>1, <3>3, BehindIs
    <3>4. CASE Len(disk) <= offset
      <4>1. Ahead = <<>>
        BY <2>1, <2>7, <3>1, <3>4, BehindIs, OrderTypes
      <4> QED BY <4>1 DEF InOrder
    <3> QED BY <3>2, <3>3, <3>4
  <2> QED BY <2>2, <2>5, <2>6, <2>7, <2>8, <2>9, <2>10 DEF OrderInv
<1>2. Init => OrderInv
  BY <1>1
<1>3. Types /\ ReportsInv /\ OrderInv /\ [Next]_vars => OrderInv'
  BY OrderKept DEF ReportsInv
<1> QED BY <1>2, <1>3, TypesHold, ReportsInvHolds, PTL DEF Spec

(* Over any number of truncations, removals and recreations no entry is     *)
(* shown twice and none out of order, unless the file was replaced between  *)
(* the size and the read of one poll (tail-audit-log.ts:257-267); and of a  *)
(* file that was not replaced unnoticed, exactly the entries whose lines    *)
(* end in what was read were taken.                                         *)
THEOREM EachLineOnceInOrderHolds == Spec => []EachLineOnceInOrder
<1>1. OrderInv => ShownInOrder
  BY DEF OrderInv, ShownInOrder, Sorted, Handed
<1> QED BY <1>1, OrderInvHolds, TakenExactlyHolds, PTL DEF EachLineOnceInOrder
=============================================================================
