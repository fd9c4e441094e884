------------------------------ MODULE FoldProofs ------------------------------
(***************************************************************************)
(* What the proofs need of recursions over data.  A recursive function and *)
(* a fold are a CHOOSE of a function that satisfies an equation; that one  *)
(* does is shown by induction on the naturals, and induction is stated of  *)
(* sets of naturals: the library's theorem takes an operator.              *)
(***************************************************************************)
EXTENDS Integers, FiniteSets, Selection, FiniteSetTheorems, SequenceTheorems,
        WellFoundedInduction, TLAPS

-----------------------------------------------------------------------------
(* Naturals.                                                               *)

\* Naturals have a least element; those with a bound have a greatest.
LEMMA LeastNatural ==
    ASSUME NEW S \in SUBSET Nat, S # {}
    PROVE  Min(S) \in S /\ \A y \in S : Min(S) <= y
<1> DEFINE R == OpToRel(<, Nat)
<1>1. IsWellFoundedOn(R, Nat)
  BY NatLessThanWellFounded
<1>2. \E x \in S : \A y \in S : ~ (<<y, x>> \in R)
  <2> HIDE DEF R
  <2> QED
    BY <1>1, WFMin
<1>3. PICK x \in S : \A y \in S : ~ (<<y, x>> \in R)
  BY <1>2
<1>4. R = {ss \in Nat \X Nat : ss[1] < ss[2]}
  BY Zenon DEF OpToRel
<1>5. ASSUME NEW y \in S
      PROVE  x =< y
  <2>1. <<y, x>> \in Nat \X Nat /\ <<y, x>>[1] = y /\ <<y, x>>[2] = x
    OBVIOUS
  <2> HIDE DEF R
  <2>2. ~ (<<y, x>>[1] < <<y, x>>[2])
    BY <1>3, <1>4, <1>5, <2>1
  <2> QED
    BY <2>1, <2>2
<1> QED
  BY <1>5 DEF Min

LEMMA GreatestNatural ==
    ASSUME NEW n \in Nat, NEW S \in SUBSET (0 .. n), S # {}
    PROVE  Max(S) \in S /\ \A y \in S : y <= Max(S)
<1> DEFINE D == {n - y : y \in S}
<1>0. \A y \in S : n - y \in Nat
  OBVIOUS
<1>1. D \in SUBSET Nat /\ D # {}
  BY <1>0
<1>2. Min(D) \in D /\ \A d \in D : Min(D) <= d
  <2> HIDE DEF D
  <2> QED
    BY <1>1, LeastNatural
<1>3. PICK x \in S : Min(D) = n - x
  BY <1>2
<1>4. \A y \in S : x >= y
  <2>1. TAKE y \in S
  <2>2. n - x <= n - y
    BY <1>2, <1>3
  <2> QED
    BY <2>2
<1> QED
  BY <1>4 DEF Max

\* A set of naturals with zero and all successors is all of them.
LEMMA AllNaturals ==
    ASSUME NEW S \in SUBSET Nat, 0 \in S, \A n \in S : n + 1 \in S
    PROVE  S = Nat
<1> DEFINE T == Nat \ S
<1>1. ASSUME T # {}
      PROVE  FALSE
  <2>1. T \in SUBSET Nat
    OBVIOUS
  <2>2. PICK m : m = Min(T)
    OBVIOUS
  <2>3. m \in T /\ \A y \in T : m <= y
    <3> HIDE DEF T
    <3> QED
      BY <1>1, <2>1, <2>2, LeastNatural
  <2>4. m - 1 \in Nat /\ m - 1 \notin T
    BY <2>3
  <2>5. (m - 1) + 1 \in S
    BY <2>4
  <2> QED
    BY <2>3, <2>5
<1> QED
  BY <1>1

\* A set of indexes, and the same without its greatest.
LEMMA Parts ==
    ASSUME NEW n \in Nat, NEW s \in SUBSET (1 .. n)
    PROVE  /\ Cardinality(s) \in Nat /\ Cardinality(s) <= n
           /\ (s = {} <=> Cardinality(s) = 0)
           /\ s # {} => /\ Max(s) \in s /\ s \ {Max(s)} \in SUBSET (1 .. n)
                        /\ Cardinality(s \ {Max(s)}) = Cardinality(s) - 1
<1>1. IsFiniteSet(1 .. n) /\ Cardinality(1 .. n) = n
  BY FS_Interval
<1>2. IsFiniteSet(s) /\ Cardinality(s) <= n
  BY <1>1, FS_Subset
<1>3. Cardinality(s) \in Nat /\ (s = {} <=> Cardinality(s) = 0)
  BY <1>2, FS_CardinalityType, FS_EmptySet
<1>4. s # {} => Max(s) \in s
  BY GreatestNatural
<1>5. \A x \in s : Cardinality(s \ {x}) = Cardinality(s) - 1
  BY <1>2, FS_RemoveElement
<1>6. ASSUME s # {}
      PROVE  /\ Max(s) \in s /\ s \ {Max(s)} \in SUBSET (1 .. n)
             /\ Cardinality(s \ {Max(s)}) = Cardinality(s) - 1
  <2>1. PICK m : m = Max(s)
    OBVIOUS
  <2>2. m \in s
    BY <1>4, <1>6, <2>1
  <2>3. s \ {m} \in SUBSET (1 .. n) /\ Cardinality(s \ {m}) = Cardinality(s) - 1
    BY <1>5, <2>2
  <2> QED
    BY <2>1, <2>2, <2>3
<1> QED
  BY <1>2, <1>3, <1>6

-----------------------------------------------------------------------------
(* Folds.                                                                  *)

\* A fold of the function F: its values after each element, and its recursion
\* over sets of indexes.
Runs(f, F, base, seq) ==
    f[0] = base /\ \A i \in 1 .. Len(seq) : f[i] = F[<<f[i - 1], seq[i]>>]
Folding(F, base, seq, s, it) ==
    IF s = {} THEN base ELSE F[<<it[s \ {Max(s)}], seq[Max(s)]>>]
Folds(g, F, base, seq) ==
    \A s \in SUBSET (1 .. Len(seq)) : g[s] = Folding(F, base, seq, s, g)
\* It does what F does as long as it yields values of V.
Follows(it, V, F, base, seq) ==
    /\ it[{}] = base
    /\ \A s \in SUBSET (1 .. Len(seq)) :
          (s # {} /\ it[s \ {Max(s)}] \in V) => it[s] = F[<<it[s \ {Max(s)}], seq[Max(s)]>>]
Reaches(f, it, seq) == f[Len(seq)] = it[1 .. Len(seq)]

LEMMA FoldExists ==
    ASSUME NEW V, NEW T, NEW F \in [V \X T -> V], NEW base \in V, NEW seq \in Seq(T)
    PROVE  \E g \in [SUBSET (1 .. Len(seq)) -> V] : Folds(g, F, base, seq)
<1> DEFINE n == Len(seq)
           D == 1 .. n
           Good(g, m) == \A s \in SUBSET D : Cardinality(s) <= m => g[s] = Folding(F, base, seq, s, g)
           K == {m \in Nat : \E g \in [SUBSET D -> V] : Good(g, m)}
<1>0. n \in Nat
  OBVIOUS
<1>p. \A s \in SUBSET D : /\ Cardinality(s) \in Nat /\ Cardinality(s) <= n
                          /\ (s = {} <=> Cardinality(s) = 0)
  BY <1>0, Parts
<1>q. \A s \in SUBSET D : s # {} => /\ Max(s) \in s /\ s \ {Max(s)} \in SUBSET D
                                  /\ Cardinality(s \ {Max(s)}) = Cardinality(s) - 1
  BY <1>0, Parts
<1>r. \A i \in D : seq[i] \in T
  OBVIOUS
<1> HIDE DEF D, n
<1>1. 0 \in K
  <2> DEFINE g == [s \in SUBSET D |-> base]
  <2>1. g \in [SUBSET D -> V]
    OBVIOUS
  <2>2. ASSUME NEW s \in SUBSET D, Cardinality(s) <= 0
        PROVE  g[s] = Folding(F, base, seq, s, g)
    <3>1. s = {}
      BY <1>0, <2>2, <1>p, <1>q
    <3> QED
      BY <3>1 DEF Folding
  <2> QED
    BY <2>1, <2>2
<1>2. ASSUME NEW m \in K
      PROVE  m + 1 \in K
  <2>1. PICK g \in [SUBSET D -> V] : Good(g, m)
    BY <1>2
  <2> DEFINE h == [s \in SUBSET D |-> IF Cardinality(s) <= m THEN g[s]
                                      ELSE Folding(F, base, seq, s, g)]
  <2>2. ASSUME NEW s \in SUBSET D
        PROVE  Folding(F, base, seq, s, g) \in V
    <3>1. CASE s = {}
      BY <3>1 DEF Folding
    <3>2. CASE s # {}
      <4>1. PICK x \in V : x = g[s \ {Max(s)}]
        BY <2>1, <3>2, <1>q
      <4>2. PICK y \in T : y = seq[Max(s)]
        BY <3>2, <1>q, <1>r
      <4> QED
        BY <3>2, <4>1, <4>2 DEF Folding
    <3> QED
      BY <3>1, <3>2
  <2>3. h \in [SUBSET D -> V]
    BY <2>1, <2>2
  <2>4. ASSUME NEW s \in SUBSET D, Cardinality(s) <= m + 1
        PROVE  h[s] = Folding(F, base, seq, s, h)
    <3>1. h[s] = Folding(F, base, seq, s, g)
      BY <2>1
    <3>2. CASE s = {}
      BY <3>1, <3>2 DEF Folding
    <3>3. CASE s # {}
      <4>1. PICK rest \in SUBSET D : /\ rest = s \ {Max(s)}
                                     /\ Cardinality(rest) = Cardinality(s) - 1
        BY <3>3, <1>q
      <4>2. Cardinality(rest) <= m
        BY <1>2, <2>4, <4>1, <1>p
      <4>3. h[rest] = g[rest]
        BY <4>1, <4>2
      <4> HIDE DEF h
      <4> QED
        BY <3>1, <3>3, <4>1, <4>3 DEF Folding
    <3> QED
      BY <3>2, <3>3
  <2> HIDE DEF h
  <2>5. Good(h, m + 1)
    BY <2>4
  <2> QED
    BY <1>2, <2>3, <2>5
<1>3. n \in K
  <2> HIDE DEF K
  <2>1. K \in SUBSET Nat
    BY DEF K
  <2> QED
    BY <1>0, <1>1, <1>2, <2>1, AllNaturals
<1>4. PICK g \in [SUBSET D -> V] : Good(g, n)
  BY <1>3
<1>5. \A s \in SUBSET D : g[s] = Folding(F, base, seq, s, g)
  BY <1>4, <1>p
<1> QED
  BY <1>5 DEF D, n, Folds

LEMMA FoldRuns ==
    ASSUME NEW V, NEW T, NEW F \in [V \X T -> V], NEW base \in V, NEW seq \in Seq(T), NEW it,
           Follows(it, V, F, base, seq)
    PROVE  \E f \in [0 .. Len(seq) -> V] : Runs(f, F, base, seq) /\ Reaches(f, it, seq)
<1> DEFINE n == Len(seq)
           K == {m \in Nat : m <= n => it[1 .. m] \in V}
<1>0. n \in Nat /\ \A i \in 1 .. n : seq[i] \in T
  OBVIOUS
<1>1. ASSUME NEW m \in 1 .. n
      PROVE  1 .. m \in SUBSET (1 .. n) /\ Max(1 .. m) = m /\ (1 .. m) \ {Max(1 .. m)} = 1 .. (m - 1)
  <2>1. PICK x : x = Max(1 .. m)
    OBVIOUS
  <2>2. x \in 1 .. m /\ \A y \in 1 .. m : y <= x
    <3>1. PICK s : s = 1 .. m
      OBVIOUS
    <3>2. m \in Nat /\ m \in s /\ s \in SUBSET (0 .. m)
      BY <3>1, <1>0
    <3>3. Max(s) \in s /\ \A y \in s : y <= Max(s)
      BY <3>2, GreatestNatural
    <3> QED
      BY <2>1, <3>1, <3>3
  <2>3. x = m
    BY <2>2
  <2>4. (1 .. m) \ {m} = 1 .. (m - 1)
    OBVIOUS
  <2> QED
    BY <2>1, <2>3, <2>4
<1>2. ASSUME NEW m \in 1 .. n, it[1 .. (m - 1)] \in V
      PROVE  it[1 .. m] = F[<<it[1 .. (m - 1)], seq[m]>>] /\ it[1 .. m] \in V
  <2>1. PICK s \in SUBSET (1 .. n) : /\ s = 1 .. m /\ s # {} /\ Max(s) = m
                                     /\ s \ {Max(s)} = 1 .. (m - 1)
    <3>1. PICK s : s = 1 .. m
      OBVIOUS
    <3>2. m \in s
      BY <3>1, <1>0
    <3> QED
      BY <1>1, <3>1, <3>2
  <2>2. it[s] = F[<<it[s \ {Max(s)}], seq[Max(s)]>>]
    BY <1>2, <2>1 DEF Follows
  <2>3. it[1 .. m] = F[<<it[1 .. (m - 1)], seq[m]>>]
    BY <2>1, <2>2
  <2>4. seq[m] \in T
    BY <1>0
  <2> QED
    BY <1>2, <2>3, <2>4
<1>3. 1 .. 0 = {}
  OBVIOUS
<1>4. 0 \in K
  BY <1>3 DEF Follows
<1>5. ASSUME NEW m \in K
      PROVE  m + 1 \in K
  <2>1. CASE m + 1 <= n
    <3>1. m + 1 \in 1 .. n /\ (m + 1) - 1 = m /\ m \in Nat /\ it[1 .. m] \in V
      BY <1>0, <1>5, <2>1
    <3>2. it[1 .. (m + 1)] \in V
      BY <1>2, <3>1
    <3> QED
      BY <3>1, <3>2
  <2> QED
    BY <2>1, <1>0
<1>6. K = Nat
  <2> HIDE DEF K
  <2>1. K \in SUBSET Nat
    BY DEF K
  <2> QED
    BY <1>4, <1>5, <2>1, AllNaturals
<1>7. \A m \in 0 .. n : it[1 .. m] \in V
  BY <1>0, <1>6
<1> DEFINE f == [m \in 0 .. n |-> it[1 .. m]]
<1>8. f \in [0 .. n -> V] /\ f[0] = base /\ f[n] = it[1 .. n]
  BY <1>0, <1>3, <1>7 DEF Follows
<1>9. ASSUME NEW i \in 1 .. n
      PROVE  f[i] = F[<<f[i - 1], seq[i]>>]
  <2>1. i \in 0 .. n /\ i - 1 \in 0 .. n
    BY <1>0
  <2>2. f[i] = it[1 .. i] /\ f[i - 1] = it[1 .. (i - 1)] /\ it[1 .. (i - 1)] \in V
    BY <1>7, <2>1
  <2> HIDE DEF f
  <2> QED
    BY <1>2, <2>2
<1> HIDE DEF f
<1> QED
  BY <1>8, <1>9 DEF Runs, Reaches

LEMMA RunExists ==
    ASSUME NEW V, NEW T, NEW F \in [V \X T -> V], NEW base \in V, NEW seq \in Seq(T)
    PROVE  \E f \in [0 .. Len(seq) -> V] : Runs(f, F, base, seq)
<1>1. PICK g \in [SUBSET (1 .. Len(seq)) -> V] : Folds(g, F, base, seq)
  BY FoldExists
<1>2. Follows(g, V, F, base, seq)
  BY <1>1 DEF Follows, Folds, Folding
<1> QED
  BY <1>2, FoldRuns

-----------------------------------------------------------------------------
(* What Those selects.                                                     *)

\* The recursion of the fold.
ThoseStep(seq, S, s, it) ==
    IF s = {} THEN <<>>
    ELSE IF seq[Max(s)] \in S THEN Append(it[s \ {Max(s)}], seq[Max(s)])
    ELSE it[s \ {Max(s)}]
ThoseOver(seq, S, D) == CHOOSE it : it = [s \in SUBSET D |-> ThoseStep(seq, S, s, it)]

LEMMA ThoseIs ==
    ASSUME NEW seq, NEW S, NEW D, D = DOMAIN seq
    PROVE  Those(seq, S) = ThoseOver(seq, S, D)[D]
BY DEF Those, FoldLeft, MapThenFoldSet, ThoseOver, ThoseStep

\* What is found in part of a sequence.
Among(seq, s) == {seq[i] : i \in s}

LEMMA AppendFound ==
    ASSUME NEW V, NEW found \in Seq(V), NEW x \in V
    PROVE  Append(found, x) \in Seq(V) /\ ToSet(Append(found, x)) = ToSet(found) \cup {x}
<1>1. Append(found, x) \in Seq(V) /\ Len(Append(found, x)) = Len(found) + 1 /\ Len(found) \in Nat
  OBVIOUS
<1>2. DOMAIN Append(found, x) = 1 .. Len(found) + 1 /\ DOMAIN found = 1 .. Len(found)
  BY <1>1
<1>3. \A i \in 1 .. Len(found) : Append(found, x)[i] = found[i]
  OBVIOUS
<1>4. Append(found, x)[Len(found) + 1] = x
  OBVIOUS
<1> QED
  BY <1>1, <1>2, <1>3, <1>4 DEF ToSet

LEMMA ThoseUnfolds ==
    ASSUME NEW n \in Nat, NEW seq, NEW S
    PROVE  LET it == ThoseOver(seq, S, 1 .. n) IN
           \A s \in SUBSET (1 .. n) : it[s] = ThoseStep(seq, S, s, it)
<1> DEFINE D == 1 .. n
           Good(g, m) == \A s \in SUBSET D : Cardinality(s) <= m => g[s] = ThoseStep(seq, S, s, g)
           K == {m \in Nat : \E g \in [SUBSET D -> Seq(S)] : Good(g, m)}
<1>p. \A s \in SUBSET D : /\ Cardinality(s) \in Nat /\ Cardinality(s) <= n
                          /\ (s = {} <=> Cardinality(s) = 0)
  BY Parts
<1>q. \A s \in SUBSET D : s # {} => /\ Max(s) \in s /\ s \ {Max(s)} \in SUBSET D
                                  /\ Cardinality(s \ {Max(s)}) = Cardinality(s) - 1
  BY Parts
<1> HIDE DEF D
<1>1. 0 \in K
  <2> DEFINE g == [s \in SUBSET D |-> <<>>]
  <2>1. g \in [SUBSET D -> Seq(S)]
    OBVIOUS
  <2>2. ASSUME NEW s \in SUBSET D, Cardinality(s) <= 0
        PROVE  g[s] = ThoseStep(seq, S, s, g)
    <3>1. s = {}
      BY <2>2, <1>p, <1>q
    <3> QED
      BY <3>1 DEF ThoseStep
  <2> QED
    BY <2>1, <2>2
<1>2. ASSUME NEW m \in K
      PROVE  m + 1 \in K
  <2>1. PICK g \in [SUBSET D -> Seq(S)] : Good(g, m)
    BY <1>2
  <2> DEFINE h == [s \in SUBSET D |-> IF Cardinality(s) <= m THEN g[s] ELSE ThoseStep(seq, S, s, g)]
  <2>2. ASSUME NEW s \in SUBSET D
        PROVE  ThoseStep(seq, S, s, g) \in Seq(S)
    <3>1. CASE s = {}
      BY <3>1 DEF ThoseStep
    <3>2. CASE s # {}
      <4>1. PICK found \in Seq(S) : found = g[s \ {Max(s)}]
        BY <2>1, <3>2, <1>p, <1>q
      <4>2. \A x \in S : Append(found, x) \in Seq(S)
        BY AppendFound
      <4> QED
        BY <3>2, <4>1, <4>2 DEF ThoseStep
    <3> QED
      BY <3>1, <3>2
  <2>3. h \in [SUBSET D -> Seq(S)]
    BY <2>1, <2>2
  <2>4. ASSUME NEW s \in SUBSET D, Cardinality(s) <= m + 1
        PROVE  h[s] = ThoseStep(seq, S, s, h)
    <3>1. h[s] = ThoseStep(seq, S, s, g)
      BY <2>1
    <3>2. CASE s = {}
      BY <3>1, <3>2 DEF ThoseStep
    <3>3. CASE s # {}
      <4>1. PICK rest \in SUBSET D : /\ rest = s \ {Max(s)}
                                     /\ Cardinality(rest) = Cardinality(s) - 1
        BY <3>3, <1>p, <1>q
      <4>2. Cardinality(rest) <= m
        BY <1>2, <2>4, <4>1, <1>p, <1>q
      <4>3. h[rest] = g[rest]
        BY <4>1, <4>2
      <4> HIDE DEF h
      <4> QED
        BY <3>1, <3>3, <4>1, <4>3 DEF ThoseStep
    <3> QED
      BY <3>2, <3>3
  <2> HIDE DEF h
  <2>5. Good(h, m + 1)
    BY <2>4
  <2> QED
    BY <1>2, <2>3, <2>5
<1>3. n \in K
  <2> HIDE DEF K
  <2>1. K \in SUBSET Nat
    BY DEF K
  <2> QED
    BY <1>1, <1>2, <2>1, AllNaturals
<1>4. PICK g \in [SUBSET D -> Seq(S)] : Good(g, n)
  BY <1>3
<1>5. \A s \in SUBSET D : g[s] = ThoseStep(seq, S, s, g)
  BY <1>4, <1>p, <1>q
<1>6. g = [s \in SUBSET D |-> ThoseStep(seq, S, s, g)]
  BY <1>5
<1>7. PICK it : it = ThoseOver(seq, S, D)
  OBVIOUS
<1>8. it = [s \in SUBSET D |-> ThoseStep(seq, S, s, it)]
  BY <1>6, <1>7 DEF ThoseOver
<1>9. \A s \in SUBSET D : it[s] = ThoseStep(seq, S, s, it)
  BY <1>8, Zenon
<1> QED
  BY <1>7, <1>9 DEF D

\* A selection has the members of the set that are in the sequence, and no others.
LEMMA ThoseFound ==
    ASSUME NEW T, NEW seq \in Seq(T), NEW S
    PROVE  /\ Those(seq, S) \in Seq(S) /\ ToSet(Those(seq, S)) = S \cap ToSet(seq)
           /\ Len(Those(seq, S)) <= Len(seq)
<1> DEFINE n == Len(seq)
           D == 1 .. n
<1>0. n \in Nat /\ DOMAIN seq = D
  OBVIOUS
<1>p. \A s \in SUBSET D : /\ Cardinality(s) \in Nat /\ Cardinality(s) <= n
                          /\ (s = {} <=> Cardinality(s) = 0)
  BY <1>0, Parts
<1>q. \A s \in SUBSET D : s # {} => /\ Max(s) \in s /\ s \ {Max(s)} \in SUBSET D
                                  /\ Cardinality(s \ {Max(s)}) = Cardinality(s) - 1
  BY <1>0, Parts
<1>1. PICK it : it = ThoseOver(seq, S, D)
  OBVIOUS
<1>2. \A s \in SUBSET D : it[s] = ThoseStep(seq, S, s, it)
  BY <1>0, <1>1, ThoseUnfolds
<1> DEFINE Sound(s) == /\ it[s] \in Seq(S) /\ ToSet(it[s]) = S \cap Among(seq, s)
                       /\ Len(it[s]) <= Cardinality(s)
           K == {m \in Nat : \A s \in SUBSET D : Cardinality(s) <= m => Sound(s)}
<1>a. it[{}] = <<>>
  BY <1>2 DEF ThoseStep
<1>b. Sound({})
  <2>1. Cardinality({}) = 0
    BY <1>0, <1>p
  <2> QED
    BY <1>a, <2>1 DEF ToSet, Among
<1>3. 0 \in K
  <2>1. ASSUME NEW s \in SUBSET D, Cardinality(s) <= 0
        PROVE  Sound(s)
    <3>1. s = {}
      BY <1>0, <2>1, <1>p, <1>q
    <3> QED
      BY <1>b, <3>1
  <2> QED
    BY <2>1
<1>4. ASSUME NEW m \in K
      PROVE  m + 1 \in K
  <2>1. ASSUME NEW s \in SUBSET D, Cardinality(s) <= m + 1
        PROVE  Sound(s)
    <3>1. CASE s = {}
      BY <1>b, <3>1
    <3>2. CASE s # {}
      <4>1. PICK x \in s : x = Max(s) /\ s \ {x} \in SUBSET D
                           /\ Cardinality(s \ {x}) = Cardinality(s) - 1
                           /\ Cardinality(s) \in Nat
        BY <1>0, <3>2, <1>p, <1>q
      <4>2. Cardinality(s \ {x}) <= m
        BY <1>4, <2>1, <4>1
      <4>3. Sound(s \ {x})
        BY <1>4, <4>1, <4>2
      <4>4. PICK found \in Seq(S) : /\ found = it[s \ {x}] /\ ToSet(found) = S \cap Among(seq, s \ {x})
                                   /\ Len(found) <= Cardinality(s \ {x})
        BY <4>3
      <4>5. Among(seq, s) = Among(seq, s \ {x}) \cup {seq[x]}
        BY DEF Among
      <4>6. it[s] = IF seq[x] \in S THEN Append(found, seq[x]) ELSE found
        BY <1>2, <3>2, <4>1, <4>4 DEF ThoseStep
      <4>7. CASE seq[x] \in S
        <5>1. Append(found, seq[x]) \in Seq(S)
              /\ ToSet(Append(found, seq[x])) = ToSet(found) \cup {seq[x]}
          BY <4>7, AppendFound
        <5>2. Len(Append(found, seq[x])) = Len(found) + 1 /\ Len(found) \in Nat
          OBVIOUS
        <5>3. Len(it[s]) <= Cardinality(s)
          BY <4>1, <4>4, <4>6, <4>7, <5>2
        <5> QED
          BY <4>4, <4>5, <4>6, <4>7, <5>1, <5>3
      <4>8. CASE seq[x] \notin S
        <5>1. Len(it[s]) <= Cardinality(s)
          <6>1. Len(found) \in Nat /\ it[s] = found
            BY <4>6, <4>8
          <6> QED
            BY <4>1, <4>4, <6>1
        <5> QED
          BY <4>4, <4>5, <4>6, <4>8, <5>1
      <4> QED
        BY <4>7, <4>8
    <3> QED
      BY <3>1, <3>2
  <2> QED
    BY <1>4, <2>1
<1>5. K = Nat
  <2>1. K \in SUBSET Nat
    OBVIOUS
  <2> HIDE DEF K
  <2> QED
    BY <1>3, <1>4, <2>1, AllNaturals
<1>6. Sound(D) /\ Cardinality(D) <= n /\ Cardinality(D) \in Nat
  <2>1. Cardinality(D) \in K
    BY <1>0, <1>5, <1>p, <1>q
  <2> QED
    BY <1>0, <2>1, <1>p, <1>q
<1>7. Those(seq, S) = it[D]
  BY <1>0, <1>1, ThoseIs
<1>8. Among(seq, D) = ToSet(seq)
  BY <1>0 DEF Among, ToSet
<1>9. Len(it[D]) \in Nat
  BY <1>6
<1> QED
  BY <1>0, <1>6, <1>7, <1>8, <1>9

=============================================================================
