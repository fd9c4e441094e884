---------------------------- MODULE IngestionProofs ----------------------------
(***************************************************************************)
(* Proofs about IngestionPipeline for every set of background tasks, jobs  *)
(* and file lists, and for every bound.                                    *)
(*                                                                         *)
(* Twenty-four effects (Begins .. Succeeds) say what a step of a run can  *)
(* change, one lemma (StepMoves) that every step is a request, one effect  *)
(* of one run, a restart or a stutter.  Each invariant is then kept by     *)
(* cases on the effects:                                                   *)
(*                                                                         *)
(*   PlaceInv    where a run and its job can be                            *)
(*   Answered    a job that is processing has a run, or failures to show   *)
(*   Kept        what a rollback is to put back                            *)
(*   StoreInv    what a run's paths have committed and embedded            *)
(*   ContextInv  which contexts a session upload has, and who ends them    *)
(*   DomainInv   the domains                                               *)
(*                                                                         *)
(* That the chunks of an upload hold every narrative word and are neither  *)
(* too long nor empty (ChunksSound) is proved first, of the fold that cuts *)
(* them.                                                                   *)
(***************************************************************************)
EXTENDS IngestionPipeline, FoldProofs
-----------------------------------------------------------------------------
(* Flattening.                                                             *)

Told(seqs) == UNION {ToSet(seqs[i]) : i \in DOMAIN seqs}

FlatStep(seqs, i, it) == IF i = 1 THEN seqs[i] ELSE it[i - 1] \o seqs[i]
FlatOver(seqs, D) == CHOOSE it : it = [i \in D |-> FlatStep(seqs, i, it)]

LEMMA FlattenIs ==
    ASSUME NEW seqs, NEW n, n = Len(seqs), n # 0, NEW D, D = 1 .. n
    PROVE  FlattenSeq(seqs) = FlatOver(seqs, D)[n]
BY DEF FlattenSeq, FlatOver, FlatStep

LEMMA Flattens ==
    ASSUME NEW W, NEW seqs \in Seq(Seq(W))
    PROVE  \E f \in [0 .. Len(seqs) -> Seq(W)] :
              /\ f[0] = <<>> /\ FlattenSeq(seqs) = f[Len(seqs)]
              /\ \A i \in 1 .. Len(seqs) : f[i] = f[i - 1] \o seqs[i]
<1> DEFINE n == Len(seqs)
           D == 1 .. n
           F == [x \in Seq(W) \X Seq(W) |-> x[1] \o x[2]]
<1>0. n \in Nat /\ \A i \in D : seqs[i] \in Seq(W)
  OBVIOUS
<1>1. F \in [Seq(W) \X Seq(W) -> Seq(W)] /\ <<>> \in Seq(W)
  OBVIOUS
<1>2. \A u, v \in Seq(W) : F[<<u, v>>] = u \o v
  OBVIOUS
<1> HIDE DEF F
<1>3. PICK f \in [0 .. n -> Seq(W)] : Runs(f, F, <<>>, seqs)
  BY <1>1, RunExists
<1>4. f[0] = <<>> /\ \A i \in D : f[i] = f[i - 1] \o seqs[i]
  <2>1. f[0] = <<>> /\ \A i \in D : f[i] = F[<<f[i - 1], seqs[i]>>]
    BY <1>3 DEF Runs
  <2>2. \A i \in D : i - 1 \in 0 .. n
    BY <1>0
  <2>3. \A i \in D : f[i - 1] \in Seq(W)
    BY <1>3, <2>2
  <2> QED
    BY <1>0, <1>2, <2>1, <2>3
<1>5. \A i \in D : f[i] = FlatStep(seqs, i, f)
  <2>1. TAKE i \in D
  <2>2. f[i] = f[i - 1] \o seqs[i]
    BY <1>4
  <2>3. CASE i = 1
    <3>1. f[i] = <<>> \o seqs[1] /\ seqs[1] \in Seq(W)
      BY <1>0, <1>4, <2>2, <2>3
    <3>2. f[i] = seqs[1]
      BY <3>1
    <3> QED
      BY <2>3, <3>2 DEF FlatStep
  <2>4. CASE i # 1
    BY <2>2, <2>4 DEF FlatStep
  <2> QED
    BY <2>3, <2>4
<1>6. CASE n = 0
  <2>1. FlattenSeq(seqs) = <<>>
    BY <1>6 DEF FlattenSeq
  <2> QED
    BY <1>4, <1>6, <2>1
<1>7. CASE n # 0
  <2> DEFINE g == [i \in D |-> f[i]]
  <2>1. \A i \in D : FlatStep(seqs, i, g) = FlatStep(seqs, i, f)
    BY <1>0 DEF FlatStep
  <2>2. g = [i \in D |-> FlatStep(seqs, i, g)]
    BY <1>5, <2>1
  <2>3. PICK it : it = FlatOver(seqs, D)
    OBVIOUS
  <2> HIDE DEF g
  <2>4. it = [i \in D |-> FlatStep(seqs, i, it)]
    BY <2>2, <2>3 DEF FlatOver
  <2>5. \A i \in D : it[i] = FlatStep(seqs, i, it)
    BY <2>4, Zenon
  <2> DEFINE K == {m \in Nat : m + 1 \in D => it[m + 1] = f[m + 1]}
  <2>6. 0 \in K
    BY <1>5, <2>5 DEF FlatStep
  <2>7. ASSUME NEW m \in K
        PROVE  m + 1 \in K
    <3>1. CASE (m + 1) + 1 \in D
      <4>1. m + 1 \in D /\ (m + 1) + 1 # 1 /\ ((m + 1) + 1) - 1 = m + 1
        BY <1>0, <2>7, <3>1
      <4>2. it[m + 1] = f[m + 1]
        BY <2>7, <4>1
      <4> QED
        BY <1>5, <2>5, <3>1, <4>1, <4>2 DEF FlatStep
    <3> QED
      BY <3>1, <2>7
  <2>8. K = Nat
    <3> HIDE DEF K
    <3>1. K \in SUBSET Nat
      BY DEF K
    <3> QED
      BY <2>6, <2>7, <3>1, AllNaturals
  <2>9. PICK m \in Nat : m + 1 = n /\ m + 1 \in D
    <3>1. n - 1 \in Nat /\ (n - 1) + 1 = n /\ n \in D
      BY <1>0, <1>7
    <3> QED
      BY <3>1
  <2>10. it[n] = f[n]
    BY <2>8, <2>9
  <2>11. FlattenSeq(seqs) = it[n]
    BY <1>7, <2>3, FlattenIs
  <2> QED
    BY <1>4, <2>10, <2>11
<1> QED
  BY <1>6, <1>7

LEMMA FlattenAppend ==
    ASSUME NEW W, NEW seqs \in Seq(Seq(W)), NEW s \in Seq(W)
    PROVE  FlattenSeq(Append(seqs, s)) = FlattenSeq(seqs) \o s
<1> DEFINE n == Len(seqs)
           more == Append(seqs, s)
<1>0. /\ n \in Nat /\ more \in Seq(Seq(W)) /\ Len(more) = n + 1 /\ more[n + 1] = s
      /\ \A i \in 1 .. n : more[i] = seqs[i]
  OBVIOUS
<1> HIDE DEF more
<1>1. PICK f \in [0 .. n -> Seq(W)] :
         /\ f[0] = <<>> /\ FlattenSeq(seqs) = f[n]
         /\ \A i \in 1 .. n : f[i] = f[i - 1] \o seqs[i]
  BY Flattens
<1>2. PICK g \in [0 .. n + 1 -> Seq(W)] :
         /\ g[0] = <<>> /\ FlattenSeq(more) = g[n + 1]
         /\ \A i \in 1 .. n + 1 : g[i] = g[i - 1] \o more[i]
  <2>1. PICK k : k = n + 1 /\ k = Len(more)
    BY <1>0
  <2>2. PICK g \in [0 .. k -> Seq(W)] :
           /\ g[0] = <<>> /\ FlattenSeq(more) = g[k]
           /\ \A i \in 1 .. k : g[i] = g[i - 1] \o more[i]
    <3>1. \E g \in [0 .. Len(more) -> Seq(W)] :
             /\ g[0] = <<>> /\ FlattenSeq(more) = g[Len(more)]
             /\ \A i \in 1 .. Len(more) : g[i] = g[i - 1] \o more[i]
      BY <1>0, Flattens
    <3> QED
      BY <2>1, <3>1
  <2> QED
    BY <2>1, <2>2
<1> DEFINE K == {m \in Nat : m <= n => g[m] = f[m]}
<1>3. 0 \in K
  BY <1>1, <1>2
<1>4. ASSUME NEW m \in K
      PROVE  m + 1 \in K
  <2>1. CASE m + 1 <= n
    <3>1. /\ m + 1 \in 1 .. n /\ m + 1 \in 1 .. n + 1 /\ (m + 1) - 1 = m
          /\ g[m] = f[m] /\ more[m + 1] = seqs[m + 1] /\ m + 1 \in Nat
      BY <1>0, <1>4, <2>1
    <3>2. f[m + 1] = f[m] \o seqs[m + 1]
      BY <1>1, <3>1
    <3>3. g[m + 1] = g[m] \o more[m + 1]
      BY <1>2, <3>1
    <3> QED
      BY <3>1, <3>2, <3>3
  <2> QED
    BY <2>1, <1>4
<1>5. K = Nat
  <2> HIDE DEF K
  <2>1. K \in SUBSET Nat
    BY DEF K
  <2> QED
    BY <1>3, <1>4, <2>1, AllNaturals
<1>6. n \in K
  BY <1>0, <1>5
<1>7. g[n] = f[n] /\ g[n + 1] = g[n] \o more[n + 1]
  <2>1. n + 1 \in 1 .. n + 1 /\ (n + 1) - 1 = n /\ n <= n
    BY <1>0
  <2>2. g[n] = f[n]
    BY <1>6, <2>1
  <2>3. g[n + 1] = g[(n + 1) - 1] \o more[n + 1]
    BY <1>2, <2>1
  <2> QED
    BY <2>1, <2>2, <2>3
<1> QED
  BY <1>0, <1>1, <1>2, <1>7 DEF more

\* The words of the whole are those of its parts, and no part is longer.
LEMMA ConcatTold ==
    ASSUME NEW W, NEW u \in Seq(W), NEW v \in Seq(W)
    PROVE  /\ u \o v \in Seq(W) /\ Len(u \o v) = Len(u) + Len(v)
           /\ ToSet(u \o v) = ToSet(u) \cup ToSet(v)
<1>1. u \o v \in Seq(W) /\ Len(u \o v) = Len(u) + Len(v) /\ Len(u) \in Nat /\ Len(v) \in Nat
  OBVIOUS
<1>2. /\ DOMAIN u = 1 .. Len(u) /\ DOMAIN v = 1 .. Len(v)
      /\ DOMAIN (u \o v) = 1 .. Len(u) + Len(v)
  BY <1>1
<1>3. \A i \in 1 .. Len(u) : (u \o v)[i] = u[i]
  OBVIOUS
<1>4. \A i \in 1 .. Len(v) : (u \o v)[Len(u) + i] = v[i]
  OBVIOUS
<1>5. \A i \in 1 .. Len(u) + Len(v) :
         (u \o v)[i] = IF i <= Len(u) THEN u[i] ELSE v[i - Len(u)]
  OBVIOUS
<1>6. ToSet(u) \subseteq ToSet(u \o v)
  BY <1>1, <1>2, <1>3 DEF ToSet
<1>7. ToSet(v) \subseteq ToSet(u \o v)
  <2>1. \A i \in 1 .. Len(v) : Len(u) + i \in 1 .. Len(u) + Len(v)
    BY <1>1
  <2> QED
    BY <1>2, <1>4, <2>1 DEF ToSet
<1>8. ToSet(u \o v) \subseteq ToSet(u) \cup ToSet(v)
  <2>1. \A i \in 1 .. Len(u) + Len(v) : i \in 1 .. Len(u) \/ i - Len(u) \in 1 .. Len(v)
    BY <1>1
  <2> QED
    BY <1>1, <1>2, <1>5, <2>1 DEF ToSet
<1> QED
  BY <1>1, <1>6, <1>7, <1>8

LEMMA FlattenTold ==
    ASSUME NEW W, NEW seqs \in Seq(Seq(W))
    PROVE  /\ FlattenSeq(seqs) \in Seq(W) /\ ToSet(FlattenSeq(seqs)) = Told(seqs)
           /\ \A i \in DOMAIN seqs : Len(seqs[i]) <= Len(FlattenSeq(seqs))
<1> DEFINE n == Len(seqs)
           Some(m) == UNION {ToSet(seqs[i]) : i \in 1 .. m}
<1>0. n \in Nat /\ DOMAIN seqs = 1 .. n /\ \A i \in 1 .. n : seqs[i] \in Seq(W) /\ Len(seqs[i]) \in Nat
  OBVIOUS
<1>1. PICK f \in [0 .. n -> Seq(W)] :
         /\ f[0] = <<>> /\ FlattenSeq(seqs) = f[n]
         /\ \A i \in 1 .. n : f[i] = f[i - 1] \o seqs[i]
  BY Flattens
<1> DEFINE Good(m) == /\ ToSet(f[m]) = Some(m)
                      /\ \A i \in 1 .. m : Len(seqs[i]) <= Len(f[m])
           K == {m \in Nat : m <= n => Good(m)}
<1>2. 0 \in K
  <2>1. Some(0) = {}
    OBVIOUS
  <2>2. ToSet(f[0]) = {}
    BY <1>1 DEF ToSet
  <2> QED
    BY <2>1, <2>2
<1>3. ASSUME NEW m \in K
      PROVE  m + 1 \in K
  <2>1. CASE m + 1 <= n
    <3>1. m + 1 \in 1 .. n /\ (m + 1) - 1 = m /\ m \in 0 .. n /\ Good(m) /\ m \in Nat
      BY <1>0, <1>3, <2>1
    <3>2. PICK u \in Seq(W), v \in Seq(W) : u = f[m] /\ v = seqs[m + 1] /\ f[m + 1] = u \o v
      BY <1>0, <1>1, <3>1
    <3>3. /\ Len(u \o v) = Len(u) + Len(v) /\ ToSet(u \o v) = ToSet(u) \cup ToSet(v)
          /\ Len(u) \in Nat /\ Len(v) \in Nat
      BY ConcatTold
    <3>l. Len(f[m]) = Len(u) /\ Len(seqs[m + 1]) = Len(v) /\ Len(f[m + 1]) = Len(u) + Len(v)
      BY <3>2, <3>3
    <3>4. Some(m + 1) = Some(m) \cup ToSet(seqs[m + 1])
      <4>1. 1 .. (m + 1) = 1 .. m \cup {m + 1}
        BY <3>1
      <4> QED
        BY <4>1
    <3>5. ToSet(f[m + 1]) = Some(m + 1)
      <4> HIDE DEF Some
      <4> QED
        BY <3>1, <3>2, <3>3, <3>4
    <3>6. ASSUME NEW i \in 1 .. (m + 1)
          PROVE  Len(seqs[i]) <= Len(f[m + 1])
      <4>1. CASE i \in 1 .. m
        <5>1. Len(seqs[i]) <= Len(u) /\ Len(seqs[i]) \in Nat
          <6>1. i \in 1 .. n
            BY <1>0, <3>1, <4>1
          <6> QED
            BY <1>0, <3>1, <3>l, <4>1, <6>1
        <5> QED
          BY <3>3, <3>l, <5>1
      <4>2. CASE i = m + 1
        BY <3>3, <3>l, <4>2
      <4> QED
        BY <3>1, <4>1, <4>2
    <3> HIDE DEF Some
    <3> QED
      BY <3>1, <3>5, <3>6
  <2>2. CASE ~ (m + 1 <= n)
    <3> HIDE DEF Good
    <3> QED
      BY <2>2, <1>3
  <2> QED
    BY <2>1, <2>2
<1>4. K = Nat
  <2> HIDE DEF K
  <2>1. K \in SUBSET Nat
    BY DEF K
  <2> QED
    BY <1>2, <1>3, <2>1, AllNaturals
<1>5. Good(n)
  <2> HIDE DEF Good
  <2>1. n \in K
    BY <1>0, <1>4
  <2> QED
    BY <2>1, <1>0
<1>6. Some(n) = Told(seqs)
  BY <1>0 DEF Told
<1>7. f[n] \in Seq(W)
  <2>1. n \in 0 .. n
    BY <1>0
  <2> QED
    BY <1>1, <2>1
<1> QED
  BY <1>0, <1>1, <1>5, <1>6, <1>7

\* The parts of an appended sequence, and of two sequences.
LEMMA AppendTold ==
    ASSUME NEW S, NEW seqs \in Seq(S), NEW x \in S
    PROVE  Append(seqs, x) \in Seq(S) /\ Told(Append(seqs, x)) = Told(seqs) \cup ToSet(x)
<1>1. /\ Append(seqs, x) \in Seq(S) /\ Len(seqs) \in Nat
      /\ DOMAIN seqs = 1 .. Len(seqs) /\ DOMAIN Append(seqs, x) = 1 .. Len(seqs) + 1
  OBVIOUS
<1>2. /\ \A i \in 1 .. Len(seqs) : Append(seqs, x)[i] = seqs[i]
      /\ Append(seqs, x)[Len(seqs) + 1] = x
  OBVIOUS
<1>3. 1 .. Len(seqs) + 1 = 1 .. Len(seqs) \cup {Len(seqs) + 1}
  BY <1>1
<1> QED
  BY <1>1, <1>2, <1>3 DEF Told

LEMMA JoinTold ==
    ASSUME NEW S, NEW u \in Seq(S), NEW v \in Seq(S)
    PROVE  u \o v \in Seq(S) /\ Told(u \o v) = Told(u) \cup Told(v)
<1>1. /\ u \o v \in Seq(S) /\ Len(u) \in Nat /\ Len(v) \in Nat
      /\ DOMAIN u = 1 .. Len(u) /\ DOMAIN v = 1 .. Len(v)
      /\ DOMAIN (u \o v) = 1 .. Len(u) + Len(v)
  OBVIOUS
<1>2. \A i \in 1 .. Len(u) : (u \o v)[i] = u[i]
  OBVIOUS
<1>3. \A i \in 1 .. Len(v) : (u \o v)[Len(u) + i] = v[i]
  OBVIOUS
<1>4. \A i \in 1 .. Len(u) + Len(v) :
         \/ i \in 1 .. Len(u)
         \/ i - Len(u) \in 1 .. Len(v) /\ i = Len(u) + (i - Len(u))
  BY <1>1
<1>5. \A i \in 1 .. Len(u) : i \in 1 .. Len(u) + Len(v)
  BY <1>1
<1>6. \A i \in 1 .. Len(v) : Len(u) + i \in 1 .. Len(u) + Len(v)
  BY <1>1
<1>7. Told(u \o v) \subseteq Told(u) \cup Told(v)
  <2>1. ASSUME NEW i \in 1 .. Len(u) + Len(v)
        PROVE  ToSet((u \o v)[i]) \subseteq Told(u) \cup Told(v)
    <3>1. CASE i \in 1 .. Len(u)
      BY <1>1, <1>2, <3>1 DEF Told
    <3>2. CASE i - Len(u) \in 1 .. Len(v) /\ i = Len(u) + (i - Len(u))
      <4>1. PICK k \in 1 .. Len(v) : i = Len(u) + k
        BY <3>2
      <4> QED
        BY <1>1, <1>3, <4>1 DEF Told
    <3> QED
      BY <1>4, <3>1, <3>2
  <2> QED
    BY <1>1, <2>1 DEF Told
<1>8. Told(u) \subseteq Told(u \o v)
  BY <1>1, <1>2, <1>5 DEF Told
<1>9. Told(v) \subseteq Told(u \o v)
  BY <1>1, <1>3, <1>6 DEF Told
<1> QED
  BY <1>1, <1>7, <1>8, <1>9

-----------------------------------------------------------------------------
(* One turn of the chunker's loop.                                         *)

Sentences(W) == Seq(W) \ {<<>>}
ChunksIn(W) == {c \in Seq(W) : Len(c) \in 1 .. MaxTokens}
Opens(W) == {o \in Seq(Sentences(W)) : Len(Words(o)) <= MaxTokens}
States(W) == [chunks : Seq(ChunksIn(W)), open : Opens(W)]

LEMMA TextWords ==
    ASSUME NEW W, NEW text \in Seq(Sentences(W))
    PROVE  /\ text \in Seq(Seq(W)) /\ Words(text) \in Seq(W) /\ Len(Words(text)) \in Nat
           /\ ToSet(Words(text)) = Told(text)
           /\ \A i \in DOMAIN text : Len(text[i]) \in 1 .. Len(Words(text))
<1>1. text \in Seq(Seq(W))
  BY DEF Sentences
<1>2. \A i \in DOMAIN text : text[i] \in Seq(W) /\ text[i] # <<>>
  BY DEF Sentences
<1>3. \A i \in DOMAIN text : Len(text[i]) \in Nat /\ Len(text[i]) > 0
  BY <1>2
<1>4. /\ Words(text) \in Seq(W) /\ ToSet(Words(text)) = Told(text)
      /\ \A i \in DOMAIN text : Len(text[i]) <= Len(Words(text))
  BY <1>1, FlattenTold DEF Words
<1>5. Len(Words(text)) \in Nat
  BY <1>4
<1> QED
  BY <1>1, <1>3, <1>4, <1>5

LEMMA Flushed ==
    ASSUME NEW W, NEW chunks \in Seq(ChunksIn(W)), NEW open \in Opens(W)
    PROVE  /\ Flush(chunks, open) \in Seq(ChunksIn(W))
           /\ Told(Flush(chunks, open)) = Told(chunks) \cup Told(open)
<1>1. open \in Seq(Sentences(W)) /\ Len(Words(open)) <= MaxTokens
  BY DEF Opens
<1>2. CASE open = <<>>
  <2>1. Told(open) = {}
    BY <1>2 DEF Told
  <2> QED
    BY <1>2, <2>1 DEF Flush
<1>3. CASE open # <<>>
  <2>1. 1 \in DOMAIN open
    BY <1>1, <1>3
  <2>2. /\ Words(open) \in Seq(W) /\ Len(Words(open)) \in Nat
        /\ Len(open[1]) \in 1 .. Len(Words(open)) /\ ToSet(Words(open)) = Told(open)
    BY <1>1, <2>1, TextWords
  <2>3. PICK x : x = Words(open)
    OBVIOUS
  <2>4. x \in ChunksIn(W)
    BY <1>1, <2>2, <2>3, ChunkAssumption DEF ChunksIn
  <2>5. /\ Append(chunks, x) \in Seq(ChunksIn(W))
        /\ Told(Append(chunks, x)) = Told(chunks) \cup ToSet(x)
    BY <2>4, AppendTold
  <2> QED
    BY <1>3, <2>2, <2>3, <2>5 DEF Flush
<1> QED
  BY <1>2, <1>3

LEMMA Carried ==
    ASSUME NEW W, NEW open \in Opens(W)
    PROVE  /\ OverlapSentences(open) \in Opens(W)
           /\ Told(OverlapSentences(open)) \subseteq Told(open)
<1>1. open \in Seq(Sentences(W)) /\ Len(Words(open)) <= MaxTokens
  BY DEF Opens
<1>2. CASE open = <<>>
  BY <1>2 DEF OverlapSentences
<1>3. CASE open # <<>>
  <2> DEFINE n == Len(open)
             From(i) == SubSeq(open, i, n)
             starts == {i \in DOMAIN open : i = n \/ Len(Words(From(i))) <= OverlapTokens}
  <2>1. n \in Nat /\ n >= 1 /\ DOMAIN open = 1 .. n
    BY <1>1, <1>3
  <2>2. n \in starts /\ starts \in SUBSET Nat
    BY <2>1
  <2>3. \E i \in starts : \A j \in starts : i <= j
    <3> HIDE DEF starts
    <3> QED
      BY <2>2, LeastNatural
  <2>4. PICK i : i = CHOOSE k \in starts : \A j \in starts : k <= j
    OBVIOUS
  <2>5. i \in starts
    <3> HIDE DEF starts
    <3> QED
      BY <2>3, <2>4
  <2>6. OverlapSentences(open) = From(i)
    BY <1>3, <2>4 DEF OverlapSentences
  <2>7. i \in 1 .. n
    BY <2>1, <2>5
  <2>8. /\ From(i) \in Seq(Sentences(W)) /\ Len(From(i)) = n - i + 1
        /\ \A k \in 1 .. n - i + 1 : From(i)[k] = open[i + k - 1]
    BY <1>1, <2>1, <2>7
  <2>9. Told(From(i)) \subseteq Told(open)
    <3>1. DOMAIN From(i) = 1 .. n - i + 1
      BY <2>8
    <3>2. \A k \in 1 .. n - i + 1 : i + k - 1 \in 1 .. n
      BY <2>1, <2>7
    <3> HIDE DEF From
    <3> QED
      BY <2>1, <2>8, <3>1, <3>2 DEF Told
  <2>10. Len(Words(From(i))) <= MaxTokens
    <3>1. CASE i = n
      <4>1. Len(open[n]) <= Len(Words(open)) /\ Len(open[n]) \in Nat /\ Len(Words(open)) \in Nat
            /\ open[n] \in Seq(W)
        BY <1>1, <2>1, TextWords
      <4>2. Len(From(i)) = 1 /\ From(i)[1] = open[n]
        BY <2>1, <2>8, <3>1
      <4>3. FlattenSeq(From(i)) = open[n]
        <5>1. PICK s \in Seq(Seq(W)) : s = From(i)
          BY <2>8, TextWords
        <5>2. PICK f \in [0 .. Len(s) -> Seq(W)] :
                 /\ f[0] = <<>> /\ FlattenSeq(s) = f[Len(s)]
                 /\ \A k \in 1 .. Len(s) : f[k] = f[k - 1] \o s[k]
          BY Flattens
        <5>3. Len(s) = 1 /\ s[1] = open[n]
          BY <4>2, <5>1
        <5>4. FlattenSeq(s) = <<>> \o open[n]
          <6>1. 1 \in 1 .. Len(s) /\ f[Len(s)] = f[1] /\ 1 - 1 = 0
            BY <5>3
          <6>2. f[1] = f[1 - 1] \o s[1]
            BY <5>2, <6>1
          <6> QED
            BY <5>2, <5>3, <6>1, <6>2
        <5>5. <<>> \o open[n] = open[n]
          BY <4>1
        <5> QED
          BY <5>1, <5>4, <5>5
      <4> QED
        BY <1>1, <4>1, <4>3, ChunkAssumption DEF Words
    <3>2. CASE i # n
      <4>1. Len(Words(From(i))) <= OverlapTokens
        BY <2>5, <3>2
      <4>2. Len(Words(From(i))) \in Nat
        BY <2>8, TextWords
      <4> QED
        BY <4>1, <4>2, ChunkAssumption
    <3> QED
      BY <3>1, <3>2
  <2> QED
    BY <2>6, <2>8, <2>9, <2>10 DEF Opens
<1> QED
  BY <1>2, <1>3

\* A sentence that fits is added whole.
LEMMA SentenceAdded ==
    ASSUME NEW W, NEW open \in Opens(W), NEW sentence \in Sentences(W), Fits(open, sentence)
    PROVE  /\ Append(open, sentence) \in Opens(W)
           /\ Told(Append(open, sentence)) = Told(open) \cup ToSet(sentence)
<1>1. open \in Seq(Sentences(W)) /\ open \in Seq(Seq(W)) /\ sentence \in Seq(W)
      /\ Words(open) \in Seq(W)
  BY TextWords DEF Opens, Sentences
<1>2. /\ Append(open, sentence) \in Seq(Sentences(W))
      /\ Told(Append(open, sentence)) = Told(open) \cup ToSet(sentence)
  BY <1>1, AppendTold
<1>3. Words(Append(open, sentence)) = Words(open) \o sentence
  BY <1>1, FlattenAppend DEF Words
<1>4. Len(Words(Append(open, sentence))) = Len(Words(open)) + Len(sentence)
  BY <1>1, <1>3
<1> QED
  BY <1>2, <1>4 DEF Opens, Fits

LEMMA Cut ==
    ASSUME NEW W, NEW sentence \in Seq(W), Len(sentence) > MaxTokens
    PROVE  /\ ForceSplitWords(sentence) \in Seq(ChunksIn(W))
           /\ Told(ForceSplitWords(sentence)) = ToSet(sentence)
<1> DEFINE n == Len(sentence)
           m == Pieces(n)
           q == (n - MaxTokens + Stride - 1) \div Stride
           first(i) == (i - 1) * Stride + 1
           last(i) == Smaller((i - 1) * Stride + MaxTokens, n)
           cut == ForceSplitWords(sentence)
<1>1. n \in Nat /\ Stride \in Nat /\ Stride > 0 /\ Stride <= MaxTokens /\ n > MaxTokens
      /\ MaxTokens \in Nat
  BY ChunkAssumption DEF Stride
<1>2. m = 1 + q
  BY <1>1 DEF Pieces
<1>3. q \in Nat /\ q * Stride <= n - MaxTokens + Stride - 1 /\ q * Stride + Stride > n - MaxTokens + Stride - 1
  <2>1. PICK a \in Nat : a = n - MaxTokens + Stride - 1
    <3>1. n - MaxTokens + Stride - 1 \in Nat
      BY <1>1
    <3> QED
      BY <3>1
  <2>2. PICK b \in Nat : b = Stride /\ b > 0
    BY <1>1
  <2>3. a \div b \in Nat /\ (a \div b) * b <= a /\ (a \div b) * b + b > a
    BY <2>2
  <2> QED
    BY <2>1, <2>2, <2>3
<1> HIDE DEF q
<1>4. m \in Nat /\ DOMAIN cut = 1 .. m /\ cut = [i \in 1 .. m |-> SubSeq(sentence, first(i), last(i))]
  BY <1>2, <1>3 DEF ForceSplitWords
<1>5. ASSUME NEW i \in 1 .. m
      PROVE  /\ first(i) \in 1 .. n /\ last(i) \in first(i) .. n
             /\ last(i) - first(i) + 1 <= MaxTokens
  <2>1. i - 1 \in Nat /\ i - 1 <= q
    BY <1>2, <1>3, <1>4
  <2>2. (i - 1) * Stride \in Nat /\ (i - 1) * Stride <= q * Stride
    BY <1>1, <1>3, <2>1
  <2>3. PICK k \in Nat : k = (i - 1) * Stride
    BY <2>2
  <2>4. k < n
    <3>1. PICK z \in Nat : z = q * Stride
      BY <1>1, <1>3
    <3>2. k <= z /\ z <= n - MaxTokens + Stride - 1
      BY <1>3, <2>2, <2>3, <3>1
    <3> QED
      BY <1>1, <3>2
  <2>5. first(i) = k + 1 /\ last(i) = Smaller(k + MaxTokens, n)
    BY <2>3
  <2> HIDE DEF first, last
  <2> QED
    BY <1>1, <2>4, <2>5 DEF Smaller
<1>6. ASSUME NEW i \in 1 .. m
      PROVE  /\ cut[i] \in ChunksIn(W) /\ ToSet(cut[i]) = {sentence[p] : p \in first(i) .. last(i)}
  <2>1. PICK a \in 1 .. n, b \in 1 .. n : a = first(i) /\ b = last(i) /\ a <= b /\ b - a + 1 <= MaxTokens
    BY <1>5
  <2>2. cut[i] = SubSeq(sentence, a, b)
    BY <1>4, <2>1
  <2>3. PICK c : c = cut[i]
    OBVIOUS
  <2>4. /\ c \in Seq(W) /\ Len(c) = b - a + 1
        /\ \A k \in 1 .. b - a + 1 : c[k] = sentence[a + k - 1]
    BY <1>1, <2>1, <2>2, <2>3
  <2>5. c \in ChunksIn(W)
    BY <1>1, <2>1, <2>4 DEF ChunksIn
  <2>6. DOMAIN c = 1 .. b - a + 1
    BY <2>4
  <2>7. \A k \in 1 .. b - a + 1 : a + k - 1 \in a .. b
    BY <1>1, <2>1
  <2>8. \A p \in a .. b : p - a + 1 \in 1 .. b - a + 1 /\ a + (p - a + 1) - 1 = p
    BY <1>1, <2>1
  <2>9. ToSet(c) = {sentence[p] : p \in a .. b}
    <3>1. ToSet(c) = {c[k] : k \in 1 .. b - a + 1}
      BY <2>6 DEF ToSet
    <3>2. ASSUME NEW x \in ToSet(c)
          PROVE  x \in {sentence[p] : p \in a .. b}
      <4>1. PICK k \in 1 .. b - a + 1 : x = c[k]
        BY <3>1, <3>2
      <4> QED
        BY <2>4, <2>7, <4>1
    <3>3. ASSUME NEW p \in a .. b
          PROVE  sentence[p] \in ToSet(c)
      <4>1. PICK k \in 1 .. b - a + 1 : a + k - 1 = p
        BY <2>8
      <4>2. c[k] = sentence[p]
        BY <2>4, <4>1
      <4> QED
        BY <3>1, <4>2
    <3> QED
      BY <3>2, <3>3
  <2> QED
    BY <2>1, <2>3, <2>5, <2>9
<1>7. cut \in Seq(ChunksIn(W))
  <2> HIDE DEF cut, m
  <2>1. \A i \in 1 .. m : cut[i] \in ChunksIn(W)
    BY <1>6
  <2>2. cut = [i \in 1 .. m |-> cut[i]]
    BY <1>4
  <2>3. cut \in [1 .. m -> ChunksIn(W)]
    BY <2>1, <2>2
  <2> QED
    BY <1>4, <2>3
<1>8. ToSet(sentence) = {sentence[p] : p \in 1 .. n}
  BY DEF ToSet
<1>9. Told(cut) \subseteq ToSet(sentence)
  <2>1. ASSUME NEW i \in 1 .. m
        PROVE  ToSet(cut[i]) \subseteq ToSet(sentence)
    <3>1. \A p \in first(i) .. last(i) : p \in 1 .. n
      <4>1. PICK a \in 1 .. n, b \in 1 .. n : a = first(i) /\ b = last(i) /\ a <= b
        BY <1>5
      <4> QED
        BY <1>1, <4>1
    <3>2. PICK x : x = cut[i]
      OBVIOUS
    <3>3. PICK a, b : a = first(i) /\ b = last(i)
      OBVIOUS
    <3>4. ToSet(x) = {sentence[p] : p \in a .. b} /\ \A p \in a .. b : p \in 1 .. n
      BY <1>6, <3>1, <3>2, <3>3
    <3>5. ToSet(x) \subseteq ToSet(sentence)
      BY <1>8, <3>4
    <3> QED
      BY <3>2, <3>5
  <2> HIDE DEF cut, m
  <2> QED
    BY <1>4, <2>1 DEF Told
<1>10. ASSUME NEW p \in 1 .. n
       PROVE  \E i \in 1 .. m : p \in first(i) .. last(i)
  <2>1. PICK k \in Nat : k * Stride <= p - 1 /\ k * Stride + Stride > p - 1
    <3>1. PICK a \in Nat : a = p - 1
      BY <1>1
    <3>2. PICK b \in Nat : b = Stride /\ b > 0
      BY <1>1
    <3>3. a \div b \in Nat /\ (a \div b) * b <= a /\ (a \div b) * b + b > a
      BY <3>2
    <3> QED
      BY <3>1, <3>2, <3>3
  <2>2. CASE k <= q
    <3>1. k + 1 \in 1 .. m /\ (k + 1) - 1 = k
      BY <1>2, <1>3, <2>2
    <3>2. PICK z \in Nat : z = k * Stride
      BY <1>1
    <3>3. first(k + 1) = z + 1 /\ last(k + 1) = Smaller(z + MaxTokens, n)
      BY <3>1, <3>2
    <3>4. z <= p - 1 /\ z + Stride > p - 1
      BY <2>1, <3>2
    <3>5. p \in z + 1 .. Smaller(z + MaxTokens, n)
      BY <1>1, <3>4 DEF Smaller
    <3> QED
      BY <3>1, <3>3, <3>5
  <2>3. CASE ~ (k <= q)
    <3>1. q + 1 \in 1 .. m /\ (q + 1) - 1 = q
      BY <1>2, <1>3
    <3>2. PICK z \in Nat : z = q * Stride
      BY <1>1, <1>3
    <3>3. first(q + 1) = z + 1 /\ last(q + 1) = Smaller(z + MaxTokens, n)
      BY <3>1, <3>2
    <3>4. q * Stride <= k * Stride
      BY <1>1, <1>3, <2>3
    <3>5. z <= p - 1
      BY <2>1, <3>2, <3>4, <1>1
    <3>6. z + MaxTokens >= n
      BY <1>1, <1>3, <3>2
    <3>7. p \in z + 1 .. Smaller(z + MaxTokens, n)
      BY <1>1, <3>5, <3>6 DEF Smaller
    <3> QED
      BY <3>1, <3>3, <3>7
  <2> QED
    BY <2>2, <2>3
<1>11. ToSet(sentence) \subseteq Told(cut)
  <2> HIDE DEF cut, m, first, last
  <2>1. ASSUME NEW p \in 1 .. n
        PROVE  sentence[p] \in Told(cut)
    <3>1. PICK i \in 1 .. m : p \in first(i) .. last(i)
      BY <1>10
    <3>2. sentence[p] \in ToSet(cut[i])
      BY <1>6, <3>1
    <3> QED
      BY <1>4, <3>2 DEF Told
  <2> QED
    BY <1>8, <2>1
<1> QED
  BY <1>7, <1>9, <1>11

\* A turn of the loop keeps every word, and every chunk within the limit.
LEMMA Taken ==
    ASSUME NEW W, NEW st \in States(W), NEW sentence \in Sentences(W)
    PROVE  LET new == TakeSentence(st, sentence) IN
           /\ new \in States(W)
           /\ Told(st.chunks) \cup Told(st.open) \cup ToSet(sentence)
                 \subseteq Told(new.chunks) \cup Told(new.open)
<1> DEFINE carried == OverlapSentences(st.open)
           flushed == Flush(st.chunks, st.open)
<1>1. st.chunks \in Seq(ChunksIn(W)) /\ st.open \in Opens(W)
      /\ st = [chunks |-> st.chunks, open |-> st.open] /\ sentence \in Seq(W)
  BY DEF States, Sentences
<1>2. carried \in Opens(W) /\ Told(carried) \subseteq Told(st.open)
  BY <1>1, Carried
<1>3. flushed \in Seq(ChunksIn(W)) /\ Told(flushed) = Told(st.chunks) \cup Told(st.open)
  BY <1>1, Flushed
<1> HIDE DEF carried, flushed
<1>4. PICK both : both = Flush(flushed, carried)
  OBVIOUS
<1>5. both \in Seq(ChunksIn(W)) /\ Told(both) = Told(flushed) \cup Told(carried)
  BY <1>2, <1>3, <1>4, Flushed
<1>6. CASE Fits(st.open, sentence)
  <2>1. PICK open \in Opens(W) : open = Append(st.open, sentence)
                                /\ Told(open) = Told(st.open) \cup ToSet(sentence)
    BY <1>1, <1>6, SentenceAdded
  <2>2. TakeSentence(st, sentence) = [chunks |-> st.chunks, open |-> open]
    BY <1>1, <1>6, <2>1 DEF TakeSentence
  <2> QED
    BY <1>1, <2>1, <2>2 DEF States
<1>7. CASE ~ Fits(st.open, sentence) /\ Fits(carried, sentence)
  <2>1. PICK open \in Opens(W) : open = Append(carried, sentence)
                                /\ Told(open) = Told(carried) \cup ToSet(sentence)
    BY <1>2, <1>7, SentenceAdded
  <2>2. TakeSentence(st, sentence) = [chunks |-> flushed, open |-> open]
    BY <1>7, <2>1 DEF TakeSentence, carried, flushed
  <2> QED
    BY <1>3, <2>1, <2>2 DEF States
<1>8. CASE ~ Fits(st.open, sentence) /\ ~ Fits(carried, sentence) /\ Len(sentence) <= MaxTokens
  <2>1. PICK open : open = <<sentence>>
    OBVIOUS
  <2>2. open = Append(<<>>, sentence) /\ <<>> \in Opens(W) /\ Fits(<<>>, sentence)
    <3>1. Words(<<>>) = <<>> /\ Len(Words(<<>>)) = 0
      BY DEF Words, FlattenSeq
    <3>2. <<>> \in Opens(W)
      BY <3>1, ChunkAssumption DEF Opens
    <3>3. Len(sentence) \in Nat
      BY <1>1
    <3> QED
      BY <1>8, <2>1, <3>1, <3>2, <3>3 DEF Fits
  <2>3. open \in Opens(W) /\ ToSet(sentence) \subseteq Told(open)
    BY <2>2, SentenceAdded
  <2>4. TakeSentence(st, sentence) = [chunks |-> both, open |-> open]
    BY <1>4, <1>8, <2>1 DEF TakeSentence, carried, flushed
  <2> QED
    BY <1>3, <1>5, <2>3, <2>4 DEF States
<1>9. CASE ~ Fits(st.open, sentence) /\ ~ Fits(carried, sentence) /\ ~ (Len(sentence) <= MaxTokens)
  <2>1. PICK cut : cut = ForceSplitWords(sentence)
    OBVIOUS
  <2>2. Len(sentence) > MaxTokens
    BY <1>1, <1>9, ChunkAssumption
  <2>3. cut \in Seq(ChunksIn(W)) /\ Told(cut) = ToSet(sentence)
    BY <1>1, <2>1, <2>2, Cut
  <2>4. both \o cut \in Seq(ChunksIn(W)) /\ Told(both \o cut) = Told(both) \cup Told(cut)
    BY <1>5, <2>3, JoinTold
  <2>5. PICK open : open = <<>>
    OBVIOUS
  <2>6. open \in Opens(W)
    BY <2>5, ChunkAssumption DEF Opens, Words, FlattenSeq
  <2>7. TakeSentence(st, sentence) = [chunks |-> both \o cut, open |-> open]
    BY <1>4, <1>9, <2>1, <2>5 DEF TakeSentence, carried, flushed
  <2> QED
    BY <1>3, <1>5, <2>3, <2>4, <2>6, <2>7 DEF States
<1> QED
  BY <1>6, <1>7, <1>8, <1>9

-----------------------------------------------------------------------------
(* The whole text, and the sections.                                       *)

Start == [chunks |-> <<>>, open |-> <<>>]
TakeStep(text, s, it) ==
    IF s = {} THEN Start ELSE TakeSentence(it[s \ {Max(s)}], text[Max(s)])
TakeOver(text, D) == CHOOSE it : it = [s \in SUBSET D |-> TakeStep(text, s, it)]

LEMMA SplitIs ==
    ASSUME NEW text, NEW D, D = DOMAIN text, NEW last, last = TakeOver(text, D)[D]
    PROVE  SplitWithOverlap(text) = Flush(last.chunks, last.open)
BY DEF SplitWithOverlap, FoldLeft, MapThenFoldSet, TakeOver, TakeStep, Start

LEMMA SplitKeeps ==
    ASSUME NEW W, NEW text \in Seq(Sentences(W))
    PROVE  /\ SplitWithOverlap(text) \in Seq(ChunksIn(W))
           /\ Told(text) \subseteq Told(SplitWithOverlap(text))
<1> DEFINE n == Len(text)
           D == 1 .. n
           F == [x \in States(W) \X Sentences(W) |-> TakeSentence(x[1], x[2])]
<1>0. n \in Nat /\ DOMAIN text = D /\ \A i \in D : text[i] \in Sentences(W)
  OBVIOUS
<1>1. F \in [States(W) \X Sentences(W) -> States(W)]
  BY Taken
<1>2. \A st \in States(W) : \A s \in Sentences(W) : F[<<st, s>>] = TakeSentence(st, s)
  OBVIOUS
<1>3. Start \in States(W)
  <2>1. <<>> \in Opens(W)
    BY ChunkAssumption DEF Opens, Words, FlattenSeq
  <2> QED
    BY <2>1 DEF Start, States
<1> HIDE DEF F
<1>4. PICK g \in [SUBSET D -> States(W)] : Folds(g, F, Start, text)
  BY <1>1, <1>3, FoldExists
<1>q. \A s \in SUBSET D : s # {} => Max(s) \in s /\ s \ {Max(s)} \in SUBSET D
  BY <1>0, Parts
<1>5. ASSUME NEW s \in SUBSET D
      PROVE  g[s] = TakeStep(text, s, g)
  <2>1. CASE s = {}
    BY <1>4, <2>1 DEF Folds, Folding, TakeStep
  <2>2. CASE s # {}
    <3>1. PICK m \in s : m = Max(s) /\ s \ {m} \in SUBSET D
      BY <1>q, <2>2
    <3>2. PICK st \in States(W) : st = g[s \ {m}]
      BY <1>4, <3>1
    <3>3. text[m] \in Sentences(W)
      BY <1>0, <3>1
    <3>4. g[s] = F[<<st, text[m]>>]
      BY <1>4, <2>2, <3>1, <3>2 DEF Folds, Folding
    <3>5. g[s] = TakeSentence(st, text[m])
      BY <1>2, <3>3, <3>4
    <3> QED
      BY <2>2, <3>1, <3>2, <3>5 DEF TakeStep
  <2> QED
    BY <2>1, <2>2
<1>6. g = [s \in SUBSET D |-> TakeStep(text, s, g)]
  BY <1>4, <1>5
<1>7. PICK it : it = TakeOver(text, D)
  OBVIOUS
<1>8. it = [s \in SUBSET D |-> TakeStep(text, s, it)]
  BY <1>6, <1>7 DEF TakeOver
<1>9. \A s \in SUBSET D : it[s] = TakeStep(text, s, it)
  BY <1>8, Zenon
<1>10. it[{}] = Start
  BY <1>9 DEF TakeStep
<1>11. ASSUME NEW s \in SUBSET D, s # {}, it[s \ {Max(s)}] \in States(W)
       PROVE  it[s] = F[<<it[s \ {Max(s)}], text[Max(s)]>>]
  <2>1. text[Max(s)] \in Sentences(W)
    BY <1>0, <1>11, <1>q
  <2>2. it[s] = TakeSentence(it[s \ {Max(s)}], text[Max(s)])
    BY <1>9, <1>11 DEF TakeStep
  <2> QED
    BY <1>2, <1>11, <2>1, <2>2
<1>f. Follows(it, States(W), F, Start, text)
  BY <1>10, <1>11 DEF Follows
<1>12. PICK f \in [0 .. n -> States(W)] : Runs(f, F, Start, text) /\ f[n] = it[D]
  <2>1. \E f \in [0 .. Len(text) -> States(W)] :
           Runs(f, F, Start, text) /\ Reaches(f, it, text)
    BY <1>1, <1>3, <1>f, FoldRuns
  <2> QED
    BY <2>1 DEF Reaches
<1>13. f[0] = Start /\ \A i \in D : f[i - 1] \in States(W) /\ f[i] = TakeSentence(f[i - 1], text[i])
  <2>1. f[0] = Start /\ \A i \in D : f[i] = F[<<f[i - 1], text[i]>>]
    BY <1>12 DEF Runs
  <2>2. \A i \in D : i - 1 \in 0 .. n
    BY <1>0
  <2>3. \A i \in D : f[i - 1] \in States(W)
    BY <1>12, <2>2
  <2> QED
    BY <1>0, <1>2, <2>1, <2>3
<1> DEFINE Have(m) == Told(f[m].chunks) \cup Told(f[m].open)
           Some(m) == UNION {ToSet(text[i]) : i \in 1 .. m}
           K == {m \in Nat : m <= n => Some(m) \subseteq Have(m)}
<1>14. 0 \in K
  OBVIOUS
<1>15. ASSUME NEW m \in K
       PROVE  m + 1 \in K
  <2>1. CASE m + 1 <= n
    <3>1. m + 1 \in D /\ (m + 1) - 1 = m /\ m \in Nat /\ Some(m) \subseteq Have(m)
      BY <1>0, <1>15, <2>1
    <3>2. PICK st \in States(W), s \in Sentences(W), new \in States(W) :
             st = f[m] /\ s = text[m + 1] /\ new = f[m + 1] /\ new = TakeSentence(st, s)
      <4>1. f[m] \in States(W) /\ f[m + 1] = TakeSentence(f[m], text[m + 1])
        BY <1>13, <3>1
      <4>2. m + 1 \in 0 .. n
        BY <3>1
      <4> QED
        BY <1>0, <1>12, <3>1, <4>1, <4>2
    <3>3. Told(st.chunks) \cup Told(st.open) \cup ToSet(s) \subseteq Told(new.chunks) \cup Told(new.open)
      BY <3>2, Taken
    <3>4. Some(m + 1) = Some(m) \cup ToSet(text[m + 1])
      <4>1. 1 .. (m + 1) = 1 .. m \cup {m + 1}
        BY <3>1
      <4> QED
        BY <4>1
    <3> HIDE DEF Some
    <3>5. Some(m + 1) \subseteq Have(m + 1)
      BY <3>1, <3>2, <3>3, <3>4
    <3> QED
      BY <3>1, <3>5
  <2>2. CASE ~ (m + 1 <= n)
    BY <2>2, <1>15
  <2> QED
    BY <2>1, <2>2
<1>16. K = Nat
  <2> HIDE DEF K
  <2>1. K \in SUBSET Nat
    BY DEF K
  <2> QED
    BY <1>14, <1>15, <2>1, AllNaturals
<1>17. Some(n) \subseteq Have(n)
  <2> HIDE DEF Some, Have
  <2>1. n \in K
    BY <1>0, <1>16
  <2> QED
    BY <2>1, <1>0
<1>18. PICK last \in States(W) : last = f[n]
  <2>1. n \in 0 .. n
    BY <1>0
  <2> QED
    BY <1>12, <2>1
<1>19. SplitWithOverlap(text) = Flush(last.chunks, last.open)
  BY <1>0, <1>7, <1>12, <1>18, SplitIs
<1>20. last.chunks \in Seq(ChunksIn(W)) /\ last.open \in Opens(W)
  BY DEF States
<1>21. /\ Flush(last.chunks, last.open) \in Seq(ChunksIn(W))
       /\ Told(Flush(last.chunks, last.open)) = Told(last.chunks) \cup Told(last.open)
  BY <1>20, Flushed
<1>22. Some(n) = Told(text)
  BY <1>0 DEF Told
<1> QED
  BY <1>17, <1>18, <1>19, <1>21, <1>22

LEMMA TextSplit ==
    ASSUME NEW W, NEW text \in Seq(Sentences(W))
    PROVE  SplitText(text) \in Seq(ChunksIn(W)) /\ Told(text) \subseteq Told(SplitText(text))
<1>1. /\ Words(text) \in Seq(W) /\ Len(Words(text)) \in Nat /\ ToSet(Words(text)) = Told(text)
  BY TextWords
<1>2. CASE Words(text) = <<>>
  <2>1. ToSet(Words(text)) = {}
    BY <1>2 DEF ToSet
  <2> QED
    BY <1>1, <1>2, <2>1 DEF SplitText
<1>3. CASE Words(text) # <<>> /\ Len(Words(text)) <= MaxTokens
  <2>1. PICK x \in Seq(W) : x = Words(text)
    BY <1>1
  <2>2. x \in ChunksIn(W)
    BY <1>1, <1>3, <2>1 DEF ChunksIn
  <2>3. PICK one : one = <<x>>
    OBVIOUS
  <2>4. one \in Seq(ChunksIn(W)) /\ DOMAIN one = {1} /\ one[1] = x
    BY <2>2, <2>3
  <2>5. Told(one) = ToSet(x)
    BY <2>4 DEF Told
  <2> QED
    BY <1>1, <1>3, <2>1, <2>3, <2>4, <2>5 DEF SplitText
<1>4. CASE Words(text) # <<>> /\ ~ (Len(Words(text)) <= MaxTokens)
  BY <1>4, SplitKeeps DEF SplitText
<1> QED
  BY <1>2, <1>3, <1>4

LEMMA ToldIs ==
    ASSUME NEW seqs
    PROVE  Told(seqs) = UNION {ToSet(x) : x \in ToSet(seqs)}
<1>1. ASSUME NEW w \in Told(seqs)
      PROVE  w \in UNION {ToSet(x) : x \in ToSet(seqs)}
  <2>1. PICK i \in DOMAIN seqs : w \in ToSet(seqs[i])
    BY Zenon DEF Told
  <2>2. PICK x : x = seqs[i] /\ x \in ToSet(seqs)
    BY DEF ToSet
  <2>3. w \in ToSet(x)
    BY <2>1, <2>2
  <2> QED
    BY <2>2, <2>3, Zenon
<1>2. ASSUME NEW w \in UNION {ToSet(x) : x \in ToSet(seqs)}
      PROVE  w \in Told(seqs)
  <2>1. PICK x \in ToSet(seqs) : w \in ToSet(x)
    BY <1>2, Zenon
  <2>2. PICK i \in DOMAIN seqs : x = seqs[i]
    BY DEF ToSet
  <2>3. w \in ToSet(seqs[i])
    BY <2>1, <2>2
  <2> QED
    BY <2>3, Zenon DEF Told
<1> QED
  BY <1>1, <1>2

\* A flattened sequence tells what its parts tell.
LEMMA FlattenTells ==
    ASSUME NEW S, NEW seqs \in Seq(Seq(S))
    PROVE  /\ FlattenSeq(seqs) \in Seq(S)
           /\ ToSet(FlattenSeq(seqs)) = Told(seqs)
           /\ Told(FlattenSeq(seqs)) = UNION {Told(seqs[i]) : i \in DOMAIN seqs}
<1>1. PICK all \in Seq(S) : all = FlattenSeq(seqs) /\ ToSet(all) = Told(seqs)
  BY FlattenTold
<1>2. Told(all) = UNION {ToSet(x) : x \in ToSet(all)}
  BY ToldIs
<1>3. \A i \in DOMAIN seqs : Told(seqs[i]) = UNION {ToSet(x) : x \in ToSet(seqs[i])}
  BY ToldIs
<1>4. UNION {ToSet(x) : x \in Told(seqs)} = UNION {Told(seqs[i]) : i \in DOMAIN seqs}
  <2>1. \A x : x \in Told(seqs) <=> \E i \in DOMAIN seqs : x \in ToSet(seqs[i])
    BY Zenon DEF Told
  <2>2. \A w : w \in UNION {ToSet(x) : x \in Told(seqs)}
                 <=> \E i \in DOMAIN seqs : \E x \in ToSet(seqs[i]) : w \in ToSet(x)
    BY <2>1, Zenon
  <2>3. \A w : w \in UNION {Told(seqs[i]) : i \in DOMAIN seqs}
                 <=> \E i \in DOMAIN seqs : \E x \in ToSet(seqs[i]) : w \in ToSet(x)
    <3>1. ASSUME NEW i \in DOMAIN seqs, NEW w
          PROVE  w \in Told(seqs[i]) <=> \E x \in ToSet(seqs[i]) : w \in ToSet(x)
      <4>1. PICK told, parts : told = Told(seqs[i]) /\ parts = ToSet(seqs[i])
        OBVIOUS
      <4>2. told = UNION {ToSet(x) : x \in parts}
        BY <1>3, <4>1
      <4>3. w \in told <=> \E x \in parts : w \in ToSet(x)
        BY <4>2, Zenon
      <4> QED
        BY <4>1, <4>3
    <3> QED
      BY <3>1, Zenon
  <2> QED
    BY <2>2, <2>3
<1> QED
  BY <1>1, <1>2, <1>4

\* A section that has a text and sub-entries, and the words it is to be found by.
IsSection(W, s) == s.text \in Seq(Sentences(W)) /\ s.entries \in Seq(Seq(Sentences(W)))
Spoken(s) == ToSet(Words(IF s.entries # <<>> THEN FlattenSeq(s.entries) ELSE s.text))

LEMMA SectionChunked ==
    ASSUME NEW W, NEW s, IsSection(W, s)
    PROVE  ChunkSection(s) \in Seq(ChunksIn(W)) /\ Spoken(s) \subseteq Told(ChunkSection(s))
<1>1. s.text \in Seq(Sentences(W)) /\ s.entries \in Seq(Seq(Sentences(W)))
  BY DEF IsSection
<1>2. PICK parts : parts = IF s.entries # <<>> THEN s.entries ELSE <<s.text>>
  OBVIOUS
<1>3. parts \in Seq(Seq(Sentences(W)))
  BY <1>1, <1>2
<1> DEFINE cuts == [i \in DOMAIN parts |-> SplitText(parts[i])]
<1>4. \A i \in DOMAIN parts : /\ SplitText(parts[i]) \in Seq(ChunksIn(W))
                              /\ Told(parts[i]) \subseteq Told(SplitText(parts[i]))
  BY <1>3, TextSplit
<1>5. /\ cuts \in Seq(Seq(ChunksIn(W))) /\ DOMAIN cuts = DOMAIN parts
      /\ \A i \in DOMAIN parts : cuts[i] \in Seq(ChunksIn(W)) /\ Told(parts[i]) \subseteq Told(cuts[i])
  <2>1. DOMAIN parts = 1 .. Len(parts) /\ Len(parts) \in Nat
    BY <1>3
  <2>2. cuts \in [1 .. Len(parts) -> Seq(ChunksIn(W))]
    BY <1>4, <2>1
  <2> QED
    BY <1>4, <2>1, <2>2
<1>6. ChunkSection(s) = IF FlattenSeq(cuts) # <<>> THEN FlattenSeq(cuts) ELSE SplitText(s.text)
  BY <1>2 DEF ChunkSection
<1> HIDE DEF cuts
<1>7. /\ FlattenSeq(cuts) \in Seq(ChunksIn(W))
      /\ Told(FlattenSeq(cuts)) = UNION {Told(cuts[i]) : i \in DOMAIN cuts}
  BY <1>5, FlattenTells
<1>8. Spoken(s) = UNION {Told(parts[i]) : i \in DOMAIN parts}
  <2>1. CASE s.entries # <<>>
    <3>1. PICK all \in Seq(Sentences(W)) :
             all = FlattenSeq(s.entries)
             /\ Told(all) = UNION {Told(s.entries[i]) : i \in DOMAIN s.entries}
      BY <1>1, FlattenTells
    <3>2. ToSet(Words(all)) = Told(all)
      BY TextWords
    <3> QED
      BY <1>2, <2>1, <3>1, <3>2 DEF Spoken
  <2>2. CASE s.entries = <<>>
    <3>1. ToSet(Words(s.text)) = Told(s.text)
      BY <1>1, TextWords
    <3>2. parts = <<s.text>>
      BY <1>2, <2>2
    <3>3. DOMAIN parts = {1} /\ parts[1] = s.text
      BY <3>2
    <3> QED
      BY <2>2, <3>1, <3>3 DEF Spoken
  <2> QED
    BY <2>1, <2>2
<1>9. Spoken(s) \subseteq Told(FlattenSeq(cuts))
  BY <1>5, <1>7, <1>8
<1>10. CASE FlattenSeq(cuts) # <<>>
  BY <1>6, <1>7, <1>9, <1>10
<1>11. CASE FlattenSeq(cuts) = <<>>
  <2>1. Told(FlattenSeq(cuts)) = {}
    BY <1>11 DEF Told
  <2> QED
    BY <1>1, <1>6, <1>9, <1>11, <2>1, TextSplit
<1> QED
  BY <1>10, <1>11

LEMMA SectionsChunked ==
    ASSUME NEW W, NEW T, \A s \in T : IsSection(W, s) /\ s.name # "unstructured",
           NEW sections \in Seq(T), sections # <<>>
    PROVE  /\ Chunk(sections) \in Seq(ChunksIn(W))
           /\ UNION {Spoken(s) : s \in ToSet(sections)} \subseteq Told(Chunk(sections))
<1> DEFINE cuts == [i \in DOMAIN sections |-> ChunkSection(sections[i])]
<1>1. Len(sections) \in Nat /\ DOMAIN sections = 1 .. Len(sections) /\ 1 \in DOMAIN sections
      /\ \A i \in DOMAIN sections : sections[i] \in T
  OBVIOUS
<1>2. \A i \in DOMAIN sections : /\ ChunkSection(sections[i]) \in Seq(ChunksIn(W))
                                 /\ Spoken(sections[i]) \subseteq Told(ChunkSection(sections[i]))
  BY <1>1, SectionChunked
<1>3. Chunk(sections) = FlattenSeq(cuts)
  <2>1. sections[1] \in ToSet(sections) /\ sections[1].name # "unstructured"
    BY <1>1 DEF ToSet
  <2> QED
    BY <2>1 DEF Chunk
<1>4. /\ cuts \in Seq(Seq(ChunksIn(W))) /\ DOMAIN cuts = DOMAIN sections
      /\ \A i \in DOMAIN sections : Spoken(sections[i]) \subseteq Told(cuts[i])
  <2>1. cuts \in [1 .. Len(sections) -> Seq(ChunksIn(W))]
    BY <1>1, <1>2
  <2> QED
    BY <1>1, <1>2, <2>1
<1> HIDE DEF cuts
<1>5. /\ FlattenSeq(cuts) \in Seq(ChunksIn(W))
      /\ Told(FlattenSeq(cuts)) = UNION {Told(cuts[i]) : i \in DOMAIN cuts}
  BY <1>4, FlattenTells
<1>6. UNION {Spoken(s) : s \in ToSet(sections)} = UNION {Spoken(sections[i]) : i \in DOMAIN sections}
  BY DEF ToSet
<1> QED
  BY <1>3, <1>4, <1>5, <1>6

-----------------------------------------------------------------------------
(* The narrative sections of an upload.                                    *)

LEMMA NamedFound ==
    ASSUME NEW T, NEW sections \in Seq(T), NEW names
    PROVE  /\ Named(sections, names) \in Seq({x \in T : x.name \in names})
           /\ ToSet(Named(sections, names)) = {x \in ToSet(sections) : x.name \in names}
<1> DEFINE S == {x \in ToSet(sections) : x.name \in names}
<1>1. S \subseteq {x \in T : x.name \in names}
  BY DEF ToSet
<1>2. Named(sections, names) = Those(sections, S)
  BY DEF Named
<1> HIDE DEF S
<1>3. Those(sections, S) \in Seq(S) /\ ToSet(Those(sections, S)) = S \cap ToSet(sections)
  BY ThoseFound
<1>4. ToSet(Named(sections, names)) = S
  BY <1>2, <1>3 DEF S
<1>5. Named(sections, names) \in Seq({x \in T : x.name \in names})
  BY <1>1, <1>2, <1>3
<1> QED
  BY <1>4, <1>5 DEF S

\* The sections of an upload, and the words it has.
LEMMA SectionsOf ==
    ASSUME NEW files \in Batches
    PROVE  /\ Sections(files) \in Seq(ToSet(Sections(files)))
           /\ \A s \in ToSet(Sections(files)) :
                 /\ IsText(s.text) /\ s.entries \in Seq(ToSet(s.entries))
                 /\ \A e \in ToSet(s.entries) : IsText(e)
<1> DEFINE n == Len(files)
           I == {i \in 1 .. n : files[i].mime = "pdf"}
           last == LastOf(files, "pdf")
<1>1. files \in Seq(ToSet(files)) /\ n \in Nat /\ \A i \in 1 .. n : files[i] \in ToSet(files)
  BY FileAssumption
<1>2. last = IF I # {} THEN Max(I) ELSE 0
  BY DEF LastOf, SelectLastInSeq
<1>3. last = 0 \/ last \in 1 .. n
  <2>1. I \in SUBSET (0 .. n)
    OBVIOUS
  <2>2. CASE I # {}
    <3>1. Max(I) \in I
      <4> HIDE DEF I
      <4> QED
        BY <1>1, <2>1, <2>2, GreatestNatural
    <3> QED
      BY <1>2, <2>2, <3>1
  <2> QED
    BY <1>2, <2>2
<1> HIDE DEF last
<1>4. CASE last = 0
  <2>1. Sections(files) = <<>>
    BY <1>4 DEF Sections, last
  <2>2. ToSet(<<>>) = {}
    BY DEF ToSet
  <2> QED
    BY <2>1, <2>2
<1>5. CASE last # 0
  <2>1. PICK f \in ToSet(files) : f = files[last]
    BY <1>1, <1>3, <1>5
  <2>2. Sections(files) = f.sections
    BY <1>5, <2>1 DEF Sections, last
  <2> QED
    BY <2>2, FileAssumption
<1> QED
  BY <1>4, <1>5

LEMMA TextIs ==
    ASSUME NEW text, IsText(text), NEW W, \A k \in ToSet(text) : ToSet(k) \subseteq W
    PROVE  text \in Seq(Sentences(W))
<1>1. \A k \in ToSet(text) : k \in Sentences(W)
  BY DEF IsText, Sentences
<1>2. text \in Seq(ToSet(text))
  BY DEF IsText
<1> QED
  BY <1>1, <1>2

\* The chunks of an upload hold every word of its narrative sections, and none is
\* too long or empty.
ChunkerSound ==
    \A files \in Batches :
        LET chunks == Chunked[files] IN
        /\ Len(chunks) \in Nat
        /\ \A n \in 1 .. Len(chunks) : Len(chunks[n]) \in 1 .. MaxTokens
        /\ Searchable[files] \subseteq UNION {ToSet(chunks[n]) : n \in 1 .. Len(chunks)}

LEMMA ChunksSound == ChunkerSound
<1> SUFFICES ASSUME NEW files \in Batches
             PROVE  LET chunks == Chunked[files] IN
                    /\ Len(chunks) \in Nat
                    /\ \A n \in 1 .. Len(chunks) : Len(chunks[n]) \in 1 .. MaxTokens
                    /\ Searchable[files] \subseteq UNION {ToSet(chunks[n]) : n \in 1 .. Len(chunks)}
  BY DEF ChunkerSound
<1> DEFINE T == ToSet(Sections(files))
           texts == UNION {{s.text} \cup ToSet(s.entries) : s \in T}
           W == UNION {ToSet(k) : k \in UNION {ToSet(t) : t \in texts}}
           N == {x \in T : x.name \in NarrativeSections}
<1>1. /\ Sections(files) \in Seq(T)
      /\ \A s \in T : /\ IsText(s.text) /\ s.entries \in Seq(ToSet(s.entries))
                      /\ \A e \in ToSet(s.entries) : IsText(e)
  BY SectionsOf
<1>2. ASSUME NEW t \in texts, IsText(t)
      PROVE  t \in Seq(Sentences(W))
  <2>1. \A k \in ToSet(t) : ToSet(k) \subseteq W
    OBVIOUS
  <2> HIDE DEF W, texts
  <2> QED
    BY <1>2, <2>1, TextIs
<1>3. ASSUME NEW s \in N
      PROVE  IsSection(W, s) /\ s.name # "unstructured"
  <2>1. s.text \in texts /\ \A e \in ToSet(s.entries) : e \in texts
    OBVIOUS
  <2> HIDE DEF W, texts
  <2>2. s.text \in Seq(Sentences(W)) /\ \A e \in ToSet(s.entries) : e \in Seq(Sentences(W))
    BY <1>1, <1>2, <2>1
  <2>3. s.entries \in Seq(Seq(Sentences(W)))
    BY <1>1, <2>2
  <2>4. s.name # "unstructured"
    BY DEF NarrativeSections
  <2> QED
    BY <2>2, <2>3, <2>4 DEF IsSection
<1> HIDE DEF W, texts
<1>4. Narrative(files) \in Seq(N) /\ ToSet(Narrative(files)) = N
  BY <1>1, NamedFound DEF Narrative
<1>5. PICK narrative \in Seq(N) : narrative = Narrative(files) /\ ToSet(narrative) = N
  BY <1>4
<1>6. Searchable[files] = UNION {Spoken(s) : s \in N}
  BY DEF Searchable, SearchableText, Spoken, NarrativeSections
<1>7. PICK chunks : chunks = Chunked[files]
  OBVIOUS
<1>8. chunks = IF narrative = <<>> THEN <<>> ELSE Chunk(narrative)
  BY <1>5, <1>7 DEF Chunked, ChunksOf
<1>9. chunks \in Seq(ChunksIn(W)) /\ UNION {Spoken(s) : s \in N} \subseteq Told(chunks)
  <2> HIDE DEF N
  <2>1. CASE narrative = <<>>
    <3>1. N = {}
      BY <1>5, <2>1 DEF ToSet
    <3> QED
      BY <1>8, <2>1, <3>1
  <2>2. CASE narrative # <<>>
    BY <1>3, <1>5, <1>8, <2>2, SectionsChunked
  <2> QED
    BY <2>1, <2>2
<1>10. /\ Len(chunks) \in Nat /\ DOMAIN chunks = 1 .. Len(chunks)
       /\ \A n \in 1 .. Len(chunks) : chunks[n] \in ChunksIn(W)
  BY <1>9
<1>11. \A n \in 1 .. Len(chunks) : Len(chunks[n]) \in 1 .. MaxTokens
  BY <1>10 DEF ChunksIn
<1>12. Told(chunks) = UNION {ToSet(chunks[n]) : n \in 1 .. Len(chunks)}
  BY <1>10 DEF Told
<1> QED
  BY <1>6, <1>7, <1>9, <1>10, <1>11, <1>12

-----------------------------------------------------------------------------
(* What a step does to the locals of its run.                              *)

\* The fields of a job and of the locals of a run.
IsJob(d) == d = [status |-> d.status, context |-> d.context, files |-> d.files,
                 ready |-> d.ready, reingested |-> d.reingested]
IsRun(l) == l = [pc |-> l.pc, job |-> l.job, kind |-> l.kind, stamp |-> l.stamp,
                 category |-> l.category, structured |-> l.structured,
                 narrative |-> l.narrative, batch |-> l.batch, tries |-> l.tries,
                 backup |-> l.backup]
RunShape == run = [r \in Run |-> run[r]] /\ \A r \in Run : IsRun(run[r])
JobShape == jobs = [j \in Job |-> jobs[j]] /\ \A j \in Job : IsJob(jobs[j])

\* What two values of the locals of a run agree on.
Identity(m, l) ==
    m.job = l.job /\ m.kind = l.kind /\ m.stamp = l.stamp /\ m.category = l.category
Work(m, l) ==
    m.structured = l.structured /\ m.narrative = l.narrative /\ m.batch = l.batch
Rest(m, l) == m.tries = l.tries /\ m.backup = l.backup

Alone(r) == \A q \in Run \ {r} : run'[q] = run[q]
Frees(r) == run'[r] = Idle
Goes(r, pc) ==
    /\ run'[r].pc = pc
    /\ Identity(run'[r], run[r]) /\ Work(run'[r], run[r]) /\ Rest(run'[r], run[r])

LEMMA PutPc ==
    ASSUME NEW l, IsRun(l), NEW x
    PROVE  LET m == [l EXCEPT !.pc = x] IN
           IsRun(m) /\ m.pc = x /\ Identity(m, l) /\ Work(m, l) /\ Rest(m, l)
BY SMT DEF IsRun, Identity, Work, Rest

LEMMA PutStructured ==
    ASSUME NEW l, IsRun(l), NEW x
    PROVE  LET m == [l EXCEPT !.structured = x] IN
           /\ IsRun(m) /\ m.structured = x /\ m.pc = l.pc /\ Identity(m, l) /\ Rest(m, l)
           /\ m.narrative = l.narrative /\ m.batch = l.batch
BY SMT DEF IsRun, Identity, Rest

LEMMA PutNarrative ==
    ASSUME NEW l, IsRun(l), NEW x
    PROVE  LET m == [l EXCEPT !.narrative = x] IN
           /\ IsRun(m) /\ m.narrative = x /\ m.pc = l.pc /\ Identity(m, l) /\ Rest(m, l)
           /\ m.structured = l.structured /\ m.batch = l.batch
BY SMT DEF IsRun, Identity, Rest

LEMMA PutBatch ==
    ASSUME NEW l, IsRun(l), NEW x
    PROVE  LET m == [l EXCEPT !.batch = x] IN
           /\ IsRun(m) /\ m.batch = x /\ m.pc = l.pc /\ Identity(m, l) /\ Rest(m, l)
           /\ m.structured = l.structured /\ m.narrative = l.narrative
BY SMT DEF IsRun, Identity, Rest

LEMMA PutTries ==
    ASSUME NEW l, IsRun(l), NEW x
    PROVE  LET m == [l EXCEPT !.tries = x] IN
           /\ IsRun(m) /\ m.tries = x /\ m.pc = l.pc /\ Identity(m, l) /\ Work(m, l)
           /\ m.backup = l.backup
BY SMT DEF IsRun, Identity, Work

LEMMA PutBackup ==
    ASSUME NEW l, IsRun(l), NEW x
    PROVE  LET m == [l EXCEPT !.backup = x] IN
           /\ IsRun(m) /\ m.backup = x /\ m.pc = l.pc /\ Identity(m, l) /\ Work(m, l)
           /\ m.tries = l.tries
BY SMT DEF IsRun, Identity, Work

LEMMA IdleIsRun == IsRun(Idle)
BY SMT DEF IsRun, Idle

\* A write of one run's locals leaves the others alone.
LEMMA OneRun ==
    ASSUME RunShape, NEW r \in Run, NEW m, IsRun(m), run' = [run EXCEPT ![r] = m]
    PROVE  RunShape' /\ Alone(r) /\ run'[r] = m
<1>1. run' = [q \in Run |-> IF q = r THEN m ELSE run[q]]
  BY DEF RunShape
<1>2. \A q \in Run : run'[q] = IF q = r THEN m ELSE run[q]
  BY <1>1
<1>3. \A q \in Run : IsRun(run'[q])
  BY <1>2 DEF RunShape
<1>4. run' = [q \in Run |-> run'[q]]
  BY <1>1, <1>2
<1> QED
  BY <1>2, <1>3, <1>4 DEF RunShape, Alone

LEMMA GotoGoes ==
    ASSUME RunShape, NEW r \in Run, NEW at, Goto(r, at)
    PROVE  RunShape' /\ Alone(r) /\ Goes(r, at)
<1> DEFINE m == [run[r] EXCEPT !.pc = at]
<1>1. IsRun(run[r])
  BY DEF RunShape
<1>2. IsRun(m) /\ m.pc = at /\ Identity(m, run[r]) /\ Work(m, run[r]) /\ Rest(m, run[r])
  BY <1>1, PutPc
<1>3. run' = [run EXCEPT ![r] = m]
  BY DEF Goto
<1> HIDE DEF m
<1>4. RunShape' /\ Alone(r) /\ run'[r] = m
  BY <1>2, <1>3, OneRun
<1> QED
  BY <1>2, <1>4 DEF Goes

LEMMA Freed ==
    ASSUME RunShape, NEW r \in Run, run' = [run EXCEPT ![r] = Idle]
    PROVE  RunShape' /\ Alone(r) /\ Frees(r)
BY IdleIsRun, OneRun DEF Frees

LEMMA ReturnedGoes ==
    ASSUME RunShape, NEW r \in Run, Returned(r)
    PROVE  /\ RunShape' /\ Alone(r)
           /\ IF run[r].kind = "reingest" THEN Goes(r, "success") ELSE Frees(r)
<1>1. CASE run[r].kind = "reingest"
  <2>1. Goto(r, "success")
    BY <1>1 DEF Returned, Goto, RunShape
  <2> QED
    BY <1>1, <2>1, GotoGoes
<1>2. CASE run[r].kind # "reingest"
  <2>1. run' = [run EXCEPT ![r] = Idle]
    BY <1>2 DEF Returned, RunShape
  <2> QED
    BY <1>2, <2>1, Freed
<1> QED
  BY <1>1, <1>2
-----------------------------------------------------------------------------
(* What a step does to the jobs, and to all it can reach.                  *)

OtherJobs(j) == \A k \in Job \ {j} : jobs'[k] = jobs[k]
SameUpload(j) == jobs'[j].context = jobs[j].context /\ jobs'[j].files = jobs[j].files
Marks(j, s) ==
    /\ jobs'[j].status = s /\ SameUpload(j) /\ OtherJobs(j)
    /\ jobs'[j].ready = jobs[j].ready /\ jobs'[j].reingested = jobs[j].reingested
Readied(j, x) ==
    /\ jobs'[j].ready = x /\ SameUpload(j) /\ OtherJobs(j)
    /\ jobs'[j].status = jobs[j].status /\ jobs'[j].reingested = jobs[j].reingested
Succeeded(j, x) ==
    /\ jobs'[j].status = "done" /\ jobs'[j].reingested = x
    /\ SameUpload(j) /\ OtherJobs(j) /\ jobs'[j].ready = jobs[j].ready

LEMMA PutStatus ==
    ASSUME NEW d, IsJob(d), NEW x
    PROVE  LET e == [d EXCEPT !.status = x] IN
           /\ IsJob(e) /\ e.status = x /\ e.context = d.context /\ e.files = d.files
           /\ e.ready = d.ready /\ e.reingested = d.reingested
BY SMT DEF IsJob

LEMMA PutReady ==
    ASSUME NEW d, IsJob(d), NEW x
    PROVE  LET e == [d EXCEPT !.ready = x] IN
           /\ IsJob(e) /\ e.ready = x /\ e.context = d.context /\ e.files = d.files
           /\ e.status = d.status /\ e.reingested = d.reingested
BY SMT DEF IsJob

LEMMA PutReingested ==
    ASSUME NEW d, IsJob(d), NEW x
    PROVE  LET e == [d EXCEPT !.reingested = x] IN
           /\ IsJob(e) /\ e.reingested = x /\ e.context = d.context /\ e.files = d.files
           /\ e.status = d.status /\ e.ready = d.ready
BY SMT DEF IsJob

LEMMA OneJob ==
    ASSUME JobShape, NEW j \in Job, NEW d, IsJob(d), jobs' = [jobs EXCEPT ![j] = d]
    PROVE  JobShape' /\ OtherJobs(j) /\ jobs'[j] = d
<1>1. jobs' = [k \in Job |-> IF k = j THEN d ELSE jobs[k]]
  BY DEF JobShape
<1>2. \A k \in Job : jobs'[k] = IF k = j THEN d ELSE jobs[k]
  BY <1>1
<1>3. \A k \in Job : IsJob(jobs'[k])
  BY <1>2 DEF JobShape
<1>4. jobs' = [k \in Job |-> jobs'[k]]
  BY <1>1, <1>2
<1> QED
  BY <1>2, <1>3, <1>4 DEF JobShape, OtherJobs

LEMMA StatusMarks ==
    ASSUME JobShape, NEW j \in Job, NEW s, SetStatus(j, s)
    PROVE  JobShape' /\ Marks(j, s)
<1> DEFINE d == [jobs[j] EXCEPT !.status = s]
<1>1. IsJob(jobs[j])
  BY DEF JobShape
<1>2. /\ IsJob(d) /\ d.status = s /\ d.context = jobs[j].context /\ d.files = jobs[j].files
      /\ d.ready = jobs[j].ready /\ d.reingested = jobs[j].reingested
  BY <1>1, PutStatus
<1>3. jobs' = [jobs EXCEPT ![j] = d]
  BY DEF SetStatus
<1> HIDE DEF d
<1>4. JobShape' /\ OtherJobs(j) /\ jobs'[j] = d
  BY <1>2, <1>3, OneJob
<1> QED
  BY <1>2, <1>4 DEF Marks, SameUpload

LEMMA ReadyReadies ==
    ASSUME JobShape, NEW j \in Job, NEW x,
           jobs' = [jobs EXCEPT ![j].ready = x]
    PROVE  JobShape' /\ Readied(j, x)
<1> DEFINE d == [jobs[j] EXCEPT !.ready = x]
<1>1. IsJob(jobs[j])
  BY DEF JobShape
<1>2. /\ IsJob(d) /\ d.ready = x /\ d.context = jobs[j].context /\ d.files = jobs[j].files
      /\ d.status = jobs[j].status /\ d.reingested = jobs[j].reingested
  BY <1>1, PutReady
<1>3. jobs' = [jobs EXCEPT ![j] = d]
  OBVIOUS
<1> HIDE DEF d
<1>4. JobShape' /\ OtherJobs(j) /\ jobs'[j] = d
  BY <1>2, <1>3, OneJob
<1> QED
  BY <1>2, <1>4 DEF Readied, SameUpload

LEMMA SuccessSucceeds ==
    ASSUME JobShape, NEW j \in Job, NEW x,
           jobs' = [jobs EXCEPT ![j].status = "done", ![j].reingested = x]
    PROVE  JobShape' /\ Succeeded(j, x)
<1> DEFINE c == [jobs[j] EXCEPT !.status = "done"]
           d == [c EXCEPT !.reingested = x]
<1>1. IsJob(jobs[j])
  BY DEF JobShape
<1>2. /\ IsJob(c) /\ c.status = "done" /\ c.context = jobs[j].context
      /\ c.files = jobs[j].files /\ c.ready = jobs[j].ready
  BY <1>1, PutStatus
<1>3. /\ IsJob(d) /\ d.reingested = x /\ d.context = c.context /\ d.files = c.files
      /\ d.status = c.status /\ d.ready = c.ready
  <2> HIDE DEF c
  <2> QED
    BY <1>2, PutReingested
<1>4. jobs' = [jobs EXCEPT ![j] = d]
  BY DEF JobShape
<1> HIDE DEF c, d
<1>5. JobShape' /\ OtherJobs(j) /\ jobs'[j] = d
  BY <1>3, <1>4, OneJob
<1> QED
  BY <1>2, <1>3, <1>5 DEF Succeeded, SameUpload
-----------------------------------------------------------------------------
(* The effects of the steps of a run.                                      *)

Keeping(r) == Identity(run'[r], run[r]) /\ run'[r].backup = run[r].backup
OnPaths(r) == run[r].pc = "paths" /\ run'[r].pc = "paths" /\ Keeping(r)
Back(r) == IF run[r].kind = "reingest" THEN Goes(r, "success") ELSE Frees(r)
Fails == faults' = faults + 1 /\ Quiet

Begins(r) ==
    /\ run[r].pc = "queued" /\ Goes(r, "extract") /\ Marks(run[r].job, "processing")
    /\ escaped' = escaped \ {run[r].job}
    /\ UNCHANGED <<contexts, store, removed, written, calls, faults, crashed>>
Misses(r) ==
    /\ run[r].pc = "queued" /\ Frees(r)
    /\ Marks(run[r].job, "processing") \/ UNCHANGED jobs
    /\ escaped' = escaped \cup {run[r].job} /\ faults' = faults + 1
    /\ UNCHANGED <<contexts, store, removed, written, calls, crashed>>
Refuses(r) ==
    /\ run[r].pc = "extract" /\ Goes(r, "raised") /\ Marks(run[r].job, "failed")
    /\ UNCHANGED <<contexts, store, removed, written>> /\ Fine
Routes(r) ==
    /\ run[r].pc = "extract"
    /\ \/ Doc(r).context # "session" /\ Goes(r, "paths")
       \/ Doc(r).context = "session" /\ HasContent(Doc(r).files) /\ Goes(r, "hook")
       \/ Doc(r).context = "session" /\ ~HasContent(Doc(r).files) /\ Goes(r, "check")
    /\ UNCHANGED <<jobs, contexts, store, removed, written>> /\ Fine
Breaks(r) ==
    /\ run[r].pc \in {"extract", "ready", "check", "embedded", "paths"} /\ Goes(r, "raised")
    /\ UNCHANGED <<jobs, contexts, store, removed, written>> /\ Fails
Catches(r) ==
    /\ run[r].pc = "raised" /\ run[r].kind = "extract" /\ Frees(r)
    /\ Marks(run[r].job, "failed")
    /\ UNCHANGED <<contexts, store, removed, written>> /\ Fine
Drops(r) ==
    /\ run[r].pc = "raised" /\ run[r].kind = "extract" /\ Frees(r)
    /\ UNCHANGED <<jobs, contexts, store, removed, written>> /\ Fails
Shows(r) ==
    /\ run[r].pc = "hook" /\ ~Inserted(r) /\ contexts' = Append(contexts, NewContext(r))
    /\ run'[r].pc = "ready" /\ Keeping(r) /\ Work(run'[r], run[r])
    /\ UNCHANGED <<jobs, store, removed, written>> /\ Fine
Balks(r) ==
    /\ run[r].pc = "hook" /\ Keeping(r) /\ Work(run'[r], run[r])
    /\ \/ ~Inserted(r) /\ Fails /\ contexts' \in {contexts, Append(contexts, NewContext(r))}
       \/ Inserted(r) /\ Fine /\ UNCHANGED contexts
    /\ \/ run[r].tries = 0 /\ run'[r].pc = "hook" /\ UNCHANGED jobs
       \/ run[r].tries # 0 /\ run'[r].pc = "check" /\ Marks(run[r].job, "failed")
    /\ UNCHANGED <<store, removed, written>>
Announces(r) ==
    /\ run[r].pc = "ready" /\ Goes(r, "check") /\ Readied(run[r].job, TRUE)
    /\ UNCHANGED <<contexts, store, removed, written>> /\ Fine
Stops(r) ==
    /\ run[r].pc = "check" /\ Doc(r).status = "failed" /\ Back(r)
    /\ UNCHANGED <<jobs, contexts, store, removed, written>> /\ Fine
Enters(r) ==
    /\ run[r].pc = "check" /\ run'[r].pc = "paths" /\ Keeping(r)
    /\ run'[r].structured = IF NothingStructured(Doc(r).files) THEN "ok" ELSE "todo"
    /\ run'[r].narrative = IF Chunked[Doc(r).files] = <<>> THEN "ok" ELSE "todo"
    /\ run'[r].batch = run[r].batch
    /\ UNCHANGED <<jobs, contexts, store, removed, written>> /\ Fine
Commits(r) ==
    /\ OnPaths(r) /\ run[r].structured = "todo"
    /\ \/ run'[r].structured = "ok" /\ written' = written \cup {run[r].job} /\ Fine
       \/ run'[r].structured = "failed" /\ UNCHANGED written /\ Fails
    /\ run'[r].narrative = run[r].narrative /\ run'[r].batch = run[r].batch
    /\ UNCHANGED <<jobs, contexts, store, removed>>
Nexts(r) ==
    LET next == run[r].batch + 1 IN
    /\ run'[r].batch = next
    /\ run'[r].narrative = IF next * BatchSize < Len(Chunked[Doc(r).files])
                           THEN run[r].narrative ELSE "ok"
Stores(r) ==
    /\ OnPaths(r) /\ run[r].narrative = "todo" /\ run'[r].structured = run[r].structured
    /\ store' = store \cup Documents(r) /\ Nexts(r)
    /\ UNCHANGED <<jobs, contexts, removed, written>> /\ Fine
Retries(r) ==
    /\ OnPaths(r) /\ run[r].narrative = "todo" /\ run'[r].structured = run[r].structured
    /\ run'[r].batch = run[r].batch /\ run'[r].narrative \in {"todo", "failed"}
    /\ store' \in {store, store \cup Documents(r)}
    /\ UNCHANGED <<jobs, contexts, removed, written>> /\ (Fine \/ Fails)
Concludes(r) ==
    /\ Joined(r) /\ Marks(run[r].job, Outcome(r))
    /\ \/ Outcome(r) = "done" /\ Doc(r).context = "session" /\ Goes(r, "embedded")
       \/ ~(Outcome(r) = "done" /\ Doc(r).context = "session") /\ Back(r)
    /\ UNCHANGED <<contexts, store, removed, written>> /\ Fine
Retiring(r) ==
    LET i == ContextOf(run[r].job) IN
    /\ run[r].pc = "embedded" /\ Back(r)
    /\ contexts' = IF i = 0 THEN contexts ELSE [contexts EXCEPT ![i].active = FALSE]
    /\ UNCHANGED <<jobs, store, removed, written>> /\ Fine
Backs(r) ==
    /\ run[r].pc = "backup" /\ run'[r].pc = "delete"
    /\ Identity(run'[r], run[r]) /\ Work(run'[r], run[r])
    /\ run'[r].backup = [docs |-> Matching(run[r].category), profile |-> profile]
    /\ UNCHANGED <<jobs, contexts, store, removed, written>> /\ Fine
Deletes(r) ==
    LET old == Matching(run[r].category) IN
    /\ run[r].pc = "delete"
    /\ Goes(r, "clear") \/ Goes(r, "extract")
    /\ store' = store \ old
    /\ removed' = removed \cup {[doc |-> d, by |-> run[r].job, logged |-> FALSE,
                                    saved |-> d \in run[r].backup.docs] : d \in old}
    /\ UNCHANGED <<jobs, contexts, written>> /\ Fine
Clears(r) ==
    /\ run[r].pc = "clear" /\ Goes(r, "extract")
    /\ UNCHANGED <<jobs, contexts, store, removed, written>> /\ Fine
Leaves(r) ==
    /\ run[r].pc \in {"backup", "delete", "clear", "rolled", "success"} /\ Frees(r)
    /\ removed' = (removed \ Own(r)) \cup Logged(Own(r))
    /\ UNCHANGED <<jobs, contexts, store, written>> /\ Fails
Restores(r) ==
    /\ run[r].pc = "raised" /\ run[r].kind = "reingest" /\ Goes(r, "rolled")
    /\ \/ /\ store' = store \cup Restorable(r)
          /\ removed' = (removed \ Own(r)) \cup Remaining(r, Restorable(r))
          /\ Fine
       \/ /\ \E docs \in {{}, Restorable(r)} :
                /\ store' = store \cup docs
                /\ removed' = (removed \ Own(r)) \cup Logged(Remaining(r, docs))
          /\ Fails
    /\ UNCHANGED <<jobs, contexts, written>>
GivesUp(r) ==
    /\ run[r].pc = "rolled" /\ Frees(r) /\ Marks(run[r].job, "failed")
    /\ UNCHANGED <<contexts, store, removed, written>> /\ Fine
Succeeds(r) ==
    /\ run[r].pc = "success" /\ Frees(r) /\ Succeeded(run[r].job, TRUE)
    /\ UNCHANGED <<contexts, store, removed, written>> /\ Fine

Effect(r) ==
    \/ Begins(r) \/ Refuses(r) \/ Routes(r) \/ Breaks(r) \/ Catches(r) \/ Drops(r)
    \/ Shows(r) \/ Balks(r) \/ Announces(r) \/ Stops(r) \/ Enters(r)
    \/ Commits(r) \/ Stores(r) \/ Retries(r) \/ Concludes(r) \/ Retiring(r)
    \/ Backs(r) \/ Deletes(r) \/ Clears(r) \/ Leaves(r) \/ Restores(r)
    \/ GivesUp(r) \/ Succeeds(r) \/ Misses(r)
-----------------------------------------------------------------------------
(* Every step of a run has one of the effects.                             *)

LEMMA TwoPuts ==
    ASSUME RunShape, NEW r \in Run, NEW at, NEW n,
           run' = [run EXCEPT ![r].pc = at, ![r].tries = n]
    PROVE  /\ RunShape' /\ Alone(r) /\ run'[r].pc = at /\ run'[r].tries = n
           /\ Keeping(r) /\ Work(run'[r], run[r])
<1> DEFINE l == [run[r] EXCEPT !.pc = at]
           m == [l EXCEPT !.tries = n]
<1>1. IsRun(run[r])
  BY DEF RunShape
<1>2. IsRun(l) /\ l.pc = at /\ Identity(l, run[r]) /\ Work(l, run[r]) /\ Rest(l, run[r])
  BY <1>1, PutPc
<1>3. run' = [run EXCEPT ![r] = m]
  BY DEF RunShape
<1> HIDE DEF l
<1>4. /\ IsRun(m) /\ m.tries = n /\ m.pc = l.pc /\ Identity(m, l) /\ Work(m, l)
      /\ m.backup = l.backup
  BY <1>2, PutTries
<1> HIDE DEF m
<1>5. RunShape' /\ Alone(r) /\ run'[r] = m
  BY <1>3, <1>4, OneRun
<1>6. Identity(m, run[r]) /\ Work(m, run[r]) /\ m.backup = run[r].backup /\ m.pc = at
  BY <1>2, <1>4 DEF Identity, Work, Rest
<1> QED
  BY <1>4, <1>5, <1>6 DEF Keeping

LEMMA TriesPut ==
    ASSUME RunShape, NEW r \in Run, NEW n, run' = [run EXCEPT ![r].tries = n]
    PROVE  /\ RunShape' /\ Alone(r) /\ run'[r].pc = run[r].pc /\ run'[r].tries = n
           /\ Keeping(r) /\ Work(run'[r], run[r])
<1> DEFINE m == [run[r] EXCEPT !.tries = n]
<1>1. IsRun(run[r])
  BY DEF RunShape
<1>2. /\ IsRun(m) /\ m.tries = n /\ m.pc = run[r].pc /\ Identity(m, run[r])
      /\ Work(m, run[r]) /\ m.backup = run[r].backup
  BY <1>1, PutTries
<1>3. run' = [run EXCEPT ![r] = m]
  OBVIOUS
<1> HIDE DEF m
<1>4. RunShape' /\ Alone(r) /\ run'[r] = m
  BY <1>2, <1>3, OneRun
<1> QED
  BY <1>2, <1>4 DEF Keeping

LEMMA StructuredPut ==
    ASSUME RunShape, NEW r \in Run, NEW x, run' = [run EXCEPT ![r].structured = x]
    PROVE  /\ RunShape' /\ Alone(r) /\ run'[r].pc = run[r].pc /\ run'[r].structured = x
           /\ Keeping(r) /\ run'[r].narrative = run[r].narrative
           /\ run'[r].batch = run[r].batch
<1> DEFINE m == [run[r] EXCEPT !.structured = x]
<1>1. IsRun(run[r])
  BY DEF RunShape
<1>2. /\ IsRun(m) /\ m.structured = x /\ m.pc = run[r].pc /\ Identity(m, run[r])
      /\ Rest(m, run[r]) /\ m.narrative = run[r].narrative /\ m.batch = run[r].batch
  BY <1>1, PutStructured
<1>3. run' = [run EXCEPT ![r] = m]
  OBVIOUS
<1> HIDE DEF m
<1>4. RunShape' /\ Alone(r) /\ run'[r] = m
  BY <1>2, <1>3, OneRun
<1> QED
  BY <1>2, <1>4 DEF Keeping, Rest

LEMMA NarrativePut ==
    ASSUME RunShape, NEW r \in Run, NEW x, run' = [run EXCEPT ![r].narrative = x]
    PROVE  /\ RunShape' /\ Alone(r) /\ run'[r].pc = run[r].pc /\ run'[r].narrative = x
           /\ Keeping(r) /\ run'[r].structured = run[r].structured
           /\ run'[r].batch = run[r].batch
<1> DEFINE m == [run[r] EXCEPT !.narrative = x]
<1>1. IsRun(run[r])
  BY DEF RunShape
<1>2. /\ IsRun(m) /\ m.narrative = x /\ m.pc = run[r].pc /\ Identity(m, run[r])
      /\ Rest(m, run[r]) /\ m.structured = run[r].structured /\ m.batch = run[r].batch
  BY <1>1, PutNarrative
<1>3. run' = [run EXCEPT ![r] = m]
  OBVIOUS
<1> HIDE DEF m
<1>4. RunShape' /\ Alone(r) /\ run'[r] = m
  BY <1>2, <1>3, OneRun
<1> QED
  BY <1>2, <1>4 DEF Keeping, Rest

LEMMA NextPut ==
    ASSUME RunShape, NEW r \in Run, NextBatch(r)
    PROVE  /\ RunShape' /\ Alone(r) /\ run'[r].pc = run[r].pc
           /\ Keeping(r) /\ run'[r].structured = run[r].structured /\ Nexts(r)
<1> DEFINE next == run[r].batch + 1
           x == IF next * BatchSize < Len(Chunked[Doc(r).files])
                THEN run[r].narrative ELSE "ok"
           k == [run[r] EXCEPT !.batch = next]
           l == [k EXCEPT !.tries = 0]
           m == [l EXCEPT !.narrative = x]
<1>1. IsRun(run[r])
  BY DEF RunShape
<1>2. /\ IsRun(k) /\ k.batch = next /\ k.pc = run[r].pc /\ Identity(k, run[r])
      /\ Rest(k, run[r]) /\ k.structured = run[r].structured
      /\ k.narrative = run[r].narrative
  <2> HIDE DEF next
  <2> QED
    BY <1>1, PutBatch
<1>3. run' = [run EXCEPT ![r] = m]
  BY <1>2 DEF NextBatch, RunShape
<1> HIDE DEF k, x, next
<1>4. /\ IsRun(l) /\ l.tries = 0 /\ l.pc = k.pc /\ Identity(l, k) /\ Work(l, k)
      /\ l.backup = k.backup
  BY <1>2, PutTries
<1> HIDE DEF l
<1>5. /\ IsRun(m) /\ m.narrative = x /\ m.pc = l.pc /\ Identity(m, l) /\ Rest(m, l)
      /\ m.structured = l.structured /\ m.batch = l.batch
  BY <1>4, PutNarrative
<1> HIDE DEF m
<1>6. RunShape' /\ Alone(r) /\ run'[r] = m
  BY <1>3, <1>5, OneRun
<1>7. /\ Identity(m, run[r]) /\ m.backup = run[r].backup /\ m.pc = run[r].pc
      /\ m.structured = run[r].structured /\ m.batch = next
  BY <1>2, <1>4, <1>5 DEF Identity, Work, Rest
<1>8. Nexts(r)
  BY <1>5, <1>6, <1>7 DEF Nexts, x, next
<1> QED
  BY <1>6, <1>7, <1>8 DEF Keeping

LEMMA EnterPut ==
    ASSUME RunShape, NEW r \in Run, EnterPaths(r)
    PROVE  /\ RunShape' /\ Alone(r) /\ run'[r].pc = "paths" /\ Keeping(r)
           /\ run'[r].structured = IF NothingStructured(Doc(r).files) THEN "ok" ELSE "todo"
           /\ run'[r].narrative = IF Chunked[Doc(r).files] = <<>> THEN "ok" ELSE "todo"
           /\ run'[r].batch = run[r].batch
<1> DEFINE x == IF NothingStructured(Doc(r).files) THEN "ok" ELSE "todo"
           y == IF Chunked[Doc(r).files] = <<>> THEN "ok" ELSE "todo"
           k == [run[r] EXCEPT !.pc = "paths"]
           l == [k EXCEPT !.structured = x]
           m == [l EXCEPT !.narrative = y]
<1>1. IsRun(run[r])
  BY DEF RunShape
<1>2. /\ IsRun(k) /\ k.pc = "paths" /\ Identity(k, run[r]) /\ Work(k, run[r])
      /\ Rest(k, run[r])
  BY <1>1, PutPc
<1>3. run' = [run EXCEPT ![r] = m]
  <2> HIDE DEF x, y
  <2>1. run' = [run EXCEPT ![r].pc = "paths", ![r].structured = x, ![r].narrative = y]
    BY DEF EnterPaths, x, y
  <2> QED
    BY <2>1 DEF RunShape
<1> HIDE DEF x, y, k
<1>4. /\ IsRun(l) /\ l.structured = x /\ l.pc = k.pc /\ Identity(l, k) /\ Rest(l, k)
      /\ l.narrative = k.narrative /\ l.batch = k.batch
  BY <1>2, PutStructured
<1> HIDE DEF l
<1>5. /\ IsRun(m) /\ m.narrative = y /\ m.pc = l.pc /\ Identity(m, l) /\ Rest(m, l)
      /\ m.structured = l.structured /\ m.batch = l.batch
  BY <1>4, PutNarrative
<1> HIDE DEF m
<1>6. RunShape' /\ Alone(r) /\ run'[r] = m
  BY <1>3, <1>5, OneRun
<1>7. /\ Identity(m, run[r]) /\ m.backup = run[r].backup /\ m.pc = "paths"
      /\ m.structured = x /\ m.batch = run[r].batch
  BY <1>2, <1>4, <1>5 DEF Identity, Work, Rest
<1> QED
  BY <1>5, <1>6, <1>7 DEF Keeping, x, y

LEMMA BackupPut ==
    ASSUME RunShape, NEW r \in Run, NEW at, NEW b,
           run' = [run EXCEPT ![r].pc = at, ![r].backup = b]
    PROVE  /\ RunShape' /\ Alone(r) /\ run'[r].pc = at /\ run'[r].backup = b
           /\ Identity(run'[r], run[r]) /\ Work(run'[r], run[r])
<1> DEFINE l == [run[r] EXCEPT !.pc = at]
           m == [l EXCEPT !.backup = b]
<1>1. IsRun(run[r])
  BY DEF RunShape
<1>2. IsRun(l) /\ l.pc = at /\ Identity(l, run[r]) /\ Work(l, run[r]) /\ Rest(l, run[r])
  BY <1>1, PutPc
<1>3. run' = [run EXCEPT ![r] = m]
  BY DEF RunShape
<1> HIDE DEF l
<1>4. /\ IsRun(m) /\ m.backup = b /\ m.pc = l.pc /\ Identity(m, l) /\ Work(m, l)
      /\ m.tries = l.tries
  BY <1>2, PutBackup
<1> HIDE DEF m
<1>5. RunShape' /\ Alone(r) /\ run'[r] = m
  BY <1>3, <1>4, OneRun
<1>6. Identity(m, run[r]) /\ Work(m, run[r]) /\ m.pc = at
  BY <1>2, <1>4 DEF Identity, Work, Rest
<1> QED
  BY <1>4, <1>5, <1>6

Grounded == RunShape /\ JobShape /\ \A r \in Run : run[r].pc # "idle" => run[r].job \in Job
Took(r) == RunShape' /\ JobShape' /\ Alone(r) /\ Effect(r)

LEMMA RefusedBalks ==
    ASSUME Grounded, NEW r \in Run, run[r].pc = "hook", ContextRefused(r)
    PROVE  /\ RunShape' /\ JobShape' /\ Alone(r) /\ Keeping(r) /\ Work(run'[r], run[r])
           /\ \/ run[r].tries = 0 /\ run'[r].pc = "hook" /\ UNCHANGED jobs
              \/ run[r].tries # 0 /\ run'[r].pc = "check" /\ Marks(run[r].job, "failed")
<1>1. run[r].job \in Job
  BY DEF Grounded
<1>2. CASE run[r].tries = 0
  <2>1. run' = [run EXCEPT ![r].tries = 1] /\ UNCHANGED jobs
    BY <1>2 DEF ContextRefused
  <2>2. JobShape'
    BY <2>1 DEF Grounded, JobShape
  <2> QED
    BY <1>2, <2>1, <2>2, TriesPut DEF Grounded
<1>3. CASE run[r].tries # 0
  <2>1. /\ SetStatus(run[r].job, "failed")
        /\ run' = [run EXCEPT ![r].pc = "check", ![r].tries = 0]
    BY <1>3 DEF ContextRefused
  <2>2. JobShape' /\ Marks(run[r].job, "failed")
    BY <1>1, <2>1, StatusMarks DEF Grounded
  <2> QED
    BY <1>3, <2>1, <2>2, TwoPuts DEF Grounded
<1> QED
  BY <1>2, <1>3

LEMMA RefusedRetries ==
    ASSUME Grounded, NEW r \in Run, StoreRefused(r), Narrating(r)
    PROVE  /\ RunShape' /\ Alone(r) /\ OnPaths(r) /\ run'[r].structured = run[r].structured
           /\ run'[r].batch = run[r].batch /\ run'[r].narrative \in {"todo", "failed"}
<1>1. CASE run[r].tries + 1 < StorageRetries
  <2> DEFINE n == run[r].tries + 1
  <2>1. run' = [run EXCEPT ![r].tries = n]
    BY <1>1 DEF StoreRefused
  <2> HIDE DEF n
  <2> QED
    BY <2>1, TriesPut DEF Grounded, Narrating, At, OnPaths, Work
<1>2. CASE ~(run[r].tries + 1 < StorageRetries)
  <2>1. run' = [run EXCEPT ![r].narrative = "failed"]
    BY <1>2 DEF StoreRefused
  <2> QED
    BY <2>1, NarrativePut DEF Grounded, Narrating, At, OnPaths
<1> QED
  BY <1>1, <1>2

LEMMA StepEffects ==
    ASSUME Grounded, NEW r \in Run, Step(r)
    PROVE  Took(r)
<1> USE DEF Took
<1>0. RunShape /\ JobShape /\ (run[r].pc # "idle" => run[r].job \in Job)
  BY DEF Grounded
<1>1. CASE Begin(r)
  <2>1. /\ run[r].pc = "queued" /\ Goto(r, "extract")
        /\ SetStatus(run[r].job, "processing")
        /\ escaped' = escaped \ {run[r].job}
        /\ UNCHANGED <<contexts, store, removed, written, calls, faults, crashed>>
    BY <1>1 DEF Begin, At, facts
  <2>2. RunShape' /\ Alone(r) /\ Goes(r, "extract")
    BY <1>0, <2>1, GotoGoes
  <2>3. JobShape' /\ Marks(run[r].job, "processing")
    BY <1>0, <2>1, StatusMarks
  <2> QED
    BY <2>1, <2>2, <2>3 DEF Effect, Begins
<1>2. CASE Extract(r)
  <2>1. /\ run[r].pc = "extract"
        /\ UNCHANGED <<contexts, store, removed, written>> /\ Fine
    BY <1>2 DEF Extract, At, facts
  <2>2. CASE ~Readable(Doc(r).files)
    <3>1. Goto(r, "raised") /\ SetStatus(run[r].job, "failed")
      BY <1>2, <2>2 DEF Extract
    <3>2. RunShape' /\ Alone(r) /\ Goes(r, "raised")
      BY <1>0, <3>1, GotoGoes
    <3>3. JobShape' /\ Marks(run[r].job, "failed")
      BY <1>0, <2>1, <3>1, StatusMarks
    <3> QED
      BY <2>1, <3>2, <3>3 DEF Effect, Refuses
  <2>3. CASE Readable(Doc(r).files)
    <3>1. /\ UNCHANGED jobs
          /\ Goto(r, IF Doc(r).context # "session" THEN "paths"
                     ELSE IF HasContent(Doc(r).files) THEN "hook" ELSE "check")
      BY <1>2, <2>3 DEF Extract
    <3>2. /\ RunShape' /\ Alone(r)
          /\ Goes(r, IF Doc(r).context # "session" THEN "paths"
                     ELSE IF HasContent(Doc(r).files) THEN "hook" ELSE "check")
      BY <1>0, <3>1, GotoGoes
    <3>3. JobShape'
      BY <1>0, <3>1 DEF JobShape
    <3>4. \/ Doc(r).context # "session" /\ Goes(r, "paths")
          \/ Doc(r).context = "session" /\ HasContent(Doc(r).files) /\ Goes(r, "hook")
          \/ Doc(r).context = "session" /\ ~HasContent(Doc(r).files) /\ Goes(r, "check")
      BY <3>2
    <3> QED
      BY <2>1, <3>1, <3>2, <3>3, <3>4 DEF Effect, Routes
  <2> QED
    BY <2>2, <2>3
<1>3. CASE Catch(r)
  <2>1. /\ run[r].pc = "raised" /\ run[r].kind = "extract"
        /\ run' = [run EXCEPT ![r] = Idle]
        /\ SetStatus(run[r].job, "failed")
        /\ UNCHANGED <<contexts, store, removed, written>> /\ Fine
    BY <1>3 DEF Catch, At, facts, Caught
  <2>2. RunShape' /\ Alone(r) /\ Frees(r)
    BY <1>0, <2>1, Freed
  <2>3. JobShape' /\ Marks(run[r].job, "failed")
    BY <1>0, <2>1, StatusMarks
  <2> QED
    BY <2>1, <2>2, <2>3 DEF Effect, Catches
<1>4. CASE WriteContext(r)
  <2>1. /\ run[r].pc = "hook" /\ ~Inserted(r)
        /\ contexts' = Append(contexts, NewContext(r))
        /\ run' = [run EXCEPT ![r].pc = "ready", ![r].tries = 0]
        /\ UNCHANGED <<jobs, store, removed, written>> /\ Fine
    BY <1>4 DEF WriteContext, At, facts
  <2>2. RunShape' /\ Alone(r) /\ run'[r].pc = "ready" /\ Keeping(r) /\ Work(run'[r], run[r])
    BY <1>0, <2>1, TwoPuts
  <2>3. JobShape'
    BY <1>0, <2>1 DEF JobShape
  <2> QED
    BY <2>1, <2>2, <2>3 DEF Effect, Shows
<1>5. CASE ContextDuplicate(r)
  <2>1. /\ run[r].pc = "hook" /\ Inserted(r) /\ ContextRefused(r)
        /\ UNCHANGED <<contexts, store, removed, written>> /\ Fine
    BY <1>5 DEF ContextDuplicate, At, facts
  <2> QED
    BY <2>1, RefusedBalks DEF Effect, Balks
<1>6. CASE MarkReady(r)
  <2>1. /\ run[r].pc = "ready" /\ Goto(r, "check")
        /\ jobs' = [jobs EXCEPT ![run[r].job].ready = TRUE]
        /\ UNCHANGED <<contexts, store, removed, written>> /\ Fine
    BY <1>6 DEF MarkReady, At, facts
  <2>2. RunShape' /\ Alone(r) /\ Goes(r, "check")
    BY <1>0, <2>1, GotoGoes
  <2>3. JobShape' /\ Readied(run[r].job, TRUE)
    BY <1>0, <2>1, ReadyReadies
  <2> QED
    BY <2>1, <2>2, <2>3 DEF Effect, Announces
<1>7. CASE CheckContext(r)
  <2>1. /\ run[r].pc = "check"
        /\ UNCHANGED <<jobs, contexts, store, removed, written>> /\ Fine
    BY <1>7 DEF CheckContext, At, facts
  <2>2. JobShape'
    BY <1>0, <2>1 DEF JobShape
  <2>3. CASE Doc(r).status = "failed"
    <3>1. Returned(r)
      BY <1>7, <2>3 DEF CheckContext
    <3>2. RunShape' /\ Alone(r) /\ Back(r)
      BY <1>0, <3>1, ReturnedGoes DEF Back
    <3> QED
      BY <2>1, <2>2, <2>3, <3>2 DEF Effect, Stops
  <2>4. CASE Doc(r).status # "failed"
    <3>1. EnterPaths(r)
      BY <1>7, <2>4 DEF CheckContext
    <3>2. /\ RunShape' /\ Alone(r) /\ run'[r].pc = "paths" /\ Keeping(r)
          /\ run'[r].structured = IF NothingStructured(Doc(r).files) THEN "ok" ELSE "todo"
          /\ run'[r].narrative = IF Chunked[Doc(r).files] = <<>> THEN "ok" ELSE "todo"
          /\ run'[r].batch = run[r].batch
      BY <1>0, <3>1, EnterPut
    <3> QED
      BY <2>1, <2>2, <3>2 DEF Effect, Enters
  <2> QED
    BY <2>3, <2>4
<1>8. CASE WriteStructured(r)
  <2>1. /\ run[r].pc = "paths" /\ run[r].structured = "todo"
        /\ run' = [run EXCEPT ![r].structured = "ok"]
        /\ written' = written \cup {run[r].job}
        /\ UNCHANGED <<jobs, contexts, store, removed>> /\ Fine
    BY <1>8 DEF WriteStructured, At
  <2>2. /\ RunShape' /\ Alone(r) /\ run'[r].pc = run[r].pc /\ run'[r].structured = "ok"
        /\ Keeping(r) /\ run'[r].narrative = run[r].narrative
        /\ run'[r].batch = run[r].batch
    BY <1>0, <2>1, StructuredPut
  <2>3. JobShape'
    BY <1>0, <2>1 DEF JobShape
  <2>4. Commits(r)
    BY <2>1, <2>2 DEF Commits, OnPaths
  <2> QED
    BY <2>2, <2>3, <2>4 DEF Effect
<1>9. CASE StoreBatch(r)
  <2>1. /\ run[r].pc = "paths" /\ run[r].narrative = "todo" /\ NextBatch(r)
        /\ store' = store \cup Documents(r)
        /\ UNCHANGED <<jobs, contexts, removed, written>> /\ Fine
    BY <1>9 DEF StoreBatch, Narrating, At, facts
  <2>2. /\ RunShape' /\ Alone(r) /\ run'[r].pc = run[r].pc
        /\ Keeping(r) /\ run'[r].structured = run[r].structured /\ Nexts(r)
    BY <1>0, <2>1, NextPut
  <2>3. JobShape'
    BY <1>0, <2>1 DEF JobShape
  <2>4. Stores(r)
    BY <2>1, <2>2 DEF Stores, OnPaths
  <2> QED
    BY <2>2, <2>3, <2>4 DEF Effect
<1>10. CASE StoreDuplicate(r)
  <2>1. /\ Narrating(r) /\ StoreRefused(r)
        /\ UNCHANGED <<jobs, store, contexts, removed, written>> /\ Fine
    BY <1>10 DEF StoreDuplicate, facts
  <2>2. JobShape'
    BY <1>0, <2>1 DEF JobShape
  <2>3. /\ RunShape' /\ Alone(r) /\ OnPaths(r) /\ run'[r].structured = run[r].structured
        /\ run'[r].batch = run[r].batch /\ run'[r].narrative \in {"todo", "failed"}
    BY <2>1, RefusedRetries
  <2>4. Retries(r)
    BY <2>1, <2>3 DEF Retries, Narrating
  <2> QED
    BY <2>2, <2>3, <2>4 DEF Effect
<1>11. CASE Conclude(r)
  <2>1. /\ Joined(r) /\ SetStatus(run[r].job, Outcome(r))
        /\ IF Outcome(r) = "done" /\ Doc(r).context = "session"
           THEN Goto(r, "embedded") ELSE Returned(r)
        /\ UNCHANGED <<contexts, store, removed, written>> /\ Fine
    BY <1>11 DEF Conclude, facts
  <2>2. JobShape' /\ Marks(run[r].job, Outcome(r))
    BY <1>0, <2>1, StatusMarks DEF Joined, At
  <2>3. /\ RunShape' /\ Alone(r)
        /\ \/ Outcome(r) = "done" /\ Doc(r).context = "session" /\ Goes(r, "embedded")
           \/ ~(Outcome(r) = "done" /\ Doc(r).context = "session") /\ Back(r)
    <3>1. CASE Outcome(r) = "done" /\ Doc(r).context = "session"
      BY <1>0, <2>1, <3>1, GotoGoes
    <3>2. CASE ~(Outcome(r) = "done" /\ Doc(r).context = "session")
      <4>1. Returned(r)
        BY <2>1, <3>2
      <4> QED
        BY <1>0, <3>2, <4>1, ReturnedGoes DEF Back
    <3> QED
      BY <3>1, <3>2
  <2>4. Concludes(r)
    BY <2>1, <2>2, <2>3 DEF Concludes
  <2> QED
    BY <2>2, <2>3, <2>4 DEF Effect
<1>12. CASE Deactivate(r)
  <2>1. LET i == ContextOf(run[r].job) IN
        /\ run[r].pc = "embedded" /\ Returned(r)
        /\ contexts' = IF i = 0 THEN contexts ELSE [contexts EXCEPT ![i].active = FALSE]
        /\ UNCHANGED <<jobs, store, removed, written>> /\ Fine
    BY <1>12 DEF Deactivate, At, facts
  <2>2. RunShape' /\ Alone(r) /\ Back(r)
    BY <1>0, <2>1, ReturnedGoes DEF Back
  <2>3. JobShape'
    BY <1>0, <2>1 DEF JobShape
  <2>4. Retiring(r)
    BY <2>1, <2>2 DEF Retiring
  <2> QED
    BY <2>2, <2>3, <2>4 DEF Effect
<1>13. CASE TakeBackup(r)
  <2> DEFINE b == [docs |-> Matching(run[r].category), profile |-> profile]
  <2>1. /\ run[r].pc = "backup"
        /\ run' = [run EXCEPT ![r].pc = "delete", ![r].backup = b]
        /\ UNCHANGED <<jobs, store, contexts, removed, written>> /\ Fine
    BY <1>13 DEF TakeBackup, At, facts
  <2>2. JobShape'
    BY <1>0, <2>1 DEF JobShape
  <2>3. /\ RunShape' /\ Alone(r) /\ run'[r].pc = "delete" /\ run'[r].backup = b
        /\ Identity(run'[r], run[r]) /\ Work(run'[r], run[r])
    <3> HIDE DEF b
    <3> QED
      BY <1>0, <2>1, BackupPut
  <2>4. Backs(r)
    BY <2>1, <2>3 DEF Backs
  <2> QED
    BY <2>2, <2>3, <2>4 DEF Effect
<1>14. CASE DeleteChunks(r)
  <2>1. /\ run[r].pc = "delete"
        /\ Goto(r, IF run[r].category = "resume" THEN "clear" ELSE "extract")
        /\ UNCHANGED <<jobs, contexts, written>> /\ Fine
    BY <1>14 DEF DeleteChunks, At, facts
  <2>2. JobShape'
    BY <1>0, <2>1 DEF JobShape
  <2>3. /\ RunShape' /\ Alone(r)
        /\ Goes(r, IF run[r].category = "resume" THEN "clear" ELSE "extract")
    BY <1>0, <2>1, GotoGoes
  <2>4. Goes(r, "clear") \/ Goes(r, "extract")
    BY <2>3
  <2>5. Deletes(r)
    BY <1>14, <2>1, <2>4 DEF DeleteChunks, Deletes
  <2> QED
    BY <2>2, <2>3, <2>5 DEF Effect
<1>15. CASE ClearProfile(r)
  <2>1. /\ run[r].pc = "clear" /\ Goto(r, "extract")
        /\ UNCHANGED <<jobs, contexts, store, removed, written>> /\ Fine
    BY <1>15 DEF ClearProfile, At
  <2>2. RunShape' /\ Alone(r) /\ Goes(r, "extract")
    BY <1>0, <2>1, GotoGoes
  <2>3. JobShape'
    BY <1>0, <2>1 DEF JobShape
  <2> QED
    BY <2>1, <2>2, <2>3 DEF Effect, Clears
<1>16. CASE Rollback(r)
  <2>1. /\ run[r].pc = "raised" /\ run[r].kind = "reingest" /\ Goto(r, "rolled")
        /\ store' = store \cup Restorable(r)
        /\ removed' = (removed \ Own(r)) \cup Remaining(r, Restorable(r))
        /\ UNCHANGED <<jobs, contexts, written>> /\ Fine
    BY <1>16 DEF Rollback, At
  <2>2. RunShape' /\ Alone(r) /\ Goes(r, "rolled")
    BY <1>0, <2>1, GotoGoes
  <2>3. JobShape'
    BY <1>0, <2>1 DEF JobShape
  <2>4. Restores(r)
    BY <2>1, <2>2 DEF Restores
  <2> QED
    BY <2>2, <2>3, <2>4 DEF Effect
<1>17. CASE MarkFailed(r)
  <2>1. /\ run[r].pc = "rolled" /\ run' = [run EXCEPT ![r] = Idle]
        /\ SetStatus(run[r].job, "failed")
        /\ UNCHANGED <<contexts, store, removed, written>> /\ Fine
    BY <1>17 DEF MarkFailed, At, facts
  <2>2. RunShape' /\ Alone(r) /\ Frees(r)
    BY <1>0, <2>1, Freed
  <2>3. JobShape' /\ Marks(run[r].job, "failed")
    BY <1>0, <2>1, StatusMarks
  <2> QED
    BY <2>1, <2>2, <2>3 DEF Effect, GivesUp
<1>18. CASE MarkSuccess(r)
  <2>1. /\ run[r].pc = "success" /\ run' = [run EXCEPT ![r] = Idle]
        /\ jobs' = [jobs EXCEPT ![run[r].job].status = "done",
                                ![run[r].job].reingested = TRUE]
        /\ UNCHANGED <<contexts, store, removed, written>> /\ Fine
    BY <1>18 DEF MarkSuccess, At, facts
  <2>2. RunShape' /\ Alone(r) /\ Frees(r)
    BY <1>0, <2>1, Freed
  <2>3. JobShape' /\ Succeeded(run[r].job, TRUE)
    BY <1>0, <2>1, SuccessSucceeds
  <2> QED
    BY <2>1, <2>2, <2>3 DEF Effect, Succeeds
<1> HIDE DEF Took
<1> QED
  BY <1>1, <1>2, <1>3, <1>4, <1>5, <1>6, <1>7, <1>8, <1>9, <1>10, <1>11, <1>12, <1>13,
     <1>14, <1>15, <1>16, <1>17, <1>18 DEF Step

LEMMA FailureEffects ==
    ASSUME Grounded, NEW r \in Run, Failure(r)
    PROVE  Took(r)
<1> USE DEF Took
<1>0. RunShape /\ JobShape /\ (run[r].pc # "idle" => run[r].job \in Job)
  BY DEF Grounded
<1>1. CASE Raises(r)
  <2>1. /\ run[r].pc \in {"extract", "ready", "check", "embedded", "paths"}
        /\ Goto(r, "raised") /\ Fails
        /\ UNCHANGED <<jobs, contexts, store, removed, written>>
    BY <1>1 DEF Raises, Joined, At, facts, Fails, Fault
  <2>2. RunShape' /\ Alone(r) /\ Goes(r, "raised")
    BY <1>0, <2>1, GotoGoes
  <2>3. JobShape'
    BY <1>0, <2>1 DEF JobShape
  <2> QED
    BY <2>1, <2>2, <2>3 DEF Effect, Breaks
<1>2. CASE CatchFails(r)
  <2>1. /\ run[r].pc = "raised" /\ run[r].kind = "extract"
        /\ run' = [run EXCEPT ![r] = Idle] /\ Fails
        /\ UNCHANGED <<jobs, contexts, store, removed, written>>
    BY <1>2 DEF CatchFails, At, facts, Fails, Fault
  <2>2. RunShape' /\ Alone(r) /\ Frees(r)
    BY <1>0, <2>1, Freed
  <2>3. JobShape'
    BY <1>0, <2>1 DEF JobShape
  <2> QED
    BY <2>1, <2>2, <2>3 DEF Effect, Drops
<1>3. CASE WriteContextFails(r)
  <2>1. /\ run[r].pc = "hook" /\ ~Inserted(r) /\ ContextRefused(r) /\ Fails
        /\ contexts' \in {contexts, Append(contexts, NewContext(r))}
        /\ UNCHANGED <<store, removed, written>>
    BY <1>3 DEF WriteContextFails, At, facts, Fails, Fault
  <2> QED
    BY <2>1, RefusedBalks DEF Effect, Balks
<1>4. CASE StructuredFails(r)
  <2>1. /\ run[r].pc = "paths" /\ run[r].structured = "todo" /\ Fails
        /\ run' = [run EXCEPT ![r].structured = "failed"]
        /\ UNCHANGED <<jobs, contexts, store, removed, written>>
    BY <1>4 DEF StructuredFails, At, facts, Fails, Fault
  <2>2. /\ RunShape' /\ Alone(r) /\ run'[r].pc = run[r].pc /\ run'[r].structured = "failed"
        /\ Keeping(r) /\ run'[r].narrative = run[r].narrative
        /\ run'[r].batch = run[r].batch
    BY <1>0, <2>1, StructuredPut
  <2>3. JobShape'
    BY <1>0, <2>1 DEF JobShape
  <2>4. Commits(r)
    BY <2>1, <2>2 DEF Commits, OnPaths
  <2> QED
    BY <2>2, <2>3, <2>4 DEF Effect
<1>5. CASE StoreFails(r)
  <2>1. /\ Narrating(r) /\ StoreRefused(r) /\ Fails
        /\ store' \in {store, store \cup Documents(r)}
        /\ UNCHANGED <<jobs, contexts, removed, written>>
    BY <1>5 DEF StoreFails, facts, Fails, Fault
  <2>2. JobShape'
    BY <1>0, <2>1 DEF JobShape
  <2>3. /\ RunShape' /\ Alone(r) /\ OnPaths(r) /\ run'[r].structured = run[r].structured
        /\ run'[r].batch = run[r].batch /\ run'[r].narrative \in {"todo", "failed"}
    BY <2>1, RefusedRetries
  <2>4. Retries(r)
    BY <2>1, <2>3 DEF Retries, Narrating
  <2> QED
    BY <2>2, <2>3, <2>4 DEF Effect
<1>6. CASE EmbedFails(r)
  <2>1. /\ Narrating(r) /\ run' = [run EXCEPT ![r].narrative = "failed"] /\ Fails
        /\ UNCHANGED <<jobs, store, contexts, removed, written>>
    BY <1>6 DEF EmbedFails, facts, Fails, Fault
  <2>2. JobShape'
    BY <1>0, <2>1 DEF JobShape
  <2>3. /\ RunShape' /\ Alone(r) /\ run'[r].pc = run[r].pc /\ run'[r].narrative = "failed"
        /\ Keeping(r) /\ run'[r].structured = run[r].structured
        /\ run'[r].batch = run[r].batch
    BY <1>0, <2>1, NarrativePut
  <2>4. Retries(r)
    BY <2>1, <2>3 DEF Retries, Narrating, OnPaths, At
  <2> QED
    BY <2>2, <2>3, <2>4 DEF Effect
<1>7. CASE Escapes(r)
  <2>1. /\ run[r].pc \in {"backup", "delete", "clear", "rolled", "success"}
        /\ run' = [run EXCEPT ![r] = Idle] /\ Fails
        /\ removed' = (removed \ Own(r)) \cup Logged(Own(r))
        /\ UNCHANGED <<jobs, contexts, store, written>>
    BY <1>7 DEF Escapes, facts, Fails, Fault
  <2>2. RunShape' /\ Alone(r) /\ Frees(r)
    BY <1>0, <2>1, Freed
  <2>3. JobShape'
    BY <1>0, <2>1 DEF JobShape
  <2> QED
    BY <2>1, <2>2, <2>3 DEF Effect, Leaves
<1>8. CASE RollbackFails(r)
  <2>1. /\ run[r].pc = "raised" /\ run[r].kind = "reingest" /\ Goto(r, "rolled") /\ Fails
        /\ \E docs \in {{}, Restorable(r)} :
              /\ store' = store \cup docs
              /\ removed' = (removed \ Own(r)) \cup Logged(Remaining(r, docs))
        /\ UNCHANGED <<jobs, contexts, written>>
    BY <1>8 DEF RollbackFails, At, facts, Fails, Fault
  <2>2. RunShape' /\ Alone(r) /\ Goes(r, "rolled")
    BY <1>0, <2>1, GotoGoes
  <2>3. JobShape'
    BY <1>0, <2>1 DEF JobShape
  <2>4. Restores(r)
    BY <2>1, <2>2 DEF Restores
  <2> QED
    BY <2>2, <2>3, <2>4 DEF Effect
<1>9. CASE BeginFails(r)
  <2>1. /\ run[r].pc = "queued" /\ run' = [run EXCEPT ![r] = Idle]
        /\ SetStatus(run[r].job, "processing") \/ UNCHANGED jobs
        /\ escaped' = escaped \cup {run[r].job} /\ faults' = faults + 1
        /\ UNCHANGED <<contexts, store, removed, written, calls, crashed>>
    BY <1>9 DEF BeginFails, At, facts, Fault
  <2>2. RunShape' /\ Alone(r) /\ Frees(r)
    BY <1>0, <2>1, Freed
  <2>3. JobShape' /\ (Marks(run[r].job, "processing") \/ UNCHANGED jobs)
    <3>1. CASE SetStatus(run[r].job, "processing")
      BY <1>0, <2>1, <3>1, StatusMarks
    <3>2. CASE UNCHANGED jobs
      BY <1>0, <3>2 DEF JobShape
    <3> QED
      BY <2>1, <3>1, <3>2
  <2> QED
    BY <2>1, <2>2, <2>3 DEF Effect, Misses
<1> HIDE DEF Took
<1> QED
  BY <1>1, <1>2, <1>3, <1>4, <1>5, <1>6, <1>7, <1>8, <1>9 DEF Failure
-----------------------------------------------------------------------------
(* The requests.                                                           *)

Creates(j, context, files) ==
    /\ jobs[j] = NoJob
    /\ jobs'[j].status = "pending" /\ jobs'[j].context = context /\ jobs'[j].files = files
    /\ jobs'[j].ready = FALSE /\ jobs'[j].reingested = FALSE
    /\ OtherJobs(j)
Launches(r, j, kind, at) ==
    /\ run[r].pc = "idle" /\ run'[r].pc = at
    /\ run'[r].job = j /\ run'[r].kind = kind /\ run'[r].stamp = calls + 1
    /\ run'[r].structured = "todo" /\ run'[r].narrative = "todo" /\ run'[r].batch = 0
    /\ run'[r].tries = 0 /\ run'[r].backup = NoBackup
    /\ calls < MaxCalls /\ calls' = calls + 1
    /\ Alone(r)

Registers(j) ==
    \E files \in Batches : Creates(j, "session", files) /\ UNCHANGED <<run, calls>>
Triggers(r, j) ==
    /\ \/ jobs[j] # NoJob /\ UNCHANGED jobs
       \/ \E files \in Batches : Creates(j, "onboarding", files)
    /\ Launches(r, j, "extract", "queued")
Replaces(r, j) ==
    /\ \A q \in Run : run[q].kind # "reingest"
    /\ \E files \in Batches : Creates(j, "onboarding", files)
    /\ Launches(r, j, "reingest", "backup")
Asked ==
    /\ \E j \in Job : Registers(j) \/ (\E r \in Run : Triggers(r, j) \/ Replaces(r, j))
    /\ UNCHANGED <<store, contexts, faults, written, removed, escaped, crashed>>

LEMMA PutContext ==
    ASSUME NEW d, IsJob(d), NEW x
    PROVE  LET e == [d EXCEPT !.context = x] IN
           /\ IsJob(e) /\ e.context = x
           /\ e.status = d.status /\ e.files = d.files
           /\ e.ready = d.ready /\ e.reingested = d.reingested
BY SMT DEF IsJob

LEMMA PutFiles ==
    ASSUME NEW d, IsJob(d), NEW x
    PROVE  LET e == [d EXCEPT !.files = x] IN
           /\ IsJob(e) /\ e.files = x
           /\ e.status = d.status /\ e.context = d.context
           /\ e.ready = d.ready /\ e.reingested = d.reingested
BY SMT DEF IsJob

LEMMA PutJob ==
    ASSUME NEW l, IsRun(l), NEW x
    PROVE  LET m == [l EXCEPT !.job = x] IN
           /\ IsRun(m) /\ m.job = x /\ Work(m, l) /\ Rest(m, l)
           /\ m.pc = l.pc /\ m.kind = l.kind /\ m.stamp = l.stamp /\ m.category = l.category
BY SMT DEF IsRun, Work, Rest

LEMMA PutKind ==
    ASSUME NEW l, IsRun(l), NEW x
    PROVE  LET m == [l EXCEPT !.kind = x] IN
           /\ IsRun(m) /\ m.kind = x /\ Work(m, l) /\ Rest(m, l)
           /\ m.pc = l.pc /\ m.job = l.job /\ m.stamp = l.stamp /\ m.category = l.category
BY SMT DEF IsRun, Work, Rest

LEMMA PutStamp ==
    ASSUME NEW l, IsRun(l), NEW x
    PROVE  LET m == [l EXCEPT !.stamp = x] IN
           /\ IsRun(m) /\ m.stamp = x /\ Work(m, l) /\ Rest(m, l)
           /\ m.pc = l.pc /\ m.job = l.job /\ m.kind = l.kind /\ m.category = l.category
BY SMT DEF IsRun, Work, Rest

LEMMA PutCategory ==
    ASSUME NEW l, IsRun(l), NEW x
    PROVE  LET m == [l EXCEPT !.category = x] IN
           /\ IsRun(m) /\ m.category = x /\ Work(m, l) /\ Rest(m, l)
           /\ m.pc = l.pc /\ m.job = l.job /\ m.kind = l.kind /\ m.stamp = l.stamp
BY SMT DEF IsRun, Work, Rest

Filed(e, d, x, y, z) ==
    /\ IsJob(e) /\ e.status = x /\ e.context = y /\ e.files = z
    /\ e.ready = d.ready /\ e.reingested = d.reingested

LEMMA PutThree ==
    ASSUME NEW d, IsJob(d), NEW x, NEW y, NEW z
    PROVE  Filed([d EXCEPT !.status = x, !.context = y, !.files = z], d, x, y, z)
<1> DEFINE e1 == [d EXCEPT !.status = x]
           e2 == [e1 EXCEPT !.context = y]
           e3 == [e2 EXCEPT !.files = z]
<1>1. IsJob(e1) /\ e1.status = x /\ e1.ready = d.ready /\ e1.reingested = d.reingested
  BY PutStatus
<1> HIDE DEF e1
<1>2. /\ IsJob(e2) /\ e2.context = y /\ e2.status = e1.status /\ e2.ready = e1.ready
      /\ e2.reingested = e1.reingested
  BY <1>1, PutContext
<1> HIDE DEF e2
<1>3. /\ IsJob(e3) /\ e3.files = z /\ e3.status = e2.status /\ e3.ready = e2.ready
      /\ e3.reingested = e2.reingested /\ e3.context = e2.context
  BY <1>2, PutFiles
<1> HIDE DEF e3
<1>4. [d EXCEPT !.status = x, !.context = y, !.files = z] = e3
  BY DEF e1, e2, e3
<1> QED
  BY <1>1, <1>2, <1>3, <1>4 DEF Filed

LEMMA PutFive ==
    ASSUME NEW l, IsRun(l), NEW u, NEW v, NEW x, NEW y, NEW z
    PROVE  LET m == [l EXCEPT !.pc = u, !.job = v, !.kind = x, !.stamp = y, !.category = z] IN
           /\ IsRun(m) /\ m.pc = u /\ m.job = v /\ m.kind = x /\ m.stamp = y
           /\ m.category = z /\ Work(m, l) /\ Rest(m, l)
<1> DEFINE m1 == [l EXCEPT !.pc = u]
           m2 == [m1 EXCEPT !.job = v]
           m3 == [m2 EXCEPT !.kind = x]
           m4 == [m3 EXCEPT !.stamp = y]
           m5 == [m4 EXCEPT !.category = z]
<1>1. IsRun(m1) /\ m1.pc = u /\ Work(m1, l) /\ Rest(m1, l)
  BY PutPc
<1> HIDE DEF m1
<1>2. IsRun(m2) /\ m2.job = v /\ m2.pc = m1.pc /\ Work(m2, m1) /\ Rest(m2, m1)
  BY <1>1, PutJob
<1> HIDE DEF m2
<1>3. /\ IsRun(m3) /\ m3.kind = x /\ m3.pc = m2.pc /\ m3.job = m2.job
      /\ Work(m3, m2) /\ Rest(m3, m2)
  BY <1>2, PutKind
<1> HIDE DEF m3
<1>4. /\ IsRun(m4) /\ m4.stamp = y /\ m4.pc = m3.pc /\ m4.job = m3.job
      /\ m4.kind = m3.kind /\ Work(m4, m3) /\ Rest(m4, m3)
  BY <1>3, PutStamp
<1> HIDE DEF m4
<1>5. /\ IsRun(m5) /\ m5.category = z /\ m5.pc = m4.pc /\ m5.job = m4.job
      /\ m5.kind = m4.kind /\ m5.stamp = m4.stamp /\ Work(m5, m4) /\ Rest(m5, m4)
  BY <1>4, PutCategory
<1> HIDE DEF m5
<1>6. Work(m5, l) /\ Rest(m5, l)
  BY <1>1, <1>2, <1>3, <1>4, <1>5 DEF Work, Rest
<1>7. [l EXCEPT !.pc = u, !.job = v, !.kind = x, !.stamp = y, !.category = z] = m5
  BY DEF m1, m2, m3, m4, m5
<1> QED
  BY <1>1, <1>2, <1>3, <1>4, <1>5, <1>6, <1>7

LEMMA NewCreates ==
    ASSUME JobShape, NEW j \in Job, NEW context, NEW files, NewJob(j, context, files)
    PROVE  JobShape' /\ Creates(j, context, files)
<1> DEFINE d == [NoJob EXCEPT !.status = "pending", !.context = context, !.files = files]
<1>1. NoJob.ready = FALSE /\ NoJob.reingested = FALSE
  BY DEF NoJob
<1>4. IsJob(NoJob)
  BY DEF IsJob, NoJob
<1>2. jobs' = [jobs EXCEPT ![j] = d] /\ jobs[j] = NoJob
  BY DEF NewJob
<1>3. Filed(d, NoJob, "pending", context, files)
  BY <1>4, PutThree
<1> HIDE DEF d
<1>6. JobShape' /\ OtherJobs(j) /\ jobs'[j] = d
  BY <1>2, <1>3, OneJob DEF Filed
<1> QED
  BY <1>1, <1>2, <1>3, <1>6 DEF Creates, Filed

LEMMA StartLaunches ==
    ASSUME RunShape, NEW r \in Run, NEW j, NEW kind, NEW at, NEW category,
           Started(r, j, kind, at, category)
    PROVE  /\ RunShape' /\ Launches(r, j, kind, at)
           /\ UNCHANGED <<store, contexts, faults, written, removed, escaped, crashed>>
<1> DEFINE m == [Idle EXCEPT !.pc = at, !.job = j, !.kind = kind, !.stamp = calls + 1,
                             !.category = category]
<1>1. /\ IsRun(Idle) /\ Idle.structured = "todo" /\ Idle.narrative = "todo"
      /\ Idle.batch = 0 /\ Idle.tries = 0 /\ Idle.backup = NoBackup
  BY DEF Idle, IsRun
<1>2. run' = [run EXCEPT ![r] = m]
  BY DEF Started
<1>3. /\ IsRun(m) /\ m.pc = at /\ m.job = j /\ m.kind = kind /\ m.stamp = calls + 1
      /\ m.category = category /\ Work(m, Idle) /\ Rest(m, Idle)
  <2> DEFINE y == calls + 1
  <2> HIDE DEF y
  <2>1. LET k == [Idle EXCEPT !.pc = at, !.job = j, !.kind = kind, !.stamp = y,
                              !.category = category] IN
        /\ IsRun(k) /\ k.pc = at /\ k.job = j /\ k.kind = kind /\ k.stamp = y
        /\ k.category = category /\ Work(k, Idle) /\ Rest(k, Idle)
    BY <1>1, PutFive
  <2> QED
    BY <2>1 DEF y
<1>4. /\ m.structured = "todo" /\ m.narrative = "todo" /\ m.batch = 0 /\ m.tries = 0
      /\ m.backup = NoBackup
  BY <1>1, <1>3 DEF Work, Rest
<1> HIDE DEF m
<1>5. RunShape' /\ Alone(r) /\ run'[r] = m
  BY <1>2, <1>3, OneRun
<1>6. /\ run[r].pc = "idle" /\ calls < MaxCalls /\ calls' = calls + 1
      /\ UNCHANGED <<store, contexts, faults, written, removed, escaped, crashed>>
  BY DEF Started, At, facts
<1> QED
  BY <1>3, <1>4, <1>5, <1>6 DEF Launches

LEMMA RequestEffects ==
    ASSUME Grounded, Request
    PROVE  RunShape' /\ JobShape' /\ Asked
<1>0. RunShape /\ JobShape
  BY DEF Grounded
<1>1. ASSUME NEW j \in Job, NEW files \in Batches, CreateSessionJob(j, files)
      PROVE  RunShape' /\ JobShape' /\ Asked
  <2>1. /\ NewJob(j, "session", files) /\ UNCHANGED <<run, calls>>
        /\ UNCHANGED <<store, contexts, faults, written, removed, escaped, crashed>>
    BY <1>1 DEF CreateSessionJob
  <2>2. JobShape' /\ Creates(j, "session", files)
    BY <1>0, <2>1, NewCreates
  <2>3. RunShape'
    BY <1>0, <2>1 DEF RunShape
  <2> QED
    BY <2>1, <2>2, <2>3 DEF Asked, Registers
<1>2. ASSUME NEW r \in Run, NEW j \in Job, NEW files \in Batches, Upload(r, j, files)
      PROVE  RunShape' /\ JobShape' /\ Asked
  <2>1. NewJob(j, "onboarding", files) /\ Started(r, j, "extract", "queued", "none")
    BY <1>2 DEF Upload
  <2>2. JobShape' /\ Creates(j, "onboarding", files)
    BY <1>0, <2>1, NewCreates
  <2>3. /\ RunShape' /\ Launches(r, j, "extract", "queued")
        /\ UNCHANGED <<store, contexts, faults, written, removed, escaped, crashed>>
    BY <1>0, <2>1, StartLaunches
  <2> QED
    BY <2>2, <2>3 DEF Asked, Triggers
<1>3. ASSUME NEW r \in Run, NEW j \in Job, NEW files \in Batches, NEW category,
             Reingest(r, j, files, category)
      PROVE  RunShape' /\ JobShape' /\ Asked
  <2>1. /\ NewJob(j, "onboarding", files) /\ Started(r, j, "reingest", "backup", category)
        /\ \A q \in Run : run[q].kind # "reingest"
    BY <1>3 DEF Reingest
  <2>2. JobShape' /\ Creates(j, "onboarding", files)
    BY <1>0, <2>1, NewCreates
  <2>3. /\ RunShape' /\ Launches(r, j, "reingest", "backup")
        /\ UNCHANGED <<store, contexts, faults, written, removed, escaped, crashed>>
    BY <1>0, <2>1, StartLaunches
  <2> QED
    BY <2>1, <2>2, <2>3 DEF Asked, Replaces
<1>4. ASSUME NEW r \in Run, NEW j \in Job, Trigger(r, j)
      PROVE  RunShape' /\ JobShape' /\ Asked
  <2>1. /\ jobs[j] # NoJob /\ UNCHANGED jobs
        /\ Started(r, j, "extract", "queued", "none")
    BY <1>4 DEF Trigger
  <2>2. JobShape'
    BY <1>0, <2>1 DEF JobShape
  <2>3. /\ RunShape' /\ Launches(r, j, "extract", "queued")
        /\ UNCHANGED <<store, contexts, faults, written, removed, escaped, crashed>>
    BY <1>0, <2>1, StartLaunches
  <2> QED
    BY <2>1, <2>2, <2>3 DEF Asked, Triggers
<1> QED
  BY <1>1, <1>2, <1>3, <1>4 DEF Request

LEMMA RestartIdles ==
    ASSUME Grounded, Restart
    PROVE  /\ RunShape' /\ JobShape' /\ crashed' = TRUE /\ \A r \in Run : run'[r] = Idle
           /\ UNCHANGED <<jobs, store, contexts, calls, faults, written, removed>>
<1>1. /\ run' = [r \in Run |-> Idle] /\ crashed' = TRUE
      /\ UNCHANGED <<jobs, store, contexts, calls, faults, written, removed>>
  BY DEF Restart, facts
<1>2. JobShape'
  BY <1>1 DEF Grounded, JobShape
<1>3. RunShape'
  BY <1>1, IdleIsRun DEF RunShape
<1> QED
  BY <1>1, <1>2, <1>3
-----------------------------------------------------------------------------
(* Where the runs and the jobs stand.                                      *)

Counters == calls \in Nat /\ faults \in Nat
Filing ==
    \A j \in Job :
        IF jobs[j].status = "none" THEN jobs[j] = NoJob ELSE jobs[j].files \in Batches

\* A job that was posted has files, and a run that has begun has such a job.
Posted(j) == j \in Job /\ jobs[j].status # "none"

Before == {"queued", "backup", "delete", "clear", "extract", "hook", "ready", "check"}
Reingesting == {"backup", "delete", "clear", "rolled", "success"}

\* Where a run can be, by its kind and its job; and what it has not begun.
Placed(l) ==
    /\ l.pc # "idle" => Posted(l.job)
    /\ l.kind \in {"extract", "reingest"}
    /\ l.pc \in Reingesting => l.kind = "reingest"
    /\ l.pc = "queued" => l.kind = "extract"
    /\ l.pc = "backup" => l.backup.docs = {}
    /\ l.kind = "reingest" => l.pc # "idle" /\ jobs[l.job].context = "onboarding"
    /\ l.pc \in {"hook", "ready", "embedded"} => jobs[l.job].context = "session"
    /\ l.pc = "hook" => HasContent(jobs[l.job].files)
    /\ l.pc \in Before => l.structured = "todo" /\ l.narrative = "todo" /\ l.batch = 0

\* One re-ingestion at a time.
Alternate == \A r, q \in Run : run[r].kind = "reingest" /\ run[q].kind = "reingest" => r = q

PlaceInv ==
    /\ RunShape /\ JobShape /\ Counters /\ Filing
    /\ \A r \in Run : Placed(run[r])
    /\ Alternate

Restarted ==
    /\ crashed' = TRUE /\ \A r \in Run : run'[r] = Idle
    /\ UNCHANGED <<jobs, store, contexts, calls, faults, written, removed>>
Moves == Asked \/ (\E r \in Run : Alone(r) /\ Effect(r)) \/ Restarted \/ UNCHANGED vars

LEMMA StepMoves ==
    ASSUME PlaceInv, [Next]_vars
    PROVE  RunShape' /\ JobShape' /\ Moves
<1>1. Grounded
  BY DEF PlaceInv, Grounded, Placed, Posted
<1>2. CASE Request
  BY <1>1, <1>2, RequestEffects DEF Moves
<1>3. ASSUME NEW r \in Run, Step(r) \/ Failure(r)
      PROVE  RunShape' /\ JobShape' /\ Moves
  BY <1>1, <1>3, StepEffects, FailureEffects DEF Moves, Took
<1>4. CASE Restart
  BY <1>1, <1>4, RestartIdles DEF Moves, Restarted
<1>5. CASE UNCHANGED vars
  BY <1>1, <1>5 DEF Moves, Grounded, RunShape, JobShape, vars
<1> QED
  BY <1>2, <1>3, <1>4, <1>5 DEF Next

\* The writes to the jobs.
JobMove(r) ==
    \/ UNCHANGED jobs
    \/ \E s \in Status \ {"none"} : Marks(run[r].job, s)
    \/ Readied(run[r].job, TRUE)
    \/ Succeeded(run[r].job, TRUE)

\* What no step of a run does to the counters.
Drifts == UNCHANGED <<calls, crashed>> /\ (UNCHANGED faults \/ faults' = faults + 1)

LEMMA EffectFrame ==
    ASSUME NEW r \in Run, Effect(r)
    PROVE  /\ run[r].pc # "idle" /\ JobMove(r)
           /\ Frees(r) \/ Identity(run'[r], run[r])
           /\ Drifts
<1> USE DEF JobMove, Goes, Keeping, OnPaths, Back, Status, Drifts, Fine, Fails, Quiet
<1>1. CASE Begins(r)
  BY <1>1 DEF Begins
<1>2. CASE Refuses(r)
  BY <1>2 DEF Refuses
<1>3. CASE Routes(r)
  BY <1>3 DEF Routes
<1>4. CASE Breaks(r)
  BY <1>4 DEF Breaks
<1>5. CASE Catches(r)
  BY <1>5 DEF Catches
<1>6. CASE Drops(r)
  BY <1>6 DEF Drops
<1>7. CASE Shows(r)
  BY <1>7 DEF Shows
<1>8. CASE Balks(r)
  BY <1>8 DEF Balks
<1>9. CASE Announces(r)
  BY <1>9 DEF Announces
<1>10. CASE Stops(r)
  BY <1>10 DEF Stops
<1>11. CASE Enters(r)
  BY <1>11 DEF Enters
<1>12. CASE Commits(r)
  BY <1>12 DEF Commits
<1>13. CASE Stores(r)
  BY <1>13 DEF Stores
<1>14. CASE Retries(r)
  BY <1>14 DEF Retries
<1>15. CASE Concludes(r)
  <2>1. Outcome(r) \in Status \ {"none"}
    BY DEF Outcome, Status
  <2> QED
    BY <1>15, <2>1 DEF Concludes, Goes, Back, Joined, At
<1>16. CASE Retiring(r)
  BY <1>16 DEF Retiring
<1>17. CASE Backs(r)
  BY <1>17 DEF Backs
<1>18. CASE Deletes(r)
  BY <1>18 DEF Deletes
<1>19. CASE Clears(r)
  BY <1>19 DEF Clears
<1>20. CASE Leaves(r)
  BY <1>20 DEF Leaves
<1>21. CASE Restores(r)
  BY <1>21 DEF Restores
<1>22. CASE GivesUp(r)
  BY <1>22 DEF GivesUp
<1>23. CASE Succeeds(r)
  BY <1>23 DEF Succeeds
<1>24. CASE Misses(r)
  BY <1>24 DEF Misses
<1> QED
  BY <1>1, <1>2, <1>3, <1>4, <1>5, <1>6, <1>7, <1>8, <1>9, <1>10, <1>11, <1>12,
     <1>13, <1>14, <1>15, <1>16, <1>17, <1>18, <1>19, <1>20, <1>21, <1>22, <1>23,
     <1>24 DEF Effect

\* A job that was posted keeps its files; one that was not stays as it is.
JobsKept ==
    \A j \in Job :
        /\ jobs[j].status # "none" =>
              /\ jobs'[j].status # "none" /\ SameUpload(j)
              /\ jobs[j].ready => jobs'[j].ready
              /\ jobs[j].reingested => jobs'[j].reingested
        /\ jobs[j].status = "none" =>
              \/ jobs'[j] = jobs[j]
              \/ jobs'[j].status # "none" /\ jobs'[j].files \in Batches

LEMMA EffectJobs ==
    ASSUME PlaceInv, NEW r \in Run, Effect(r)
    PROVE  JobsKept /\ \A j \in Job : jobs[j].status = "none" => jobs'[j] = jobs[j]
<1>1. run[r].pc # "idle" /\ JobMove(r)
  BY EffectFrame
<1>2. Posted(run[r].job)
  BY <1>1 DEF PlaceInv, Placed
<1>3. CASE UNCHANGED jobs
  BY <1>3 DEF JobsKept, SameUpload
<1>4. ASSUME NEW s \in Status \ {"none"}, Marks(run[r].job, s)
      PROVE  JobsKept /\ \A j \in Job : jobs[j].status = "none" => jobs'[j] = jobs[j]
  BY <1>2, <1>4 DEF JobsKept, Marks, SameUpload, OtherJobs, Posted
<1>5. CASE Readied(run[r].job, TRUE)
  BY <1>2, <1>5 DEF JobsKept, Readied, SameUpload, OtherJobs, Posted
<1>6. CASE Succeeded(run[r].job, TRUE)
  BY <1>2, <1>6 DEF JobsKept, Succeeded, SameUpload, OtherJobs, Posted
<1> QED
  BY <1>1, <1>3, <1>4, <1>5, <1>6 DEF JobMove

LEMMA CreateJobs ==
    ASSUME NEW j \in Job, NEW context, NEW files \in Batches, Creates(j, context, files)
    PROVE  JobsKept
BY DEF JobsKept, Creates, OtherJobs, SameUpload, NoJob

LEMMA AskedJobs ==
    ASSUME Asked
    PROVE  JobsKept
<1>1. CASE UNCHANGED jobs
  BY <1>1 DEF JobsKept, SameUpload
<1>2. ASSUME NEW j \in Job, NEW context, NEW files \in Batches, Creates(j, context, files)
      PROVE  JobsKept
  BY <1>2, CreateJobs
<1> QED
  BY <1>1, <1>2 DEF Asked, Registers, Triggers, Replaces

LEMMA MovesJobs ==
    ASSUME PlaceInv, Moves
    PROVE  JobsKept
<1>1. UNCHANGED jobs => JobsKept
  BY DEF JobsKept, SameUpload
<1> QED
  BY <1>1, AskedJobs, EffectJobs DEF Moves, Restarted, vars

LEMMA OthersPlaced ==
    ASSUME PlaceInv, JobsKept, NEW q \in Run, run'[q] = run[q]
    PROVE  Placed(run[q])'
<1>1. Placed(run[q])
  BY DEF PlaceInv
<1>2. Posted(run[q].job) =>
         Posted(run[q].job)' /\ SameUpload(run[q].job)
  BY DEF JobsKept, Posted
<1> QED
  BY <1>1, <1>2 DEF Placed, SameUpload

LEMMA IdlePlaced ==
    ASSUME NEW q \in Run, run'[q] = Idle
    PROVE  Placed(run[q])'
BY DEF Placed, Idle, Reingesting, Before

LEMMA ActorPlaced ==
    ASSUME PlaceInv, JobsKept, NEW r \in Run, Effect(r)
    PROVE  Placed(run[r])'
<1>a. Placed(run[r]) /\ run[r].pc # "idle"
  BY EffectFrame DEF PlaceInv
<1>d. Posted(run[r].job)
  BY <1>a DEF Placed
<1>b. jobs'[run[r].job].status # "none" /\ SameUpload(run[r].job)
  <2> DEFINE j == run[r].job
  <2>1. jobs'[j].status # "none" /\ SameUpload(j)
    BY <1>d DEF JobsKept, Posted
  <2> QED
    BY <1>d, <2>1 DEF Posted
<1>c. Frees(r) => Placed(run[r])'
  BY IdlePlaced DEF Frees
<1> USE DEF Posted, Placed, Before, Reingesting, SameUpload, Goes, Keeping, OnPaths,
        Identity, Work, Rest
<1>1. CASE Begins(r)
  BY <1>a, <1>b, <1>c, <1>d, <1>1 DEF Begins
<1>2. CASE Refuses(r)
  BY <1>a, <1>b, <1>c, <1>d, <1>2 DEF Refuses
<1>3. CASE Routes(r)
  BY <1>a, <1>b, <1>c, <1>d, <1>3 DEF Routes, Doc
<1>4. CASE Breaks(r)
  BY <1>a, <1>b, <1>c, <1>d, <1>4 DEF Breaks
<1>5. CASE Catches(r)
  BY <1>a, <1>b, <1>c, <1>d, <1>5 DEF Catches
<1>6. CASE Drops(r)
  BY <1>a, <1>b, <1>c, <1>d, <1>6 DEF Drops
<1>7. CASE Shows(r)
  BY <1>a, <1>b, <1>c, <1>d, <1>7 DEF Shows
<1>8. CASE Balks(r)
  BY <1>a, <1>b, <1>c, <1>d, <1>8 DEF Balks
<1>9. CASE Announces(r)
  BY <1>a, <1>b, <1>c, <1>d, <1>9 DEF Announces
<1>10. CASE Stops(r)
  BY <1>a, <1>b, <1>c, <1>d, <1>10 DEF Stops, Back
<1>11. CASE Enters(r)
  BY <1>a, <1>b, <1>c, <1>d, <1>11 DEF Enters
<1>12. CASE Commits(r)
  BY <1>a, <1>b, <1>c, <1>d, <1>12 DEF Commits
<1>13. CASE Stores(r)
  BY <1>a, <1>b, <1>c, <1>d, <1>13 DEF Stores
<1>14. CASE Retries(r)
  BY <1>a, <1>b, <1>c, <1>d, <1>14 DEF Retries
<1>15. CASE Concludes(r)
  BY <1>a, <1>b, <1>c, <1>d, <1>15 DEF Concludes, Doc, Back, Joined, At
<1>16. CASE Retiring(r)
  BY <1>a, <1>b, <1>c, <1>d, <1>16 DEF Retiring, Back
<1>17. CASE Backs(r)
  BY <1>a, <1>b, <1>c, <1>d, <1>17 DEF Backs
<1>18. CASE Deletes(r)
  BY <1>a, <1>b, <1>c, <1>d, <1>18 DEF Deletes
<1>19. CASE Clears(r)
  BY <1>a, <1>b, <1>c, <1>d, <1>19 DEF Clears
<1>20. CASE Leaves(r)
  BY <1>a, <1>b, <1>c, <1>d, <1>20 DEF Leaves
<1>21. CASE Restores(r)
  BY <1>a, <1>b, <1>c, <1>d, <1>21 DEF Restores
<1>22. CASE GivesUp(r)
  BY <1>a, <1>b, <1>c, <1>d, <1>22 DEF GivesUp
<1>23. CASE Succeeds(r)
  BY <1>a, <1>b, <1>c, <1>d, <1>23 DEF Succeeds
<1>24. CASE Misses(r)
  BY <1>a, <1>b, <1>c, <1>d, <1>24 DEF Misses
<1> QED
  BY <1>1, <1>2, <1>3, <1>4, <1>5, <1>6, <1>7, <1>8, <1>9, <1>10, <1>11, <1>12,
     <1>13, <1>14, <1>15, <1>16, <1>17, <1>18, <1>19, <1>20, <1>21, <1>22, <1>23,
     <1>24 DEF Effect

LEMMA LaunchPlaced ==
    ASSUME PlaceInv, JobsKept, NEW r \in Run, NEW j \in Job,
           Triggers(r, j) \/ Replaces(r, j)
    PROVE  Placed(run[r])'
<1>1. Posted(j)'
  BY DEF Triggers, Replaces, Creates, Posted, JobsKept, PlaceInv, Filing
<1>2. CASE Triggers(r, j)
  BY <1>1, <1>2 DEF Triggers, Launches, Placed, Before, Reingesting
<1>3. CASE Replaces(r, j)
  <2>1. jobs'[j].context = "onboarding"
    BY <1>3 DEF Replaces, Creates
  <2>2. Launches(r, j, "reingest", "backup")
    BY <1>3 DEF Replaces
  <2>3. run'[r].backup.docs = {}
    BY <2>2 DEF Launches, NoBackup
  <2> QED
    BY <1>1, <2>1, <2>2, <2>3 DEF Launches, Placed, Before, Reingesting
<1> QED
  BY <1>2, <1>3

LEMMA InitPlace ==
    ASSUME Init
    PROVE  PlaceInv
<1>1. RunShape
  BY IdleIsRun DEF Init, RunShape
<1>2. IsJob(NoJob)
  BY DEF IsJob, NoJob
<1>3. JobShape
  BY <1>2 DEF Init, JobShape
<1>4. Counters /\ Filing
  BY DEF Init, Counters, Filing, NoJob
<1>5. \A r \in Run : run[r] = Idle
  BY DEF Init
<1>6. \A r \in Run : Placed(run[r])
  BY <1>5 DEF Placed, Idle, Reingesting, Before
<1>7. Alternate
  BY <1>5 DEF Alternate, Idle
<1> QED
  BY <1>1, <1>3, <1>4, <1>6, <1>7 DEF PlaceInv

LEMMA PlaceStep ==
    ASSUME PlaceInv, [Next]_vars
    PROVE  PlaceInv' /\ JobsKept /\ Moves
<1>1. RunShape' /\ JobShape' /\ Moves
  BY StepMoves
<1>2. JobsKept
  BY <1>1, MovesJobs
<1>3. Filing'
  BY <1>2 DEF Filing, JobsKept, SameUpload, PlaceInv
<1>4. ASSUME NEW r \in Run, Alone(r), Effect(r)
      PROVE  Counters' /\ Alternate' /\ \A q \in Run : Placed(run[q])'
  <2>1. Counters'
    BY <1>4, EffectFrame DEF PlaceInv, Counters, Drifts
  <2>2. \A q \in Run : run'[q].kind = "reingest" => run[q].kind = "reingest"
    BY <1>4, EffectFrame DEF Alone, Frees, Identity, Idle
  <2>3. Alternate'
    BY <2>2 DEF PlaceInv, Alternate
  <2>4. \A q \in Run : Placed(run[q])'
    BY <1>2, <1>4, OthersPlaced, ActorPlaced DEF Alone
  <2> QED
    BY <2>1, <2>3, <2>4
<1>5. ASSUME Asked
      PROVE  Counters' /\ Alternate' /\ \A q \in Run : Placed(run[q])'
  <2>1. PICK j \in Job : Registers(j) \/ (\E r \in Run : Triggers(r, j) \/ Replaces(r, j))
    BY <1>5 DEF Asked
  <2>2. UNCHANGED faults
    BY <1>5 DEF Asked
  <2>3. CASE Registers(j)
    <3>1. UNCHANGED <<run, calls>>
      BY <2>3 DEF Registers
    <3>2. \A q \in Run : Placed(run[q])'
      BY <1>2, <3>1, OthersPlaced
    <3> QED
      BY <1>1, <1>3, <2>2, <3>1, <3>2 DEF PlaceInv, Counters, Alternate
  <2>4. ASSUME NEW r \in Run, Triggers(r, j) \/ Replaces(r, j)
        PROVE  Counters' /\ Alternate' /\ \A q \in Run : Placed(run[q])'
    <3>1. Alone(r) /\ calls' = calls + 1
      BY <2>4 DEF Triggers, Replaces, Launches
    <3>2. Counters'
      BY <2>2, <3>1 DEF PlaceInv, Counters
    <3>3. Alternate'
      <4>1. CASE Triggers(r, j)
        BY <3>1, <4>1 DEF Triggers, Launches, Alone, PlaceInv, Alternate
      <4>2. CASE Replaces(r, j)
        BY <3>1, <4>2 DEF Replaces, Launches, Alone, PlaceInv, Alternate
      <4> QED
        BY <2>4, <4>1, <4>2
    <3>4. \A q \in Run : Placed(run[q])'
      BY <1>2, <2>4, <3>1, OthersPlaced, LaunchPlaced DEF Alone
    <3> QED
      BY <3>2, <3>3, <3>4
  <2> QED
    BY <1>1, <1>3, <2>1, <2>3, <2>4 DEF PlaceInv
<1>6. ASSUME Restarted
      PROVE  Counters' /\ Alternate' /\ \A q \in Run : Placed(run[q])'
  <2>1. \A q \in Run : run'[q] = Idle
    BY <1>6 DEF Restarted
  <2>2. \A q \in Run : Placed(run[q])'
    BY <2>1, IdlePlaced
  <2>3. Alternate'
    BY <2>1 DEF Alternate, Idle
  <2>4. Counters'
    BY <1>6 DEF Restarted, PlaceInv, Counters
  <2> QED
    BY <1>1, <1>3, <2>2, <2>3, <2>4 DEF PlaceInv
<1>7. ASSUME UNCHANGED vars
      PROVE  Counters' /\ Alternate' /\ \A q \in Run : Placed(run[q])'
  <2>1. UNCHANGED <<run, calls, faults>>
    BY <1>7 DEF vars
  <2>2. \A q \in Run : Placed(run[q])'
    BY <1>2, <2>1, OthersPlaced
  <2> QED
    BY <1>1, <1>3, <2>1, <2>2 DEF PlaceInv, Counters, Alternate
<1>8. Counters' /\ Alternate' /\ \A q \in Run : Placed(run[q])'
  BY <1>1, <1>4, <1>5, <1>6, <1>7 DEF Moves, PlaceInv
<1> QED
  BY <1>1, <1>2, <1>3, <1>8 DEF PlaceInv
-----------------------------------------------------------------------------
(* No job is left processing.                                              *)

\* The run that answers for a job in processing: it will set another status,
\* or it has met a failure already.
AnswersFor(r, j) ==
    /\ run[r].job = j /\ run[r].kind = "extract"
    /\ \/ run[r].pc \in {"extract", "hook", "ready", "check", "paths"}
       \/ run[r].pc = "raised" /\ faults > 0
Answers(j) == \E r \in Run : AnswersFor(r, j)
Answered ==
    \A j \in Job :
        jobs[j].status = "processing" => Answers(j) \/ crashed \/ faults > 1 \/ j \in escaped

LEMMA ActorAnswers ==
    ASSUME PlaceInv, NEW r \in Run, Effect(r), NEW j \in Job
    PROVE  /\ (jobs'[j].status = "processing" /\ jobs[j].status # "processing")
                 => AnswersFor(r, j)' \/ j \in escaped'
           /\ (jobs'[j].status = "processing" /\ AnswersFor(r, j))
                 => AnswersFor(r, j)' \/ faults' > 1
           /\ j \in escaped => AnswersFor(r, j)' \/ j \in escaped'
<1>a. Placed(run[r]) /\ Counters /\ run[r].job \in Job
  BY EffectFrame DEF PlaceInv, Placed, Posted
<1>b. /\ run[r].pc = "queued" => run[r].kind = "extract"
      /\ run[r].pc \in {"backup", "delete", "clear", "rolled", "success"}
            => run[r].kind = "reingest"
  BY <1>a DEF Placed, Reingesting
<1>c. faults \in Nat
  BY <1>a DEF Counters
<1> USE DEF AnswersFor, Goes, Keeping, OnPaths, Identity, Marks, OtherJobs, Readied,
        Succeeded, Fine, Fails, Quiet, Frees, Back, Doc, Joined, At
<1>1. CASE Begins(r)
  BY <1>a, <1>b, <1>c, <1>1 DEF Begins
<1>2. CASE Refuses(r)
  BY <1>a, <1>b, <1>c, <1>2 DEF Refuses
<1>3. CASE Routes(r)
  BY <1>a, <1>b, <1>c, <1>3 DEF Routes
<1>4. CASE Breaks(r)
  BY <1>a, <1>b, <1>c, <1>4 DEF Breaks
<1>5. CASE Catches(r)
  BY <1>a, <1>b, <1>c, <1>5 DEF Catches
<1>6. CASE Drops(r)
  BY <1>a, <1>b, <1>c, <1>6 DEF Drops
<1>7. CASE Shows(r)
  BY <1>a, <1>b, <1>c, <1>7 DEF Shows
<1>8. CASE Balks(r)
  BY <1>a, <1>b, <1>c, <1>8 DEF Balks
<1>9. CASE Announces(r)
  BY <1>a, <1>b, <1>c, <1>9 DEF Announces
<1>10. CASE Stops(r)
  BY <1>a, <1>b, <1>c, <1>10 DEF Stops
<1>11. CASE Enters(r)
  BY <1>a, <1>b, <1>c, <1>11 DEF Enters
<1>12. CASE Commits(r)
  BY <1>a, <1>b, <1>c, <1>12 DEF Commits
<1>13. CASE Stores(r)
  BY <1>a, <1>b, <1>c, <1>13 DEF Stores
<1>14. CASE Retries(r)
  BY <1>a, <1>b, <1>c, <1>14 DEF Retries
<1>15. CASE Concludes(r)
  <2>1. Outcome(r) \in {"done", "partial", "failed"}
    BY DEF Outcome
  <2>2. Marks(run[r].job, Outcome(r)) /\ run[r].pc = "paths"
    BY <1>15 DEF Concludes, Joined, At
  <2>3. \A k \in Job : k # run[r].job => jobs'[k] = jobs[k]
    BY <2>2 DEF Marks, OtherJobs
  <2>4. jobs'[run[r].job].status # "processing" /\ escaped' = escaped
    BY <1>15, <2>1, <2>2 DEF Concludes, Marks, Fine, Quiet
  <2> QED
    BY <2>3, <2>4
<1>16. CASE Retiring(r)
  BY <1>a, <1>b, <1>c, <1>16 DEF Retiring
<1>17. CASE Backs(r)
  BY <1>a, <1>b, <1>c, <1>17 DEF Backs
<1>18. CASE Deletes(r)
  BY <1>a, <1>b, <1>c, <1>18 DEF Deletes
<1>19. CASE Clears(r)
  BY <1>a, <1>b, <1>c, <1>19 DEF Clears
<1>20. CASE Leaves(r)
  BY <1>a, <1>b, <1>c, <1>20 DEF Leaves
<1>21. CASE Restores(r)
  BY <1>a, <1>b, <1>c, <1>21 DEF Restores
<1>22. CASE GivesUp(r)
  BY <1>a, <1>b, <1>c, <1>22 DEF GivesUp
<1>23. CASE Succeeds(r)
  BY <1>a, <1>b, <1>c, <1>23 DEF Succeeds
<1>24. CASE Misses(r)
  BY <1>a, <1>b, <1>c, <1>24 DEF Misses
<1> QED
  BY <1>1, <1>2, <1>3, <1>4, <1>5, <1>6, <1>7, <1>8, <1>9, <1>10, <1>11, <1>12,
     <1>13, <1>14, <1>15, <1>16, <1>17, <1>18, <1>19, <1>20, <1>21, <1>22, <1>23,
     <1>24 DEF Effect

LEMMA InitAnswered ==
    ASSUME Init
    PROVE  Answered
BY DEF Init, Answered, NoJob

LEMMA AnsweredStep ==
    ASSUME PlaceInv, Answered, Moves
    PROVE  Answered'
<1> SUFFICES ASSUME NEW j \in Job, jobs'[j].status = "processing"
             PROVE  Answers(j)' \/ crashed' \/ faults' > 1 \/ j \in escaped'
  BY DEF Answered
<1>0. jobs[j].status = "processing" => Answers(j) \/ crashed \/ faults > 1 \/ j \in escaped
  BY DEF Answered
<1>1. ASSUME NEW r \in Run, Alone(r), Effect(r)
      PROVE  Answers(j)' \/ crashed' \/ faults' > 1 \/ j \in escaped'
  <2>1. crashed' = crashed /\ (faults' = faults \/ faults' = faults + 1) /\ faults \in Nat
    BY <1>1, EffectFrame DEF Drifts, PlaceInv, Counters
  <2>2. /\ jobs[j].status # "processing" => AnswersFor(r, j)' \/ j \in escaped'
        /\ AnswersFor(r, j) => AnswersFor(r, j)' \/ faults' > 1
        /\ j \in escaped => AnswersFor(r, j)' \/ j \in escaped'
    BY <1>1, ActorAnswers
  <2>3. ASSUME NEW q \in Run, q # r, AnswersFor(q, j)
        PROVE  AnswersFor(q, j)'
    BY <1>1, <2>1, <2>3 DEF Alone, AnswersFor
  <2> QED
    BY <1>0, <2>1, <2>2, <2>3 DEF Answers
<1>2. CASE Asked
  <2>1. UNCHANGED <<faults, escaped, crashed>>
    BY <1>2 DEF Asked
  <2>2. jobs[j].status = "processing"
    BY <1>2 DEF Asked, Registers, Triggers, Replaces, Creates, OtherJobs
  <2>3. ASSUME NEW q \in Run, AnswersFor(q, j)
        PROVE  AnswersFor(q, j)'
    <3>1. run[q].pc # "idle"
      BY <2>3 DEF AnswersFor
    <3>2. run'[q] = run[q]
      BY <1>2, <3>1 DEF Asked, Registers, Triggers, Replaces, Launches, Alone
    <3> QED
      BY <2>1, <2>3, <3>2 DEF AnswersFor
  <2> QED
    BY <1>0, <2>1, <2>2, <2>3 DEF Answers
<1>3. CASE Restarted
  BY <1>3 DEF Restarted
<1>4. CASE UNCHANGED vars
  BY <1>0, <1>4 DEF vars, Answers, AnswersFor
<1> QED
  BY <1>1, <1>2, <1>3, <1>4 DEF Moves

\* A job is left processing with no task at it only if the process has died, two
\* calls have failed, or its last run failed before it was under the try.
THEOREM JobsAreAnswered == Spec => []NeverStranded
<1>1. Init => PlaceInv /\ Answered
  BY InitPlace, InitAnswered
<1>2. PlaceInv /\ Answered /\ [Next]_vars => PlaceInv' /\ Answered'
  BY PlaceStep, AnsweredStep
<1>3. Answered => NeverStranded
  BY DEF Answered, Answers, AnswersFor, NeverStranded, AtRest
<1> QED
  BY <1>1, <1>2, <1>3, PTL DEF Spec
-----------------------------------------------------------------------------
(* What a re-ingestion has deleted is not lost.                            *)

\* A chunk a re-ingestion has deleted is still in its backup, was logged as
\* lost, or belongs to a re-ingestion that succeeded.
Holds(r, x) ==
    /\ run[r].kind = "reingest" /\ run[r].job = x.by
    /\ run[r].pc # "rolled" /\ x.doc \in run[r].backup.docs
BackedUp(x) ==
    (x.saved /\ ~crashed) =>
        \/ x.logged
        \/ jobs[x.by].reingested
        \/ \E r \in Run : Holds(r, x)
IsRemoval(x) == x = [doc |-> x.doc, by |-> x.by, logged |-> x.logged, saved |-> x.saved]
Kept == \A x \in removed : IsRemoval(x) /\ Posted(x.by) /\ BackedUp(x)

\* The chunk is still in the backup of the run, unless the run is the one that
\* ends or puts it back.
LEMMA ActorHolds ==
    ASSUME PlaceInv, NEW r \in Run, Effect(r), NEW x, Holds(r, x)
    PROVE  \/ Holds(r, x)'
           \/ Restores(r) \/ Leaves(r) \/ Succeeds(r)
<1>a. Placed(run[r])
  BY DEF PlaceInv
<1>b. run[r].pc = "queued" => run[r].kind = "extract"
  BY <1>a DEF Placed
<1>c. run[r].pc = "backup" => run[r].backup.docs = {}
  BY <1>a DEF Placed
<1>d. run[r].kind = "reingest" /\ run[r].pc # "rolled" /\ x.doc \in run[r].backup.docs
  BY DEF Holds
<1> USE DEF Holds, Goes, Keeping, OnPaths, Identity, Back, Rest
<1>1. CASE Begins(r)
  BY <1>b, <1>c, <1>d, <1>1 DEF Begins
<1>2. CASE Refuses(r)
  BY <1>b, <1>c, <1>d, <1>2 DEF Refuses
<1>3. CASE Routes(r)
  BY <1>b, <1>c, <1>d, <1>3 DEF Routes
<1>4. CASE Breaks(r)
  BY <1>b, <1>c, <1>d, <1>4 DEF Breaks
<1>5. CASE Catches(r)
  BY <1>b, <1>c, <1>d, <1>5 DEF Catches
<1>6. CASE Drops(r)
  BY <1>b, <1>c, <1>d, <1>6 DEF Drops
<1>7. CASE Shows(r)
  BY <1>b, <1>c, <1>d, <1>7 DEF Shows
<1>8. CASE Balks(r)
  BY <1>b, <1>c, <1>d, <1>8 DEF Balks
<1>9. CASE Announces(r)
  BY <1>b, <1>c, <1>d, <1>9 DEF Announces
<1>10. CASE Stops(r)
  BY <1>b, <1>c, <1>d, <1>10 DEF Stops
<1>11. CASE Enters(r)
  BY <1>b, <1>c, <1>d, <1>11 DEF Enters
<1>12. CASE Commits(r)
  BY <1>b, <1>c, <1>d, <1>12 DEF Commits
<1>13. CASE Stores(r)
  BY <1>b, <1>c, <1>d, <1>13 DEF Stores
<1>14. CASE Retries(r)
  BY <1>b, <1>c, <1>d, <1>14 DEF Retries
<1>15. CASE Concludes(r)
  BY <1>b, <1>c, <1>d, <1>15 DEF Concludes
<1>16. CASE Retiring(r)
  BY <1>b, <1>c, <1>d, <1>16 DEF Retiring
<1>17. CASE Backs(r)
  BY <1>b, <1>c, <1>d, <1>17 DEF Backs
<1>18. CASE Deletes(r)
  BY <1>b, <1>c, <1>d, <1>18 DEF Deletes
<1>19. CASE Clears(r)
  BY <1>b, <1>c, <1>d, <1>19 DEF Clears
<1>20. CASE Leaves(r)
  BY <1>b, <1>c, <1>d, <1>20 DEF Leaves
<1>21. CASE Restores(r)
  BY <1>b, <1>c, <1>d, <1>21 DEF Restores
<1>22. CASE GivesUp(r)
  BY <1>b, <1>c, <1>d, <1>22 DEF GivesUp
<1>23. CASE Succeeds(r)
  BY <1>b, <1>c, <1>d, <1>23 DEF Succeeds
<1>24. CASE Misses(r)
  BY <1>b, <1>c, <1>d, <1>24 DEF Misses
<1> QED
  BY <1>1, <1>2, <1>3, <1>4, <1>5, <1>6, <1>7, <1>8, <1>9, <1>10, <1>11, <1>12,
     <1>13, <1>14, <1>15, <1>16, <1>17, <1>18, <1>19, <1>20, <1>21, <1>22, <1>23,
     <1>24 DEF Effect

\* A step that neither removes nor restores.
LEMMA SameRemoved ==
    ASSUME PlaceInv, Kept, JobsKept, UNCHANGED removed, crashed => crashed',
           \A x \in removed, r \in Run : Holds(r, x) => Holds(r, x)' \/ jobs'[x.by].reingested
    PROVE  Kept'
<1> SUFFICES ASSUME NEW x \in removed
             PROVE  Posted(x.by)' /\ BackedUp(x)'
  BY DEF Kept, IsRemoval
<1>1. Posted(x.by) /\ BackedUp(x)
  BY DEF Kept
<1>2. /\ jobs'[x.by].status # "none"
      /\ jobs[x.by].reingested => jobs'[x.by].reingested
  BY <1>1 DEF JobsKept, Posted
<1>3. Posted(x.by)'
  BY <1>1, <1>2 DEF Posted
<1> QED
  BY <1>1, <1>2, <1>3 DEF BackedUp

LEMMA LoggedKept ==
    ASSUME NEW lost, NEW x \in Logged(lost), \A y \in lost : IsRemoval(y)
    PROVE  IsRemoval(x) /\ x.logged /\ \E y \in lost : x.by = y.by /\ x.doc = y.doc
<1>1. PICK y \in lost : x = [y EXCEPT !.logged = TRUE]
  BY DEF Logged
<1>2. \A z : LET e == [y EXCEPT !.logged = z] IN
         IsRemoval(e) /\ e.logged = z /\ e.by = y.by /\ e.doc = y.doc
  BY <1>1 DEF IsRemoval
<1>3. IsRemoval(x) /\ x.logged = TRUE /\ x.by = y.by /\ x.doc = y.doc
  BY <1>1, <1>2
<1> QED
  BY <1>1, <1>3

LEMMA InitKept ==
    ASSUME Init
    PROVE  Kept
BY DEF Init, Kept

LEMMA KeptStep ==
    ASSUME PlaceInv, Kept, JobsKept, Moves
    PROVE  Kept'
<1>1. ASSUME NEW r \in Run, Alone(r), Effect(r)
      PROVE  Kept'
  <2>1. crashed' = crashed /\ run[r].pc # "idle"
    BY <1>1, EffectFrame DEF Drifts
  <2>2. \A q \in Run : \A x : q # r /\ Holds(q, x) => Holds(q, x)'
    BY <1>1 DEF Alone, Holds
  <2>3. Posted(run[r].job)
    BY <2>1 DEF PlaceInv, Placed
  <2>4. \A x : Posted(x.by) =>
           /\ Posted(x.by)'
           /\ jobs[x.by].reingested => jobs'[x.by].reingested
    BY DEF JobsKept, Posted
  <2>0. PICK j \in Job : j = run[r].job
    BY <2>3 DEF Posted
  <2>5. Posted(j)'
    BY <2>0, <2>3, <2>4 DEF Posted, JobsKept
  <2>6. CASE Deletes(r)
    <3> DEFINE old == Matching(run[r].category)
    <3>1. /\ run[r].pc = "delete" /\ run'[r].pc # "rolled"
          /\ run'[r].kind = run[r].kind /\ run'[r].job = run[r].job
          /\ run'[r].backup = run[r].backup
      BY <2>6 DEF Deletes, Goes, Identity, Rest
    <3>2. run[r].kind = "reingest"
      BY <3>1 DEF PlaceInv, Placed, Reingesting
    <3>3. \A x : Holds(r, x) => Holds(r, x)'
      BY <3>1 DEF Holds
    <3>4. ASSUME NEW x \in removed
          PROVE  IsRemoval(x) /\ Posted(x.by)' /\ BackedUp(x)'
      BY <2>1, <2>2, <2>4, <3>3 DEF Kept, BackedUp
    <3>6. removed' = removed \cup
             {[doc |-> d, by |-> run[r].job, logged |-> FALSE,
               saved |-> d \in run[r].backup.docs] : d \in old}
      BY <2>6 DEF Deletes
    <3>7. ASSUME NEW x \in removed', x \notin removed
          PROVE  IsRemoval(x) /\ Posted(x.by)' /\ BackedUp(x)'
      <4>1. PICK d \in old : x = [doc |-> d, by |-> j, logged |-> FALSE,
                                  saved |-> d \in run[r].backup.docs]
        BY <2>0, <3>6, <3>7
      <4>2. x.by = j /\ x.doc = d /\ IsRemoval(x)
        BY <4>1 DEF IsRemoval
      <4>3. x.saved = (d \in run[r].backup.docs)
        BY <4>1
      <4>4. x.saved => Holds(r, x)'
        BY <2>0, <3>1, <3>2, <4>2, <4>3 DEF Holds
      <4>5. BackedUp(x)'
        BY <4>4 DEF BackedUp
      <4> QED
        BY <2>5, <4>2, <4>5
    <3> QED
      BY <3>4, <3>7 DEF Kept, IsRemoval
  <2>7. CASE Leaves(r)
    <3>1. removed' = (removed \ Own(r)) \cup Logged(Own(r)) /\ UNCHANGED jobs
      BY <2>7 DEF Leaves
    <3>2. ASSUME NEW x \in removed, x \notin Own(r)
          PROVE  IsRemoval(x) /\ Posted(x.by)' /\ BackedUp(x)'
      <4>1. \A q \in Run : Holds(q, x) => q # r
        BY <3>2 DEF Own, Holds
      <4> QED
        BY <2>1, <2>2, <2>4, <4>1 DEF Kept, BackedUp
    <3>3. ASSUME NEW x \in Logged(Own(r))
          PROVE  IsRemoval(x) /\ Posted(x.by)' /\ BackedUp(x)'
      <4>1. \A y \in Own(r) : IsRemoval(y) /\ y.by = j
        BY <2>0 DEF Own, Kept
      <4>2. IsRemoval(x) /\ x.logged /\ x.by = j
        BY <4>1, LoggedKept
      <4> QED
        BY <2>5, <4>2 DEF BackedUp
    <3> QED
      BY <3>1, <3>2, <3>3 DEF Kept, IsRemoval
  <2>8. CASE Restores(r)
    <3>1. /\ run[r].kind = "reingest" /\ UNCHANGED jobs
          /\ \/ removed' = (removed \ Own(r)) \cup Remaining(r, Restorable(r))
             \/ \E docs \in {{}, Restorable(r)} :
                   removed' = (removed \ Own(r)) \cup Logged(Remaining(r, docs))
      BY <2>8 DEF Restores
    <3>2. ASSUME NEW x \in removed, x \notin Own(r)
          PROVE  IsRemoval(x) /\ Posted(x.by)' /\ BackedUp(x)'
      <4>1. \A q \in Run : Holds(q, x) => q # r
        BY <3>2 DEF Own, Holds
      <4> QED
        BY <2>1, <2>2, <2>4, <4>1 DEF Kept, BackedUp
    <3>3. ASSUME NEW x \in Remaining(r, Restorable(r))
          PROVE  IsRemoval(x) /\ Posted(x.by)' /\ BackedUp(x)'
      <4>1. x \in removed /\ x.doc \notin run[r].backup.docs
        BY DEF Remaining, Own, Restorable
      <4>2. \A q \in Run : ~Holds(q, x)
        <5> SUFFICES ASSUME NEW q \in Run, Holds(q, x)
                     PROVE  FALSE
          OBVIOUS
        <5>1. q = r
          BY <3>1 DEF Holds, PlaceInv, Alternate
        <5> QED
          BY <4>1, <5>1 DEF Holds
      <4> QED
        BY <2>1, <2>4, <4>1, <4>2 DEF Kept, BackedUp
    <3>4. ASSUME NEW docs, NEW x \in Logged(Remaining(r, docs))
          PROVE  IsRemoval(x) /\ Posted(x.by)' /\ BackedUp(x)'
      <4>1. \A y \in Remaining(r, docs) : IsRemoval(y) /\ y.by = j
        BY <2>0 DEF Remaining, Own, Kept
      <4>2. IsRemoval(x) /\ x.logged /\ x.by = j
        BY <4>1, LoggedKept
      <4> QED
        BY <2>5, <4>2 DEF BackedUp
    <3> QED
      BY <3>1, <3>2, <3>3, <3>4 DEF Kept, IsRemoval
  <2>9. CASE Succeeds(r)
    <3>1. UNCHANGED removed /\ jobs'[run[r].job].reingested
      BY <2>9 DEF Succeeds, Succeeded
    <3>2. \A x \in removed, q \in Run :
             Holds(q, x) => Holds(q, x)' \/ jobs'[x.by].reingested
      BY <2>2, <3>1 DEF Holds
    <3> QED
      BY <2>1, <3>1, <3>2, SameRemoved
  <2>10. CASE ~(Deletes(r) \/ Leaves(r) \/ Restores(r) \/ Succeeds(r))
    <3>1. UNCHANGED removed
      BY <1>1, <2>10 DEF Effect, Begins, Refuses, Routes, Breaks, Catches, Drops, Shows,
         Balks, Announces, Stops, Enters, Commits, Stores, Retries, Concludes, Retiring,
         Backs, Clears, GivesUp, Misses
    <3>2. \A x : Holds(r, x) => Holds(r, x)'
      BY <1>1, <2>10, ActorHolds
    <3> QED
      BY <2>1, <2>2, <3>1, <3>2, SameRemoved
  <2> QED
    BY <2>6, <2>7, <2>8, <2>9, <2>10
<1>2. CASE Asked
  <2>1. UNCHANGED <<removed, crashed>>
    BY <1>2 DEF Asked
  <2>2. ASSUME NEW q \in Run, NEW x, Holds(q, x)
        PROVE  Holds(q, x)'
    <3>1. run[q].pc # "idle"
      BY <2>2 DEF Holds, PlaceInv, Placed
    <3>2. run'[q] = run[q]
      BY <1>2, <3>1 DEF Asked, Registers, Triggers, Replaces, Launches, Alone
    <3> QED
      BY <2>2, <3>2 DEF Holds
  <2> QED
    BY <2>1, <2>2, SameRemoved
<1>3. CASE Restarted
  <2>1. crashed' /\ UNCHANGED removed
    BY <1>3 DEF Restarted
  <2>2. \A x : BackedUp(x)'
    BY <2>1 DEF BackedUp
  <2>3. \A x \in removed : Posted(x.by)'
    BY DEF Kept, JobsKept, Posted
  <2> QED
    BY <2>1, <2>2, <2>3 DEF Kept, IsRemoval
<1>4. CASE UNCHANGED vars
  BY <1>4 DEF vars, Kept, Posted, BackedUp, Holds, IsRemoval
<1> QED
  BY <1>1, <1>2, <1>3, <1>4 DEF Moves

\* A re-ingestion that ends in a failed job has put back every chunk it had in
\* its backup, unless a further call failed and was logged or the process died.
THEOREM BackupIsRestored == Spec => []RollbackKeeps
<1>1. Init => PlaceInv /\ Kept
  BY InitPlace, InitKept
<1>2. PlaceInv /\ Kept /\ [Next]_vars => PlaceInv' /\ Kept'
  BY PlaceStep, KeptStep
<1>3. Kept => RollbackKeeps
  BY DEF Kept, BackedUp, Holds, RollbackKeeps, AtRest
<1> QED
  BY <1>1, <1>2, <1>3, PTL DEF Spec
-----------------------------------------------------------------------------
(* The chunks that are stored, or were until a re-ingestion.               *)

Held == store \cup {y.doc : y \in removed}
Chunks(j) == Chunked[jobs[j].files]
IsDocument(d) == Posted(d.job) /\ d.index \in 1 .. Len(Chunks(d.job))
HeldInv ==
    /\ \A d \in Held : IsDocument(d)
    /\ \A r \in Run : run[r].backup.docs \subseteq Held

LEMMA SameHeld ==
    ASSUME UNCHANGED <<store, removed>>
    PROVE  Held' = Held
BY DEF Held

LEMMA LeavesHeld ==
    ASSUME Kept, NEW r \in Run, Leaves(r)
    PROVE  Held' = Held
<1>1. removed' = (removed \ Own(r)) \cup Logged(Own(r)) /\ store' = store
  BY DEF Leaves
<1>2. Own(r) \subseteq removed /\ \A y \in Own(r) : IsRemoval(y)
  BY DEF Own, Kept
<1>3. \A x \in Logged(Own(r)) : \E y \in Own(r) : x.doc = y.doc
  BY <1>2, LoggedKept
<1>4. ASSUME NEW y \in Own(r)
      PROVE  \E x \in Logged(Own(r)) : x.doc = y.doc
  <2>1. [y EXCEPT !.logged = TRUE].doc = y.doc
    BY <1>2 DEF IsRemoval
  <2> QED
    BY <2>1 DEF Logged
<1> QED
  BY <1>1, <1>2, <1>3, <1>4 DEF Held

LEMMA RestoresHeld ==
    ASSUME Kept, HeldInv, NEW r \in Run, Restores(r)
    PROVE  Held' = Held
<1>1. PICK docs \in {{}, Restorable(r)} :
         /\ store' = store \cup docs
         /\ \/ removed' = (removed \ Own(r)) \cup Remaining(r, docs)
            \/ removed' = (removed \ Own(r)) \cup Logged(Remaining(r, docs))
  BY DEF Restores
<1>2. docs \subseteq Held
  BY DEF HeldInv, Restorable
<1>3. /\ Own(r) \subseteq removed
      /\ \A y \in Own(r) : y \in Remaining(r, docs) \/ y.doc \in docs
      /\ \A y \in Remaining(r, docs) : y \in Own(r) /\ IsRemoval(y)
  BY DEF Own, Remaining, Kept
<1>4. \A x \in Logged(Remaining(r, docs)) : \E y \in Remaining(r, docs) : x.doc = y.doc
  BY <1>3, LoggedKept
<1>5. ASSUME NEW y \in Remaining(r, docs)
      PROVE  \E x \in Logged(Remaining(r, docs)) : x.doc = y.doc
  <2>1. [y EXCEPT !.logged = TRUE].doc = y.doc
    BY <1>3 DEF IsRemoval
  <2> QED
    BY <2>1 DEF Logged
<1>6. Held' \subseteq Held
  BY <1>1, <1>2, <1>3, <1>4 DEF Held
<1>7. Held \subseteq Held'
  <2> SUFFICES ASSUME NEW d \in Held
               PROVE  d \in Held'
    OBVIOUS
  <2>1. CASE d \in store
    BY <1>1, <2>1 DEF Held
  <2>2. ASSUME NEW y \in removed, d = y.doc
        PROVE  d \in Held'
    <3>1. CASE y \notin Own(r)
      BY <1>1, <2>2, <3>1 DEF Held
    <3>2. CASE y.doc \in docs
      BY <1>1, <2>2, <3>2 DEF Held
    <3>3. CASE y \in Remaining(r, docs)
      <4>1. \E x \in removed' : x.doc = y.doc
        BY <1>1, <1>5, <3>3
      <4> QED
        BY <2>2, <4>1 DEF Held
    <3> QED
      BY <1>3, <3>1, <3>2, <3>3
  <2> QED
    BY <2>1, <2>2 DEF Held
<1> QED
  BY <1>6, <1>7

LEMMA DeletesHeld ==
    ASSUME NEW r \in Run, Deletes(r)
    PROVE  Held' = Held
<1> DEFINE old == Matching(run[r].category)
           lost == {[doc |-> d, by |-> run[r].job, logged |-> FALSE,
                     saved |-> d \in run[r].backup.docs] : d \in old}
<1>1. store' = store \ old /\ removed' = removed \cup lost
  BY DEF Deletes
<1>2. old \subseteq store
  BY DEF Matching
<1>3. {y.doc : y \in lost} = old
  <2>1. ASSUME NEW y \in lost
        PROVE  y.doc \in old
    BY DEF lost
  <2>2. ASSUME NEW d \in old
        PROVE  \E y \in lost : y.doc = d
    <3>1. [doc |-> d, by |-> run[r].job, logged |-> FALSE,
           saved |-> d \in run[r].backup.docs] \in lost
      OBVIOUS
    <3> QED
      BY <3>1
  <2> HIDE DEF old, lost
  <2> QED
    BY <2>1, <2>2
<1> HIDE DEF old, lost
<1> QED
  BY <1>1, <1>2, <1>3 DEF Held

\* A run that stores a batch adds it; no other step changes what is held.
LEMMA EffectHeld ==
    ASSUME Kept, HeldInv, NEW r \in Run, Effect(r)
    PROVE  \/ Held' = Held
           \/ run[r].pc = "paths" /\ Held' = Held \cup Documents(r)
<1>1. CASE Begins(r)
  BY <1>1, SameHeld DEF Begins
<1>2. CASE Refuses(r)
  BY <1>2, SameHeld DEF Refuses
<1>3. CASE Routes(r)
  BY <1>3, SameHeld DEF Routes
<1>4. CASE Breaks(r)
  BY <1>4, SameHeld DEF Breaks
<1>5. CASE Catches(r)
  BY <1>5, SameHeld DEF Catches
<1>6. CASE Drops(r)
  BY <1>6, SameHeld DEF Drops
<1>7. CASE Shows(r)
  BY <1>7, SameHeld DEF Shows
<1>8. CASE Balks(r)
  BY <1>8, SameHeld DEF Balks
<1>9. CASE Announces(r)
  BY <1>9, SameHeld DEF Announces
<1>10. CASE Stops(r)
  BY <1>10, SameHeld DEF Stops
<1>11. CASE Enters(r)
  BY <1>11, SameHeld DEF Enters
<1>12. CASE Commits(r)
  BY <1>12, SameHeld DEF Commits, OnPaths
<1>13. CASE Stores(r)
  BY <1>13 DEF Stores, OnPaths, Held
<1>14. CASE Retries(r)
  BY <1>14 DEF Retries, OnPaths, Held
<1>15. CASE Concludes(r)
  BY <1>15, SameHeld DEF Concludes
<1>16. CASE Retiring(r)
  BY <1>16, SameHeld DEF Retiring
<1>17. CASE Backs(r)
  BY <1>17, SameHeld DEF Backs
<1>18. CASE Deletes(r)
  BY <1>18, DeletesHeld
<1>19. CASE Clears(r)
  BY <1>19, SameHeld DEF Clears
<1>20. CASE Leaves(r)
  BY <1>20, LeavesHeld
<1>21. CASE Restores(r)
  BY <1>21, RestoresHeld
<1>22. CASE GivesUp(r)
  BY <1>22, SameHeld DEF GivesUp
<1>23. CASE Succeeds(r)
  BY <1>23, SameHeld DEF Succeeds
<1>24. CASE Misses(r)
  BY <1>24, SameHeld DEF Misses
<1> QED
  BY <1>1, <1>2, <1>3, <1>4, <1>5, <1>6, <1>7, <1>8, <1>9, <1>10, <1>11, <1>12,
     <1>13, <1>14, <1>15, <1>16, <1>17, <1>18, <1>19, <1>20, <1>21, <1>22, <1>23,
     <1>24 DEF Effect

LEMMA DocumentsBatch ==
    ASSUME NEW r \in Run, NEW d \in Documents(r),
           Len(Chunks(run[r].job)) \in Nat, run[r].batch \in Nat
    PROVE  d.job = run[r].job /\ d.index \in 1 .. Len(Chunks(run[r].job))
<1> DEFINE first == run[r].batch * BatchSize + 1
           last == Smaller(first + BatchSize - 1, Len(Chunked[Doc(r).files]))
<1>1. PICK n \in first .. last :
         d = [job |-> run[r].job, stamp |-> run[r].stamp, index |-> n, source |-> "resume"]
  BY DEF Documents
<1>2. BatchSize \in Nat
  BY PipelineAssumption
<1>3. first \in Nat /\ first >= 1
  BY <1>2
<1>4. Len(Chunked[Doc(r).files]) = Len(Chunks(run[r].job))
  BY DEF Doc, Chunks
<1>5. last \in Int /\ last <= Len(Chunks(run[r].job))
  <2> HIDE DEF first
  <2> QED
    BY <1>2, <1>3, <1>4 DEF Smaller
<1> HIDE DEF first, last
<1> QED
  BY <1>1, <1>3, <1>5

LEMMA PostedFiles ==
    ASSUME PlaceInv, NEW j, Posted(j)
    PROVE  jobs[j].files \in Batches
BY DEF PlaceInv, Filing, Posted

LEMMA JobKept ==
    ASSUME JobsKept, NEW j, Posted(j)
    PROVE  Posted(j)' /\ jobs'[j].files = jobs[j].files /\ jobs'[j].context = jobs[j].context
BY DEF JobsKept, Posted, SameUpload

LEMMA HeldStep ==
    ASSUME PlaceInv, Kept, HeldInv, JobsKept, Moves,
           \A r \in Run : run[r].pc = "paths" => run[r].batch \in Nat
    PROVE  HeldInv' /\ Held \subseteq Held'
<1>1. ASSUME NEW d, IsDocument(d)
      PROVE  IsDocument(d)'
  BY <1>1, JobKept DEF IsDocument, Chunks
<1>2. ASSUME NEW r \in Run, Alone(r), Effect(r)
      PROVE  HeldInv' /\ Held \subseteq Held'
  <2>1. \/ Held' = Held
        \/ run[r].pc = "paths" /\ Held' = Held \cup Documents(r)
    BY <1>2, EffectHeld
  <2>2. Held \subseteq Held'
    BY <2>1
  <2>3. ASSUME NEW d \in Documents(r), run[r].pc = "paths"
        PROVE  IsDocument(d)
    <3>1. Posted(run[r].job)
      BY <2>3 DEF PlaceInv, Placed
    <3>2. Len(Chunks(run[r].job)) \in Nat
      BY <3>1, PostedFiles, ChunksSound DEF ChunkerSound, Chunks
    <3>3. d.job = run[r].job /\ d.index \in 1 .. Len(Chunks(run[r].job))
      BY <2>3, <3>2, DocumentsBatch
    <3> QED
      BY <3>1, <3>3 DEF IsDocument
  <2>4. \A d \in Held' : IsDocument(d)'
    BY <1>1, <2>1, <2>3 DEF HeldInv
  <2>5. run'[r].backup = run[r].backup \/ run'[r].backup.docs \subseteq Held
    <3>1. Idle.backup.docs = {}
      BY DEF Idle, NoBackup
    <3>2. Matching(run[r].category) \subseteq Held
      BY DEF Matching, Held
    <3>3. CASE Backs(r)
      <4>1. run'[r].backup = [docs |-> Matching(run[r].category), profile |-> profile]
        BY <3>3 DEF Backs
      <4>2. run'[r].backup.docs = Matching(run[r].category)
        BY <4>1
      <4> QED
        BY <3>2, <4>2
    <3>4. CASE ~Backs(r)
      <4>1. Frees(r) \/ run'[r].backup = run[r].backup
        BY <1>2, <3>4 DEF Effect, Begins, Refuses, Routes, Breaks, Catches, Drops,
           Shows,
           Balks, Announces, Stops, Enters, Commits, Stores, Retries, Concludes, Retiring,
           Deletes, Clears, Leaves, Restores, GivesUp, Succeeds, Misses, Goes, Rest, Keeping,
           OnPaths, Back
      <4> QED
        BY <3>1, <4>1 DEF Frees
    <3> QED
      BY <3>3, <3>4
  <2>6. \A q \in Run : run'[q].backup.docs \subseteq Held'
    BY <1>2, <2>2, <2>5 DEF Alone, HeldInv
  <2> QED
    BY <2>2, <2>4, <2>6 DEF HeldInv
<1>3. ASSUME Held' = Held,
             \A r \in Run : run'[r].backup = run[r].backup \/ run'[r].backup = NoBackup
      PROVE  HeldInv' /\ Held \subseteq Held'
  <2>1. NoBackup.docs = {}
    BY DEF NoBackup
  <2>2. \A d \in Held' : IsDocument(d)'
    BY <1>1, <1>3 DEF HeldInv
  <2>3. \A q \in Run : run'[q].backup.docs \subseteq Held'
    BY <1>3, <2>1 DEF HeldInv
  <2> QED
    BY <1>3, <2>2, <2>3 DEF HeldInv
<1>4. Asked => /\ Held' = Held
               /\ \A r \in Run : run'[r].backup = run[r].backup \/ run'[r].backup = NoBackup
  BY SameHeld DEF Asked, Registers, Triggers, Replaces, Launches, Alone
<1>5. Restarted \/ UNCHANGED vars =>
         /\ Held' = Held
         /\ \A r \in Run : run'[r].backup = run[r].backup \/ run'[r].backup = NoBackup
  BY SameHeld DEF Restarted, Idle, vars
<1> QED
  BY <1>2, <1>3, <1>4, <1>5 DEF Moves
-----------------------------------------------------------------------------
(* What the two paths have done.                                           *)

Committed(j) == j \in written \/ NothingStructured(jobs[j].files)
Whole(j) == Searchable[jobs[j].files] \subseteq Embedded(j)
Covers(l, n) ==
    \A k \in 1 .. n :
        [job |-> l.job, stamp |-> l.stamp, index |-> k, source |-> "resume"] \in Held

PathDone(l) ==
    /\ l.structured \in {"todo", "ok", "failed"}
    /\ l.pc = "paths" =>
          /\ l.batch \in Nat /\ l.narrative \in {"todo", "ok", "failed"}
          /\ l.structured = "ok" => Committed(l.job)
          /\ l.narrative = "todo" => Covers(l, Smaller(l.batch * BatchSize, Len(Chunks(l.job))))
          /\ l.narrative = "ok" => Covers(l, Len(Chunks(l.job)))
    /\ l.pc = "embedded" => Whole(l.job)

PathsDone == \A r \in Run : PathDone(run[r])
Completed ==
    \A j \in Job : jobs[j].status = "done" /\ ~jobs[j].reingested => Committed(j) /\ Whole(j)

LEMMA CommittedKept ==
    ASSUME JobsKept, written \subseteq written', NEW j, Posted(j), Committed(j)
    PROVE  Committed(j)'
BY JobKept DEF Committed

LEMMA EmbeddedHeld ==
    ASSUME NEW j
    PROVE  Embedded(j) = UNION {ToSet(Text(d)) : d \in {x \in Held : x.job = j}}
BY DEF Embedded, Held

LEMMA WholeKept ==
    ASSUME JobsKept, Held \subseteq Held', NEW j, Posted(j), Whole(j)
    PROVE  Whole(j)'
<1>1. jobs'[j].files = jobs[j].files
  BY JobKept
<1>2. Embedded(j) \subseteq Embedded(j)'
  <2> SUFFICES ASSUME NEW w \in Embedded(j)
               PROVE  w \in Embedded(j)'
    OBVIOUS
  <2>1. PICK d \in Held : d.job = j /\ w \in ToSet(Text(d))
    BY EmbeddedHeld
  <2>2. Text(d)' = Text(d)
    BY <1>1, <2>1 DEF Text
  <2>3. Embedded(j)' = UNION {ToSet(Text(x)') : x \in {y \in Held' : y.job = j}}
    BY DEF Embedded, Held
  <2> QED
    BY <2>1, <2>2, <2>3
<1> QED
  BY <1>1, <1>2 DEF Whole

\* A run whose batches cover every chunk of its job has embedded all of it.
LEMMA CoversWhole ==
    ASSUME PlaceInv, NEW l, Posted(l.job), Covers(l, Len(Chunks(l.job)))
    PROVE  Whole(l.job)
<1> DEFINE chunks == Chunks(l.job)
<1>1. /\ Len(chunks) \in Nat
      /\ Searchable[jobs[l.job].files] \subseteq
            UNION {ToSet(chunks[n]) : n \in 1 .. Len(chunks)}
  BY PostedFiles, ChunksSound DEF ChunkerSound, Chunks
<1>2. ASSUME NEW n \in 1 .. Len(chunks)
      PROVE  ToSet(chunks[n]) \subseteq Embedded(l.job)
  <2> DEFINE d == [job |-> l.job, stamp |-> l.stamp, index |-> n, source |-> "resume"]
  <2>1. d \in Held
    BY <1>2 DEF Covers
  <2>2. d.job = l.job /\ Text(d) = chunks[n]
    BY DEF Text, Chunks
  <2> HIDE DEF d, chunks
  <2> QED
    BY <2>1, <2>2, EmbeddedHeld
<1> HIDE DEF chunks
<1> QED
  BY <1>1, <1>2 DEF Whole

LEMMA EffectWritten ==
    ASSUME NEW r \in Run, Effect(r)
    PROVE  written' = written \/ written' = written \cup {run[r].job}
<1>1. CASE Begins(r)
  BY <1>1 DEF Begins
<1>2. CASE Refuses(r)
  BY <1>2 DEF Refuses
<1>3. CASE Routes(r)
  BY <1>3 DEF Routes
<1>4. CASE Breaks(r)
  BY <1>4 DEF Breaks
<1>5. CASE Catches(r)
  BY <1>5 DEF Catches
<1>6. CASE Drops(r)
  BY <1>6 DEF Drops
<1>7. CASE Shows(r)
  BY <1>7 DEF Shows
<1>8. CASE Balks(r)
  BY <1>8 DEF Balks
<1>9. CASE Announces(r)
  BY <1>9 DEF Announces
<1>10. CASE Stops(r)
  BY <1>10 DEF Stops
<1>11. CASE Enters(r)
  BY <1>11 DEF Enters
<1>12. CASE Commits(r)
  BY <1>12 DEF Commits
<1>13. CASE Stores(r)
  BY <1>13 DEF Stores
<1>14. CASE Retries(r)
  BY <1>14 DEF Retries
<1>15. CASE Concludes(r)
  BY <1>15 DEF Concludes
<1>16. CASE Retiring(r)
  BY <1>16 DEF Retiring
<1>17. CASE Backs(r)
  BY <1>17 DEF Backs
<1>18. CASE Deletes(r)
  BY <1>18 DEF Deletes
<1>19. CASE Clears(r)
  BY <1>19 DEF Clears
<1>20. CASE Leaves(r)
  BY <1>20 DEF Leaves
<1>21. CASE Restores(r)
  BY <1>21 DEF Restores
<1>22. CASE GivesUp(r)
  BY <1>22 DEF GivesUp
<1>23. CASE Succeeds(r)
  BY <1>23 DEF Succeeds
<1>24. CASE Misses(r)
  BY <1>24 DEF Misses
<1> QED
  BY <1>1, <1>2, <1>3, <1>4, <1>5, <1>6, <1>7, <1>8, <1>9, <1>10, <1>11, <1>12,
     <1>13, <1>14, <1>15, <1>16, <1>17, <1>18, <1>19, <1>20, <1>21, <1>22, <1>23,
     <1>24 DEF Effect

LEMMA OtherDone ==
    ASSUME PlaceInv, JobsKept, Held \subseteq Held', written \subseteq written',
           NEW q \in Run, run'[q] = run[q], PathDone(run[q])
    PROVE  PathDone(run[q])'
<1>1. PICK l : l = run[q]
  OBVIOUS
<1>2. run'[q] = l /\ PathDone(l)
  BY <1>1
<1>3. l.pc # "idle" => Posted(l.job)
  BY <1>1 DEF PlaceInv, Placed
<1>4. \A n : Covers(l, n) => Covers(l, n)'
  BY DEF Covers
<1>5. Posted(l.job) => /\ Committed(l.job) => Committed(l.job)'
                       /\ Whole(l.job) => Whole(l.job)'
                       /\ Chunks(l.job)' = Chunks(l.job)
  BY CommittedKept, WholeKept, JobKept DEF Chunks
<1> QED
  BY <1>2, <1>3, <1>4, <1>5 DEF PathDone

LEMMA StillDone ==
    ASSUME NEW m, NEW l, PathDone(l), m.structured = l.structured,
           m.pc \notin {"paths", "embedded"}
    PROVE  PathDone(m)
BY DEF PathDone

LEMMA IdleDone == PathDone(Idle)
BY DEF PathDone, Idle

\* After a batch, the batches cover what they did and the chunks of that batch.

LEMMA NextProduct ==
    ASSUME NEW b \in Nat, NEW s \in Nat
    PROVE  (b + 1) * s = b * s + s /\ b * s \in Nat
OBVIOUS

LEMMA BatchCovers ==
    ASSUME NEW r \in Run, NEW l, l = run[r], NEW n \in Nat, n = Len(Chunks(run[r].job)),
           l.batch \in Nat, Held' = Held \cup Documents(r),
           Covers(l, Smaller(l.batch * BatchSize, n))
    PROVE  Covers(l, Smaller((l.batch + 1) * BatchSize, n))'
<1> DEFINE done == l.batch * BatchSize
           first == run[r].batch * BatchSize + 1
           last == Smaller(first + BatchSize - 1, Len(Chunked[Doc(r).files]))
<1>1. BatchSize \in Nat
  BY PipelineAssumption
<1>2. (l.batch + 1) * BatchSize = done + BatchSize /\ done \in Nat
  BY <1>1, NextProduct
<1>3. first = done + 1 /\ Len(Chunked[Doc(r).files]) = n
  BY DEF Doc, Chunks
<1>4. ASSUME NEW k \in first .. last
      PROVE  [job |-> l.job, stamp |-> l.stamp, index |-> k, source |-> "resume"]
                \in Documents(r)
  BY <1>4 DEF Documents
<1>5. last = Smaller(done + BatchSize, n)
  <2>1. last = Smaller(first + BatchSize - 1, n)
    BY <1>3
  <2> HIDE DEF first, last, done
  <2> QED
    BY <1>1, <1>2, <1>3, <2>1
<1> HIDE DEF done, first, last
<1>6. ASSUME NEW k \in 1 .. Smaller(done + BatchSize, n)
      PROVE  [job |-> l.job, stamp |-> l.stamp, index |-> k, source |-> "resume"] \in Held'
  <2>1. CASE k <= done
    <3>1. k \in 1 .. Smaller(done, n)
      BY <1>1, <1>2, <1>6, <2>1 DEF Smaller
    <3> QED
      BY <3>1 DEF Covers, done
  <2>2. CASE k > done
    <3>1. k \in first .. last
      BY <1>1, <1>2, <1>3, <1>5, <1>6, <2>2 DEF Smaller
    <3> QED
      BY <1>4, <3>1
  <2> QED
    BY <1>1, <1>2, <1>6, <2>1, <2>2 DEF Smaller
<1> QED
  BY <1>2, <1>6 DEF Covers

LEMMA ActorDone ==
    ASSUME PlaceInv, Kept, HeldInv, PathsDone, JobsKept,
           Held \subseteq Held', written \subseteq written', NEW r \in Run, Effect(r)
    PROVE  PathDone(run[r])'
<1> PICK l : l = run[r]
  OBVIOUS
<1>a. /\ PathDone(l) /\ Placed(l) /\ Posted(l.job) /\ l.pc # "idle"
  BY EffectFrame DEF PathsDone, PlaceInv, Placed
<1>b. PICK n \in Nat : n = Len(Chunks(l.job)) /\ n = Len(Chunks(l.job))'
  BY <1>a, PostedFiles, JobKept, ChunksSound DEF ChunkerSound, Chunks
<1>c. \A k : Covers(l, k) => Covers(l, k)'
  BY DEF Covers
<1>d. /\ Committed(l.job) => Committed(l.job)'
      /\ Whole(l.job) => Whole(l.job)'
  BY <1>a, CommittedKept, WholeKept
<1> PICK m : m = run'[r]
  OBVIOUS
<1>e. \A k : m.job = l.job /\ m.stamp = l.stamp /\ Covers(l, k)' => Covers(m, k)'
  BY DEF Covers
<1>f. l.pc \in Before => l.structured = "todo" /\ l.narrative = "todo" /\ l.batch = 0
  BY <1>a DEF Placed
<1> SUFFICES PathDone(m)'
  OBVIOUS
<1>g. m.structured \in {"todo", "ok", "failed"} /\ m.pc \notin {"paths", "embedded"}
         => PathDone(m)'
  BY DEF PathDone
<1>h. Frees(r) => PathDone(m)'
  BY <1>g DEF Frees, Idle
<1>i. l.structured \in {"todo", "ok", "failed"}
  BY <1>a DEF PathDone
<1>j. Covers(m, 0)'
  BY DEF Covers
<1>k. Smaller(0, n) = 0 /\ 0 * BatchSize = 0
  BY PipelineAssumption DEF Smaller
<1> USE DEF Goes, Keeping, OnPaths, Work, Back
<1>1. CASE Begins(r)
  BY <1>g, <1>h, <1>i, <1>1 DEF Begins
<1>2. CASE Refuses(r)
  BY <1>g, <1>h, <1>i, <1>2 DEF Refuses
<1>3. CASE Routes(r)
  <2>1. l.pc = "extract" /\ m.structured = l.structured /\ Goes(r, m.pc)
    BY <1>3 DEF Routes, Goes, Work
  <2>2. CASE m.pc = "paths"
    <3>1. /\ m.structured = "todo" /\ m.narrative = "todo" /\ m.batch = 0
          /\ m.job = l.job
      BY <1>f, <2>1 DEF Goes, Work, Identity, Before
    <3> QED
      BY <1>b, <1>j, <1>k, <2>2, <3>1 DEF PathDone
  <2> QED
    BY <1>3, <1>g, <1>i, <2>1, <2>2 DEF Routes, Goes
<1>4. CASE Breaks(r)
  BY <1>g, <1>h, <1>i, <1>4 DEF Breaks
<1>5. CASE Catches(r)
  BY <1>g, <1>h, <1>i, <1>5 DEF Catches
<1>6. CASE Drops(r)
  BY <1>g, <1>h, <1>i, <1>6 DEF Drops
<1>7. CASE Shows(r)
  BY <1>g, <1>h, <1>i, <1>7 DEF Shows
<1>8. CASE Balks(r)
  BY <1>g, <1>h, <1>i, <1>8 DEF Balks
<1>9. CASE Announces(r)
  BY <1>g, <1>h, <1>i, <1>9 DEF Announces
<1>10. CASE Stops(r)
  BY <1>g, <1>h, <1>i, <1>10 DEF Stops
<1>11. CASE Enters(r)
  <2>1. /\ l.pc = "check" /\ m.pc = "paths" /\ m.job = l.job /\ m.stamp = l.stamp
        /\ m.structured = IF NothingStructured(jobs[l.job].files) THEN "ok" ELSE "todo"
        /\ m.narrative = IF Chunks(l.job) = <<>> THEN "ok" ELSE "todo"
        /\ m.batch = l.batch
    BY <1>11 DEF Enters, Keeping, Identity, Doc, Chunks
  <2>2. m.batch = 0
    BY <1>f, <2>1 DEF Before
  <2>3. m.structured = "ok" => Committed(l.job)'
    BY <1>d, <2>1 DEF Committed
  <2>4. m.narrative = "ok" => n = 0
    BY <1>b, <2>1
  <2> QED
    BY <1>b, <1>j, <1>k, <2>1, <2>2, <2>3, <2>4 DEF PathDone
<1>12. CASE Commits(r)
  <2>1. /\ l.pc = "paths" /\ m.pc = "paths" /\ m.job = l.job /\ m.stamp = l.stamp
        /\ m.batch = l.batch /\ m.narrative = l.narrative
        /\ m.structured \in {"ok", "failed"}
    BY <1>12 DEF Commits, OnPaths, Keeping, Identity
  <2>2. m.structured = "ok" => Committed(l.job)'
    <3>1. m.structured = "ok" => l.job \in written'
      BY <1>12 DEF Commits
    <3> QED
      BY <3>1 DEF Committed
  <2> QED
    BY <1>a, <1>b, <1>c, <1>e, <2>1, <2>2 DEF PathDone
<1>13. CASE Stores(r)
  <2>1. /\ l.pc = "paths" /\ m.pc = "paths" /\ m.job = l.job /\ m.stamp = l.stamp
        /\ m.structured = l.structured /\ l.narrative = "todo" /\ m.batch = l.batch + 1
        /\ m.narrative = IF m.batch * BatchSize < n THEN "todo" ELSE "ok"
    BY <1>13, <1>b DEF Stores, OnPaths, Keeping, Identity, Nexts, Doc, Chunks
  <2>2. l.batch \in Nat /\ Covers(l, Smaller(l.batch * BatchSize, n))
    BY <1>a, <1>b, <2>1 DEF PathDone
  <2>3. Held' = Held \cup Documents(r)
    BY <1>13 DEF Stores, Held
  <2>4. Covers(l, Smaller(m.batch * BatchSize, n))'
    BY <1>b, <2>1, <2>2, <2>3, BatchCovers
  <2>5. Covers(m, Smaller(m.batch * BatchSize, n))'
    BY <1>e, <2>1, <2>4
  <2>6. m.narrative = "ok" => Smaller(m.batch * BatchSize, n) = n
    <3>1. m.batch * BatchSize \in Nat
      BY <2>1, <2>2, NextProduct, PipelineAssumption
    <3> QED
      BY <2>1, <3>1 DEF Smaller
  <2>7. m.structured = "ok" => Committed(m.job)'
    BY <1>a, <1>d, <2>1 DEF PathDone
  <2> QED
    BY <1>b, <1>i, <2>1, <2>2, <2>5, <2>6, <2>7 DEF PathDone
<1>14. CASE Retries(r)
  <2>1. /\ l.pc = "paths" /\ m.pc = "paths" /\ m.job = l.job /\ m.stamp = l.stamp
        /\ m.structured = l.structured /\ m.batch = l.batch
        /\ l.narrative = "todo" /\ m.narrative \in {"todo", "failed"}
    BY <1>14 DEF Retries, OnPaths, Keeping, Identity
  <2> QED
    BY <1>a, <1>b, <1>c, <1>d, <1>e, <2>1 DEF PathDone
<1>15. CASE Concludes(r)
  <2>1. /\ l.pc = "paths" /\ l.structured # "todo" /\ l.narrative # "todo"
    BY <1>15 DEF Concludes, Joined, At
  <2>2. CASE Outcome(r) = "done" /\ Goes(r, "embedded")
    <3>1. /\ l.narrative = "ok" /\ m.job = l.job /\ m.structured = l.structured
          /\ m.pc = "embedded"
      BY <1>a, <2>1, <2>2 DEF Outcome, PathDone, Goes, Identity, Work
    <3>2. Whole(l.job)
      BY <1>a, <2>1, <3>1, CoversWhole DEF PathDone
    <3> QED
      BY <1>d, <1>i, <3>1, <3>2 DEF PathDone
  <2> QED
    BY <1>15, <1>g, <1>h, <1>i, <2>2 DEF Concludes, Back, Goes, Work
<1>16. CASE Retiring(r)
  BY <1>g, <1>h, <1>i, <1>16 DEF Retiring
<1>17. CASE Backs(r)
  BY <1>g, <1>h, <1>i, <1>17 DEF Backs
<1>18. CASE Deletes(r)
  BY <1>g, <1>h, <1>i, <1>18 DEF Deletes
<1>19. CASE Clears(r)
  BY <1>g, <1>h, <1>i, <1>19 DEF Clears
<1>20. CASE Leaves(r)
  BY <1>g, <1>h, <1>i, <1>20 DEF Leaves
<1>21. CASE Restores(r)
  BY <1>g, <1>h, <1>i, <1>21 DEF Restores
<1>22. CASE GivesUp(r)
  BY <1>g, <1>h, <1>i, <1>22 DEF GivesUp
<1>23. CASE Succeeds(r)
  BY <1>g, <1>h, <1>i, <1>23 DEF Succeeds
<1>24. CASE Misses(r)
  BY <1>g, <1>h, <1>i, <1>24 DEF Misses
<1> QED
  BY <1>1, <1>2, <1>3, <1>4, <1>5, <1>6, <1>7, <1>8, <1>9, <1>10, <1>11, <1>12,
     <1>13, <1>14, <1>15, <1>16, <1>17, <1>18, <1>19, <1>20, <1>21, <1>22, <1>23,
     <1>24 DEF Effect

\* A job is reported done by the run that concludes it, or by the end of its
\* re-ingestion.
LEMMA ActorCompletes ==
    ASSUME PlaceInv, NEW r \in Run, Effect(r), NEW j \in Job,
           jobs'[j].status = "done", ~jobs'[j].reingested
    PROVE  \/ jobs[j].status = "done" /\ ~jobs[j].reingested
           \/ /\ j = run[r].job /\ run[r].pc = "paths" /\ Concludes(r)
              /\ run[r].structured # "failed" /\ run[r].narrative # "failed"
              /\ run[r].structured # "todo" /\ run[r].narrative # "todo"
<1>a. run[r].job \in Job
  BY EffectFrame DEF PlaceInv, Placed, Posted
<1> USE DEF Marks, OtherJobs, Readied, Succeeded
<1>1. CASE Begins(r)
  BY <1>a, <1>1 DEF Begins
<1>2. CASE Refuses(r)
  BY <1>a, <1>2 DEF Refuses
<1>3. CASE Routes(r)
  BY <1>a, <1>3 DEF Routes
<1>4. CASE Breaks(r)
  BY <1>a, <1>4 DEF Breaks
<1>5. CASE Catches(r)
  BY <1>a, <1>5 DEF Catches
<1>6. CASE Drops(r)
  BY <1>a, <1>6 DEF Drops
<1>7. CASE Shows(r)
  BY <1>a, <1>7 DEF Shows
<1>8. CASE Balks(r)
  BY <1>a, <1>8 DEF Balks
<1>9. CASE Announces(r)
  BY <1>a, <1>9 DEF Announces
<1>10. CASE Stops(r)
  BY <1>a, <1>10 DEF Stops
<1>11. CASE Enters(r)
  BY <1>a, <1>11 DEF Enters
<1>12. CASE Commits(r)
  BY <1>a, <1>12 DEF Commits
<1>13. CASE Stores(r)
  BY <1>a, <1>13 DEF Stores
<1>14. CASE Retries(r)
  BY <1>a, <1>14 DEF Retries
<1>15. CASE Concludes(r)
  BY <1>a, <1>15 DEF Concludes, Joined, At, Outcome
<1>16. CASE Retiring(r)
  BY <1>a, <1>16 DEF Retiring
<1>17. CASE Backs(r)
  BY <1>a, <1>17 DEF Backs
<1>18. CASE Deletes(r)
  BY <1>a, <1>18 DEF Deletes
<1>19. CASE Clears(r)
  BY <1>a, <1>19 DEF Clears
<1>20. CASE Leaves(r)
  BY <1>a, <1>20 DEF Leaves
<1>21. CASE Restores(r)
  BY <1>a, <1>21 DEF Restores
<1>22. CASE GivesUp(r)
  BY <1>a, <1>22 DEF GivesUp
<1>23. CASE Succeeds(r)
  BY <1>a, <1>23 DEF Succeeds
<1>24. CASE Misses(r)
  BY <1>a, <1>24 DEF Misses
<1> QED
  BY <1>1, <1>2, <1>3, <1>4, <1>5, <1>6, <1>7, <1>8, <1>9, <1>10, <1>11, <1>12,
     <1>13, <1>14, <1>15, <1>16, <1>17, <1>18, <1>19, <1>20, <1>21, <1>22, <1>23,
     <1>24 DEF Effect

LEMMA CompletedStep ==
    ASSUME PlaceInv, PathsDone, Completed, Moves, JobsKept,
           Held \subseteq Held', written \subseteq written'
    PROVE  Completed'
<1>1. ASSUME NEW j \in Job, Posted(j), Committed(j), Whole(j)
      PROVE  Committed(j)' /\ Whole(j)'
  BY <1>1, CommittedKept, WholeKept
<1> SUFFICES ASSUME NEW j \in Job, jobs'[j].status = "done", ~jobs'[j].reingested
             PROVE  Committed(j)' /\ Whole(j)'
  BY DEF Completed
<1>2. CASE jobs[j].status = "done" /\ ~jobs[j].reingested
  BY <1>1, <1>2 DEF Completed, Posted
<1>3. ASSUME NEW r \in Run, Effect(r), ~(jobs[j].status = "done" /\ ~jobs[j].reingested)
      PROVE  Committed(j)' /\ Whole(j)'
  <2>1. /\ j = run[r].job /\ run[r].pc = "paths"
        /\ run[r].structured # "failed" /\ run[r].narrative # "failed"
        /\ run[r].structured # "todo" /\ run[r].narrative # "todo"
    BY <1>3, ActorCompletes
  <2>2. Posted(run[r].job) /\ PathDone(run[r])
    BY <2>1 DEF PlaceInv, Placed, PathsDone
  <2>3. Committed(run[r].job) /\ Covers(run[r], Len(Chunks(run[r].job)))
    BY <2>1, <2>2 DEF PathDone
  <2>4. Whole(run[r].job)
    BY <2>2, <2>3, CoversWhole
  <2>5. Posted(j) /\ Committed(j) /\ Whole(j)
    BY <2>1, <2>2, <2>3, <2>4
  <2> QED
    BY <1>1, <2>5
<1>4. Asked \/ Restarted \/ UNCHANGED vars => jobs'[j] = jobs[j] \/ jobs'[j].status = "pending"
  BY DEF Asked, Registers, Triggers, Replaces, Creates, OtherJobs, Restarted, vars
<1> QED
  BY <1>2, <1>3, <1>4 DEF Moves

LEMMA MovesWritten ==
    ASSUME PlaceInv, Moves, written \subseteq Job
    PROVE  written \subseteq written' /\ written' \subseteq Job
<1>1. ASSUME NEW r \in Run, Effect(r)
      PROVE  written \subseteq written' /\ written' \subseteq Job
  <2>1. run[r].job \in Job
    BY <1>1, EffectFrame DEF PlaceInv, Placed, Posted
  <2> QED
    BY <1>1, <2>1, EffectWritten
<1> QED
  BY <1>1 DEF Moves, Asked, Restarted, vars

\* Everything about what the jobs have stored.
StoreInv ==
    /\ PlaceInv /\ Kept /\ HeldInv /\ PathsDone /\ Completed
    /\ written \subseteq Job

LEMMA InitStore ==
    ASSUME Init
    PROVE  StoreInv
<1>1. PlaceInv /\ Kept
  BY InitPlace, InitKept
<1>2. HeldInv
  BY DEF Init, HeldInv, Held, Idle, NoBackup
<1>3. PathsDone
  BY IdleDone DEF Init, PathsDone
<1>4. Completed
  BY DEF Init, Completed, NoJob
<1> QED
  BY <1>1, <1>2, <1>3, <1>4 DEF Init, StoreInv

LEMMA LaunchedDone ==
    ASSUME NEW r \in Run, NEW j, NEW kind, NEW at, Launches(r, j, kind, at),
           at \in {"queued", "backup"}
    PROVE  PathDone(run[r])'
BY DEF Launches, PathDone

LEMMA PathsStep ==
    ASSUME StoreInv, Moves, JobsKept, Held \subseteq Held',
           written \subseteq written'
    PROVE  PathsDone'
<1>0. PlaceInv /\ Kept /\ HeldInv /\ PathsDone
  BY DEF StoreInv
<1>1. ASSUME NEW q \in Run, run'[q] = run[q]
      PROVE  PathDone(run[q])'
  BY <1>0, <1>1, OtherDone DEF PathsDone
<1>2. ASSUME NEW q \in Run, run'[q] = Idle
      PROVE  PathDone(run[q])'
  BY <1>2 DEF PathDone, Idle
<1>3. ASSUME NEW r \in Run, Alone(r), Effect(r), NEW q \in Run
      PROVE  PathDone(run[q])'
  <2>1. CASE q = r
    BY <1>0, <1>3, <2>1, ActorDone
  <2>2. CASE q # r
    BY <1>1, <1>3, <2>2 DEF Alone
  <2> QED
    BY <2>1, <2>2
<1>4. ASSUME Asked, NEW q \in Run
      PROVE  PathDone(run[q])'
  <2>1. \/ run'[q] = run[q]
        \/ \E j \in Job : Triggers(q, j) \/ Replaces(q, j)
    BY <1>4 DEF Asked, Registers, Triggers, Replaces, Launches, Alone
  <2>2. ASSUME NEW j \in Job, Triggers(q, j) \/ Replaces(q, j)
        PROVE  PathDone(run[q])'
    BY <2>2, LaunchedDone DEF Triggers, Replaces
  <2> QED
    BY <1>1, <2>1, <2>2
<1>5. ASSUME Restarted \/ UNCHANGED vars, NEW q \in Run
      PROVE  PathDone(run[q])'
  BY <1>1, <1>2, <1>5 DEF Restarted, vars
<1> QED
  BY <1>3, <1>4, <1>5 DEF Moves, PathsDone

LEMMA StoreStep ==
    ASSUME StoreInv, [Next]_vars
    PROVE  /\ StoreInv' /\ JobsKept /\ Moves
           /\ Held \subseteq Held' /\ written \subseteq written'
<1>0. PlaceInv /\ Kept /\ HeldInv /\ PathsDone /\ Completed /\ written \subseteq Job
  BY DEF StoreInv
<1>1. PlaceInv' /\ JobsKept /\ Moves
  BY <1>0, PlaceStep
<1>2. Kept'
  BY <1>0, <1>1, KeptStep
<1>3. HeldInv' /\ Held \subseteq Held'
  BY <1>0, <1>1, HeldStep DEF PathsDone, PathDone
<1>4. written \subseteq written' /\ written' \subseteq Job
  BY <1>0, <1>1, MovesWritten
<1>5. PathsDone'
  BY <1>1, <1>3, <1>4, PathsStep
<1>6. Completed'
  BY <1>0, <1>1, <1>3, <1>4, CompletedStep
<1> QED
  BY <1>1, <1>2, <1>3, <1>4, <1>5, <1>6 DEF StoreInv

\* A job reported done has had its structured facts committed and every word of
\* its narrative sections embedded, across batches, retries and repeated runs.
THEOREM DoneJobsAreComplete == Spec => []DoneIsComplete
<1>1. Init => StoreInv
  BY InitStore
<1>2. StoreInv /\ [Next]_vars => StoreInv'
  BY StoreStep
<1>3. StoreInv => DoneIsComplete
  BY DEF StoreInv, Completed, Committed, Whole, DoneIsComplete
<1> QED
  BY <1>1, <1>2, <1>3, PTL DEF Spec
-----------------------------------------------------------------------------
(* The context of a session upload.                                        *)

ContextSet == [job : Job, stamp : Nat, active : BOOLEAN]
Begun(r) == run[r].pc # "idle"
\* Every run has its own stamp, and a context the stamp of the run that wrote it.
OwnContext(c) ==
    /\ c.stamp <= calls
    /\ Posted(c.job) /\ jobs[c.job].context = "session"
    /\ \A r \in Run : Begun(r) /\ c.stamp = run[r].stamp => c.job = run[r].job
Stamped ==
    /\ contexts \in Seq(ContextSet)
    /\ \A r \in Run : Begun(r) => run[r].stamp \in Nat /\ run[r].stamp <= calls
    /\ \A r, q \in Run : Begun(r) /\ Begun(q) /\ run[r].stamp = run[q].stamp => r = q
    /\ \A i \in 1 .. Len(contexts) : OwnContext(contexts[i])

\* The contexts that are there stay, with their job; a step adds one of its run,
\* or marks one of its job, which is embedded.
SameContexts ==
    /\ Len(contexts) <= Len(contexts')
    /\ \A i \in 1 .. Len(contexts) :
          contexts'[i].job = contexts[i].job /\ contexts'[i].stamp = contexts[i].stamp
Adds(r) ==
    /\ run[r].pc = "hook" /\ contexts' = Append(contexts, NewContext(r))
Unmarks(r) ==
    \E i \in 1 .. Len(contexts) :
        /\ run[r].pc = "embedded" /\ i = ContextOf(run[r].job)
        /\ contexts[i].job = run[r].job
        /\ contexts' = [contexts EXCEPT ![i].active = FALSE]

LEMMA ContextFound ==
    ASSUME contexts \in Seq(ContextSet), NEW j
    PROVE  LET i == ContextOf(j) IN
           \/ i = 0 /\ \A k \in 1 .. Len(contexts) : contexts[k].job # j
           \/ i \in 1 .. Len(contexts) /\ contexts[i].job = j
<1> DEFINE I == {k \in 1 .. Len(contexts) : contexts[k].job = j}
<1>1. ContextOf(j) = IF I # {} THEN Min(I) ELSE 0
  BY DEF ContextOf, SelectInSeq
<1>2. I \in SUBSET Nat
  OBVIOUS
<1>3. I # {} => Min(I) \in I
  <2> HIDE DEF I
  <2> QED
    BY <1>2, LeastNatural
<1> QED
  BY <1>1, <1>3

LEMMA EffectContexts ==
    ASSUME Stamped, NEW r \in Run, Effect(r)
    PROVE  UNCHANGED contexts \/ Adds(r) \/ Unmarks(r)
<1>1. CASE Begins(r)
  BY <1>1 DEF Begins
<1>2. CASE Refuses(r)
  BY <1>2 DEF Refuses
<1>3. CASE Routes(r)
  BY <1>3 DEF Routes
<1>4. CASE Breaks(r)
  BY <1>4 DEF Breaks
<1>5. CASE Catches(r)
  BY <1>5 DEF Catches
<1>6. CASE Drops(r)
  BY <1>6 DEF Drops
<1>7. CASE Shows(r)
  BY <1>7 DEF Shows, Adds
<1>8. CASE Balks(r)
  BY <1>8 DEF Balks, Adds
<1>9. CASE Announces(r)
  BY <1>9 DEF Announces
<1>10. CASE Stops(r)
  BY <1>10 DEF Stops
<1>11. CASE Enters(r)
  BY <1>11 DEF Enters
<1>12. CASE Commits(r)
  BY <1>12 DEF Commits
<1>13. CASE Stores(r)
  BY <1>13 DEF Stores
<1>14. CASE Retries(r)
  BY <1>14 DEF Retries
<1>15. CASE Concludes(r)
  BY <1>15 DEF Concludes
<1>16. CASE Retiring(r)
  <2>1. CASE ContextOf(run[r].job) = 0
    BY <1>16, <2>1 DEF Retiring
  <2>2. CASE ContextOf(run[r].job) # 0
    <3>1. PICK i : i = ContextOf(run[r].job)
      OBVIOUS
    <3>2. i \in 1 .. Len(contexts) /\ contexts[i].job = run[r].job
      BY <2>2, <3>1, ContextFound DEF Stamped
    <3>3. run[r].pc = "embedded" /\ contexts' = [contexts EXCEPT ![i].active = FALSE]
      BY <1>16, <2>2, <3>1 DEF Retiring
    <3> QED
      BY <3>1, <3>2, <3>3 DEF Unmarks
  <2> QED
    BY <2>1, <2>2
<1>17. CASE Backs(r)
  BY <1>17 DEF Backs
<1>18. CASE Deletes(r)
  BY <1>18 DEF Deletes
<1>19. CASE Clears(r)
  BY <1>19 DEF Clears
<1>20. CASE Leaves(r)
  BY <1>20 DEF Leaves
<1>21. CASE Restores(r)
  BY <1>21 DEF Restores
<1>22. CASE GivesUp(r)
  BY <1>22 DEF GivesUp
<1>23. CASE Succeeds(r)
  BY <1>23 DEF Succeeds
<1>24. CASE Misses(r)
  BY <1>24 DEF Misses
<1> QED
  BY <1>1, <1>2, <1>3, <1>4, <1>5, <1>6, <1>7, <1>8, <1>9, <1>10, <1>11, <1>12,
     <1>13, <1>14, <1>15, <1>16, <1>17, <1>18, <1>19, <1>20, <1>21, <1>22, <1>23,
     <1>24 DEF Effect

LEMMA AddsContext ==
    ASSUME contexts \in Seq(ContextSet), NEW r \in Run, Adds(r),
           run[r].job \in Job, run[r].stamp \in Nat
    PROVE  /\ contexts' \in Seq(ContextSet) /\ SameContexts
           /\ Len(contexts') = Len(contexts) + 1
           /\ \A i \in 1 .. Len(contexts) : contexts'[i] = contexts[i]
           /\ contexts'[Len(contexts) + 1].job = run[r].job
           /\ contexts'[Len(contexts) + 1].stamp = run[r].stamp
           /\ contexts'[Len(contexts) + 1].active = TRUE
<1> DEFINE c == NewContext(r)
<1>1. c \in ContextSet
  BY DEF NewContext, ContextSet
<1>2. c.job = run[r].job /\ c.stamp = run[r].stamp
  BY DEF NewContext
<1>3. c.active = TRUE
  BY DEF NewContext
<1> HIDE DEF c
<1>4. contexts' = Append(contexts, c)
  BY DEF Adds, c
<1>5. contexts' \in Seq(ContextSet)
  BY <1>1, <1>4
<1>6. /\ Len(contexts') = Len(contexts) + 1
      /\ \A i \in 1 .. Len(contexts) : contexts'[i] = contexts[i]
      /\ contexts'[Len(contexts) + 1] = c
  BY <1>1, <1>4
<1>7. SameContexts
  BY <1>6 DEF SameContexts
<1> QED
  BY <1>2, <1>3, <1>5, <1>6, <1>7

LEMMA UnmarksContext ==
    ASSUME contexts \in Seq(ContextSet), NEW i \in 1 .. Len(contexts),
           contexts' = [contexts EXCEPT ![i].active = FALSE]
    PROVE  /\ contexts' \in Seq(ContextSet) /\ SameContexts
           /\ Len(contexts') = Len(contexts)
           /\ \A k \in 1 .. Len(contexts) : k # i => contexts'[k] = contexts[k]
           /\ contexts'[i].active = FALSE
<1> DEFINE d == [contexts[i] EXCEPT !.active = FALSE]
<1>1. contexts[i] \in ContextSet
  OBVIOUS
<1>2. d \in ContextSet /\ d.job = contexts[i].job /\ d.stamp = contexts[i].stamp
  BY <1>1 DEF ContextSet
<1>3. d.active = FALSE
  BY <1>1 DEF ContextSet
<1>4. contexts' = [contexts EXCEPT ![i] = d]
  OBVIOUS
<1> HIDE DEF d
<1>5. contexts' \in Seq(ContextSet)
  <2>1. d \in ContextSet
    BY <1>2
  <2>2. [contexts EXCEPT ![i] = d] \in Seq(ContextSet)
    BY <2>1, ExceptSeq, Zenon
  <2> QED
    BY <1>4, <2>2
<1>6. /\ Len(contexts') = Len(contexts)
      /\ \A k \in 1 .. Len(contexts) : k # i => contexts'[k] = contexts[k]
      /\ contexts'[i] = d
  BY <1>4
<1>7. SameContexts
  BY <1>2, <1>6 DEF SameContexts
<1> QED
  BY <1>3, <1>5, <1>6, <1>7

LEMMA EffectRuns ==
    ASSUME NEW r \in Run, Alone(r), Effect(r)
    PROVE  /\ Begun(r) /\ calls' = calls
           /\ \A q \in Run : Begun(q)' =>
                 Begun(q) /\ run'[q].job = run[q].job /\ run'[q].stamp = run[q].stamp
BY EffectFrame DEF Begun, Alone, Frees, Idle, Identity, Drifts

LEMMA StampedStep ==
    ASSUME PlaceInv, Stamped, JobsKept, Moves
    PROVE  Stamped' /\ SameContexts
<1>0. contexts \in Seq(ContextSet) /\ calls \in Nat
  BY DEF Stamped, PlaceInv, Counters
<1>1. SameContexts /\ contexts' \in Seq(ContextSet) =>
         \A i \in 1 .. Len(contexts) : i \in 1 .. Len(contexts')
  BY <1>0 DEF SameContexts
<1>2. \A j : Posted(j) => Posted(j)' /\ jobs'[j].context = jobs[j].context
  BY JobKept
<1>3. \A i \in 1 .. Len(contexts) : contexts[i].stamp \in Nat
  <2>1. \A i \in 1 .. Len(contexts) : contexts[i] \in ContextSet
    BY <1>0
  <2>2. \A c \in ContextSet : c.stamp \in Nat
    BY DEF ContextSet
  <2> QED
    BY <2>1, <2>2
<1>a. ASSUME NEW r \in Run, Alone(r), Effect(r)
      PROVE  Stamped' /\ SameContexts
  <2>1. /\ Begun(r) /\ calls' = calls
        /\ \A q \in Run : Begun(q)' =>
              Begun(q) /\ run'[q].job = run[q].job /\ run'[q].stamp = run[q].stamp
    BY <1>a, EffectRuns
  <2>2. /\ \A q \in Run : Begun(q)' => run'[q].stamp \in Nat /\ run'[q].stamp <= calls'
        /\ \A p, q \in Run : Begun(p)' /\ Begun(q)' /\ run'[p].stamp = run'[q].stamp
              => p = q
    BY <2>1 DEF Stamped
  <2>3. \A c, d : OwnContext(c) /\ d.stamp = c.stamp /\ d.job = c.job => OwnContext(d)'
    BY <1>2, <2>1 DEF OwnContext
  <2>4. Posted(run[r].job) /\ run[r].stamp \in Nat /\ run[r].stamp <= calls
    BY <2>1 DEF Stamped, PlaceInv, Placed, Begun
  <2>5. CASE UNCHANGED contexts
    BY <1>0, <2>2, <2>3, <2>5 DEF Stamped, SameContexts
  <2>6. CASE Adds(r)
    <3>1. /\ contexts' \in Seq(ContextSet) /\ SameContexts
          /\ Len(contexts') = Len(contexts) + 1
          /\ \A i \in 1 .. Len(contexts) : contexts'[i] = contexts[i]
          /\ contexts'[Len(contexts) + 1].job = run[r].job
          /\ contexts'[Len(contexts) + 1].stamp = run[r].stamp
      BY <1>0, <2>4, <2>6, AddsContext DEF Posted
    <3>2. jobs[run[r].job].context = "session"
      BY <2>6 DEF Adds, PlaceInv, Placed
    <3>3. PICK c : c = contexts'[Len(contexts) + 1]
      OBVIOUS
    <3>4. OwnContext(c)
      BY <2>1, <2>4, <3>1, <3>2, <3>3 DEF OwnContext, Stamped
    <3>5. OwnContext(c)'
      BY <2>3, <3>4
    <3>6. \A i \in 1 .. Len(contexts') : OwnContext(contexts[i])'
      <4> SUFFICES ASSUME NEW i \in 1 .. Len(contexts')
                   PROVE  OwnContext(contexts[i])'
        OBVIOUS
      <4>1. CASE i \in 1 .. Len(contexts)
        BY <2>3, <3>1, <4>1 DEF Stamped
      <4>2. CASE i = Len(contexts) + 1
        BY <3>3, <3>5, <4>2
      <4> QED
        BY <1>0, <3>1, <4>1, <4>2
    <3> QED
      BY <2>2, <3>1, <3>6 DEF Stamped
  <2>7. CASE Unmarks(r)
    <3>1. PICK k \in 1 .. Len(contexts) : contexts' = [contexts EXCEPT ![k].active = FALSE]
      BY <2>7 DEF Unmarks
    <3>2. contexts' \in Seq(ContextSet) /\ SameContexts /\ Len(contexts') = Len(contexts)
      BY <1>0, <3>1, UnmarksContext
    <3>3. \A i \in 1 .. Len(contexts') : OwnContext(contexts[i])'
      BY <2>3, <3>2 DEF SameContexts, Stamped
    <3> QED
      BY <2>2, <3>2, <3>3 DEF Stamped
  <2> QED
    BY <1>a, <2>5, <2>6, <2>7, EffectContexts
<1>b. ASSUME UNCHANGED contexts, calls' = calls,
             \A q \in Run : run'[q] = run[q] \/ run'[q] = Idle
      PROVE  Stamped' /\ SameContexts
  <2>1. \A q \in Run : Begun(q)' => Begun(q) /\ run'[q] = run[q]
    BY <1>b DEF Begun, Idle
  <2>2. \A c : OwnContext(c) => OwnContext(c)'
    BY <1>2, <1>b, <2>1 DEF OwnContext
  <2> QED
    BY <1>0, <1>b, <2>1, <2>2 DEF Stamped, SameContexts
<1>c. ASSUME UNCHANGED contexts, NEW r \in Run, NEW j, NEW kind, NEW at,
             Launches(r, j, kind, at)
      PROVE  Stamped' /\ SameContexts
  <2>1. /\ run'[r].stamp = calls + 1 /\ calls' = calls + 1
        /\ \A q \in Run \ {r} : run'[q] = run[q]
    BY <1>c DEF Launches, Alone
  <2>2. \A i \in 1 .. Len(contexts) : OwnContext(contexts[i])'
    <3> SUFFICES ASSUME NEW i \in 1 .. Len(contexts), NEW c, c = contexts[i]
                 PROVE  OwnContext(c)'
      BY <1>c
    <3>1. OwnContext(c) /\ c.stamp \in Nat
      BY <1>3 DEF Stamped
    <3>2. c.stamp <= calls /\ c.stamp # calls + 1
      BY <1>0, <3>1 DEF OwnContext
    <3>3. \A q \in Run : Begun(q)' /\ c.stamp = run'[q].stamp => c.job = run'[q].job
      BY <2>1, <3>1, <3>2 DEF OwnContext, Begun
    <3> QED
      BY <1>0, <1>2, <2>1, <3>1, <3>2, <3>3 DEF OwnContext
  <2>3. \A q \in Run : Begun(q)' => run'[q].stamp \in Nat /\ run'[q].stamp <= calls'
    BY <1>0, <2>1 DEF Stamped, Begun
  <2>4. \A p, q \in Run : Begun(p)' /\ Begun(q)' /\ run'[p].stamp = run'[q].stamp => p = q
    BY <1>0, <2>1 DEF Stamped, Begun
  <2> QED
    BY <1>0, <1>c, <2>2, <2>3, <2>4 DEF Stamped, SameContexts
<1>d. Restarted \/ UNCHANGED vars => Stamped' /\ SameContexts
  BY <1>b DEF Restarted, vars
<1>e. Asked => Stamped' /\ SameContexts
  BY <1>b, <1>c DEF Asked, Registers, Triggers, Replaces
<1> QED
  BY <1>a, <1>d, <1>e DEF Moves

\* A run that has not been extracted has not failed to write a context either.
Fresh ==
    \A r \in Run : run[r].pc \in {"queued", "extract"} /\ run[r].kind = "extract"
                      => run[r].tries = 0

\* A session upload that was announced is in front of the mentor.
Serves(j) == ActiveContexts(j) # {} \/ Whole(j)
Announced ==
    /\ \A j \in Job : jobs[j].ready => Serves(j)
    /\ \A r \in Run : run[r].pc = "ready" => Serves(run[r].job)

\* As long as one call has failed at most, a run past the hook, and a job that
\* is done, has left a context.
Shown(j) == {i \in 1 .. Len(contexts) : contexts[i].job = j}
Showing(j) == jobs[j].context = "session" /\ HasContent(jobs[j].files) => Shown(j) # {}
Hooked ==
    faults < 2 =>
        /\ \A r \in Run : run[r].pc \in {"ready", "check", "paths", "embedded"} =>
              Showing(run[r].job)
        /\ \A r \in Run : run[r].pc = "hook" /\ run[r].tries # 0 =>
              faults > 0 \/ Inserted(r)
        /\ \A j \in Job : jobs[j].status = "done" => Showing(j)

\* The one context of a job that is done is inactive, or the run that is to
\* see to it is under way.
Retires(r, j) ==
    /\ run[r].job = j
    /\ \/ run[r].pc = "embedded"
       \/ run[r].pc = "raised" /\ run[r].kind = "extract" /\ faults > 0
Single(j) == \E i : Shown(j) = {i}
Retired ==
    \A j \in Job :
        jobs[j].status = "done" /\ ~crashed /\ faults < 2 /\ Single(j) =>
            ActiveContexts(j) = {} \/ \E r \in Run : Retires(r, j)

ContextInv == Stamped /\ Fresh /\ Announced /\ Hooked /\ Retired

LEMMA ActorFresh ==
    ASSUME PlaceInv, Fresh, NEW r \in Run, Effect(r),
           run'[r].pc \in {"queued", "extract"}, run'[r].kind = "extract"
    PROVE  run'[r].tries = 0
<1>a. Placed(run[r])
  BY DEF PlaceInv
<1>b. ~Frees(r)
  BY DEF Frees, Idle
<1> USE DEF Goes, OnPaths, Back
<1>1. CASE Begins(r)
  BY <1>1 DEF Begins, Identity, Rest, Fresh
<1>2. CASE Refuses(r)
  BY <1>b, <1>2 DEF Refuses
<1>3. CASE Routes(r)
  BY <1>b, <1>3 DEF Routes
<1>4. CASE Breaks(r)
  BY <1>b, <1>4 DEF Breaks
<1>5. CASE Catches(r)
  BY <1>b, <1>5 DEF Catches
<1>6. CASE Drops(r)
  BY <1>b, <1>6 DEF Drops
<1>7. CASE Shows(r)
  BY <1>b, <1>7 DEF Shows
<1>8. CASE Balks(r)
  BY <1>b, <1>8 DEF Balks
<1>9. CASE Announces(r)
  BY <1>b, <1>9 DEF Announces
<1>10. CASE Stops(r)
  BY <1>b, <1>10 DEF Stops
<1>11. CASE Enters(r)
  BY <1>b, <1>11 DEF Enters
<1>12. CASE Commits(r)
  BY <1>b, <1>12 DEF Commits
<1>13. CASE Stores(r)
  BY <1>b, <1>13 DEF Stores
<1>14. CASE Retries(r)
  BY <1>b, <1>14 DEF Retries
<1>15. CASE Concludes(r)
  BY <1>b, <1>15 DEF Concludes
<1>16. CASE Retiring(r)
  BY <1>b, <1>16 DEF Retiring
<1>17. CASE Backs(r)
  BY <1>b, <1>17 DEF Backs
<1>18. CASE Deletes(r)
  BY <1>a, <1>18 DEF Deletes, Identity, Placed, Reingesting
<1>19. CASE Clears(r)
  BY <1>a, <1>19 DEF Clears, Identity, Placed, Reingesting
<1>20. CASE Leaves(r)
  BY <1>b, <1>20 DEF Leaves
<1>21. CASE Restores(r)
  BY <1>b, <1>21 DEF Restores
<1>22. CASE GivesUp(r)
  BY <1>b, <1>22 DEF GivesUp
<1>23. CASE Succeeds(r)
  BY <1>b, <1>23 DEF Succeeds
<1>24. CASE Misses(r)
  BY <1>b, <1>24 DEF Misses
<1> QED
  BY <1>1, <1>2, <1>3, <1>4, <1>5, <1>6, <1>7, <1>8, <1>9, <1>10, <1>11, <1>12,
     <1>13, <1>14, <1>15, <1>16, <1>17, <1>18, <1>19, <1>20, <1>21, <1>22, <1>23,
     <1>24 DEF Effect

LEMMA FreshStep ==
    ASSUME PlaceInv, Fresh, Moves
    PROVE  Fresh'
<1>b. ASSUME NEW r \in Run, Alone(r), Effect(r)
      PROVE  Fresh'
  BY <1>b, ActorFresh DEF Fresh, Alone
<1>c. Asked => Fresh'
  <2>1. ASSUME NEW r \in Run, NEW j, NEW kind, NEW at, Launches(r, j, kind, at)
        PROVE  Fresh'
    BY <2>1 DEF Launches, Alone, Fresh
  <2> QED
    BY <2>1 DEF Asked, Registers, Triggers, Replaces, Fresh
<1>d. Restarted \/ UNCHANGED vars => Fresh'
  BY DEF Restarted, vars, Fresh, Idle
<1> QED
  BY <1>b, <1>c, <1>d DEF Moves

\* A job that is served stays served: its context is only taken away once it
\* is embedded.
LEMMA ServesKept ==
    ASSUME StoreInv, Stamped, Moves, JobsKept, Held \subseteq Held', NEW j, Posted(j),
           Serves(j)
    PROVE  Serves(j)'
<1>0. contexts \in Seq(ContextSet)
  BY DEF Stamped
<1>1. Whole(j) => Whole(j)'
  BY WholeKept
<1>2. UNCHANGED contexts => Serves(j)'
  BY <1>1 DEF Serves, ActiveContexts
<1>3. ASSUME NEW r \in Run, Adds(r)
      PROVE  Serves(j)'
  <2>1. Posted(run[r].job) /\ run[r].stamp \in Nat
    BY <1>3 DEF Adds, StoreInv, PlaceInv, Placed, Stamped, Begun
  <2>2. /\ contexts' \in Seq(ContextSet) /\ Len(contexts') = Len(contexts) + 1
        /\ \A i \in 1 .. Len(contexts) : contexts'[i] = contexts[i]
    BY <1>0, <1>3, <2>1, AddsContext DEF Posted
  <2>3. ActiveContexts(j) \subseteq ActiveContexts(j)'
    BY <1>0, <2>2 DEF ActiveContexts
  <2> QED
    BY <1>1, <2>3 DEF Serves
<1>4. ASSUME NEW r \in Run, Unmarks(r)
      PROVE  Serves(j)'
  <2>1. PICK i \in 1 .. Len(contexts) :
           /\ run[r].pc = "embedded" /\ contexts[i].job = run[r].job
           /\ contexts' = [contexts EXCEPT ![i].active = FALSE]
    BY <1>4 DEF Unmarks
  <2>2. CASE run[r].job = j
    <3>1. Whole(j)
      BY <2>1, <2>2 DEF StoreInv, PathsDone, PathDone
    <3> QED
      BY <1>1, <3>1 DEF Serves
  <2>3. CASE run[r].job # j
    <3>1. /\ contexts' \in Seq(ContextSet) /\ Len(contexts') = Len(contexts)
          /\ \A k \in 1 .. Len(contexts) : k # i => contexts'[k] = contexts[k]
      BY <1>0, <2>1, UnmarksContext
    <3>2. i \notin ActiveContexts(j)
      BY <2>1, <2>3 DEF ActiveContexts
    <3>3. ActiveContexts(j) \subseteq ActiveContexts(j)'
      BY <1>0, <3>1, <3>2 DEF ActiveContexts
    <3> QED
      BY <1>1, <3>3 DEF Serves
  <2> QED
    BY <2>2, <2>3
<1>5. Asked \/ Restarted \/ UNCHANGED vars => UNCHANGED contexts
  BY DEF Asked, Restarted, vars
<1> QED
  BY <1>2, <1>3, <1>4, <1>5, EffectContexts DEF Moves

LEMMA AddsServes ==
    ASSUME StoreInv, Stamped, JobsKept, NEW r \in Run, Adds(r), NEW j, j = run[r].job
    PROVE  Serves(j)'
<1>0. contexts \in Seq(ContextSet)
  BY DEF Stamped
<1>1. Posted(run[r].job) /\ run[r].stamp \in Nat
  BY DEF Adds, StoreInv, PlaceInv, Placed, Stamped, Begun
<1>2. /\ contexts' \in Seq(ContextSet) /\ Len(contexts') = Len(contexts) + 1
      /\ contexts'[Len(contexts) + 1].job = run[r].job
      /\ contexts'[Len(contexts) + 1].active = TRUE
  BY <1>0, <1>1, AddsContext DEF Posted
<1>3. Len(contexts) + 1 \in ActiveContexts(j)'
  BY <1>0, <1>2 DEF ActiveContexts
<1> QED
  BY <1>3 DEF Serves

\* Which run announces a job, and which run comes to announce one.
LEMMA ActorAnnounces ==
    ASSUME PlaceInv, NEW r \in Run, Effect(r)
    PROVE  /\ \A j \in Job : jobs'[j].ready =>
                 jobs[j].ready \/ (j = run[r].job /\ run[r].pc = "ready")
           /\ run'[r].pc = "ready" => Adds(r) /\ run'[r].job = run[r].job
<1>a. run[r].job \in Job
  BY EffectFrame DEF PlaceInv, Placed, Posted
<1>b. Frees(r) => run'[r].pc # "ready"
  BY DEF Frees, Idle
<1> USE DEF Marks, OtherJobs, Readied, Succeeded, Goes, OnPaths, Back
<1>1. CASE Begins(r)
  BY <1>a, <1>b, <1>1 DEF Begins
<1>2. CASE Refuses(r)
  BY <1>a, <1>b, <1>2 DEF Refuses
<1>3. CASE Routes(r)
  BY <1>a, <1>b, <1>3 DEF Routes
<1>4. CASE Breaks(r)
  BY <1>a, <1>b, <1>4 DEF Breaks
<1>5. CASE Catches(r)
  BY <1>a, <1>b, <1>5 DEF Catches
<1>6. CASE Drops(r)
  BY <1>a, <1>b, <1>6 DEF Drops
<1>7. CASE Shows(r)
  BY <1>a, <1>7 DEF Shows, Adds, Keeping, Identity
<1>8. CASE Balks(r)
  BY <1>a, <1>b, <1>8 DEF Balks
<1>9. CASE Announces(r)
  BY <1>a, <1>b, <1>9 DEF Announces
<1>10. CASE Stops(r)
  BY <1>a, <1>b, <1>10 DEF Stops
<1>11. CASE Enters(r)
  BY <1>a, <1>b, <1>11 DEF Enters
<1>12. CASE Commits(r)
  BY <1>a, <1>b, <1>12 DEF Commits
<1>13. CASE Stores(r)
  BY <1>a, <1>b, <1>13 DEF Stores
<1>14. CASE Retries(r)
  BY <1>a, <1>b, <1>14 DEF Retries
<1>15. CASE Concludes(r)
  BY <1>a, <1>b, <1>15 DEF Concludes
<1>16. CASE Retiring(r)
  BY <1>a, <1>b, <1>16 DEF Retiring
<1>17. CASE Backs(r)
  BY <1>a, <1>b, <1>17 DEF Backs
<1>18. CASE Deletes(r)
  BY <1>a, <1>b, <1>18 DEF Deletes
<1>19. CASE Clears(r)
  BY <1>a, <1>b, <1>19 DEF Clears
<1>20. CASE Leaves(r)
  BY <1>a, <1>b, <1>20 DEF Leaves
<1>21. CASE Restores(r)
  BY <1>a, <1>b, <1>21 DEF Restores
<1>22. CASE GivesUp(r)
  BY <1>a, <1>b, <1>22 DEF GivesUp
<1>23. CASE Succeeds(r)
  BY <1>a, <1>b, <1>23 DEF Succeeds
<1>24. CASE Misses(r)
  BY <1>a, <1>b, <1>24 DEF Misses
<1> QED
  BY <1>1, <1>2, <1>3, <1>4, <1>5, <1>6, <1>7, <1>8, <1>9, <1>10, <1>11, <1>12,
     <1>13, <1>14, <1>15, <1>16, <1>17, <1>18, <1>19, <1>20, <1>21, <1>22, <1>23,
     <1>24 DEF Effect

LEMMA AnnouncedStep ==
    ASSUME StoreInv, Stamped, Announced, Moves, JobsKept, Held \subseteq Held'
    PROVE  Announced'
<1>0. PlaceInv
  BY DEF StoreInv
<1>1. ASSUME NEW j \in Job, jobs[j].ready
      PROVE  Serves(j)'
  <2>1. jobs[j].status # "none"
    BY <1>0, <1>1 DEF PlaceInv, Filing, NoJob
  <2> QED
    BY <1>1, <2>1, ServesKept DEF Announced, Posted
<1>2. ASSUME NEW r \in Run, run[r].pc = "ready", NEW j, j = run[r].job
      PROVE  Serves(j)'
  <2>1. Posted(j) /\ Serves(j)
    BY <1>0, <1>2 DEF PlaceInv, Placed, Announced
  <2> QED
    BY <2>1, ServesKept
<1>3. ASSUME NEW r \in Run, Alone(r), Effect(r)
      PROVE  Announced'
  <2>1. ASSUME NEW j \in Job, jobs'[j].ready
        PROVE  Serves(j)'
    BY <1>0, <1>1, <1>2, <1>3, <2>1, ActorAnnounces
  <2>2. ASSUME NEW q \in Run, run'[q].pc = "ready", NEW j, j = run'[q].job
        PROVE  Serves(j)'
    <3>1. CASE q # r
      BY <1>2, <1>3, <2>2, <3>1 DEF Alone
    <3>2. CASE q = r
      BY <1>0, <1>3, <2>2, <3>2, ActorAnnounces, AddsServes
    <3> QED
      BY <3>1, <3>2
  <2>3. \A q \in Run : run'[q].pc = "ready" => Serves(run[q].job)'
    <3> SUFFICES ASSUME NEW q \in Run, run'[q].pc = "ready"
                 PROVE  Serves(run[q].job)'
      OBVIOUS
    <3>1. PICK j : j = run'[q].job
      OBVIOUS
    <3>2. Serves(j)'
      BY <2>2, <3>1
    <3> QED
      BY <3>1, <3>2
  <2> QED
    BY <2>1, <2>3 DEF Announced
<1>4. ASSUME Asked \/ Restarted \/ UNCHANGED vars
      PROVE  Announced'
  <2>1. \A j \in Job : jobs'[j].ready => jobs[j].ready
    BY <1>4 DEF Asked, Registers, Triggers, Replaces, Creates, OtherJobs, Restarted,
       vars
  <2>2. \A q \in Run : run'[q].pc = "ready" => run[q].pc = "ready" /\ run'[q] = run[q]
    BY <1>4 DEF Asked, Registers, Triggers, Replaces, Launches, Alone, Restarted, Idle,
       vars
  <2>3. \A q \in Run : run'[q].pc = "ready" => Serves(run[q].job)'
    <3> SUFFICES ASSUME NEW q \in Run, run'[q].pc = "ready"
                 PROVE  Serves(run[q].job)'
      OBVIOUS
    <3>1. PICK j : j = run[q].job /\ j = run'[q].job
      BY <2>2
    <3>2. Serves(j)'
      BY <1>2, <2>2, <3>1
    <3> QED
      BY <3>1, <3>2
  <2> QED
    BY <1>1, <2>1, <2>3 DEF Announced
<1> QED
  BY <1>3, <1>4 DEF Moves

LEMMA ShownKept ==
    ASSUME Stamped, SameContexts, Len(contexts') \in Nat, NEW j
    PROVE  Shown(j) \subseteq Shown(j)'
<1>1. Len(contexts) \in Nat
  BY DEF Stamped
<1> QED
  BY <1>1 DEF SameContexts, Shown

LEMMA ShowingKept ==
    ASSUME Stamped, SameContexts, Len(contexts') \in Nat, JobsKept, NEW j, Posted(j),
           Showing(j)
    PROVE  Showing(j)'
BY JobKept, ShownKept DEF Showing

LEMMA AddsShown ==
    ASSUME PlaceInv, Stamped, NEW r \in Run, Adds(r), NEW j
    PROVE  /\ run[r].job = j => Len(contexts) + 1 \in Shown(j)'
           /\ run[r].job # j => Shown(j)' = Shown(j)
           /\ Len(contexts) + 1 \notin Shown(j)
<1>0. contexts \in Seq(ContextSet)
  BY DEF Stamped
<1>1. Posted(run[r].job) /\ run[r].stamp \in Nat
  BY DEF Adds, PlaceInv, Placed, Stamped, Begun
<1>2. /\ contexts' \in Seq(ContextSet) /\ Len(contexts') = Len(contexts) + 1
      /\ \A i \in 1 .. Len(contexts) : contexts'[i] = contexts[i]
      /\ contexts'[Len(contexts) + 1].job = run[r].job
  BY <1>0, <1>1, AddsContext DEF Posted
<1> QED
  BY <1>0, <1>2 DEF Shown

LEMMA InsertedKept ==
    ASSUME Stamped, SameContexts, Len(contexts') \in Nat, contexts' \in Seq(ContextSet),
           NEW r, NEW s, s = run[r].stamp, run'[r].stamp = s, Inserted(r)
    PROVE  Inserted(r)'
<1>1. contexts \in Seq(ContextSet)
  BY DEF Stamped
<1>2. PICK i \in 1 .. Len(contexts) : contexts[i].stamp = s
  BY <1>1 DEF Inserted
<1>3. i \in 1 .. Len(contexts') /\ contexts'[i].stamp = s
  BY <1>1, <1>2 DEF SameContexts
<1> QED
  BY <1>3 DEF Inserted

LEMMA InsertedShows ==
    ASSUME PlaceInv, Stamped, NEW r \in Run, Begun(r), Inserted(r)
    PROVE  Shown(run[r].job) # {}
<1>1. contexts \in Seq(ContextSet)
  BY DEF Stamped
<1>2. PICK i \in 1 .. Len(contexts) : contexts[i].stamp = run[r].stamp
  BY <1>1 DEF Inserted
<1>3. contexts[i].job = run[r].job
  BY <1>2 DEF Stamped, OwnContext
<1> QED
  BY <1>2, <1>3 DEF Shown

\* The three parts of Hooked.
Past == {"ready", "check", "paths", "embedded"}

LEMMA ActorPast ==
    ASSUME StoreInv, Stamped, Fresh, Hooked, JobsKept, SameContexts,
           contexts' \in Seq(ContextSet), faults < 2, faults' < 2,
           NEW r \in Run, Alone(r), Effect(r),
           run'[r].pc \in Past, NEW j, j = run[r].job
    PROVE  Showing(j)' /\ run'[r].job = j
<1>a. PlaceInv /\ Placed(run[r]) /\ Posted(j) /\ Begun(r) /\ faults \in Nat
  BY EffectFrame DEF StoreInv, PlaceInv, Placed, Begun, Counters
<1>b. Len(contexts') \in Nat
  OBVIOUS
<1>c. Frees(r) => run'[r].pc \notin Past
  BY DEF Frees, Idle, Past
<1>d. run[r].pc \in Past => Showing(j)'
  <2>1. run[r].pc \in Past => Showing(j)
    BY DEF Hooked, Past
  <2> QED
    BY <1>a, <1>b, <2>1, ShowingKept
<1>e. jobs[j].context # "session" \/ ~HasContent(jobs[j].files) => Showing(j)'
  BY <1>a, JobKept DEF Showing
<1>f. Shown(j) # {} => Showing(j)'
  BY <1>b, ShownKept DEF Showing
<1> USE DEF Past, Goes, Identity, Keeping, OnPaths, Back, Joined, At
<1>1. CASE Begins(r)
  BY <1>c, <1>d, <1>1 DEF Begins
<1>2. CASE Refuses(r)
  BY <1>c, <1>d, <1>2 DEF Refuses
<1>3. CASE Routes(r)
  BY <1>e, <1>3 DEF Routes, Doc
<1>4. CASE Breaks(r)
  BY <1>c, <1>d, <1>4 DEF Breaks
<1>5. CASE Catches(r)
  BY <1>c, <1>d, <1>5 DEF Catches
<1>6. CASE Drops(r)
  BY <1>c, <1>d, <1>6 DEF Drops
<1>7. CASE Shows(r)
  <2>1. Adds(r) /\ run'[r].job = j
    BY <1>7 DEF Shows, Adds, Keeping, Identity
  <2>2. Shown(j)' # {}
    BY <1>a, <2>1, AddsShown
  <2> QED
    BY <2>1, <2>2 DEF Showing
<1>8. CASE Balks(r)
  <2>1. /\ run[r].pc = "hook" /\ run[r].tries # 0 /\ run'[r].job = j
        /\ \/ ~Inserted(r) /\ faults' = faults + 1
           \/ Inserted(r)
    BY <1>8 DEF Balks, Keeping, Identity, Fails
  <2>2. Inserted(r)
    BY <1>a, <2>1 DEF Hooked
  <2>3. Shown(j) # {}
    BY <1>a, <2>2, InsertedShows
  <2> QED
    BY <1>f, <2>1, <2>3
<1>9. CASE Announces(r)
  BY <1>c, <1>d, <1>9 DEF Announces
<1>10. CASE Stops(r)
  BY <1>c, <1>d, <1>10 DEF Stops
<1>11. CASE Enters(r)
  BY <1>c, <1>d, <1>11 DEF Enters
<1>12. CASE Commits(r)
  BY <1>c, <1>d, <1>12 DEF Commits
<1>13. CASE Stores(r)
  BY <1>c, <1>d, <1>13 DEF Stores
<1>14. CASE Retries(r)
  BY <1>c, <1>d, <1>14 DEF Retries
<1>15. CASE Concludes(r)
  BY <1>c, <1>d, <1>15 DEF Concludes
<1>16. CASE Retiring(r)
  BY <1>c, <1>d, <1>16 DEF Retiring
<1>17. CASE Backs(r)
  BY <1>c, <1>d, <1>17 DEF Backs
<1>18. CASE Deletes(r)
  BY <1>c, <1>d, <1>18 DEF Deletes
<1>19. CASE Clears(r)
  BY <1>c, <1>d, <1>19 DEF Clears
<1>20. CASE Leaves(r)
  BY <1>c, <1>d, <1>20 DEF Leaves
<1>21. CASE Restores(r)
  BY <1>c, <1>d, <1>21 DEF Restores
<1>22. CASE GivesUp(r)
  BY <1>c, <1>d, <1>22 DEF GivesUp
<1>23. CASE Succeeds(r)
  BY <1>c, <1>d, <1>23 DEF Succeeds
<1>24. CASE Misses(r)
  BY <1>c, <1>d, <1>24 DEF Misses
<1> QED
  BY <1>1, <1>2, <1>3, <1>4, <1>5, <1>6, <1>7, <1>8, <1>9, <1>10, <1>11, <1>12,
     <1>13, <1>14, <1>15, <1>16, <1>17, <1>18, <1>19, <1>20, <1>21, <1>22, <1>23,
     <1>24 DEF Effect

LEMMA ActorHooks ==
    ASSUME StoreInv, Stamped, Fresh, Hooked, NEW r \in Run, Alone(r), Effect(r),
           run'[r].pc = "hook", run'[r].tries # 0
    PROVE  faults' > 0 \/ Inserted(r)'
<1>a. Placed(run[r]) /\ faults \in Nat
  BY DEF StoreInv, PlaceInv, Counters
<1>b. ~Frees(r)
  BY DEF Frees, Idle
<1> USE DEF Goes, OnPaths, Back
<1>1. CASE Begins(r)
  BY <1>b, <1>1 DEF Begins
<1>2. CASE Refuses(r)
  BY <1>b, <1>2 DEF Refuses
<1>3. CASE Routes(r)
  <2>1. run[r].pc = "extract" /\ Doc(r).context = "session" /\ Goes(r, "hook")
    BY <1>3 DEF Routes, Goes
  <2>2. run[r].kind = "extract"
    BY <1>a, <2>1 DEF Placed, Doc
  <2>3. run'[r].tries = 0
    BY <2>1, <2>2 DEF Goes, Rest, Fresh
  <2> QED
    BY <2>3
<1>4. CASE Breaks(r)
  BY <1>b, <1>4 DEF Breaks
<1>5. CASE Catches(r)
  BY <1>b, <1>5 DEF Catches
<1>6. CASE Drops(r)
  BY <1>b, <1>6 DEF Drops
<1>7. CASE Shows(r)
  BY <1>b, <1>7 DEF Shows
<1>8. CASE Balks(r)
  <2>1. \/ faults' = faults + 1
        \/ Inserted(r) /\ UNCHANGED contexts
    BY <1>8 DEF Balks, Fails
  <2>2. run'[r].stamp = run[r].stamp
    BY <1>8 DEF Balks, Keeping, Identity
  <2>3. Inserted(r) /\ UNCHANGED contexts => Inserted(r)'
    BY <2>2 DEF Inserted
  <2> QED
    BY <1>a, <2>1, <2>3
<1>9. CASE Announces(r)
  BY <1>b, <1>9 DEF Announces
<1>10. CASE Stops(r)
  BY <1>b, <1>10 DEF Stops
<1>11. CASE Enters(r)
  BY <1>b, <1>11 DEF Enters
<1>12. CASE Commits(r)
  BY <1>b, <1>12 DEF Commits
<1>13. CASE Stores(r)
  BY <1>b, <1>13 DEF Stores
<1>14. CASE Retries(r)
  BY <1>b, <1>14 DEF Retries
<1>15. CASE Concludes(r)
  BY <1>b, <1>15 DEF Concludes
<1>16. CASE Retiring(r)
  BY <1>b, <1>16 DEF Retiring
<1>17. CASE Backs(r)
  BY <1>b, <1>17 DEF Backs
<1>18. CASE Deletes(r)
  BY <1>b, <1>18 DEF Deletes
<1>19. CASE Clears(r)
  BY <1>b, <1>19 DEF Clears
<1>20. CASE Leaves(r)
  BY <1>b, <1>20 DEF Leaves
<1>21. CASE Restores(r)
  BY <1>b, <1>21 DEF Restores
<1>22. CASE GivesUp(r)
  BY <1>b, <1>22 DEF GivesUp
<1>23. CASE Succeeds(r)
  BY <1>b, <1>23 DEF Succeeds
<1>24. CASE Misses(r)
  BY <1>b, <1>24 DEF Misses
<1> QED
  BY <1>1, <1>2, <1>3, <1>4, <1>5, <1>6, <1>7, <1>8, <1>9, <1>10, <1>11, <1>12,
     <1>13, <1>14, <1>15, <1>16, <1>17, <1>18, <1>19, <1>20, <1>21, <1>22, <1>23,
     <1>24 DEF Effect

\* A job becomes done by the run that concludes it, or by a re-ingestion.
LEMMA ActorDones ==
    ASSUME PlaceInv, NEW r \in Run, Effect(r), NEW j \in Job, jobs'[j].status = "done"
    PROVE  \/ jobs'[j] = jobs[j]
           \/ jobs'[j].context = jobs[j].context /\ jobs[j].status = "done" /\ Announces(r)
           \/ j = run[r].job /\ run[r].pc = "paths" /\ Concludes(r) /\ Outcome(r) = "done"
           \/ j = run[r].job /\ Succeeds(r)
<1>a. run[r].job \in Job
  BY EffectFrame DEF PlaceInv, Placed, Posted
<1> USE DEF Marks, OtherJobs, Readied, Succeeded, SameUpload
<1>1. CASE Begins(r)
  BY <1>a, <1>1 DEF Begins
<1>2. CASE Refuses(r)
  BY <1>a, <1>2 DEF Refuses
<1>3. CASE Routes(r)
  BY <1>a, <1>3 DEF Routes
<1>4. CASE Breaks(r)
  BY <1>a, <1>4 DEF Breaks
<1>5. CASE Catches(r)
  BY <1>a, <1>5 DEF Catches
<1>6. CASE Drops(r)
  BY <1>a, <1>6 DEF Drops
<1>7. CASE Shows(r)
  BY <1>a, <1>7 DEF Shows
<1>8. CASE Balks(r)
  BY <1>a, <1>8 DEF Balks
<1>9. CASE Announces(r)
  BY <1>a, <1>9 DEF Announces
<1>10. CASE Stops(r)
  BY <1>a, <1>10 DEF Stops
<1>11. CASE Enters(r)
  BY <1>a, <1>11 DEF Enters
<1>12. CASE Commits(r)
  BY <1>a, <1>12 DEF Commits
<1>13. CASE Stores(r)
  BY <1>a, <1>13 DEF Stores
<1>14. CASE Retries(r)
  BY <1>a, <1>14 DEF Retries
<1>15. CASE Concludes(r)
  BY <1>a, <1>15 DEF Concludes, Joined, At
<1>16. CASE Retiring(r)
  BY <1>a, <1>16 DEF Retiring
<1>17. CASE Backs(r)
  BY <1>a, <1>17 DEF Backs
<1>18. CASE Deletes(r)
  BY <1>a, <1>18 DEF Deletes
<1>19. CASE Clears(r)
  BY <1>a, <1>19 DEF Clears
<1>20. CASE Leaves(r)
  BY <1>a, <1>20 DEF Leaves
<1>21. CASE Restores(r)
  BY <1>a, <1>21 DEF Restores
<1>22. CASE GivesUp(r)
  BY <1>a, <1>22 DEF GivesUp
<1>23. CASE Succeeds(r)
  BY <1>a, <1>23 DEF Succeeds
<1>24. CASE Misses(r)
  BY <1>a, <1>24 DEF Misses
<1> QED
  BY <1>1, <1>2, <1>3, <1>4, <1>5, <1>6, <1>7, <1>8, <1>9, <1>10, <1>11, <1>12,
     <1>13, <1>14, <1>15, <1>16, <1>17, <1>18, <1>19, <1>20, <1>21, <1>22, <1>23,
     <1>24 DEF Effect

LEMMA HookedStep ==
    ASSUME StoreInv, Stamped, Fresh, Hooked, JobsKept, SameContexts,
           contexts' \in Seq(ContextSet), Moves
    PROVE  Hooked'
<1>0. PlaceInv /\ faults \in Nat /\ Len(contexts') \in Nat
  BY DEF StoreInv, PlaceInv, Counters
<1> SUFFICES ASSUME faults' < 2
             PROVE  /\ \A r \in Run : run'[r].pc \in Past => Showing(run[r].job)'
                    /\ \A r \in Run : run'[r].pc = "hook" /\ run'[r].tries # 0 =>
                          faults' > 0 \/ Inserted(r)'
                    /\ \A j \in Job : jobs'[j].status = "done" => Showing(j)'
  BY DEF Hooked, Past
<1>1. faults' = faults \/ faults' = faults + 1
  BY EffectFrame DEF Moves, Asked, Restarted, vars, Drifts
<1>2. faults < 2 /\ (faults > 0 => faults' > 0)
  BY <1>0, <1>1
<1>3. ASSUME NEW j \in Job, jobs[j].status = "done"
      PROVE  Showing(j)'
  BY <1>0, <1>2, <1>3, ShowingKept DEF Hooked, Posted
<1>4. ASSUME NEW q \in Run, run'[q] = run[q], run'[q].pc \in Past
      PROVE  Showing(run[q].job)'
  <2>1. PICK j : j = run[q].job /\ j = run'[q].job
    BY <1>4
  <2>2. Posted(j) /\ Showing(j)
    BY <1>0, <1>2, <1>4, <2>1 DEF PlaceInv, Placed, Hooked, Past
  <2>3. Showing(j)'
    BY <1>0, <2>2, ShowingKept
  <2> QED
    BY <2>1, <2>3
<1>5. ASSUME NEW q \in Run, run'[q] = run[q], run'[q].pc = "hook", run'[q].tries # 0
      PROVE  faults' > 0 \/ Inserted(q)'
  BY <1>0, <1>2, <1>5, InsertedKept DEF Hooked
<1>a. ASSUME NEW r \in Run, Alone(r), Effect(r)
      PROVE  /\ \A q \in Run : run'[q].pc \in Past => Showing(run[q].job)'
             /\ \A q \in Run : run'[q].pc = "hook" /\ run'[q].tries # 0 =>
                   faults' > 0 \/ Inserted(q)'
             /\ \A j \in Job : jobs'[j].status = "done" => Showing(j)'
  <2>1. ASSUME NEW q \in Run, run'[q].pc \in Past
        PROVE  Showing(run[q].job)'
    <3>1. CASE q # r
      BY <1>4, <1>a, <2>1, <3>1 DEF Alone
    <3>2. CASE q = r
      <4>1. PICK j : j = run[r].job
        OBVIOUS
      <4>2. Showing(j)' /\ run'[r].job = j
        BY <1>2, <1>a, <2>1, <3>2, <4>1, ActorPast
      <4> QED
        BY <3>2, <4>2
    <3> QED
      BY <3>1, <3>2
  <2>2. \A q \in Run : run'[q].pc = "hook" /\ run'[q].tries # 0 =>
           faults' > 0 \/ Inserted(q)'
    BY <1>5, <1>a, ActorHooks DEF Alone
  <2>3. ASSUME NEW j \in Job, jobs'[j].status = "done"
        PROVE  Showing(j)'
    <3>1. CASE jobs[j].status = "done"
      BY <1>3, <3>1
    <3>2. CASE j = run[r].job /\ run[r].pc = "paths"
      <4>1. Posted(j) /\ Showing(j)
        BY <1>0, <1>2, <3>2 DEF PlaceInv, Placed, Hooked
      <4> QED
        BY <1>0, <4>1, ShowingKept
    <3>3. CASE j = run[r].job /\ Succeeds(r)
      <4>1. jobs[j].context = "onboarding" /\ Posted(j)
        BY <1>0, <3>3 DEF Succeeds, PlaceInv, Placed, Reingesting
      <4>2. jobs'[j].context # "session"
        BY <4>1, JobKept
      <4> QED
        BY <4>2 DEF Showing
    <3> QED
      BY <1>0, <1>a, <2>3, <3>1, <3>2, <3>3, ActorDones
  <2> QED
    BY <2>1, <2>2, <2>3
<1>b. Asked \/ Restarted \/ UNCHANGED vars =>
         /\ \A q \in Run : run'[q].pc \in Past \cup {"hook"} => run'[q] = run[q]
         /\ \A j \in Job : jobs'[j].status = "done" => jobs[j].status = "done"
  BY DEF Asked, Registers, Triggers, Replaces, Creates, OtherJobs, Launches, Alone,
     Restarted, Idle, vars, Past
<1> QED
  BY <1>3, <1>4, <1>5, <1>a, <1>b DEF Moves

\* Once a job shows its context, it gets another only beside it, and the
\* contexts it has stay active or are marked.
LEMMA SameShown ==
    ASSUME StoreInv, Stamped, SameContexts, contexts' \in Seq(ContextSet),
           NEW r \in Run, Effect(r), NEW j \in Job, Showing(j), Single(j)'
    PROVE  Shown(j)' = Shown(j) /\ ActiveContexts(j)' \subseteq ActiveContexts(j)
<1>0. contexts \in Seq(ContextSet) /\ PlaceInv /\ Len(contexts') \in Nat
  BY DEF Stamped, StoreInv
<1>1. CASE UNCHANGED contexts
  BY <1>1 DEF Shown, ActiveContexts
<1>2. CASE Adds(r)
  <2>1. CASE run[r].job = j
    <3>1. Shown(j) # {}
      BY <1>0, <1>2, <2>1 DEF Adds, PlaceInv, Placed, Showing
    <3>2. /\ Len(contexts) + 1 \in Shown(j)' /\ Len(contexts) + 1 \notin Shown(j)
          /\ Shown(j) \subseteq Shown(j)'
      BY <1>0, <1>2, <2>1, AddsShown, ShownKept
    <3> QED
      BY <3>1, <3>2 DEF Single
  <2>2. CASE run[r].job # j
    <3>1. Shown(j)' = Shown(j)
      BY <1>0, <1>2, <2>2, AddsShown
    <3>2. run[r].job \in Job /\ run[r].stamp \in Nat
      BY <1>0, <1>2 DEF Adds, PlaceInv, Placed, Posted, Stamped, Begun
    <3>3. \A i \in 1 .. Len(contexts) : contexts'[i] = contexts[i]
      BY <1>0, <1>2, <3>2, AddsContext
    <3>4. ASSUME NEW i \in ActiveContexts(j)'
          PROVE  i \in ActiveContexts(j)
      <4>1. i \in Shown(j)' /\ contexts'[i].job = j /\ contexts'[i].active
        BY <1>0, <3>4 DEF ActiveContexts, Shown
      <4>2. i \in 1 .. Len(contexts)
        BY <3>1, <4>1 DEF Shown
      <4> QED
        BY <1>0, <3>3, <4>1, <4>2 DEF ActiveContexts
    <3> QED
      BY <3>1, <3>4
  <2> QED
    BY <2>1, <2>2
<1>3. CASE Unmarks(r)
  <2>1. PICK k \in 1 .. Len(contexts) : contexts' = [contexts EXCEPT ![k].active = FALSE]
    BY <1>3 DEF Unmarks
  <2>2. /\ Len(contexts') = Len(contexts) /\ contexts'[k].active = FALSE
        /\ \A i \in 1 .. Len(contexts) : i # k => contexts'[i] = contexts[i]
    BY <1>0, <2>1, UnmarksContext
  <2>3. Shown(j)' = Shown(j)
    BY <1>0, <2>2 DEF Shown, SameContexts
  <2>4. ASSUME NEW i \in ActiveContexts(j)'
        PROVE  i \in ActiveContexts(j)
    <3>1. i \in 1 .. Len(contexts) /\ contexts'[i].job = j /\ contexts'[i].active
      BY <1>0, <2>2, <2>4 DEF ActiveContexts
    <3>2. i # k
      BY <2>2, <3>1
    <3> QED
      BY <1>0, <2>2, <3>1, <3>2 DEF ActiveContexts
  <2> QED
    BY <2>3, <2>4
<1> QED
  BY <1>1, <1>2, <1>3, EffectContexts

LEMMA Marked ==
    ASSUME Stamped, NEW r \in Run, Retiring(r), NEW j, j = run[r].job, Single(j)
    PROVE  ActiveContexts(j)' = {}
<1>0. contexts \in Seq(ContextSet)
  BY DEF Stamped
<1>1. PICK k : Shown(j) = {k}
  BY DEF Single
<1>2. PICK i : i = ContextOf(j)
  OBVIOUS
<1>3. k \in 1 .. Len(contexts) /\ contexts[k].job = j
  BY <1>1 DEF Shown
<1>4. i \in 1 .. Len(contexts) /\ contexts[i].job = j
  BY <1>0, <1>2, <1>3, ContextFound
<1>5. i = k
  BY <1>1, <1>4 DEF Shown
<1>6. i # 0
  BY <1>4
<1>7. contexts' = [contexts EXCEPT ![k].active = FALSE]
  BY <1>2, <1>5, <1>6 DEF Retiring
<1>8. /\ contexts' \in Seq(ContextSet) /\ Len(contexts') = Len(contexts)
      /\ contexts'[k].active = FALSE
      /\ \A m \in 1 .. Len(contexts) : m # k => contexts'[m] = contexts[m]
  BY <1>0, <1>3, <1>7, UnmarksContext
<1>9. ASSUME NEW m \in ActiveContexts(j)'
      PROVE  FALSE
  <2>1. m \in 1 .. Len(contexts) /\ contexts'[m].job = j /\ contexts'[m].active
    BY <1>8, <1>9 DEF ActiveContexts
  <2>2. m # k
    BY <1>8, <2>1
  <2>3. m \in Shown(j)
    BY <1>8, <2>1, <2>2 DEF Shown
  <2> QED
    BY <1>1, <2>2, <2>3
<1> QED
  BY <1>9

\* The run that is to see to the context of a job sees to it.
LEMMA ActorRetires ==
    ASSUME PlaceInv, Stamped, faults' < 2, NEW r \in Run, Effect(r),
           NEW j \in Job, Retires(r, j), jobs'[j].status = "done", Single(j)
    PROVE  Retires(r, j)' \/ ActiveContexts(j)' = {}
<1>a. Placed(run[r]) /\ faults \in Nat
  BY DEF PlaceInv, Counters
<1>b. /\ run[r].job = j
      /\ \/ run[r].pc = "embedded"
         \/ run[r].pc = "raised" /\ run[r].kind = "extract" /\ faults > 0
  BY DEF Retires
<1> USE DEF OnPaths, Joined, At
<1>1. CASE Begins(r)
  BY <1>b, <1>1 DEF Begins
<1>2. CASE Refuses(r)
  BY <1>b, <1>2 DEF Refuses
<1>3. CASE Routes(r)
  BY <1>b, <1>3 DEF Routes
<1>4. CASE Breaks(r)
  <2>1. run[r].pc = "embedded" /\ jobs[j].context = "session" /\ run[r].kind = "extract"
    BY <1>a, <1>b, <1>4 DEF Breaks, Placed
  <2>2. run'[r].pc = "raised" /\ run'[r].kind = "extract" /\ run'[r].job = j
    BY <1>b, <2>1, <1>4 DEF Breaks, Goes, Identity
  <2>3. faults' > 0
    BY <1>a, <1>4 DEF Breaks, Fails
  <2> QED
    BY <2>2, <2>3 DEF Retires
<1>5. CASE Catches(r)
  BY <1>b, <1>5 DEF Catches, Marks
<1>6. CASE Drops(r)
  <2>1. faults' = faults + 1 /\ run[r].pc = "raised"
    BY <1>6 DEF Drops, Fails
  <2> QED
    BY <1>a, <1>b, <2>1
<1>7. CASE Shows(r)
  BY <1>b, <1>7 DEF Shows
<1>8. CASE Balks(r)
  BY <1>b, <1>8 DEF Balks
<1>9. CASE Announces(r)
  BY <1>b, <1>9 DEF Announces
<1>10. CASE Stops(r)
  BY <1>b, <1>10 DEF Stops
<1>11. CASE Enters(r)
  BY <1>b, <1>11 DEF Enters
<1>12. CASE Commits(r)
  BY <1>b, <1>12 DEF Commits
<1>13. CASE Stores(r)
  BY <1>b, <1>13 DEF Stores
<1>14. CASE Retries(r)
  BY <1>b, <1>14 DEF Retries
<1>15. CASE Concludes(r)
  BY <1>b, <1>15 DEF Concludes
<1>16. CASE Retiring(r)
  BY <1>b, <1>16, Marked
<1>17. CASE Backs(r)
  BY <1>b, <1>17 DEF Backs
<1>18. CASE Deletes(r)
  BY <1>b, <1>18 DEF Deletes
<1>19. CASE Clears(r)
  BY <1>b, <1>19 DEF Clears
<1>20. CASE Leaves(r)
  BY <1>b, <1>20 DEF Leaves
<1>21. CASE Restores(r)
  BY <1>b, <1>21 DEF Restores
<1>22. CASE GivesUp(r)
  BY <1>b, <1>22 DEF GivesUp
<1>23. CASE Succeeds(r)
  BY <1>b, <1>23 DEF Succeeds
<1>24. CASE Misses(r)
  BY <1>b, <1>24 DEF Misses
<1> QED
  BY <1>1, <1>2, <1>3, <1>4, <1>5, <1>6, <1>7, <1>8, <1>9, <1>10, <1>11, <1>12,
     <1>13, <1>14, <1>15, <1>16, <1>17, <1>18, <1>19, <1>20, <1>21, <1>22, <1>23,
     <1>24 DEF Effect

LEMMA OnboardingBare ==
    ASSUME Stamped, NEW j \in Job, jobs[j].context # "session"
    PROVE  Shown(j) = {}
BY DEF Stamped, OwnContext, Shown

LEMMA RetiredStep ==
    ASSUME StoreInv, Stamped, Hooked, Retired, SameContexts,
           contexts' \in Seq(ContextSet), Moves
    PROVE  Retired'
<1>0. PlaceInv /\ faults \in Nat
  BY DEF StoreInv, PlaceInv, Counters
<1> SUFFICES ASSUME NEW j \in Job, jobs'[j].status = "done", ~crashed', faults' < 2,
                    Single(j)'
             PROVE  ActiveContexts(j)' = {} \/ \E q \in Run : Retires(q, j)'
  BY DEF Retired
<1>1. ASSUME NEW r \in Run, Alone(r), Effect(r)
      PROVE  ActiveContexts(j)' = {} \/ \E q \in Run : Retires(q, j)'
  <2>0. /\ crashed' = crashed /\ (faults' = faults \/ faults' = faults + 1)
    BY <1>1, EffectFrame DEF Drifts
  <2>1. ~crashed /\ faults < 2 /\ (faults > 0 => faults' > 0)
    BY <1>0, <2>0
  <2>2. CASE jobs[j].status = "done"
    <3>1. Showing(j)
      BY <2>1, <2>2 DEF Hooked
    <3>2. Shown(j)' = Shown(j) /\ ActiveContexts(j)' \subseteq ActiveContexts(j)
      BY <1>1, <3>1, SameShown
    <3>3. Single(j)
      BY <3>2 DEF Single
    <3>4. CASE ActiveContexts(j) = {}
      BY <3>2, <3>4
    <3>5. ASSUME NEW q \in Run, Retires(q, j)
          PROVE  ActiveContexts(j)' = {} \/ \E p \in Run : Retires(p, j)'
      <4>1. CASE q = r
        BY <1>0, <1>1, <3>3, <3>5, <4>1, ActorRetires
      <4>2. CASE q # r
        BY <1>1, <2>1, <3>5, <4>2 DEF Alone, Retires
      <4> QED
        BY <4>1, <4>2
    <3> QED
      BY <2>1, <2>2, <3>3, <3>4, <3>5 DEF Retired
  <2>3. CASE j = run[r].job /\ Concludes(r) /\ Outcome(r) = "done"
    <3>1. CASE jobs[j].context = "session"
      <4>1. run'[r].pc = "embedded" /\ run'[r].job = j
        BY <2>3, <3>1 DEF Concludes, Goes, Identity, Doc
      <4> QED
        BY <4>1 DEF Retires
    <3>2. CASE jobs[j].context # "session"
      <4>1. Shown(j) = {} /\ UNCHANGED contexts
        BY <2>3, <3>2, OnboardingBare DEF Concludes
      <4> QED
        BY <4>1 DEF Single, Shown
    <3> QED
      BY <3>1, <3>2
  <2>4. CASE j = run[r].job /\ Succeeds(r)
    <3>1. jobs[j].context = "onboarding"
      BY <1>0, <2>4 DEF Succeeds, PlaceInv, Placed, Reingesting
    <3>2. Shown(j) = {} /\ UNCHANGED contexts
      BY <2>4, <3>1, OnboardingBare DEF Succeeds
    <3> QED
      BY <3>2 DEF Single, Shown
  <2> QED
    BY <1>0, <1>1, <2>2, <2>3, <2>4, ActorDones
<1>2. ASSUME Asked \/ UNCHANGED vars
      PROVE  ActiveContexts(j)' = {} \/ \E q \in Run : Retires(q, j)'
  <2>1. UNCHANGED <<contexts, faults, crashed>> /\ jobs[j].status = "done"
    BY <1>2 DEF Asked, Registers, Triggers, Replaces, Creates, OtherJobs, vars
  <2>2. \A q \in Run : run[q].pc # "idle" => run'[q] = run[q]
    BY <1>2 DEF Asked, Registers, Triggers, Replaces, Launches, Alone, vars
  <2>3. Single(j) /\ ActiveContexts(j)' = ActiveContexts(j)
    BY <2>1 DEF Single, Shown, ActiveContexts
  <2>4. ActiveContexts(j) = {} \/ \E q \in Run : Retires(q, j)
    BY <2>1, <2>3 DEF Retired
  <2>5. \A q \in Run : Retires(q, j) => Retires(q, j)'
    BY <2>1, <2>2 DEF Retires
  <2> QED
    BY <2>3, <2>4, <2>5
<1>3. Restarted => crashed'
  BY DEF Restarted
<1> QED
  BY <1>1, <1>2, <1>3 DEF Moves

LEMMA InitContext ==
    ASSUME Init
    PROVE  ContextInv
<1>1. contexts = <<>> /\ \A r \in Run : run[r].pc = "idle"
  BY DEF Init, Idle
<1>2. \A j \in Job : jobs[j].ready = FALSE /\ jobs[j].status = "none"
  BY DEF Init, NoJob
<1>3. Stamped
  BY <1>1 DEF Stamped, Begun
<1>4. Fresh /\ Announced /\ Hooked /\ Retired
  BY <1>1, <1>2 DEF Fresh, Announced, Hooked, Retired
<1> QED
  BY <1>3, <1>4 DEF ContextInv

LEMMA ContextStep ==
    ASSUME StoreInv, ContextInv, [Next]_vars
    PROVE  StoreInv' /\ ContextInv'
<1>0. PlaceInv /\ Stamped /\ Fresh /\ Announced /\ Hooked /\ Retired
  BY DEF StoreInv, ContextInv
<1>1. StoreInv' /\ JobsKept /\ Moves /\ Held \subseteq Held'
  BY StoreStep
<1>2. Stamped' /\ SameContexts
  BY <1>0, <1>1, StampedStep
<1>3. contexts' \in Seq(ContextSet)
  BY <1>2 DEF Stamped
<1>4. Fresh' /\ Announced'
  BY <1>0, <1>1, FreshStep, AnnouncedStep
<1>5. Hooked' /\ Retired'
  BY <1>0, <1>1, <1>2, <1>3, HookedStep, RetiredStep
<1> QED
  BY <1>1, <1>2, <1>4, <1>5 DEF ContextInv

LEMMA ContextsServe ==
    ASSUME StoreInv, ContextInv
    PROVE  ContextServed
<1>0. contexts \in Seq(ContextSet) /\ DOMAIN contexts = 1 .. Len(contexts)
      /\ Len(contexts) \in Nat
  BY DEF ContextInv, Stamped
<1>1. \A j \in Job : jobs[j].ready =>
         ActiveContexts(j) # {} \/ Searchable[jobs[j].files] \subseteq Embedded(j)
  BY DEF ContextInv, Announced, Serves, Whole
<1>2. ASSUME NEW j \in Job, jobs[j].status = "done", AtRest(j), ~crashed, faults < 2,
             Cardinality({i \in DOMAIN contexts : contexts[i].job = j}) = 1
      PROVE  ActiveContexts(j) = {}
  <2>1. Cardinality(Shown(j)) = 1
    BY <1>0, <1>2 DEF Shown
  <2>2. IsFiniteSet(Shown(j))
    <3>1. IsFiniteSet(1 .. Len(contexts))
      BY <1>0, FS_Interval
    <3>2. Shown(j) \subseteq 1 .. Len(contexts)
      BY DEF Shown
    <3> QED
      BY <3>1, <3>2, FS_Subset
  <2>3. Single(j)
    BY <2>1, <2>2, FS_Singleton DEF Single
  <2>4. ~ \E q \in Run : Retires(q, j)
    BY <1>2 DEF AtRest, Retires
  <2> QED
    BY <1>2, <2>3, <2>4 DEF ContextInv, Retired
<1> QED
  BY <1>1, <1>2 DEF ContextServed

\* What a session upload says is in front of the mentor from the moment it is
\* announced as ready, and its context is taken away once it is embedded.
THEOREM AnnouncedIsServed == Spec => []ContextServed
<1>1. Init => StoreInv /\ ContextInv
  BY InitStore, InitContext
<1>2. StoreInv /\ ContextInv /\ [Next]_vars => (StoreInv /\ ContextInv)'
  BY ContextStep
<1>3. StoreInv /\ ContextInv => ContextServed
  BY ContextsServe
<1> QED
  BY <1>1, <1>2, <1>3, PTL DEF Spec
-----------------------------------------------------------------------------
(* The domains.                                                            *)

\* The writes to the profile, and the failures that are counted.
Profiles(r) ==
    \/ UNCHANGED profile
    \/ DOMAIN profile' = Field
    \/ run[r].pc = "raised" /\ run[r].kind = "reingest" /\ profile' = run[r].backup.profile
Spends == UNCHANGED faults \/ (faults < MaxFaults /\ faults' = faults + 1)

LEMMA MergedDomain ==
    ASSUME DOMAIN profile = Field, NEW files, NEW context
    PROVE  DOMAIN MergedProfile(files, context) = Field
BY DEF MergedProfile, MergeProfileFields, Overwrite, ExtractProfileData

LEMMA StepSpends ==
    ASSUME DOMAIN profile = Field, NEW r \in Run, Step(r) \/ Failure(r)
    PROVE  Profiles(r) /\ Spends
<1> USE DEF Profiles, Spends, Fine, Fault, facts, At
<1>1. CASE Begin(r)
  BY <1>1 DEF Begin
<1>2. CASE Extract(r)
  BY <1>2 DEF Extract
<1>3. CASE Catch(r)
  BY <1>3 DEF Catch
<1>4. CASE WriteContext(r)
  BY <1>4 DEF WriteContext
<1>5. CASE ContextDuplicate(r)
  BY <1>5 DEF ContextDuplicate
<1>6. CASE MarkReady(r)
  BY <1>6 DEF MarkReady
<1>7. CASE CheckContext(r)
  BY <1>7 DEF CheckContext
<1>8. CASE WriteStructured(r)
  BY <1>8, MergedDomain DEF WriteStructured
<1>9. CASE StoreBatch(r)
  BY <1>9 DEF StoreBatch
<1>10. CASE StoreDuplicate(r)
  BY <1>10 DEF StoreDuplicate
<1>11. CASE Conclude(r)
  BY <1>11 DEF Conclude
<1>12. CASE Deactivate(r)
  BY <1>12 DEF Deactivate
<1>13. CASE TakeBackup(r)
  BY <1>13 DEF TakeBackup
<1>14. CASE DeleteChunks(r)
  BY <1>14 DEF DeleteChunks
<1>15. CASE ClearProfile(r)
  BY <1>15 DEF ClearProfile
<1>16. CASE Rollback(r)
  BY <1>16 DEF Rollback
<1>17. CASE MarkFailed(r)
  BY <1>17 DEF MarkFailed
<1>18. CASE MarkSuccess(r)
  BY <1>18 DEF MarkSuccess
<1>19. CASE Raises(r)
  BY <1>19 DEF Raises
<1>20. CASE CatchFails(r)
  BY <1>20 DEF CatchFails
<1>21. CASE WriteContextFails(r)
  BY <1>21 DEF WriteContextFails
<1>22. CASE StructuredFails(r)
  BY <1>22 DEF StructuredFails
<1>23. CASE StoreFails(r)
  BY <1>23 DEF StoreFails
<1>24. CASE EmbedFails(r)
  BY <1>24 DEF EmbedFails
<1>25. CASE Escapes(r)
  BY <1>25 DEF Escapes
<1>26. CASE RollbackFails(r)
  BY <1>26 DEF RollbackFails
<1>27. CASE BeginFails(r)
  BY <1>27 DEF BeginFails
<1> QED
  BY <1>1, <1>2, <1>3, <1>4, <1>5, <1>6, <1>7, <1>8, <1>9, <1>10, <1>11, <1>12, <1>13,
     <1>14, <1>15, <1>16, <1>17, <1>18, <1>19, <1>20, <1>21, <1>22, <1>23, <1>24, <1>25, <1>26,
     <1>27 DEF Step, Failure

\* A run that has taken its backup has every field in it.
Backed(l) == l.kind = "reingest" /\ l.pc # "backup" => DOMAIN l.backup.profile = Field
DomainInv ==
    /\ \A j \in Job : jobs[j].status \in Status
    /\ DOMAIN profile = Field
    /\ \A r \in Run : Backed(run[r])
    /\ calls \in 0 .. MaxCalls /\ faults \in 0 .. MaxFaults

LEMMA ActorBacked ==
    ASSUME PlaceInv, DomainInv, NEW r \in Run, Effect(r)
    PROVE  Backed(run[r])'
<1>a. Backed(run[r]) /\ DOMAIN profile = Field
  BY DEF DomainInv
<1>b. Frees(r) => Backed(run[r])'
  BY DEF Frees, Backed, Idle
<1>c. /\ run'[r].kind = run[r].kind /\ run'[r].backup = run[r].backup
      /\ run[r].pc # "backup"
      => Backed(run[r])'
  BY <1>a DEF Backed
<1> USE DEF Goes, Identity, Rest, Keeping, OnPaths, Back, Joined, At
<1>1. CASE Begins(r)
  BY <1>b, <1>c, <1>1 DEF Begins
<1>2. CASE Refuses(r)
  BY <1>b, <1>c, <1>2 DEF Refuses
<1>3. CASE Routes(r)
  BY <1>b, <1>c, <1>3 DEF Routes
<1>4. CASE Breaks(r)
  BY <1>b, <1>c, <1>4 DEF Breaks
<1>5. CASE Catches(r)
  BY <1>b, <1>c, <1>5 DEF Catches
<1>6. CASE Drops(r)
  BY <1>b, <1>c, <1>6 DEF Drops
<1>7. CASE Shows(r)
  BY <1>b, <1>c, <1>7 DEF Shows
<1>8. CASE Balks(r)
  BY <1>b, <1>c, <1>8 DEF Balks
<1>9. CASE Announces(r)
  BY <1>b, <1>c, <1>9 DEF Announces
<1>10. CASE Stops(r)
  BY <1>b, <1>c, <1>10 DEF Stops
<1>11. CASE Enters(r)
  BY <1>b, <1>c, <1>11 DEF Enters
<1>12. CASE Commits(r)
  BY <1>b, <1>c, <1>12 DEF Commits
<1>13. CASE Stores(r)
  BY <1>b, <1>c, <1>13 DEF Stores
<1>14. CASE Retries(r)
  BY <1>b, <1>c, <1>14 DEF Retries
<1>15. CASE Concludes(r)
  BY <1>b, <1>c, <1>15 DEF Concludes
<1>16. CASE Retiring(r)
  BY <1>b, <1>c, <1>16 DEF Retiring
<1>17. CASE Backs(r)
  <2>1. run'[r].backup.profile = profile
    BY <1>17 DEF Backs
  <2> QED
    BY <1>a, <2>1 DEF Backed
<1>18. CASE Deletes(r)
  BY <1>b, <1>c, <1>18 DEF Deletes
<1>19. CASE Clears(r)
  BY <1>b, <1>c, <1>19 DEF Clears
<1>20. CASE Leaves(r)
  BY <1>b, <1>c, <1>20 DEF Leaves
<1>21. CASE Restores(r)
  BY <1>b, <1>c, <1>21 DEF Restores
<1>22. CASE GivesUp(r)
  BY <1>b, <1>c, <1>22 DEF GivesUp
<1>23. CASE Succeeds(r)
  BY <1>b, <1>c, <1>23 DEF Succeeds
<1>24. CASE Misses(r)
  BY <1>b, <1>c, <1>24 DEF Misses
<1> QED
  BY <1>1, <1>2, <1>3, <1>4, <1>5, <1>6, <1>7, <1>8, <1>9, <1>10, <1>11, <1>12,
     <1>13, <1>14, <1>15, <1>16, <1>17, <1>18, <1>19, <1>20, <1>21, <1>22, <1>23,
     <1>24 DEF Effect

LEMMA StatusStep ==
    ASSUME PlaceInv, DomainInv, Moves
    PROVE  \A j \in Job : jobs'[j].status \in Status
<1>0. \A j \in Job : jobs[j].status \in Status
  BY DEF DomainInv
<1>1. UNCHANGED jobs => \A j \in Job : jobs'[j].status \in Status
  BY <1>0
<1>2. ASSUME NEW r \in Run, Effect(r)
      PROVE  \A j \in Job : jobs'[j].status \in Status
  <2>1. JobMove(r) /\ run[r].job \in Job
    BY <1>2, EffectFrame DEF PlaceInv, Placed, Posted
  <2>2. "done" \in Status
    BY DEF Status
  <2>3. ASSUME NEW s \in Status, Marks(run[r].job, s)
        PROVE  \A j \in Job : jobs'[j].status \in Status
    BY <1>0, <2>1, <2>3 DEF Marks, OtherJobs
  <2>4. Readied(run[r].job, TRUE) => \A j \in Job : jobs'[j].status \in Status
    BY <1>0, <2>1 DEF Readied, OtherJobs
  <2>5. Succeeded(run[r].job, TRUE) => \A j \in Job : jobs'[j].status \in Status
    BY <1>0, <2>1, <2>2 DEF Succeeded, OtherJobs
  <2> QED
    BY <1>1, <2>1, <2>3, <2>4, <2>5 DEF JobMove
<1>3. ASSUME NEW j \in Job, NEW context, NEW files, Creates(j, context, files)
      PROVE  \A k \in Job : jobs'[k].status \in Status
  <2>1. "pending" \in Status
    BY DEF Status
  <2> QED
    BY <1>0, <1>3, <2>1 DEF Creates, OtherJobs
<1> QED
  BY <1>1, <1>2, <1>3 DEF Moves, Asked, Registers, Triggers, Replaces, Restarted, vars

LEMMA BackedStep ==
    ASSUME PlaceInv, DomainInv, Moves
    PROVE  \A q \in Run : Backed(run[q])'
<1>0. \A q \in Run : run'[q] = run[q] => Backed(run[q])'
  BY DEF DomainInv, Backed
<1>1. ASSUME NEW r \in Run, Alone(r), Effect(r)
      PROVE  \A q \in Run : Backed(run[q])'
  BY <1>0, <1>1, ActorBacked DEF Alone
<1>2. ASSUME NEW r \in Run, NEW j, NEW kind, NEW at, Launches(r, j, kind, at),
             kind = "extract" \/ at = "backup"
      PROVE  \A q \in Run : Backed(run[q])'
  BY <1>0, <1>2 DEF Launches, Alone, Backed
<1>3. Asked => \A q \in Run : Backed(run[q])'
  BY <1>0, <1>2 DEF Asked, Registers, Triggers, Replaces
<1>4. Restarted \/ UNCHANGED vars => \A q \in Run : Backed(run[q])'
  BY <1>0 DEF Restarted, vars, Idle, Backed
<1> QED
  BY <1>1, <1>3, <1>4 DEF Moves

LEMMA DomainStep ==
    ASSUME PlaceInv, DomainInv, Moves, [Next]_vars
    PROVE  DomainInv'
<1>0. /\ DOMAIN profile = Field /\ calls \in 0 .. MaxCalls /\ faults \in 0 .. MaxFaults
      /\ MaxCalls \in Nat /\ MaxFaults \in Nat
  BY PipelineAssumption DEF DomainInv
<1>1. calls' = calls \/ (calls < MaxCalls /\ calls' = calls + 1)
  BY EffectFrame DEF Moves, Asked, Registers, Triggers, Replaces, Launches, Restarted,
     vars, Drifts
<1>2. DOMAIN profile' = Field /\ Spends
  <2>1. CASE Request
    BY <1>0, <2>1 DEF Request, CreateSessionJob, Upload, Reingest, Trigger, Started,
       Spends, facts
  <2>2. ASSUME NEW r \in Run, Step(r) \/ Failure(r)
        PROVE  DOMAIN profile' = Field /\ Spends
    <3>1. Profiles(r) /\ Spends
      BY <1>0, <2>2, StepSpends
    <3>2. Backed(run[r])
      BY DEF DomainInv
    <3> QED
      BY <1>0, <3>1, <3>2 DEF Profiles, Backed
  <2>3. CASE Restart
    BY <1>0, <2>3 DEF Restart, facts, Spends
  <2>4. CASE UNCHANGED vars
    BY <1>0, <2>4 DEF vars, Spends
  <2> QED
    BY <2>1, <2>2, <2>3, <2>4 DEF Next
<1>3. calls' \in 0 .. MaxCalls /\ faults' \in 0 .. MaxFaults
  BY <1>0, <1>1, <1>2 DEF Spends
<1> QED
  BY <1>2, <1>3, StatusStep, BackedStep DEF DomainInv

LEMMA InitDomain ==
    ASSUME Init
    PROVE  DomainInv
<1>1. \A j \in Job : jobs[j].status \in Status
  BY DEF Init, NoJob, Status
<1>2. \A r \in Run : Backed(run[r])
  BY DEF Init, Idle, Backed
<1>3. DOMAIN profile = Field
  BY DEF Init
<1>4. calls \in 0 .. MaxCalls /\ faults \in 0 .. MaxFaults
  BY PipelineAssumption DEF Init
<1> QED
  BY <1>1, <1>2, <1>3, <1>4 DEF DomainInv

LEMMA DomainsHold ==
    ASSUME StoreInv, DomainInv
    PROVE  TypeOK
<1>0. PlaceInv /\ HeldInv /\ PathsDone /\ written \subseteq Job
  BY DEF StoreInv
<1>1. ASSUME NEW j \in Job
      PROVE  jobs[j].status \in Status /\ jobs[j].files \in Batches \cup {<<>>}
  BY <1>0 DEF DomainInv, PlaceInv, Filing, NoJob
<1>2. ASSUME NEW d \in store
      PROVE  d.job \in Job /\ Len(Text(d)) \in 1 .. MaxTokens
  <2>1. IsDocument(d)
    BY <1>0 DEF HeldInv, Held
  <2>2. jobs[d.job].files \in Batches
    BY <1>0, <2>1, PostedFiles DEF IsDocument
  <2> QED
    BY <2>1, <2>2, ChunksSound DEF IsDocument, Posted, Chunks, Text, ChunkerSound
<1>3. \A r \in Run : run[r].structured \in {"todo", "ok", "failed"}
  BY <1>0 DEF PathsDone, PathDone
<1> QED
  BY <1>0, <1>1, <1>2, <1>3 DEF TypeOK, DomainInv

\* Every document stays in its domain, and a chunk within MAX_CHUNK_TOKENS
\* through uploads, retries, re-ingestions and rollbacks.
THEOREM PipelineTypeCorrect == Spec => []TypeOK
<1>1. Init => StoreInv /\ DomainInv
  BY InitStore, InitDomain
<1>2. StoreInv /\ DomainInv /\ [Next]_vars => (StoreInv /\ DomainInv)'
  <2>1. StoreInv => PlaceInv
    BY DEF StoreInv
  <2> QED
    BY <2>1, StoreStep, DomainStep
<1>3. StoreInv /\ DomainInv => TypeOK
  BY DomainsHold
<1> QED
  BY <1>1, <1>2, <1>3, PTL DEF Spec

=============================================================================
