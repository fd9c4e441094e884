----------------------------- MODULE UploadsProofs -----------------------------
(***************************************************************************)
(* Proofs about Uploads for every set of runs, uploads, topics and file    *)
(* lists, and for every window, overlap and budget.                        *)
(*                                                                         *)
(* A lemma (StepMoves) says that every step is a request, one of the       *)
(* effects of one run, a removal, a restart or a stutter.  Each invariant  *)
(* is then kept by cases on the effects:                                   *)
(*                                                                         *)
(*   PlaceInv    where a run and its upload can be                         *)
(*   DocInv      who may touch the chunks of a topic document              *)
(*   SearchInv   what the ingestion of one file has stored                 *)
(*   ServedInv   what the row of a topic holds                             *)
(*   DomainInv   the domains                                               *)
(*                                                                         *)
(* That the windows of a text miss no word with a space soon after it, and *)
(* that the budget drops no file it has room for, are lemmas about the     *)
(* operators.                                                              *)
(***************************************************************************)
EXTENDS Uploads, FoldProofs
-----------------------------------------------------------------------------
(* The invariants.                                                         *)

Files == UNION {ToSet(files) : files \in Batches}

\* The fields of a job and of the locals of a run.
Record(kind, topic, status, files) ==
    [kind |-> kind, topic |-> topic, status |-> status, files |-> files]
Locals(pc, job, file, chunks, chunk, clean) ==
    [pc |-> pc, job |-> job, file |-> file, chunks |-> chunks, chunk |-> chunk,
     clean |-> clean]
IsJob(d) == d = Record(d.kind, d.topic, d.status, d.files)
IsRun(l) == l = Locals(l.pc, l.job, l.file, l.chunks, l.chunk, l.clean)
Shape ==
    /\ run = [r \in Run |-> run[r]] /\ \A r \in Run : IsRun(run[r])
    /\ jobs = [j \in Job |-> jobs[j]] /\ \A j \in Job : IsJob(jobs[j])
    /\ disk = [j \in Job |-> disk[j]] /\ blocks = [t \in Topic |-> blocks[t]]

Unborn(j) == jobs[j] = NoJob /\ disk[j] = {}
Born(j) ==
    /\ jobs[j].kind \in {"ingest", "topic", "document", "session"}
    /\ jobs[j].topic \in Topic /\ jobs[j].status \in Status
    /\ jobs[j].files # <<>> /\ jobs[j].files \in Seq(Files)
    /\ disk[j] \subseteq ToSet(jobs[j].files)
    /\ \A f, g \in disk[j] : f.name = g.name => f = g

\* Where a run can be with an upload of this kind.
Stands(r) ==
    LET l == run[r]  kind == Upload(r).kind IN
    \/ l.pc = "storing" /\ l.chunk = 1 /\ kind \in {"ingest", "topic", "document"}
    \/ l.pc \in {"push", "ready"} /\ kind = "session"
    \/ l.pc = "extract" /\ l.chunk = 1 /\ kind \in {"ingest", "topic"}
    \/ /\ l.pc = "embed" /\ kind \in {"ingest", "topic"} /\ MoreFiles(r)
       /\ l.chunk \in 1 .. Len(l.chunks) /\ \E f \in Files : l.chunks = ChunkTable[f]
    \/ l.pc = "raised" /\ kind \in {"ingest", "session"}
Placed(r) ==
    \/ run[r] = Idle
    \/ /\ run[r].job \in Job /\ Born(run[r].job)
       /\ run[r].file \in Nat \ {0} /\ Stands(r)

PlaceInv ==
    /\ Shape
    /\ \A j \in Job : Unborn(j) \/ Born(j)
    /\ \A r \in Run : Placed(r)

\* Only an ingestion, which may be triggered, has several runs.
Solo ==
    \A q, r \in Run :
        (~At(q, "idle") /\ ~At(r, "idle") /\ run[q].job = run[r].job /\ Upload(r).kind # "ingest")
            => q = r
\* A clean run is the only one at the documents of its topic.
CleanAlone ==
    \A t \in Topic, q, r \in Run :
        (Concerns(r, t) /\ run[r].clean /\ Concerns(q, t)) => q = r

\* Chunk n of a topic document, of an ingestion.
HasDoc(t, name, n, text) ==
    \E p \in store : /\ p.id = <<t, name, n>> /\ p.kind = "topic" /\ p.topic = t
                     /\ p.name = name /\ p.text = text
HasChunk(j, n, text) ==
    \E p \in store : p.id = <<j, n>> /\ p.kind # "topic" /\ p.job = j /\ p.text = text

OnDisk(r, name, chunks) ==
    \A f \in disk[run[r].job] : f.name = name => ChunkTable[f] = chunks
Names(r) == {f.name : f \in ToSet(Upload(r).files)}

\* A run at a document embeds what is on the disk, and has, while clean, the
\* chunks before.
Embedding(r) ==
    At(r, "embed") /\ Upload(r).kind = "topic" =>
        /\ OnDisk(r, Path(r), run[r].chunks)
        /\ run[r].clean =>
              \A n \in 1 .. run[r].chunk - 1 :
                  HasDoc(Upload(r).topic, Path(r), n, run[r].chunks[n])
\* A run that may meet a current document again has it as it is.
Repeats(d, r) ==
    Concerns(r, d.topic) /\ d.name \in Names(r) =>
        /\ run[r].pc \in {"extract", "embed"}
        /\ OnDisk(r, d.name, d.chunks)
        /\ At(r, "embed") /\ Path(r) = d.name => run[r].chunks = d.chunks
WholeDoc(d) ==
    /\ d.topic \in Topic
    /\ \A n \in DOMAIN d.chunks : HasDoc(d.topic, d.name, n, d.chunks[n])
DocInv ==
    /\ Solo /\ CleanAlone
    /\ \A r \in Run : Embedding(r)
    /\ \A d \in current : WholeDoc(d) /\ \A r \in Run : Repeats(d, r)

\* The ingestion of one file: where it is, all chunks before are stored.
Single(j) == jobs[j].kind = "ingest" /\ Len(jobs[j].files) = 1 /\ j \notin skipped
Chunks(j) == ChunkTable[jobs[j].files[1]]
Upto(j, m) == \A n \in 1 .. m : HasChunk(j, n, Chunks(j)[n])
Fed(r) ==
    LET l == run[r] IN
    ~At(r, "idle") /\ Single(l.job) =>
        /\ At(r, "extract") /\ l.file # 1 => Upto(l.job, Len(Chunks(l.job)))
        /\ At(r, "embed") => /\ l.file = 1 /\ l.chunks = Chunks(l.job)
                             /\ Upto(l.job, l.chunk - 1)
SearchInv ==
    /\ \A j \in Job : Single(j) /\ jobs[j].status = "completed" => Upto(j, Len(Chunks(j)))
    /\ \A r \in Run : Fed(r)

\* A file that is ready is in the row of its topic.
Shown == {f \in Files : f.readable /\ ~Blank(f.text)}
InRow(j) ==
    jobs[j].topic \notin erased =>
        \E i \in DOMAIN blocks[jobs[j].topic] : blocks[jobs[j].topic][i] = jobs[j].files[1]
ServedInv ==
    /\ \A t \in Topic : blocks[t] \in Seq(Shown)
    /\ \A j \in Job : jobs[j].kind = "session" /\ jobs[j].status = "done" => InRow(j)
    /\ \A r \in Run : At(r, "ready") => InRow(run[r].job)

DomainInv ==
    /\ records \subseteq Job /\ skipped \subseteq Job /\ erased \subseteq Topic
    /\ \A p \in store : /\ p.job \in Job
                        /\ \E f \in Files : p.text \in ToSet(ChunkTable[f])
-----------------------------------------------------------------------------
(* The windows of a text.                                                  *)

\* The first and the last letter of a text that has one, the last space.
LEMMA Letters ==
    ASSUME NEW text \in Seq(Nat), ~Blank(text)
    PROVE  LET a == SelectInSeq(text, LAMBDA c : c \notin White)
               b == SelectLastInSeq(text, LAMBDA c : c \notin White)
           IN  /\ a \in 1 .. Len(text) /\ b \in a .. Len(text)
               /\ \A i \in 1 .. Len(text) : text[i] \notin White => i \in a .. b
<1> USE DEF White, Space, Newline
<1> DEFINE I == {i \in 1 .. Len(text) : text[i] \notin White}
<1>1. Len(text) \in Nat /\ DOMAIN text = 1 .. Len(text)
  OBVIOUS
<1>2. I # {} /\ I \in SUBSET Nat /\ I \in SUBSET (0 .. Len(text))
  BY <1>1 DEF Blank
<1>3. /\ SelectInSeq(text, LAMBDA c : c \notin White) = Min(I)
      /\ SelectLastInSeq(text, LAMBDA c : c \notin White) = Max(I)
  BY <1>2 DEF SelectInSeq, SelectLastInSeq
<1> HIDE DEF I
<1>4. Min(I) \in I /\ Max(I) \in I /\ \A i \in I : Min(I) <= i /\ i <= Max(I)
  BY <1>1, <1>2, LeastNatural, GreatestNatural
<1> QED
  BY <1>1, <1>3, <1>4 DEF I

LEMMA LastSpace ==
    ASSUME NEW text \in Seq(Nat)
    PROVE  LET last == SelectLastInSeq(text, LAMBDA c : c = Space)
           IN  /\ last \in 0 .. Len(text)
               /\ \A i \in 1 .. Len(text) : text[i] = Space => i <= last
<1> USE DEF Space
<1> DEFINE I == {i \in 1 .. Len(text) : text[i] = Space}
<1>1. Len(text) \in Nat /\ I \in SUBSET (0 .. Len(text))
  OBVIOUS
<1>2. SelectLastInSeq(text, LAMBDA c : c = Space) = IF I # {} THEN Max(I) ELSE 0
  BY DEF SelectLastInSeq
<1>3. I # {} => Max(I) \in I /\ \A i \in I : i <= Max(I)
  <2> HIDE DEF I
  <2> QED
    BY <1>1, GreatestNatural
<1> QED
  BY <1>1, <1>2, <1>3

\* Stripping a text keeps every word of it.
LEMMA StripKeeps ==
    ASSUME NEW text \in Seq(Nat)
    PROVE  /\ Strip(text) \in Seq(Nat) /\ Len(Strip(text)) <= Len(text)
           /\ \A i \in 1 .. Len(text), k \in 1 .. Len(text) :
                 i <= k /\ (\A c \in i .. k : text[c] \notin White)
                     => \E p \in 1 .. Len(Strip(text)) :
                           /\ p + k - i <= Len(Strip(text))
                           /\ \A c \in 0 .. k - i : Strip(text)[p + c] = text[i + c]
<1> DEFINE a == SelectInSeq(text, LAMBDA c : c \notin White)
           b == SelectLastInSeq(text, LAMBDA c : c \notin White)
<1>0. Len(text) \in Nat /\ DOMAIN text = 1 .. Len(text) /\ \A i \in 1 .. Len(text) : text[i] \in Nat
  OBVIOUS
<1>1. CASE Blank(text)
  <2>1. Strip(text) = <<>>
    BY <1>1 DEF Strip
  <2>2. \A i \in 1 .. Len(text), k \in 1 .. Len(text) :
           i <= k => ~ \A c \in i .. k : text[c] \notin White
    BY <1>0, <1>1 DEF Blank
  <2> QED
    BY <1>0, <2>1, <2>2
<1>2. CASE ~Blank(text)
  <2>1. Strip(text) = SubSeq(text, a, b)
    BY <1>2 DEF Strip
  <2>2. /\ a \in 1 .. Len(text) /\ b \in a .. Len(text)
        /\ \A i \in 1 .. Len(text) : text[i] \notin White => i \in a .. b
    BY <1>2, Letters
  <2> HIDE DEF a, b
  <2>3. /\ Strip(text) \in Seq(Nat) /\ Len(Strip(text)) = b - a + 1
        /\ \A m \in 1 .. b - a + 1 : Strip(text)[m] = text[a + m - 1]
    BY <1>0, <2>1, <2>2, SubSeqProperties
  <2>4. ASSUME NEW i \in 1 .. Len(text), NEW k \in 1 .. Len(text), i <= k,
               \A c \in i .. k : text[c] \notin White
        PROVE  \E p \in 1 .. Len(Strip(text)) :
                  /\ p + k - i <= Len(Strip(text))
                  /\ \A c \in 0 .. k - i : Strip(text)[p + c] = text[i + c]
    <3>1. i \in a .. b /\ k \in a .. b
      BY <2>2, <2>4
    <3>2. i - a + 1 \in 1 .. Len(Strip(text)) /\ i - a + 1 + k - i <= Len(Strip(text))
      BY <1>0, <2>2, <2>3, <3>1
    <3>3. ASSUME NEW c \in 0 .. k - i
          PROVE  Strip(text)[i - a + 1 + c] = text[i + c]
      <4>1. i - a + 1 + c \in 1 .. b - a + 1 /\ a + (i - a + 1 + c) - 1 = i + c
        BY <1>0, <2>2, <3>1
      <4> QED
        BY <2>3, <4>1
    <3> QED
      BY <3>2, <3>3
  <2> QED
    BY <1>0, <2>2, <2>3, <2>4
<1> QED
  BY <1>1, <1>2

LEMMA Sizes ==
    /\ ChunkSize \in Nat /\ Overlap \in Nat /\ ChunkSize > 0 /\ ChunkSize - Overlap \in Nat \ {0}
    /\ \A k \in Nat : /\ Stride(k) \in Nat /\ Stride(k + 1) = Stride(k) + (ChunkSize - Overlap)
                      /\ k <= Stride(k)
    /\ Stride(0) = 0
    /\ \A k \in Nat, m \in Nat : k <= m => Stride(k) <= Stride(m)
<1> DEFINE D == ChunkSize - Overlap
<1>1. /\ ChunkSize \in Nat /\ Overlap \in Nat /\ ChunkSize > 0 /\ D \in Nat /\ D >= 1
  BY UploadsAssumption
<1>2. \A k : Stride(k) = k * D
  BY DEF Stride
<1> HIDE DEF D
<1>3. \A k \in Nat : k * D \in Nat /\ (k + 1) * D = k * D + D /\ 0 * D = 0
  BY <1>1
<1>4. \A k \in Nat, m \in Nat : k <= m => k * D <= m * D
  BY <1>1
<1>5. \A k \in Nat : k <= k * D
  BY <1>1
<1>6. \A k \in Nat : Stride(k) \in Nat /\ k <= Stride(k)
  BY <1>2, <1>3, <1>5
<1>7. \A k \in Nat : Stride(k + 1) = Stride(k) + D
  BY <1>2, <1>3
<1>8. Stride(0) = 0 /\ \A k \in Nat, m \in Nat : k <= m => Stride(k) <= Stride(m)
  BY <1>2, <1>3, <1>4
<1>9. D \in Nat \ {0}
  BY <1>1
<1> QED
  BY <1>1, <1>6, <1>7, <1>8, <1>9 DEF D

\* Where the window that starts after position s ends.
Cutoff(text, s) ==
    LET last == SelectLastInSeq(SubSeq(text, s + 1, s + ChunkSize), LAMBDA c : c = Space)
    IN  IF s + ChunkSize >= Len(text) THEN Len(text)
        ELSE IF last > 1 THEN s + last - 1 ELSE s + ChunkSize

\* A word that starts in the window and is followed by a space, or by the end of
\* the text, within its full length is not cut.
Anchor(text, e) == e = Len(text) + 1 \/ (e \in 1 .. Len(text) /\ text[e] = Space)

LEMMA CutoffBounds ==
    ASSUME NEW text \in Seq(Nat), NEW s \in Nat
    PROVE  LET end == Cutoff(text, s) IN
           /\ Window(text, s) = Strip(SubSeq(text, s + 1, end))
           /\ end \in 0 .. Len(text) /\ end <= s + ChunkSize
           /\ \A k \in s + 1 .. Len(text), e \in s + 1 .. s + ChunkSize :
                 k < e /\ Anchor(text, e) => k <= end
<1> DEFINE n == Len(text)
           cut == SubSeq(text, s + 1, s + ChunkSize)
           last == SelectLastInSeq(cut, LAMBDA c : c = Space)
<1>a. n \in Nat /\ \A i \in 1 .. n : text[i] \in Nat
  OBVIOUS
<1>b. ChunkSize \in Nat \ {0}
  BY Sizes
<1>1. n \in Nat /\ ChunkSize \in Nat \ {0} /\ \A i \in 1 .. n : text[i] \in Nat
  BY <1>a, <1>b
<1>2. Window(text, s) = Strip(SubSeq(text, s + 1, Cutoff(text, s)))
  BY DEF Window, Cutoff
<1>3. CASE s + ChunkSize >= n
  <2>1. Cutoff(text, s) = n
    BY <1>3 DEF Cutoff
  <2> QED
    BY <1>1, <1>2, <1>3, <2>1
<1>4. CASE ~(s + ChunkSize >= n)
  <2>1. /\ cut \in Seq(Nat) /\ Len(cut) = ChunkSize
        /\ \A m \in 1 .. ChunkSize : cut[m] = text[s + m]
    <3>1. \A i \in s + 1 .. s + ChunkSize : text[i] \in Nat
      BY <1>1, <1>4
    <3>2. /\ cut \in Seq(Nat)
          /\ Len(cut) = IF s + 1 <= s + ChunkSize THEN s + ChunkSize - (s + 1) + 1 ELSE 0
          /\ \A m \in 1 .. s + ChunkSize - (s + 1) + 1 : cut[m] = text[s + 1 + m - 1]
      BY <1>1, <3>1, SubSeqProperties
    <3> QED
      BY <1>1, <3>2
  <2>2. Cutoff(text, s) = IF last > 1 THEN s + last - 1 ELSE s + ChunkSize
    BY <1>4 DEF Cutoff
  <2> HIDE DEF cut
  <2>3. last \in 0 .. Len(cut) /\ \A i \in 1 .. Len(cut) : cut[i] = Space => i <= last
    BY <2>1, LastSpace
  <2> HIDE DEF last
  <2>4. ASSUME NEW k \in s + 1 .. n, NEW e \in s + 1 .. s + ChunkSize, k < e, Anchor(text, e)
        PROVE  k <= Cutoff(text, s)
    <3>1. e - s \in 2 .. ChunkSize /\ text[e] = Space /\ s + (e - s) = e
      BY <1>1, <1>4, <2>4 DEF Anchor
    <3>2. cut[e - s] = Space
      BY <2>1, <3>1
    <3>3. e - s <= last
      BY <2>1, <2>3, <3>1, <3>2
    <3> QED
      BY <1>1, <2>1, <2>2, <2>3, <2>4, <3>1, <3>3
  <2> QED
    BY <1>1, <1>2, <1>4, <2>1, <2>2, <2>3, <2>4
<1> QED
  BY <1>3, <1>4

LEMMA WindowKeeps ==
    ASSUME NEW text \in Seq(Nat), NEW s \in Nat
    PROVE  LET cut == Window(text, s) IN
           /\ cut \in Seq(Nat) /\ Len(cut) <= ChunkSize
           /\ \A i \in s + 1 .. Len(text), k \in s + 1 .. Len(text),
                 e \in s + 1 .. s + ChunkSize :
                 /\ i <= k /\ k < e /\ Anchor(text, e)
                 /\ \A c \in i .. k : text[c] \notin White
                 => \E p \in 1 .. Len(cut) : /\ p + k - i <= Len(cut)
                                             /\ \A c \in 0 .. k - i : cut[p + c] = text[i + c]
<1> DEFINE n == Len(text)
           end == Cutoff(text, s)
           x == SubSeq(text, s + 1, end)
<1>a. n \in Nat /\ \A i \in 1 .. n : text[i] \in Nat
  OBVIOUS
<1>b. ChunkSize \in Nat \ {0}
  BY Sizes
<1>0. n \in Nat /\ ChunkSize \in Nat \ {0} /\ \A i \in 1 .. n : text[i] \in Nat
  BY <1>a, <1>b
<1>1. /\ Window(text, s) = Strip(x) /\ end \in 0 .. n /\ end <= s + ChunkSize
      /\ \A k \in s + 1 .. n, e \in s + 1 .. s + ChunkSize :
            k < e /\ Anchor(text, e) => k <= end
  BY CutoffBounds
<1> HIDE DEF end
<1>2. /\ x \in Seq(Nat) /\ Len(x) = IF s + 1 <= end THEN end - s ELSE 0
      /\ \A m \in 1 .. end - s : x[m] = text[s + m]
  <2>1. \A i \in s + 1 .. end : text[i] \in Nat
    BY <1>0, <1>1
  <2>2. /\ x \in Seq(Nat)
        /\ Len(x) = IF s + 1 <= end THEN end - (s + 1) + 1 ELSE 0
        /\ \A m \in 1 .. end - (s + 1) + 1 : x[m] = text[s + 1 + m - 1]
    BY <1>1, <2>1, SubSeqProperties
  <2> QED
    BY <1>1, <2>2
<1> HIDE DEF x
<1> DEFINE cut == Strip(x)
<1>3. /\ cut \in Seq(Nat) /\ Len(cut) <= Len(x)
      /\ \A i \in 1 .. Len(x), k \in 1 .. Len(x) :
            i <= k /\ (\A c \in i .. k : x[c] \notin White)
                => \E p \in 1 .. Len(cut) : /\ p + k - i <= Len(cut)
                                            /\ \A c \in 0 .. k - i : cut[p + c] = x[i + c]
  BY <1>2, StripKeeps
<1> HIDE DEF cut
<1>4. Len(cut) <= ChunkSize
  BY <1>0, <1>1, <1>2, <1>3
<1>5. ASSUME NEW i \in s + 1 .. n, NEW k \in s + 1 .. n, NEW e \in s + 1 .. s + ChunkSize,
             i <= k, k < e, Anchor(text, e), \A c \in i .. k : text[c] \notin White
      PROVE  \E p \in 1 .. Len(cut) : /\ p + k - i <= Len(cut)
                                      /\ \A c \in 0 .. k - i : cut[p + c] = text[i + c]
  <2>1. k <= end
    BY <1>1, <1>5
  <2>2. i - s \in 1 .. Len(x) /\ k - s \in 1 .. Len(x) /\ i - s <= k - s /\ k - s <= end - s
    BY <1>0, <1>1, <1>2, <1>5, <2>1
  <2>3. \A c \in i - s .. k - s : x[c] \notin White
    <3>1. TAKE c \in i - s .. k - s
    <3>2. c \in 1 .. end - s /\ s + c \in i .. k
      BY <1>0, <1>1, <2>2, <3>1
    <3> QED
      BY <1>2, <1>5, <3>2
  <2>4. PICK p \in 1 .. Len(cut) :
           /\ p + (k - s) - (i - s) <= Len(cut)
           /\ \A c \in 0 .. (k - s) - (i - s) : cut[p + c] = x[(i - s) + c]
    BY <1>3, <2>2, <2>3
  <2>5. ASSUME NEW c \in 0 .. k - i
        PROVE  cut[p + c] = text[i + c]
    <3>1. /\ c \in 0 .. (k - s) - (i - s) /\ (i - s) + c \in 1 .. end - s
          /\ s + ((i - s) + c) = i + c
      BY <1>0, <1>1, <2>2
    <3> QED
      BY <1>2, <2>4, <3>1
  <2>6. p + k - i <= Len(cut)
    <3>1. p \in Int /\ s \in Int /\ k \in Int /\ i \in Int
      BY <1>0
    <3>2. p + (k - s) - (i - s) = p + k - i
      BY <3>1
    <3> QED
      BY <2>4, <3>2
  <2> QED
    BY <2>5, <2>6
<1> QED
  BY <1>1, <1>3, <1>4, <1>5 DEF cut
-----------------------------------------------------------------------------
(* Windows.                                                                *)

Starting(text) == {k \in 0 .. Len(text) - 1 : Stride(k) < Len(text)}

LEMMA Windowed ==
    ASSUME NEW text \in Seq(Nat)
    PROVE  /\ Cardinality(Starting(text)) \in Nat
           /\ DOMAIN Windows(text) = 1 .. Cardinality(Starting(text))
           /\ \A k \in Starting(text) : Window(text, Stride(k)) \in ToSet(Windows(text))
           /\ \A cut \in ToSet(Windows(text)) : cut \in Seq(Nat) /\ Len(cut) <= ChunkSize
<1> DEFINE K == Starting(text)
           m == Cardinality(K)
<1>1. Len(text) \in Nat
  OBVIOUS
<1>2. IsFiniteSet(0 .. Len(text) - 1) /\ K \in SUBSET (0 .. Len(text) - 1)
  BY <1>1, FS_Interval DEF Starting
<1>3. IsFiniteSet(K) /\ m \in Nat
  BY <1>2, FS_Subset, FS_CardinalityType
<1>4. Windows(text) = [k \in 1 .. m |-> Window(text, Stride(k - 1))]
  BY DEF Windows, Starting
<1>5. ASSUME NEW k \in K
      PROVE  Window(text, Stride(k)) \in ToSet(Windows(text))
  <2>1. k \in Nat /\ k \in 0 .. Len(text) - 1 /\ Stride(k) < Len(text)
    BY <1>5 DEF Starting
  <2>2. 0 .. k \in SUBSET K
    <3>1. ASSUME NEW l \in 0 .. k
          PROVE  l \in K
      <4>1. l \in Nat /\ l <= k /\ l \in 0 .. Len(text) - 1
        BY <2>1
      <4>2. Stride(l) <= Stride(k) /\ Stride(l) \in Nat /\ Stride(k) \in Nat
        BY <2>1, <4>1, Sizes
      <4> QED
        BY <1>1, <2>1, <4>1, <4>2 DEF Starting
    <3> QED
      BY <3>1
  <2>3. Cardinality(0 .. k) = k + 1
    <3>1. Cardinality(0 .. k) = IF 0 > k THEN 0 ELSE k - 0 + 1
      BY <2>1, FS_Interval
    <3> QED
      BY <2>1, <3>1
  <2>4. k + 1 <= m
    BY <1>3, <2>2, <2>3, FS_Subset
  <2> HIDE DEF K, m
  <2>5. k + 1 \in 1 .. m /\ (k + 1) - 1 = k
    BY <1>3, <2>1, <2>4
  <2>6. Windows(text)[k + 1] = Window(text, Stride(k)) /\ k + 1 \in DOMAIN Windows(text)
    BY <1>4, <2>5
  <2> QED
    BY <2>6 DEF ToSet
<1>6. ASSUME NEW cut \in ToSet(Windows(text))
      PROVE  cut \in Seq(Nat) /\ Len(cut) <= ChunkSize
  <2> HIDE DEF m
  <2>1. PICK k \in 1 .. m : cut = Window(text, Stride(k - 1))
    BY <1>4, <1>6 DEF ToSet
  <2>2. k - 1 \in Nat
    BY <1>3
  <2>3. Stride(k - 1) \in Nat
    BY <2>2, Sizes
  <2> QED
    BY <2>1, <2>3, WindowKeeps
<1> QED
  BY <1>3, <1>4, <1>5, <1>6

\* The characters from i to k are letters, and a space or the end of the text
\* follows within the overlap.
IsWord(text, i, k) ==
    /\ \A c \in i .. k : text[c] \notin White
    /\ \E e \in k + 1 .. i + Overlap : Anchor(text, e)
HoldsWord(cut, text, i, k) ==
    \E p \in 1 .. Len(cut) :
        p + k - i <= Len(cut) /\ \A c \in 0 .. k - i : cut[p + c] = text[i + c]

\* The last window that starts before the word reaches the space that follows.
LEMMA WordInWindow ==
    ASSUME NEW text \in Seq(Nat), NEW i \in 1 .. Len(text), NEW k \in i .. Len(text),
           IsWord(text, i, k)
    PROVE  \E cut \in ToSet(Windows(text)) \ {<<>>} :
              cut \in Seq(Nat) /\ HoldsWord(cut, text, i, k)
<1> DEFINE n == Len(text)
           K == {m \in 0 .. n - 1 : Stride(m) < i}
           D == ChunkSize - Overlap
<1>a. n \in Nat /\ 0 \in 0 .. n - 1
  OBVIOUS
<1>b. Stride(0) = 0 /\ ChunkSize \in Nat /\ Overlap \in Nat
  BY Sizes
<1>1. /\ n \in Nat /\ Stride(0) = 0 /\ 0 \in 0 .. n - 1 /\ ChunkSize \in Nat /\ Overlap \in Nat
  BY <1>a, <1>b
<1>2. K # {} /\ K \in SUBSET (0 .. n)
  BY <1>1
<1>3. Max(K) \in K /\ \A m \in K : m <= Max(K)
  <2> HIDE DEF K
  <2> QED
    BY <1>1, <1>2, GreatestNatural
<1>4. PICK m \in Nat : m = Max(K) /\ m \in 0 .. n - 1 /\ Stride(m) < i
  <2>1. \A l \in K : l \in Nat /\ l \in 0 .. n - 1 /\ Stride(l) < i
    BY <1>1
  <2> HIDE DEF K
  <2> QED
    BY <1>3, <2>1
<1>5. Stride(m) \in Nat /\ Stride(m + 1) \in Nat /\ m + 1 <= Stride(m + 1)
      /\ Stride(m + 1) = Stride(m) + D
  <2>1. m + 1 \in Nat
    BY <1>4
  <2> QED
    BY <1>4, <2>1, Sizes
<1>6. i <= Stride(m + 1)
  <2>1. CASE m + 1 \in 0 .. n - 1
    <3>1. m + 1 \notin K
      BY <1>3, <1>4
    <3> QED
      BY <1>5, <2>1, <3>1
  <2>2. CASE m + 1 \notin 0 .. n - 1
    BY <1>1, <1>4, <1>5, <2>2
  <2> QED
    BY <2>1, <2>2
<1> DEFINE s == Stride(m)
<1>7. /\ i \in s + 1 .. n /\ k \in s + 1 .. n /\ i <= k
      /\ \A e \in k + 1 .. i + Overlap : e \in s + 1 .. s + ChunkSize /\ k < e
  <2>1. s \in Nat /\ s < i /\ i <= s + (ChunkSize - Overlap)
    BY <1>4, <1>5, <1>6
  <2> HIDE DEF s
  <2>2. ASSUME NEW e \in k + 1 .. i + Overlap
        PROVE  e \in s + 1 .. s + ChunkSize /\ k < e
    BY <1>1, <2>1
  <2> QED
    BY <1>1, <2>1, <2>2
<1> DEFINE cut == Window(text, s)
<1>8. cut \in Seq(Nat) /\ HoldsWord(cut, text, i, k)
  <2>1. PICK e \in k + 1 .. i + Overlap : Anchor(text, e)
    BY DEF IsWord
  <2>2. e \in s + 1 .. s + ChunkSize /\ k < e
    BY <1>7, <2>1
  <2> QED
    BY <1>5, <1>7, <2>1, <2>2, WindowKeeps DEF IsWord, HoldsWord
<1>9. cut \in ToSet(Windows(text))
  <2>1. m \in Starting(text)
    BY <1>1, <1>4, <1>5 DEF Starting
  <2> QED
    BY <2>1, Windowed
<1>10. cut # <<>>
  <2> HIDE DEF cut
  <2> QED
    BY <1>8 DEF HoldsWord
<1> QED
  BY <1>8, <1>9, <1>10

LEMMA WordHeld ==
    ASSUME NEW text \in Seq(Nat), NEW cut \in Seq(Nat), NEW i \in 1 .. Len(text),
           NEW k \in i .. Len(text), HoldsWord(cut, text, i, k)
    PROVE  Holds(cut, SubSeq(text, i, k)) /\ Len(SubSeq(text, i, k)) = k - i + 1
<1> DEFINE word == SubSeq(text, i, k)
<1>0. \A c \in 1 .. Len(text) : text[c] \in Nat
  OBVIOUS
<1>1. /\ word \in Seq(Nat) /\ Len(word) = k - i + 1
      /\ \A c \in 1 .. k - i + 1 : word[c] = text[i + c - 1]
  <2>1. /\ word \in Seq(Nat) /\ Len(word) = IF i <= k THEN k - i + 1 ELSE 0
        /\ \A c \in 1 .. k - i + 1 : word[c] = text[i + c - 1]
    BY <1>0, SubSeqProperties
  <2> QED
    BY <2>1
<1> HIDE DEF word
<1>2. PICK p \in 1 .. Len(cut) :
         p + k - i <= Len(cut) /\ \A c \in 0 .. k - i : cut[p + c] = text[i + c]
  BY DEF HoldsWord
<1> DEFINE found == SubSeq(cut, p, p + Len(word) - 1)
<1>3. /\ found \in Seq(Nat) /\ Len(found) = k - i + 1
      /\ \A c \in 1 .. k - i + 1 : found[c] = cut[p + c - 1]
  <2>1. p + Len(word) - 1 = p + k - i
    BY <1>1
  <2>2. \A c \in p .. p + k - i : cut[c] \in Nat
    BY <1>2
  <2>3. /\ found \in Seq(Nat)
        /\ Len(found) = IF p <= p + k - i THEN (p + k - i) - p + 1 ELSE 0
        /\ \A c \in 1 .. (p + k - i) - p + 1 : found[c] = cut[p + c - 1]
    BY <2>1, <2>2, SubSeqProperties
  <2>4. p <= p + k - i /\ (p + k - i) - p + 1 = k - i + 1
    OBVIOUS
  <2> HIDE DEF found
  <2> QED
    BY <2>3, <2>4
<1> HIDE DEF found
<1>4. \A c \in 1 .. k - i + 1 : found[c] = word[c]
  <2>1. TAKE c \in 1 .. k - i + 1
  <2>2. c - 1 \in 0 .. k - i /\ p + (c - 1) = p + c - 1 /\ i + (c - 1) = i + c - 1
    OBVIOUS
  <2>3. cut[p + (c - 1)] = text[i + (c - 1)]
    BY <1>2, <2>2
  <2> QED
    BY <1>1, <1>3, <2>2, <2>3
<1>5. found = word
  BY <1>1, <1>3, <1>4, SeqEqual
<1>6. p \in 1 .. Len(cut) - Len(word) + 1
  BY <1>1, <1>2
<1> QED
  BY <1>1, <1>5, <1>6 DEF Holds, found, word

\* Every word of a text with a space soon after it is whole in one of its chunks.
LEMMA WordsHeld ==
    ASSUME NEW text \in Seq(Nat), NEW w \in Words(text), Anchored(text, w)
    PROVE  \E cut \in ToSet(Windows(text)) \ {<<>>} : Holds(cut, SubSeq(text, w[1], w[2]))
<1>1. /\ w[1] \in DOMAIN text /\ w[2] \in DOMAIN text /\ w[1] <= w[2]
      /\ \A c \in w[1] .. w[2] : text[c] \notin White
  BY DEF Words
<1>2. PICK i \in 1 .. Len(text) : i = w[1]
  BY <1>1
<1>3. PICK k \in i .. Len(text) : k = w[2] /\ \A c \in i .. k : text[c] \notin White
  BY <1>1, <1>2
<1>4. IsWord(text, i, k)
  <2>1. DOMAIN text = 1 .. Len(text)
    OBVIOUS
  <2> QED
    BY <1>2, <1>3, <2>1 DEF IsWord, Anchored, Anchor
<1>5. PICK cut \in ToSet(Windows(text)) \ {<<>>} :
         cut \in Seq(Nat) /\ HoldsWord(cut, text, i, k)
  BY <1>2, <1>3, <1>4, WordInWindow
<1> QED
  BY <1>2, <1>3, <1>5, WordHeld

LEMMA WindowsSeq ==
    ASSUME NEW text \in Seq(Nat)
    PROVE  Windows(text) \in Seq(ToSet(Windows(text)))
<1>1. PICK m \in Nat : m = Cardinality(Starting(text))
  BY Windowed
<1>2. Windows(text) = [k \in 1 .. m |-> Window(text, Stride(k - 1))]
  BY <1>1 DEF Windows, Starting
<1>3. \A k \in 1 .. m : Windows(text)[k] \in ToSet(Windows(text))
  BY <1>2 DEF ToSet
<1> QED
  BY <1>2, <1>3

LEMMA FileTexts ==
    ASSUME NEW f \in Files
    PROVE  f.text \in Seq(Nat) /\ f.tokens \in Nat /\ (~Blank(f.text) => f.tokens > 0)
BY FileAssumption DEF Files, Blank
-----------------------------------------------------------------------------
(* Writes of one field, of one run, of one job.                            *)

LEMMA PutPc ==
    ASSUME NEW a, NEW b, NEW c, NEW d, NEW e, NEW f, NEW x
    PROVE  [Locals(a, b, c, d, e, f) EXCEPT !.pc = x] = Locals(x, b, c, d, e, f)
BY SMT DEF Locals

LEMMA PutJob ==
    ASSUME NEW a, NEW b, NEW c, NEW d, NEW e, NEW f, NEW x
    PROVE  [Locals(a, b, c, d, e, f) EXCEPT !.job = x] = Locals(a, x, c, d, e, f)
BY SMT DEF Locals

LEMMA PutFile ==
    ASSUME NEW a, NEW b, NEW c, NEW d, NEW e, NEW f, NEW x
    PROVE  [Locals(a, b, c, d, e, f) EXCEPT !.file = x] = Locals(a, b, x, d, e, f)
BY SMT DEF Locals

LEMMA PutChunks ==
    ASSUME NEW a, NEW b, NEW c, NEW d, NEW e, NEW f, NEW x
    PROVE  [Locals(a, b, c, d, e, f) EXCEPT !.chunks = x] = Locals(a, b, c, x, e, f)
BY SMT DEF Locals

LEMMA PutChunk ==
    ASSUME NEW a, NEW b, NEW c, NEW d, NEW e, NEW f, NEW x
    PROVE  [Locals(a, b, c, d, e, f) EXCEPT !.chunk = x] = Locals(a, b, c, d, x, f)
BY SMT DEF Locals

LEMMA PutClean ==
    ASSUME NEW a, NEW b, NEW c, NEW d, NEW e, NEW f, NEW x
    PROVE  [Locals(a, b, c, d, e, f) EXCEPT !.clean = x] = Locals(a, b, c, d, e, x)
BY SMT DEF Locals

LEMMA LocalFields ==
    ASSUME NEW a, NEW b, NEW c, NEW d, NEW e, NEW f
    PROVE  LET l == Locals(a, b, c, d, e, f) IN
           /\ IsRun(l) /\ l.pc = a /\ l.job = b /\ l.file = c /\ l.chunks = d
           /\ l.chunk = e /\ l.clean = f
BY SMT DEF Locals, IsRun

LEMMA RecordFields ==
    ASSUME NEW a, NEW b, NEW c, NEW d
    PROVE  LET e == Record(a, b, c, d) IN
           /\ IsJob(e) /\ e.kind = a /\ e.topic = b /\ e.status = c /\ e.files = d
BY SMT DEF Record, IsJob

LEMMA IdleLocals == Idle = Locals("idle", "none", 1, <<>>, 1, TRUE)
BY DEF Idle, Locals

Alone(r) == \A q \in Run \ {r} : run'[q] = run[q]
Becomes(r, l) == run'[r] = l /\ Alone(r)
Frees(r) == Becomes(r, Idle)

\* The locals of r with a new pc, file, chunks and chunk.
Goes(r, pc, file, chunks, chunk, clean) ==
    Becomes(r, Locals(pc, run[r].job, file, chunks, chunk, clean))
\* The same locals at another place.
Moves(r, pc) ==
    LET l == run[r] IN Goes(r, pc, l.file, l.chunks, l.chunk, l.clean)
Turns(r, clean) == Goes(r, "extract", run[r].file + 1, <<>>, 1, clean)

RunShape == run = [r \in Run |-> run[r]] /\ \A r \in Run : IsRun(run[r])
JobShape == jobs = [j \in Job |-> jobs[j]] /\ \A j \in Job : IsJob(jobs[j])

\* A write of one run's locals leaves the others alone.
LEMMA OneRun ==
    ASSUME RunShape, NEW r \in Run, NEW m, IsRun(m), run' = [run EXCEPT ![r] = m]
    PROVE  RunShape' /\ Becomes(r, m)
<1>1. run' = [q \in Run |-> IF q = r THEN m ELSE run[q]]
  BY DEF RunShape
<1>2. \A q \in Run : run'[q] = IF q = r THEN m ELSE run[q]
  BY <1>1
<1>3. \A q \in Run : IsRun(run'[q])
  BY <1>2 DEF RunShape
<1>4. run' = [q \in Run |-> run'[q]]
  BY <1>1, <1>2
<1> QED
  BY <1>2, <1>3, <1>4 DEF RunShape, Becomes, Alone

LEMMA Freed ==
    ASSUME RunShape, NEW r \in Run, Over(r)
    PROVE  RunShape' /\ Frees(r)
<1>1. IsRun(Idle)
  BY IdleLocals, LocalFields
<1> QED
  BY <1>1, OneRun DEF Over, Frees

LEMMA GotoMoves ==
    ASSUME RunShape, NEW r \in Run, NEW at, Goto(r, at)
    PROVE  RunShape' /\ Moves(r, at)
<1> DEFINE l == run[r]
           m == Locals(at, l.job, l.file, l.chunks, l.chunk, l.clean)
<1>1. [l EXCEPT !.pc = at] = m
  BY PutPc DEF RunShape, IsRun
<1>2. run' = [run EXCEPT ![r] = m]
  BY <1>1 DEF Goto
<1>3. IsRun(m)
  BY LocalFields
<1> HIDE DEF m
<1>4. RunShape' /\ Becomes(r, m)
  BY <1>2, <1>3, OneRun
<1> QED
  BY <1>4 DEF Moves, Goes, m

\* A write that counts a chunk or a file, and dirties the run or not.
LEMMA NextFileTurns ==
    ASSUME RunShape, NEW r \in Run, NextFile(r)
    PROVE  RunShape' /\ Turns(r, run[r].clean)
<1> DEFINE l == run[r]
           m1 == Locals(l.pc, l.job, l.file + 1, l.chunks, l.chunk, l.clean)
           m2 == Locals("extract", l.job, l.file + 1, l.chunks, l.chunk, l.clean)
           m3 == Locals("extract", l.job, l.file + 1, <<>>, l.chunk, l.clean)
           m == Locals("extract", l.job, l.file + 1, <<>>, 1, l.clean)
<1>1. [l EXCEPT !.file = l.file + 1] = m1
  BY PutFile DEF RunShape, IsRun
<1>2. [m1 EXCEPT !.pc = "extract"] = m2
  BY PutPc
<1>3. [m2 EXCEPT !.chunks = <<>>] = m3
  BY PutChunks
<1>4. [m3 EXCEPT !.chunk = 1] = m
  BY PutChunk
<1>5. IsRun(m)
  BY LocalFields
<1>6. run' = [run EXCEPT ![r] = [l EXCEPT !.file = l.file + 1, !.pc = "extract",
                                          !.chunks = <<>>, !.chunk = 1]]
  BY DEF NextFile, RunShape
<1> HIDE DEF m1, m2, m3, m
<1>7. run' = [run EXCEPT ![r] = m]
  BY <1>1, <1>2, <1>3, <1>4, <1>6
<1>8. RunShape' /\ Becomes(r, m)
  BY <1>5, <1>7, OneRun
<1> QED
  BY <1>8 DEF Turns, Goes, m

LEMMA FilePut ==
    ASSUME RunShape, NEW r \in Run, run' = [run EXCEPT ![r].file = @ + 1]
    PROVE  LET l == run[r] IN
           RunShape' /\ Goes(r, l.pc, l.file + 1, l.chunks, l.chunk, l.clean)
<1> DEFINE l == run[r]
           m == Locals(l.pc, l.job, l.file + 1, l.chunks, l.chunk, l.clean)
<1>1. [l EXCEPT !.file = l.file + 1] = m
  BY PutFile DEF RunShape, IsRun
<1>2. run' = [run EXCEPT ![r] = m]
  BY <1>1
<1>3. IsRun(m)
  BY LocalFields
<1> HIDE DEF m
<1>4. RunShape' /\ Becomes(r, m)
  BY <1>2, <1>3, OneRun
<1> QED
  BY <1>4 DEF Goes, m

LEMMA ChunkPut ==
    ASSUME RunShape, NEW r \in Run, run' = [run EXCEPT ![r].chunk = @ + 1]
    PROVE  LET l == run[r] IN
           RunShape' /\ Goes(r, l.pc, l.file, l.chunks, l.chunk + 1, l.clean)
<1> DEFINE l == run[r]
           m == Locals(l.pc, l.job, l.file, l.chunks, l.chunk + 1, l.clean)
<1>1. [l EXCEPT !.chunk = l.chunk + 1] = m
  BY PutChunk DEF RunShape, IsRun
<1>2. run' = [run EXCEPT ![r] = m]
  BY <1>1
<1>3. IsRun(m)
  BY LocalFields
<1> HIDE DEF m
<1>4. RunShape' /\ Becomes(r, m)
  BY <1>2, <1>3, OneRun
<1> QED
  BY <1>4 DEF Goes, m

LEMMA ExtractPut ==
    ASSUME RunShape, NEW r \in Run,
           run' = [run EXCEPT ![r] = [@ EXCEPT !.pc = "extract", !.file = 1]]
    PROVE  LET l == run[r] IN
           RunShape' /\ Goes(r, "extract", 1, l.chunks, l.chunk, l.clean)
<1> DEFINE l == run[r]
           m1 == Locals("extract", l.job, l.file, l.chunks, l.chunk, l.clean)
           m == Locals("extract", l.job, 1, l.chunks, l.chunk, l.clean)
<1>1. [l EXCEPT !.pc = "extract"] = m1
  BY PutPc DEF RunShape, IsRun
<1>2. [m1 EXCEPT !.file = 1] = m
  BY PutFile
<1>3. run' = [run EXCEPT ![r] = [l EXCEPT !.pc = "extract", !.file = 1]]
  OBVIOUS
<1>4. IsRun(m)
  BY LocalFields
<1> HIDE DEF m1, m
<1>5. run' = [run EXCEPT ![r] = m]
  BY <1>1, <1>2, <1>3
<1>6. RunShape' /\ Becomes(r, m)
  BY <1>4, <1>5, OneRun
<1> QED
  BY <1>6 DEF Goes, m

LEMMA EmbedPut ==
    ASSUME RunShape, NEW r \in Run, NEW x,
           run' = [run EXCEPT ![r].pc = "embed", ![r].chunks = x]
    PROVE  LET l == run[r] IN
           RunShape' /\ Goes(r, "embed", l.file, x, l.chunk, l.clean)
<1> DEFINE l == run[r]
           m1 == Locals("embed", l.job, l.file, l.chunks, l.chunk, l.clean)
           m == Locals("embed", l.job, l.file, x, l.chunk, l.clean)
<1>1. [l EXCEPT !.pc = "embed"] = m1
  BY PutPc DEF RunShape, IsRun
<1>2. [m1 EXCEPT !.chunks = x] = m
  BY PutChunks
<1>3. run' = [run EXCEPT ![r] = [l EXCEPT !.pc = "embed", !.chunks = x]]
  BY DEF RunShape
<1>4. IsRun(m)
  BY LocalFields
<1> HIDE DEF m1, m
<1>5. run' = [run EXCEPT ![r] = m]
  BY <1>1, <1>2, <1>3
<1>6. RunShape' /\ Becomes(r, m)
  BY <1>4, <1>5, OneRun
<1> QED
  BY <1>6 DEF Goes, m

LEMMA Dirtied ==
    ASSUME NEW l, IsRun(l)
    PROVE  [l EXCEPT !.clean = FALSE] = Locals(l.pc, l.job, l.file, l.chunks, l.chunk, FALSE)
<1>1. \A no : [l EXCEPT !.clean = no] = Locals(l.pc, l.job, l.file, l.chunks, l.chunk, no)
  BY PutClean DEF IsRun
<1> QED
  BY <1>1, Zenon

LEMMA SkippedPut ==
    ASSUME RunShape, NEW r \in Run,
           run' = [run EXCEPT ![r] =
                     LET dirty == [run[r] EXCEPT !.clean = FALSE] IN
                     IF LastChunk(r)
                     THEN [dirty EXCEPT !.file = @ + 1, !.pc = "extract", !.chunks = <<>>,
                                        !.chunk = 1]
                     ELSE [dirty EXCEPT !.chunk = @ + 1]]
    PROVE  LET l == run[r] IN
           /\ RunShape'
           /\ IF LastChunk(r) THEN Turns(r, FALSE)
              ELSE Goes(r, l.pc, l.file, l.chunks, l.chunk + 1, FALSE)
<1>0. PICK no : no = FALSE
  BY Zenon
<1> DEFINE l == run[r]
           m0 == Locals(l.pc, l.job, l.file, l.chunks, l.chunk, no)
           m1 == Locals(l.pc, l.job, l.file + 1, l.chunks, l.chunk, no)
           m2 == Locals("extract", l.job, l.file + 1, l.chunks, l.chunk, no)
           m3 == Locals("extract", l.job, l.file + 1, <<>>, l.chunk, no)
           last == Locals("extract", l.job, l.file + 1, <<>>, 1, no)
           more == Locals(l.pc, l.job, l.file, l.chunks, l.chunk + 1, no)
           m == IF LastChunk(r) THEN last ELSE more
<1>a. [l EXCEPT !.clean = FALSE] = m0
  BY <1>0, Dirtied, Zenon DEF RunShape
<1>1. m0.file = l.file /\ m0.chunk = l.chunk
  BY LocalFields
<1>2. [m0 EXCEPT !.file = l.file + 1] = m1
  BY PutFile
<1>3. [m1 EXCEPT !.pc = "extract"] = m2
  BY PutPc
<1>4. [m2 EXCEPT !.chunks = <<>>] = m3
  BY PutChunks
<1>5. [m3 EXCEPT !.chunk = 1] = last
  BY PutChunk
<1>6. [m0 EXCEPT !.chunk = l.chunk + 1] = more
  BY PutChunk
<1>7. IsRun(last) /\ IsRun(more)
  BY LocalFields
<1>8. run' = [run EXCEPT ![r] =
                 IF LastChunk(r)
                 THEN [m0 EXCEPT !.file = m0.file + 1, !.pc = "extract", !.chunks = <<>>,
                                 !.chunk = 1]
                 ELSE [m0 EXCEPT !.chunk = m0.chunk + 1]]
  BY <1>a
<1> HIDE DEF m0, m1, m2, m3, last, more
<1>9. /\ [m0 EXCEPT !.file = m0.file + 1, !.pc = "extract", !.chunks = <<>>, !.chunk = 1] = last
      /\ [m0 EXCEPT !.chunk = m0.chunk + 1] = more
  BY <1>1, <1>2, <1>3, <1>4, <1>5, <1>6
<1>10. run' = [run EXCEPT ![r] = m]
  BY <1>8, <1>9
<1>11. IsRun(m)
  BY <1>7
<1> HIDE DEF m
<1>12. RunShape' /\ Becomes(r, m)
  BY <1>10, <1>11, OneRun
<1> QED
  BY <1>0, <1>12, Zenon DEF Goes, Turns, m, last, more

LEMMA AfterChunkPut ==
    ASSUME RunShape, NEW r \in Run, AfterChunk(r)
    PROVE  LET l == run[r] IN
           /\ RunShape'
           /\ IF LastChunk(r) THEN Turns(r, l.clean)
              ELSE Goes(r, l.pc, l.file, l.chunks, l.chunk + 1, l.clean)
<1>1. CASE LastChunk(r)
  BY <1>1, NextFileTurns DEF AfterChunk
<1>2. CASE ~LastChunk(r)
  BY <1>2, ChunkPut DEF AfterChunk
<1> QED
  BY <1>1, <1>2

\* A run that starts.
Starts(r, pc, j, clean) == run'[r] = Locals(pc, j, 1, <<>>, 1, clean)

LEMMA StartLocals ==
    ASSUME NEW pc, NEW j
    PROVE  [Idle EXCEPT !.pc = pc, !.job = j] = Locals(pc, j, 1, <<>>, 1, TRUE)
<1>0. PICK yes : yes = TRUE
  BY Zenon
<1>1. Idle = Locals("idle", "none", 1, <<>>, 1, yes)
  BY <1>0, IdleLocals, Zenon
<1>2. [Idle EXCEPT !.pc = pc] = Locals(pc, "none", 1, <<>>, 1, yes)
  BY <1>1, PutPc
<1>3. [Locals(pc, "none", 1, <<>>, 1, yes) EXCEPT !.job = j] = Locals(pc, j, 1, <<>>, 1, yes)
  BY PutJob
<1>4. [Idle EXCEPT !.pc = pc, !.job = j] = Locals(pc, j, 1, <<>>, 1, yes)
  BY <1>2, <1>3
<1> QED
  BY <1>0, <1>4, Zenon

OtherJobs(j) == \A k \in Job \ {j} : jobs'[k] = jobs[k]
Sets(j, d) == jobs'[j] = d /\ OtherJobs(j)
Marks(j, status) == Sets(j, Record(jobs[j].kind, jobs[j].topic, status, jobs[j].files))

LEMMA OneJob ==
    ASSUME JobShape, NEW j \in Job, NEW d, IsJob(d), jobs' = [jobs EXCEPT ![j] = d]
    PROVE  JobShape' /\ Sets(j, d)
<1>1. jobs' = [k \in Job |-> IF k = j THEN d ELSE jobs[k]]
  BY DEF JobShape
<1>2. \A k \in Job : jobs'[k] = IF k = j THEN d ELSE jobs[k]
  BY <1>1
<1>3. \A k \in Job : IsJob(jobs'[k])
  BY <1>2 DEF JobShape
<1>4. jobs' = [k \in Job |-> jobs'[k]]
  BY <1>1, <1>2
<1> QED
  BY <1>2, <1>3, <1>4 DEF JobShape, Sets, OtherJobs

LEMMA StatusMarks ==
    ASSUME JobShape, NEW j \in Job, NEW s, jobs' = [jobs EXCEPT ![j].status = s]
    PROVE  JobShape' /\ Marks(j, s)
<1> DEFINE d == Record(jobs[j].kind, jobs[j].topic, s, jobs[j].files)
<1>1. \A a, b, c, e : [Record(a, b, c, e) EXCEPT !.status = s] = Record(a, b, s, e)
  BY SMT DEF Record
<1>2. [jobs[j] EXCEPT !.status = s] = d
  BY <1>1 DEF JobShape, IsJob
<1>3. jobs' = [jobs EXCEPT ![j] = d]
  BY <1>2
<1>4. IsJob(d)
  BY RecordFields
<1> HIDE DEF d
<1>5. JobShape' /\ Sets(j, d)
  BY <1>3, <1>4, OneJob
<1> QED
  BY <1>5 DEF Marks, d

LEMMA NewRecord ==
    ASSUME JobShape, NEW j \in Job, NEW kind, NEW topic, NEW files,
           jobs' = [jobs EXCEPT ![j] = [NoJob EXCEPT !.kind = kind, !.topic = topic,
                                                     !.files = files]]
    PROVE  JobShape' /\ Sets(j, Record(kind, topic, "none", files))
<1> DEFINE d == Record(kind, topic, "none", files)
<1>1. NoJob = Record("none", "none", "none", <<>>)
  BY DEF NoJob, Record
<1>2. [Record("none", "none", "none", <<>>) EXCEPT !.kind = kind]
         = Record(kind, "none", "none", <<>>)
  BY SMT DEF Record
<1>3. [Record(kind, "none", "none", <<>>) EXCEPT !.topic = topic]
         = Record(kind, topic, "none", <<>>)
  BY SMT DEF Record
<1>4. [Record(kind, topic, "none", <<>>) EXCEPT !.files = files] = d
  BY SMT DEF Record
<1> HIDE DEF d
<1>5. [NoJob EXCEPT !.kind = kind, !.topic = topic, !.files = files] = d
  BY <1>1, <1>2, <1>3, <1>4
<1>6. jobs' = [jobs EXCEPT ![j] = d]
  BY <1>5
<1>7. IsJob(d)
  BY RecordFields DEF d
<1>8. JobShape' /\ Sets(j, d)
  BY <1>6, <1>7, OneJob
<1> QED
  BY <1>8 DEF d
-----------------------------------------------------------------------------
(* What a step can change.                                                 *)

Saves(r) ==
    LET f == Upload(r).files[run[r].file]  l == run[r] IN
    /\ l.pc = "storing" /\ MoreFiles(r)
    /\ disk' = [disk EXCEPT ![l.job] = {g \in @ : g.name # f.name} \cup {f}]
    /\ Goes(r, l.pc, l.file + 1, l.chunks, l.chunk, l.clean)
    /\ UNCHANGED <<jobs, records, store, blocks, skipped, current, erased>>
Enlists(r) ==
    LET l == run[r]  kind == Upload(r).kind IN
    /\ l.pc = "storing"
    /\ \/ kind = "document" /\ records' = records \cup {l.job} /\ UNCHANGED jobs /\ Frees(r)
       \/ /\ kind # "document" /\ UNCHANGED records
          /\ IF kind = "ingest" THEN Marks(l.job, "processing") ELSE UNCHANGED jobs
          /\ Goes(r, "extract", 1, l.chunks, l.chunk, l.clean)
    /\ UNCHANGED <<disk, store, blocks, skipped, current, erased>>
Shows(r) ==
    LET t == Upload(r).topic  f == Upload(r).files[1] IN
    /\ run[r].pc = "push" /\ ~Blank(Text(f))
    /\ blocks' = [blocks EXCEPT ![t] = Append(@, f)] /\ Moves(r, "ready")
    /\ UNCHANGED <<jobs, records, disk, store, skipped, current, erased>>
Ends(r) ==
    LET l == run[r] IN
    /\ \/ l.pc \in {"push", "raised"} /\ Marks(l.job, "failed")
       \/ l.pc = "ready" /\ Marks(l.job, "done")
       \/ /\ l.pc = "extract" /\ ~MoreFiles(r) /\ Upload(r).kind = "ingest"
          /\ Marks(l.job, "completed")
    /\ Frees(r)
    /\ UNCHANGED <<records, disk, store, blocks, skipped, current, erased>>
Leaves(r) ==
    Frees(r) /\ UNCHANGED <<jobs, records, disk, store, blocks, skipped, current, erased>>
Breaks(r) ==
    LET t == Upload(r).topic  f == Upload(r).files[1] IN
    /\ \/ /\ run[r].pc = "push"
          /\ \/ UNCHANGED blocks
             \/ ~Blank(Text(f)) /\ blocks' = [blocks EXCEPT ![t] = Append(@, f)]
       \/ run[r].pc = "ready" /\ UNCHANGED blocks
       \/ run[r].pc = "extract" /\ Upload(r).kind = "ingest" /\ UNCHANGED blocks
    /\ Moves(r, "raised")
    /\ UNCHANGED <<jobs, records, disk, store, skipped, current, erased>>
Passes(r) ==
    /\ run[r].pc = "extract" /\ MoreFiles(r)
    /\ \/ Upload(r).kind = "topic"
       \/ Found(r) # {} /\ ChunkTable[File(r)] = <<>>
    /\ Turns(r, run[r].clean)
    /\ UNCHANGED <<jobs, records, disk, store, blocks, skipped, current, erased>>
Loads(r) ==
    LET l == run[r] IN
    /\ l.pc = "extract" /\ MoreFiles(r) /\ Found(r) # {} /\ ChunkTable[File(r)] # <<>>
    /\ Goes(r, "embed", l.file, ChunkTable[File(r)], l.chunk, l.clean)
    /\ UNCHANGED <<jobs, records, disk, store, blocks, skipped, current, erased>>
Embeds(r) ==
    LET l == run[r] IN
    /\ l.pc = "embed" /\ store' = Upserted(r)
    /\ IF LastChunk(r) THEN Turns(r, l.clean)
       ELSE Goes(r, l.pc, l.file, l.chunks, l.chunk + 1, l.clean)
    /\ current' = IF Upload(r).kind = "topic" /\ LastChunk(r) /\ l.clean
                  THEN current \cup {[topic |-> Upload(r).topic, name |-> Path(r),
                                      chunks |-> l.chunks]}
                  ELSE current
    /\ UNCHANGED <<jobs, records, disk, blocks, skipped, erased>>
Skips(r) ==
    LET l == run[r] IN
    /\ l.pc = "embed" /\ skipped' = skipped \cup {l.job}
    /\ IF LastChunk(r) THEN Turns(r, FALSE)
       ELSE Goes(r, l.pc, l.file, l.chunks, l.chunk + 1, FALSE)
    /\ UNCHANGED <<jobs, records, disk, store, blocks, current, erased>>
Loses(r) ==
    /\ run[r].pc = "embed" /\ store' \in {store, Upserted(r)}
    /\ IF Upload(r).kind = "topic" THEN Turns(r, run[r].clean) ELSE Moves(r, "raised")
    /\ UNCHANGED <<jobs, records, disk, blocks, skipped, current, erased>>

Effect(r) ==
    /\ run[r].pc # "idle"
    /\ \/ Saves(r) \/ Enlists(r) \/ Shows(r) \/ Ends(r) \/ Leaves(r) \/ Breaks(r)
       \/ Passes(r) \/ Loads(r) \/ Embeds(r) \/ Skips(r) \/ Loses(r)

Dirty(l) == Locals(l.pc, l.job, l.file, l.chunks, l.chunk, FALSE)
Soiled(q, topic) == run'[q] = IF Concerns(q, topic) THEN Dirty(run[q]) ELSE run[q]
PostsAs(r, j, kind, t, files) ==
    LET others == \E q \in Run : kind = "topic" /\ Concerns(q, t) IN
    /\ run[r].pc = "idle" /\ jobs[j] = NoJob /\ Valid(files) # <<>>
    /\ Sets(j, Record(kind, t, "none", Valid(files)))
    /\ Starts(r, "storing", j, ~others)
    /\ IF kind = "topic" THEN \A q \in Run \ {r} : Soiled(q, t) ELSE Alone(r)
    /\ current' = Undisturbed(t, IF kind = "topic" THEN {f.name : f \in ToSet(files)} ELSE {})
    /\ UNCHANGED <<records, disk, store, blocks, skipped, erased>>
Posts(r, j) ==
    \E kind \in {"ingest", "topic", "document"}, t \in Topic, files \in Batches :
        PostsAs(r, j, kind, t, files)
Chats(r, j) ==
    \E t \in Topic, f \in Files :
        /\ run[r].pc = "idle" /\ jobs[j] = NoJob
        /\ Sets(j, Record("session", t, "processing", <<f>>))
        /\ Starts(r, "push", j, TRUE) /\ Alone(r)
        /\ UNCHANGED <<records, disk, store, blocks, skipped, current, erased>>
Retriggers(r, j) ==
    /\ run[r].pc = "idle" /\ jobs[j].kind = "ingest"
    /\ Marks(j, "processing") /\ Starts(r, "extract", j, TRUE) /\ Alone(r)
    /\ UNCHANGED <<records, disk, store, blocks, skipped, current, erased>>
Withdraws(t, name) ==
    /\ store' = {p \in store : ~(p.kind = "topic" /\ p.topic = t /\ p.name = name)}
    /\ current' = Undisturbed(t, {name})
    /\ \A q \in Run : Soiled(q, t)
    /\ UNCHANGED <<jobs, records, disk, blocks, skipped, erased>>
Erases(t) ==
    /\ erased' = erased \cup {t} /\ blocks' = [blocks EXCEPT ![t] = <<>>]
    /\ UNCHANGED <<jobs, records, disk, store, run, skipped, current>>
Clears ==
    /\ \A j \in Job : disk'[j] \subseteq disk[j]
    /\ records' \subseteq records
    /\ UNCHANGED <<jobs, store, blocks, run, skipped, current, erased>>
Restarts ==
    /\ \A r \in Run : run'[r] = Idle
    /\ UNCHANGED <<jobs, records, disk, store, blocks, skipped, current, erased>>

Changes ==
    \/ \E r \in Run : Effect(r)
    \/ \E r \in Run, j \in Job : Posts(r, j) \/ Chats(r, j) \/ Retriggers(r, j)
    \/ \E t \in Topic : Erases(t) \/ \E name : Withdraws(t, name)
    \/ Clears \/ Restarts

DataShape == disk = [j \in Job |-> disk[j]] /\ blocks = [t \in Topic |-> blocks[t]]

LEMMA ShapeParts == Shape <=> RunShape /\ JobShape /\ DataShape
BY DEF Shape, RunShape, JobShape, DataShape

LEMMA Grounded ==
    ASSUME PlaceInv, NEW r \in Run
    PROVE  /\ RunShape /\ JobShape /\ DataShape
           /\ run[r].pc # "idle" => (run[r].job \in Job /\ Stands(r) /\ Born(run[r].job))
<1>1. RunShape /\ JobShape /\ DataShape
  BY ShapeParts DEF PlaceInv
<1>2. run[r].pc # "idle" => run[r] # Idle
  BY DEF Idle
<1> QED
  BY <1>1, <1>2 DEF PlaceInv, Placed

Took(r) == RunShape' /\ JobShape' /\ DataShape' /\ Effect(r)

LEMMA StepEffects ==
    ASSUME PlaceInv, NEW r \in Run, Step(r)
    PROVE  Took(r)
<1>0. RunShape /\ JobShape /\ DataShape /\ (run[r].pc # "idle" => run[r].job \in Job)
  BY Grounded
<1>1. CASE StoreFile(r)
  <2>1. /\ run[r].pc = "storing" /\ MoreFiles(r)
        /\ run' = [run EXCEPT ![r].file = @ + 1]
        /\ UNCHANGED <<jobs, records, store, blocks, skipped, current, erased>>
    BY <1>1 DEF StoreFile, At
  <2>2. RunShape' /\ LET l == run[r] IN Goes(r, l.pc, l.file + 1, l.chunks, l.chunk, l.clean)
    BY <1>0, <2>1, FilePut
  <2>3. disk' = [disk EXCEPT ![run[r].job] =
                    {g \in @ : g.name # Upload(r).files[run[r].file].name}
                        \cup {Upload(r).files[run[r].file]}]
    BY <1>1 DEF StoreFile
  <2>4. JobShape' /\ DataShape'
    BY <1>0, <2>1, <2>3 DEF JobShape, DataShape
  <2>5. Saves(r)
    BY <2>1, <2>2, <2>3 DEF Saves
  <2> QED
    BY <2>1, <2>2, <2>4, <2>5 DEF Took, Effect
<1>2. CASE Insert(r)
  <2> DEFINE kind == Upload(r).kind
  <2>1. /\ run[r].pc = "storing"
        /\ UNCHANGED <<disk, store, blocks, skipped, current, erased>>
    BY <1>2 DEF Insert, At
  <2>2. DataShape' /\ run[r].pc # "idle" /\ run[r].job \in Job
    BY <1>0, <2>1 DEF DataShape
  <2>3. CASE kind = "document"
    <3>1. records' = records \cup {run[r].job} /\ UNCHANGED jobs /\ Over(r)
      BY <1>2, <2>3 DEF Insert, Over
    <3>2. RunShape' /\ Frees(r) /\ JobShape'
      BY <1>0, <3>1, Freed DEF JobShape
    <3> QED
      BY <2>1, <2>2, <2>3, <3>1, <3>2 DEF Took, Effect, Enlists
  <2>4. CASE kind # "document"
    <3>1. /\ UNCHANGED records
          /\ run' = [run EXCEPT ![r] = [@ EXCEPT !.pc = "extract", !.file = 1]]
      BY <1>2, <2>4 DEF Insert
    <3>2. RunShape' /\ LET l == run[r] IN Goes(r, "extract", 1, l.chunks, l.chunk, l.clean)
      BY <1>0, <3>1, ExtractPut
    <3>3. JobShape' /\ IF kind = "ingest" THEN Marks(run[r].job, "processing") ELSE UNCHANGED jobs
      <4>1. CASE kind = "ingest"
        <5>1. jobs' = [jobs EXCEPT ![run[r].job].status = "processing"]
          BY <1>2, <4>1 DEF Insert
        <5> QED
          BY <1>0, <2>2, <4>1, <5>1, StatusMarks
      <4>2. CASE kind # "ingest"
        BY <1>0, <1>2, <4>2 DEF Insert, JobShape
      <4> QED
        BY <4>1, <4>2
    <3> QED
      BY <2>1, <2>2, <2>4, <3>1, <3>2, <3>3 DEF Took, Effect, Enlists
  <2> QED
    BY <2>3, <2>4
<1>3. CASE Push(r)
  <2> DEFINE t == Upload(r).topic
             f == Upload(r).files[1]
  <2>1. /\ run[r].pc = "push"
        /\ UNCHANGED <<records, disk, store, skipped, current, erased>>
    BY <1>3 DEF Push, At
  <2>2. run[r].pc # "idle" /\ run[r].job \in Job
    BY <1>0, <2>1
  <2>3. CASE Blank(Text(f))
    <3>1. jobs' = [jobs EXCEPT ![run[r].job].status = "failed"] /\ Over(r) /\ UNCHANGED blocks
      BY <1>3, <2>3 DEF Push, SetStatus
    <3>2. RunShape' /\ Frees(r) /\ JobShape' /\ Marks(run[r].job, "failed")
      BY <1>0, <2>2, <3>1, Freed, StatusMarks
    <3>3. DataShape'
      BY <1>0, <2>1, <3>1 DEF DataShape
    <3> QED
      BY <2>1, <2>2, <3>1, <3>2, <3>3 DEF Took, Effect, Ends
  <2>4. CASE ~Blank(Text(f))
    <3>1. blocks' = [blocks EXCEPT ![t] = Append(@, f)] /\ Goto(r, "ready") /\ UNCHANGED jobs
      BY <1>3, <2>4 DEF Push, Pushed
    <3>2. RunShape' /\ Moves(r, "ready") /\ JobShape'
      BY <1>0, <3>1, GotoMoves DEF JobShape
    <3>3. DataShape'
      BY <1>0, <2>1, <3>1 DEF DataShape
    <3> QED
      BY <2>1, <2>2, <2>4, <3>1, <3>2, <3>3 DEF Took, Effect, Shows
  <2> QED
    BY <2>3, <2>4
<1>4. CASE Ready(r)
  <2>1. /\ run[r].pc = "ready" /\ Over(r)
        /\ jobs' = [jobs EXCEPT ![run[r].job].status = "done"]
        /\ UNCHANGED <<records, disk, store, blocks, skipped, current, erased>>
    BY <1>4 DEF Ready, At, SetStatus
  <2>2. RunShape' /\ Frees(r) /\ JobShape' /\ Marks(run[r].job, "done")
    BY <1>0, <2>1, Freed, StatusMarks
  <2>3. DataShape'
    BY <1>0, <2>1 DEF DataShape
  <2> QED
    BY <2>1, <2>2, <2>3 DEF Took, Effect, Ends
<1>5. CASE Extract(r)
  <2>1. /\ run[r].pc = "extract" /\ MoreFiles(r)
        /\ UNCHANGED <<jobs, records, disk, store, blocks, skipped, current, erased>>
    BY <1>5 DEF Extract, At
  <2>2. JobShape' /\ DataShape'
    BY <1>0, <2>1 DEF JobShape, DataShape
  <2>3. CASE (Found(r) = {} \/ ~File(r).readable) /\ Upload(r).kind = "topic"
    <3>1. NextFile(r)
      BY <1>5, <2>3 DEF Extract, Stopped
    <3>2. RunShape' /\ Turns(r, run[r].clean)
      BY <1>0, <3>1, NextFileTurns
    <3> QED
      BY <2>1, <2>2, <2>3, <3>2 DEF Took, Effect, Passes
  <2>4. CASE (Found(r) = {} \/ ~File(r).readable) /\ Upload(r).kind # "topic"
    <3>1. Goto(r, "raised")
      BY <1>5, <2>4 DEF Extract, Stopped
    <3>2. RunShape' /\ Moves(r, "raised")
      BY <1>0, <3>1, GotoMoves
    <3>3. Upload(r).kind = "ingest"
      BY <2>1, <2>4 DEF PlaceInv, Placed, Stands, Idle
    <3> QED
      BY <2>1, <2>2, <3>2, <3>3 DEF Took, Effect, Breaks
  <2>5. CASE ~(Found(r) = {} \/ ~File(r).readable) /\ ChunkTable[File(r)] = <<>>
    <3>1. NextFile(r)
      BY <1>5, <2>5 DEF Extract
    <3>2. RunShape' /\ Turns(r, run[r].clean)
      BY <1>0, <3>1, NextFileTurns
    <3> QED
      BY <2>1, <2>2, <2>5, <3>2 DEF Took, Effect, Passes
  <2>6. CASE ~(Found(r) = {} \/ ~File(r).readable) /\ ChunkTable[File(r)] # <<>>
    <3> DEFINE x == ChunkTable[File(r)]
    <3>1. run' = [run EXCEPT ![r].pc = "embed", ![r].chunks = x]
      BY <1>5, <2>6 DEF Extract
    <3>2. RunShape' /\ LET l == run[r] IN Goes(r, "embed", l.file, x, l.chunk, l.clean)
      <4> HIDE DEF x
      <4> QED
        BY <1>0, <3>1, EmbedPut
    <3> QED
      BY <2>1, <2>2, <2>6, <3>2 DEF Took, Effect, Loads
  <2> QED
    BY <2>3, <2>4, <2>5, <2>6
<1>6. CASE Embed(r)
  <2>1. /\ run[r].pc = "embed" /\ store' = Upserted(r) /\ AfterChunk(r)
        /\ UNCHANGED <<jobs, records, disk, blocks, skipped, erased>>
    BY <1>6 DEF Embed, At
  <2>2. JobShape' /\ DataShape'
    BY <1>0, <2>1 DEF JobShape, DataShape
  <2>3. RunShape' /\ LET l == run[r] IN
                     IF LastChunk(r) THEN Turns(r, l.clean)
                     ELSE Goes(r, l.pc, l.file, l.chunks, l.chunk + 1, l.clean)
    BY <1>0, <2>1, AfterChunkPut
  <2>4. Embeds(r)
    BY <1>6, <2>1, <2>3 DEF Embed, Embeds
  <2> QED
    BY <2>1, <2>2, <2>3, <2>4 DEF Took, Effect
<1>7. CASE Complete(r)
  <2>1. /\ run[r].pc = "extract" /\ ~MoreFiles(r) /\ Over(r)
        /\ UNCHANGED <<records, disk, store, blocks, skipped, current, erased>>
    BY <1>7 DEF Complete, At
  <2>2. DataShape' /\ RunShape' /\ Frees(r) /\ run[r].job \in Job
    BY <1>0, <2>1, Freed DEF DataShape
  <2>3. CASE Upload(r).kind = "ingest"
    <3>1. jobs' = [jobs EXCEPT ![run[r].job].status = "completed"]
      BY <1>7, <2>3 DEF Complete, SetStatus
    <3>2. JobShape' /\ Marks(run[r].job, "completed")
      BY <1>0, <2>2, <3>1, StatusMarks
    <3> QED
      BY <2>1, <2>2, <2>3, <3>2 DEF Took, Effect, Ends
  <2>4. CASE Upload(r).kind # "ingest"
    <3>1. UNCHANGED jobs
      BY <1>7, <2>4 DEF Complete
    <3>2. JobShape'
      BY <1>0, <3>1 DEF JobShape
    <3> QED
      BY <2>1, <2>2, <3>1, <3>2 DEF Took, Effect, Leaves
  <2> QED
    BY <2>3, <2>4
<1>8. CASE Catch(r)
  <2>1. /\ run[r].pc = "raised" /\ Over(r)
        /\ jobs' = [jobs EXCEPT ![run[r].job].status = "failed"]
        /\ UNCHANGED <<records, disk, store, blocks, skipped, current, erased>>
    BY <1>8 DEF Catch, At, SetStatus
  <2>2. RunShape' /\ Frees(r) /\ JobShape' /\ Marks(run[r].job, "failed")
    BY <1>0, <2>1, Freed, StatusMarks
  <2>3. DataShape'
    BY <1>0, <2>1 DEF DataShape
  <2> QED
    BY <2>1, <2>2, <2>3 DEF Took, Effect, Ends
<1> QED
  BY <1>1, <1>2, <1>3, <1>4, <1>5, <1>6, <1>7, <1>8 DEF Step

LEMMA FailureEffects ==
    ASSUME PlaceInv, NEW r \in Run, Failure(r)
    PROVE  Took(r)
<1>0. RunShape /\ JobShape /\ DataShape /\ (run[r].pc # "idle" => run[r].job \in Job)
  BY Grounded
<1>1. CASE PushFails(r)
  <2> DEFINE t == Upload(r).topic
             f == Upload(r).files[1]
  <2>1. /\ run[r].pc = "push" /\ Goto(r, "raised")
        /\ UNCHANGED <<jobs, records, disk, store, skipped, current, erased>>
    BY <1>1 DEF PushFails, At
  <2>2. \/ UNCHANGED blocks
        \/ ~Blank(Text(f)) /\ blocks' = [blocks EXCEPT ![t] = Append(@, f)]
    BY <1>1 DEF PushFails, Pushed
  <2>3. RunShape' /\ Moves(r, "raised") /\ JobShape'
    BY <1>0, <2>1, GotoMoves DEF JobShape
  <2>4. DataShape'
    BY <1>0, <2>1, <2>2 DEF DataShape
  <2> QED
    BY <2>1, <2>2, <2>3, <2>4 DEF Took, Effect, Breaks
<1>2. CASE EmbedSkipped(r)
  <2>1. /\ run[r].pc = "embed" /\ skipped' = skipped \cup {run[r].job}
        /\ UNCHANGED <<jobs, records, disk, store, blocks, current, erased>>
        /\ run' = [run EXCEPT ![r] =
                     LET dirty == [run[r] EXCEPT !.clean = FALSE] IN
                     IF LastChunk(r)
                     THEN [dirty EXCEPT !.file = @ + 1, !.pc = "extract", !.chunks = <<>>,
                                        !.chunk = 1]
                     ELSE [dirty EXCEPT !.chunk = @ + 1]]
    BY <1>2 DEF EmbedSkipped, At
  <2>2. JobShape' /\ DataShape'
    BY <1>0, <2>1 DEF JobShape, DataShape
  <2>3. RunShape' /\ LET l == run[r] IN
                     IF LastChunk(r) THEN Turns(r, FALSE)
                     ELSE Goes(r, l.pc, l.file, l.chunks, l.chunk + 1, FALSE)
    BY <1>0, <2>1, SkippedPut
  <2> QED
    BY <2>1, <2>2, <2>3 DEF Took, Effect, Skips
<1>3. CASE EmbedFails(r)
  <2>1. /\ run[r].pc = "embed" /\ store' \in {store, Upserted(r)} /\ Stopped(r)
        /\ UNCHANGED <<jobs, records, disk, blocks, skipped, current, erased>>
    BY <1>3 DEF EmbedFails, At
  <2>2. JobShape' /\ DataShape'
    BY <1>0, <2>1 DEF JobShape, DataShape
  <2>3. /\ RunShape'
        /\ IF Upload(r).kind = "topic" THEN Turns(r, run[r].clean) ELSE Moves(r, "raised")
    BY <1>0, <2>1, NextFileTurns, GotoMoves DEF Stopped
  <2> QED
    BY <2>1, <2>2, <2>3 DEF Took, Effect, Loses
<1>4. CASE Raises(r)
  <2>1. UNCHANGED <<jobs, records, disk, store, blocks, skipped, current, erased>>
    BY <1>4 DEF Raises
  <2>2. JobShape' /\ DataShape'
    BY <1>0, <2>1 DEF JobShape, DataShape
  <2>3. CASE run[r].pc = "storing" /\ Over(r)
    BY <1>0, <2>1, <2>2, <2>3, Freed DEF Took, Effect, Leaves
  <2>4. CASE (run[r].pc = "ready" \/ (run[r].pc = "extract" /\ Upload(r).kind = "ingest"))
              /\ Goto(r, "raised")
    <3>1. RunShape' /\ Moves(r, "raised")
      BY <1>0, <2>4, GotoMoves
    <3> QED
      BY <2>1, <2>2, <2>4, <3>1 DEF Took, Effect, Breaks
  <2> QED
    BY <1>4, <2>3, <2>4 DEF Raises, At
<1>5. CASE CatchFails(r)
  <2>1. /\ run[r].pc = "raised" /\ Over(r)
        /\ UNCHANGED <<jobs, records, disk, store, blocks, skipped, current, erased>>
    BY <1>5 DEF CatchFails, At
  <2>2. JobShape' /\ DataShape'
    BY <1>0, <2>1 DEF JobShape, DataShape
  <2> QED
    BY <1>0, <2>1, <2>2, Freed DEF Took, Effect, Leaves
<1> QED
  BY <1>1, <1>2, <1>3, <1>4, <1>5 DEF Failure

LEMMA SoilsAll ==
    ASSUME RunShape, NEW t
    PROVE  /\ Disturbed(t) = [q \in Run |-> Disturbed(t)[q]]
           /\ \A q \in Run : /\ IsRun(Disturbed(t)[q])
                             /\ Disturbed(t)[q] = IF Concerns(q, t) THEN Dirty(run[q]) ELSE run[q]
<1>1. \A q \in Run : Disturbed(t)[q] = IF Concerns(q, t) THEN [run[q] EXCEPT !.clean = FALSE]
                                                          ELSE run[q]
  BY DEF Disturbed
<1>2. \A q \in Run : [run[q] EXCEPT !.clean = FALSE] = Dirty(run[q])
  BY Dirtied DEF RunShape, Dirty
<1>3. \A q \in Run : IsRun(Dirty(run[q]))
  <2>1. TAKE q \in Run
  <2>2. PICK no : no = FALSE
    BY Zenon
  <2>3. IsRun(Locals(run[q].pc, run[q].job, run[q].file, run[q].chunks, run[q].chunk, no))
    BY LocalFields
  <2> QED
    BY <2>2, <2>3, Zenon DEF Dirty
<1>4. \A q \in Run : Disturbed(t)[q] = IF Concerns(q, t) THEN Dirty(run[q]) ELSE run[q]
  BY <1>1, <1>2
<1>5. \A q \in Run : IsRun(Disturbed(t)[q])
  BY <1>3, <1>4 DEF RunShape
<1> QED
  BY <1>4, <1>5 DEF Disturbed

LEMMA SoilsOthers ==
    ASSUME RunShape, NEW t, NEW r \in Run, NEW m, IsRun(m),
           run' = [Disturbed(t) EXCEPT ![r] = m]
    PROVE  RunShape' /\ run'[r] = m /\ \A q \in Run \ {r} : Soiled(q, t)
<1>1. run' = [q \in Run |-> IF q = r THEN m ELSE Disturbed(t)[q]]
  BY SoilsAll
<1>2. \A q \in Run : run'[q] = IF q = r THEN m ELSE Disturbed(t)[q]
  BY <1>1
<1>3. \A q \in Run : IsRun(run'[q])
  BY <1>2, SoilsAll
<1>4. run' = [q \in Run |-> run'[q]]
  BY <1>1, <1>2
<1>5. \A q \in Run \ {r} : Soiled(q, t)
  BY <1>2, SoilsAll DEF Soiled
<1> QED
  BY <1>2, <1>3, <1>4, <1>5 DEF RunShape

LEMMA StartIsRun ==
    ASSUME NEW pc, NEW j, NEW clean
    PROVE  IsRun(Locals(pc, j, 1, <<>>, 1, clean))
BY LocalFields

LEMMA PostMoves ==
    ASSUME PlaceInv, NEW r \in Run, NEW j \in Job, NEW t \in Topic, NEW files \in Batches,
           NEW kind \in {"ingest", "topic", "document"}, Post(r, j, kind, t, files)
    PROVE  RunShape' /\ JobShape' /\ DataShape' /\ Posts(r, j)
<1> DEFINE others == \E q \in Run : kind = "topic" /\ Concerns(q, t)
           names == IF kind = "topic" THEN {f.name : f \in ToSet(files)} ELSE {}
           m == [Idle EXCEPT !.pc = "storing", !.job = j, !.clean = ~others]
<1>1. /\ run[r].pc = "idle" /\ jobs[j] = NoJob /\ Valid(files) # <<>>
      /\ jobs' = [jobs EXCEPT ![j] = [NoJob EXCEPT !.kind = kind, !.topic = t,
                                                   !.files = Valid(files)]]
      /\ run' = [(IF others THEN Disturbed(t) ELSE run) EXCEPT ![r] = m]
      /\ current' = Undisturbed(t, names)
      /\ UNCHANGED <<records, disk, store, blocks, skipped, erased>>
  BY DEF Post, At
<1>2. RunShape /\ JobShape /\ DataShape
  BY Grounded
<1>3. JobShape' /\ Sets(j, Record(kind, t, "none", Valid(files)))
  BY <1>1, <1>2, NewRecord
<1>4. DataShape'
  BY <1>1, <1>2 DEF DataShape
<1>5. PICK clean : clean = ~others
  BY Zenon
<1>6. m = Locals("storing", j, 1, <<>>, 1, clean)
  <2>1. PICK yes : yes = TRUE
    BY Zenon
  <2>2. [Idle EXCEPT !.pc = "storing", !.job = j] = Locals("storing", j, 1, <<>>, 1, yes)
    BY <2>1, StartLocals, Zenon
  <2>3. [Locals("storing", j, 1, <<>>, 1, yes) EXCEPT !.clean = clean]
           = Locals("storing", j, 1, <<>>, 1, clean)
    BY PutClean
  <2>4. [Idle EXCEPT !.pc = "storing", !.job = j, !.clean = clean]
           = Locals("storing", j, 1, <<>>, 1, clean)
    BY <2>2, <2>3
  <2> QED
    BY <1>5, <2>4, Zenon
<1>7. IsRun(m)
  BY <1>6, StartIsRun
<1>8. m = Locals("storing", j, 1, <<>>, 1, ~others)
  BY <1>5, <1>6, Zenon
<1> HIDE DEF m
<1>9. CASE others
  <2>1. run' = [Disturbed(t) EXCEPT ![r] = m]
    BY <1>1, <1>9
  <2>2. RunShape' /\ run'[r] = m /\ \A q \in Run \ {r} : Soiled(q, t)
    BY <1>2, <1>7, <2>1, SoilsOthers
  <2>3. kind = "topic"
    BY <1>9
  <2>4. PostsAs(r, j, kind, t, files)
    BY <1>1, <1>3, <1>8, <2>2, <2>3, Zenon DEF PostsAs, Starts
  <2> QED
    BY <1>3, <1>4, <2>2, <2>4 DEF Posts
<1>10. CASE ~others
  <2>1. run' = [run EXCEPT ![r] = m]
    BY <1>1, <1>10
  <2>2. RunShape' /\ run'[r] = m /\ Alone(r)
    BY <1>2, <1>7, <2>1, OneRun DEF Becomes
  <2>3. kind = "topic" => \A q \in Run \ {r} : Soiled(q, t)
    BY <1>10, <2>2, Zenon DEF Soiled, Alone
  <2>4. PostsAs(r, j, kind, t, files)
    BY <1>1, <1>3, <1>8, <2>2, <2>3, Zenon DEF PostsAs, Starts
  <2> QED
    BY <1>3, <1>4, <2>2, <2>4 DEF Posts
<1> QED
  BY <1>9, <1>10

LEMMA ChatMoves ==
    ASSUME PlaceInv, NEW r \in Run, NEW j \in Job, NEW t \in Topic, NEW f \in Files,
           PostSession(r, j, t, f)
    PROVE  RunShape' /\ JobShape' /\ DataShape' /\ Chats(r, j)
<1> DEFINE d == Record("session", t, "processing", <<f>>)
           m == [Idle EXCEPT !.pc = "push", !.job = j]
<1>1. /\ run[r].pc = "idle" /\ jobs[j] = NoJob
      /\ jobs' = [jobs EXCEPT ![j] = d] /\ run' = [run EXCEPT ![r] = m]
      /\ UNCHANGED <<records, disk, store, blocks, skipped, current, erased>>
  BY DEF PostSession, At, Record
<1>2. RunShape /\ JobShape /\ DataShape
  BY Grounded
<1>3. IsJob(d)
  BY RecordFields
<1>4. m = Locals("push", j, 1, <<>>, 1, TRUE)
  BY StartLocals, Zenon
<1>5. PICK yes : yes = TRUE
  BY Zenon
<1>6. m = Locals("push", j, 1, <<>>, 1, yes)
  BY <1>4, <1>5, Zenon
<1>7. IsRun(m)
  BY <1>6, StartIsRun
<1> HIDE DEF m, d
<1>8. JobShape' /\ Sets(j, d) /\ RunShape' /\ run'[r] = m /\ Alone(r)
  BY <1>1, <1>2, <1>3, <1>7, OneJob, OneRun DEF Becomes
<1>9. DataShape'
  BY <1>1, <1>2 DEF DataShape
<1>10. Starts(r, "push", j, TRUE)
  BY <1>4, <1>8, Zenon DEF Starts
<1> QED
  BY <1>1, <1>8, <1>9, <1>10 DEF Chats, d

LEMMA TriggerMoves ==
    ASSUME PlaceInv, NEW r \in Run, NEW j \in Job, Trigger(r, j)
    PROVE  RunShape' /\ JobShape' /\ DataShape' /\ Retriggers(r, j)
<1> DEFINE m == [Idle EXCEPT !.pc = "extract", !.job = j]
<1>1. /\ run[r].pc = "idle" /\ jobs[j].kind = "ingest"
      /\ jobs' = [jobs EXCEPT ![j].status = "processing"] /\ run' = [run EXCEPT ![r] = m]
      /\ UNCHANGED <<records, disk, store, blocks, skipped, current, erased>>
  BY DEF Trigger, At, SetStatus
<1>2. RunShape /\ JobShape /\ DataShape
  BY Grounded
<1>3. m = Locals("extract", j, 1, <<>>, 1, TRUE)
  BY StartLocals, Zenon
<1>4. PICK yes : yes = TRUE
  BY Zenon
<1>5. m = Locals("extract", j, 1, <<>>, 1, yes)
  BY <1>3, <1>4, Zenon
<1>6. IsRun(m)
  BY <1>5, StartIsRun
<1> HIDE DEF m
<1>7. JobShape' /\ Marks(j, "processing") /\ RunShape' /\ run'[r] = m /\ Alone(r)
  BY <1>1, <1>2, <1>6, StatusMarks, OneRun DEF Becomes
<1>8. DataShape'
  BY <1>1, <1>2 DEF DataShape
<1>9. Starts(r, "extract", j, TRUE)
  BY <1>3, <1>7, Zenon DEF Starts
<1> QED
  BY <1>1, <1>7, <1>8, <1>9 DEF Retriggers

LEMMA FirstFile ==
    ASSUME NEW files \in Batches
    PROVE  files[1] \in Files /\ files[1] \in ToSet(files) /\ ToSet(files) \subseteq Files
<1>1. files # <<>> /\ files \in Seq(ToSet(files))
  BY FileAssumption
<1>2. 1 \in DOMAIN files
  BY <1>1
<1> QED
  BY <1>2 DEF ToSet, Files

\* Every step is one of the changes.
LEMMA StepMoves ==
    ASSUME PlaceInv, [Next]_vars
    PROVE  Shape' /\ (Changes \/ UNCHANGED vars)
<1> DEFINE Shaped == RunShape' /\ JobShape' /\ DataShape'
<1>0. Shaped => Shape'
  BY DEF RunShape, JobShape, DataShape, Shape
<1>a. Shape /\ RunShape /\ JobShape /\ DataShape
  BY ShapeParts DEF PlaceInv
<1>1. ASSUME NEW r \in Run, Step(r) \/ Failure(r)
      PROVE  Shaped /\ Changes
  BY <1>1, StepEffects, FailureEffects DEF Took, Changes
<1>2. ASSUME NEW r \in Run, Request(r)
      PROVE  Shaped /\ Changes
  <2>1. PICK j \in Job :
          \/ Trigger(r, j)
          \/ \E t \in Topic, files \in Batches :
                \/ \E kind \in {"ingest", "topic", "document"} : Post(r, j, kind, t, files)
                \/ PostSession(r, j, t, files[1])
    BY <1>2 DEF Request
  <2>2. CASE Trigger(r, j)
    BY <2>2, TriggerMoves DEF Changes
  <2>3. CASE \E t \in Topic, files \in Batches :
                \/ \E kind \in {"ingest", "topic", "document"} : Post(r, j, kind, t, files)
                \/ PostSession(r, j, t, files[1])
    <3>1. PICK t \in Topic, files \in Batches :
             \/ \E kind \in {"ingest", "topic", "document"} : Post(r, j, kind, t, files)
             \/ PostSession(r, j, t, files[1])
      BY <2>3
    <3>2. CASE \E kind \in {"ingest", "topic", "document"} : Post(r, j, kind, t, files)
      BY <3>2, PostMoves DEF Changes
    <3>3. CASE PostSession(r, j, t, files[1])
      BY <3>3, FirstFile, ChatMoves DEF Changes
    <3> QED
      BY <3>1, <3>2, <3>3
  <2> QED
    BY <2>1, <2>2, <2>3
<1>3. ASSUME Removal
      PROVE  Shaped /\ Changes
  <2>1. ASSUME NEW t \in Topic, DeleteTopic(t)
        PROVE  Shaped /\ Changes
    <3>1. Erases(t)
      BY <2>1 DEF DeleteTopic, Erases
    <3>2. Shaped
      BY <1>a, <3>1 DEF Erases, RunShape, JobShape, DataShape
    <3> QED
      BY <3>1, <3>2 DEF Changes
  <2>2. ASSUME NEW t \in Topic, NEW name, DeleteDocument(t, name)
        PROVE  Shaped /\ Changes
    <3>1. /\ store' = {p \in store : ~(p.kind = "topic" /\ p.topic = t /\ p.name = name)}
          /\ current' = Undisturbed(t, {name}) /\ run' = Disturbed(t)
          /\ UNCHANGED <<jobs, records, disk, blocks, skipped, erased>>
      BY <2>2 DEF DeleteDocument
    <3>2. RunShape' /\ \A q \in Run : Soiled(q, t)
      BY <1>a, <3>1, SoilsAll DEF RunShape, Soiled
    <3>3. JobShape' /\ DataShape'
      BY <1>a, <3>1 DEF JobShape, DataShape
    <3>4. Withdraws(t, name)
      BY <3>1, <3>2 DEF Withdraws
    <3> QED
      BY <3>2, <3>3, <3>4 DEF Changes
  <2>3. ASSUME NEW j \in Job, Expire(j) \/ SweepLook(j)
        PROVE  Shaped /\ Changes
    <3>1. Clears
      BY <2>3 DEF Expire, SweepLook, Clears
    <3>2. UNCHANGED <<run, jobs, disk, blocks>>
      BY <2>3 DEF Expire, SweepLook
    <3>3. Shaped
      BY <1>a, <3>2 DEF RunShape, JobShape, DataShape
    <3> QED
      BY <3>1, <3>3 DEF Changes
  <2>4. ASSUME SweepRemove
        PROVE  Shaped /\ Changes
    <3>1. /\ disk' = IF sweep.orphan THEN [disk EXCEPT ![sweep.job] = {}] ELSE disk
          /\ UNCHANGED <<jobs, records, store, blocks, run, skipped, current, erased>>
      BY <2>4 DEF SweepRemove
    <3>2. Shaped
      BY <1>a, <3>1 DEF RunShape, JobShape, DataShape
    <3>3. \A j \in Job : disk'[j] \subseteq disk[j]
      BY <1>a, <3>1 DEF DataShape
    <3>4. Clears
      BY <3>1, <3>3 DEF Clears
    <3> QED
      BY <3>2, <3>4 DEF Changes
  <2> QED
    BY <1>3, <2>1, <2>2, <2>3, <2>4 DEF Removal
<1>4. ASSUME Restart
      PROVE  Shaped /\ Changes
  <2>1. /\ run' = [r \in Run |-> Idle]
        /\ UNCHANGED <<jobs, records, disk, store, blocks, skipped, current, erased>>
    BY <1>4 DEF Restart
  <2>2. IsRun(Idle)
    BY DEF Idle, IsRun, Locals
  <2>3. RunShape' /\ \A r \in Run : run'[r] = Idle
    BY <2>1, <2>2 DEF RunShape
  <2>4. JobShape' /\ DataShape'
    BY <1>a, <2>1 DEF JobShape, DataShape
  <2>5. Restarts
    BY <2>1, <2>3 DEF Restarts
  <2> QED
    BY <2>3, <2>4, <2>5 DEF Changes
<1>5. ASSUME UNCHANGED vars
      PROVE  Shape'
  BY <1>5, <1>a DEF vars, Shape
<1> QED
  BY <1>0, <1>1, <1>2, <1>3, <1>4, <1>5 DEF Next
-----------------------------------------------------------------------------
(* PlaceInv.                                                               *)

LEMMA DirtyFields ==
    ASSUME NEW l
    PROVE  /\ Dirty(l).pc = l.pc /\ Dirty(l).job = l.job /\ Dirty(l).file = l.file
           /\ Dirty(l).chunks = l.chunks /\ Dirty(l).chunk = l.chunk /\ ~Dirty(l).clean
BY SMT DEF Dirty, Locals

Cut(f) == ToSet(Windows(f.text)) \ {<<>>}

LEMMA TableSeq ==
    ASSUME NEW f \in Files
    PROVE  /\ DOMAIN ChunkTable = Files /\ ChunkTable[f] \in Seq(Cut(f))
           /\ Len(ChunkTable[f]) \in Nat /\ DOMAIN ChunkTable[f] = 1 .. Len(ChunkTable[f])
           /\ ChunkTable[f] # <<>> => Len(ChunkTable[f]) > 0
           /\ ~Blank(f.text) => ToSet(ChunkTable[f]) = Cut(f)
<1>1. DOMAIN ChunkTable = Files /\ ChunkTable[f] = ChunkText(f.text)
  BY DEF ChunkTable, Files
<1>2. ~Blank(f.text) => ChunkTable[f] \in Seq(Cut(f)) /\ ToSet(ChunkTable[f]) = Cut(f)
  <2>1. ASSUME ~Blank(f.text)
        PROVE  ChunkTable[f] = Those(Windows(f.text), Cut(f))
    BY <1>1, <2>1 DEF ChunkText, Cut
  <2>2. Windows(f.text) \in Seq(ToSet(Windows(f.text)))
    BY FileTexts, WindowsSeq
  <2>3. ToSet(Windows(f.text)) \cap Cut(f) = Cut(f)
    BY DEF Cut
  <2>4. PICK cut : cut = Cut(f)
    OBVIOUS
  <2>5. Those(Windows(f.text), cut) \in Seq(cut)
    BY <2>2, ThoseFound
  <2>6. ToSet(Those(Windows(f.text), cut)) = cut \cap ToSet(Windows(f.text))
    BY <2>2, ThoseFound
  <2> QED
    BY <2>1, <2>3, <2>4, <2>5, <2>6
<1>3. Blank(f.text) => ChunkTable[f] = <<>>
  BY <1>1 DEF ChunkText
<1>4. <<>> \in Seq(Cut(f))
  OBVIOUS
<1>5. ChunkTable[f] \in Seq(Cut(f))
  BY <1>2, <1>3, <1>4
<1> HIDE DEF Cut
<1>6. Len(ChunkTable[f]) \in Nat /\ DOMAIN ChunkTable[f] = 1 .. Len(ChunkTable[f])
  BY <1>5
<1>7. ChunkTable[f] # <<>> => Len(ChunkTable[f]) > 0
  BY <1>5
<1> QED
  BY <1>1, <1>2, <1>5, <1>6, <1>7

LEMMA ValidFiles ==
    ASSUME NEW files \in Batches
    PROVE  Valid(files) \in Seq(Files) /\ ToSet(Valid(files)) \subseteq ToSet(files)
<1>1. Valid(files) \in Seq(ToSet(files))
  <2> DEFINE good == {f \in ToSet(files) : f.valid}
  <2>1. Valid(files) = Those(files, good) /\ files \in Seq(ToSet(files))
    BY FileAssumption DEF Valid
  <2>2. good \subseteq ToSet(files)
    OBVIOUS
  <2> HIDE DEF good
  <2>3. Those(files, good) \in Seq(good)
    BY <2>1, ThoseFound
  <2> QED
    BY <2>1, <2>2, <2>3
<1>2. ToSet(files) \subseteq Files
  BY DEF Files
<1> QED
  BY <1>1, <1>2 DEF ToSet

SameUpload(j) ==
    jobs'[j].kind = jobs[j].kind /\ jobs'[j].topic = jobs[j].topic /\ jobs'[j].files = jobs[j].files
NewUpload(j) ==
    \E kind \in {"ingest", "topic", "document", "session"}, t \in Topic,
       status \in {"none", "processing"}, files \in Seq(Files) :
        files # <<>> /\ Sets(j, Record(kind, t, status, files))
\* What becomes of the jobs.
JobMoves ==
    \/ UNCHANGED jobs
    \/ \E j \in Job, s \in Status : jobs[j] # NoJob /\ Marks(j, s)
    \/ \E j \in Job : jobs[j] = NoJob /\ NewUpload(j)

LEMMA NotUnborn ==
    ASSUME NEW j \in Job, Born(j)
    PROVE  jobs[j] # NoJob
BY DEF Born, NoJob

LEMMA JobsMove ==
    ASSUME PlaceInv, Changes
    PROVE  JobMoves
<1>1. ASSUME NEW r \in Run, Effect(r)
      PROVE  JobMoves
  <2>1. run[r].job \in Job /\ jobs[run[r].job] # NoJob
    BY <1>1, Grounded, NotUnborn DEF Effect
  <2>2. CASE Saves(r) \/ Shows(r) \/ Leaves(r) \/ Breaks(r) \/ Passes(r) \/ Loads(r)
             \/ Embeds(r) \/ Skips(r) \/ Loses(r)
    BY <2>2 DEF JobMoves, Saves, Shows, Leaves, Breaks, Passes, Loads, Embeds, Skips, Loses
  <2>3. CASE Enlists(r)
    BY <2>1, <2>3 DEF Enlists, JobMoves, Status
  <2>4. CASE Ends(r)
    BY <2>1, <2>4 DEF Ends, JobMoves, Status
  <2> QED
    BY <1>1, <2>2, <2>3, <2>4 DEF Effect
<1>2. ASSUME NEW r \in Run, NEW j \in Job, Posts(r, j)
      PROVE  JobMoves
  <2>1. PICK kind \in {"ingest", "topic", "document"}, t \in Topic, files \in Batches :
          PostsAs(r, j, kind, t, files)
    BY <1>2 DEF Posts
  <2>2. /\ jobs[j] = NoJob /\ Valid(files) # <<>>
        /\ Sets(j, Record(kind, t, "none", Valid(files)))
    BY <2>1 DEF PostsAs
  <2>3. NewUpload(j)
    BY <2>2, ValidFiles DEF NewUpload
  <2> QED
    BY <2>2, <2>3 DEF JobMoves
<1>3. ASSUME NEW r \in Run, NEW j \in Job, Chats(r, j)
      PROVE  JobMoves
  <2>1. PICK t \in Topic, f \in Files :
          jobs[j] = NoJob /\ Sets(j, Record("session", t, "processing", <<f>>))
    BY <1>3 DEF Chats
  <2>2. <<f>> \in Seq(Files) /\ <<f>> # <<>>
    OBVIOUS
  <2>3. NewUpload(j)
    BY <2>1, <2>2 DEF NewUpload
  <2> QED
    BY <2>1, <2>3 DEF JobMoves
<1>4. ASSUME NEW r \in Run, NEW j \in Job, Retriggers(r, j)
      PROVE  JobMoves
  <2>1. jobs[j] # NoJob /\ Marks(j, "processing")
    BY <1>4 DEF Retriggers, NoJob
  <2> QED
    BY <2>1 DEF JobMoves, Status
<1> QED
  BY <1>1, <1>2, <1>3, <1>4 DEF Changes, Erases, Withdraws, Clears, Restarts, JobMoves

LEMMA UploadsKept ==
    ASSUME PlaceInv, Changes
    PROVE  \A j \in Job : Born(j) => SameUpload(j) /\ jobs'[j].status \in Status
<1> SUFFICES ASSUME NEW j \in Job, Born(j)
             PROVE  SameUpload(j) /\ jobs'[j].status \in Status
  OBVIOUS
<1>1. jobs[j] # NoJob /\ jobs[j].status \in Status
  BY NotUnborn DEF Born
<1>2. CASE UNCHANGED jobs
  BY <1>1, <1>2 DEF SameUpload
<1>3. ASSUME NEW k \in Job, NEW s \in Status, Marks(k, s)
      PROVE  SameUpload(j) /\ jobs'[j].status \in Status
  <2>1. CASE k = j
    BY <1>3, <2>1, RecordFields DEF Marks, Sets, SameUpload
  <2>2. CASE k # j
    BY <1>1, <1>3, <2>2 DEF Marks, Sets, OtherJobs, SameUpload
  <2> QED
    BY <2>1, <2>2
<1>4. ASSUME NEW k \in Job, jobs[k] = NoJob, NewUpload(k)
      PROVE  SameUpload(j) /\ jobs'[j].status \in Status
  <2>1. k # j
    BY <1>1, <1>4
  <2> QED
    BY <1>1, <1>4, <2>1 DEF NewUpload, Sets, OtherJobs, SameUpload
<1> QED
  BY <1>2, <1>3, <1>4, JobsMove DEF JobMoves

\* What becomes of the directories.
DiskMoves ==
    \/ \A j \in Job : disk'[j] \subseteq disk[j]
    \/ \E r \in Run : run[r].pc # "idle" /\ Saves(r)

LEMMA DisksMove ==
    ASSUME Changes
    PROVE  DiskMoves
BY DEF Changes, Effect, Saves, Enlists, Shows, Ends, Leaves, Breaks, Passes, Loads, Embeds, Skips,
       Loses, Posts, PostsAs, Chats, Retriggers, Erases, Withdraws, Clears, Restarts, DiskMoves

\* A stored file is of the upload's list, and replaces its namesake.
LEMMA StoredFile ==
    ASSUME PlaceInv, NEW r \in Run, run[r].pc # "idle", Saves(r)
    PROVE  LET f == Upload(r).files[run[r].file]  j == run[r].job IN
           /\ f \in ToSet(jobs[j].files)
           /\ disk'[j] = {g \in disk[j] : g.name # f.name} \cup {f}
           /\ \A k \in Job \ {j} : disk'[k] = disk[k]
<1>1. run[r].job \in Job /\ Born(run[r].job) /\ DataShape /\ run[r].file \in Nat \ {0}
  BY Grounded DEF PlaceInv, Placed, Idle
<1>2. run[r].file \in DOMAIN Upload(r).files
  BY <1>1 DEF Saves, MoreFiles, Born, Upload
<1> QED
  BY <1>1, <1>2 DEF Saves, DataShape, ToSet, Upload

LEMMA DisksKept ==
    ASSUME PlaceInv, Changes
    PROVE  \A j \in Job :
              /\ Born(j) => /\ disk'[j] \subseteq ToSet(jobs[j].files)
                            /\ \A f, g \in disk'[j] : f.name = g.name => f = g
              /\ Unborn(j) => disk'[j] = {}
<1>1. CASE \A j \in Job : disk'[j] \subseteq disk[j]
  BY <1>1 DEF Born, Unborn
<1>2. ASSUME NEW r \in Run, run[r].pc # "idle", Saves(r)
      PROVE  \A j \in Job :
                /\ Born(j) => /\ disk'[j] \subseteq ToSet(jobs[j].files)
                              /\ \A f, g \in disk'[j] : f.name = g.name => f = g
                /\ Unborn(j) => disk'[j] = {}
  <2> DEFINE f == Upload(r).files[run[r].file]
             j == run[r].job
  <2>1. /\ f \in ToSet(jobs[j].files)
        /\ disk'[j] = {g \in disk[j] : g.name # f.name} \cup {f}
        /\ \A k \in Job \ {j} : disk'[k] = disk[k]
    BY <1>2, StoredFile
  <2>2. j \in Job /\ Born(j)
    BY <1>2, Grounded
  <2>3. ~Unborn(j)
    BY <2>2, NotUnborn DEF Unborn
  <2> HIDE DEF f, j
  <2>4. TAKE k \in Job
  <2>5. CASE k = j
    BY <2>1, <2>2, <2>3, <2>5 DEF Born
  <2>6. CASE k # j
    BY <2>1, <2>6 DEF Born, Unborn
  <2> QED
    BY <2>5, <2>6
<1> QED
  BY <1>1, <1>2, DisksMove DEF DiskMoves

LEMMA JobsBorn ==
    ASSUME PlaceInv, Changes
    PROVE  \A j \in Job : (Born(j) => Born(j)') /\ (Unborn(j)' \/ Born(j)')
<1>1. ASSUME NEW j \in Job, Born(j)
      PROVE  Born(j)'
  <2>1. /\ SameUpload(j) /\ jobs'[j].status \in Status
        /\ disk'[j] \subseteq ToSet(jobs[j].files)
        /\ \A f, g \in disk'[j] : f.name = g.name => f = g
    BY <1>1, UploadsKept, DisksKept
  <2> QED
    BY <1>1, <2>1 DEF Born, SameUpload
<1>2. ASSUME NEW j \in Job, Unborn(j)
      PROVE  Unborn(j)' \/ Born(j)'
  <2>1. jobs[j] = NoJob /\ disk'[j] = {}
    BY <1>2, DisksKept DEF Unborn
  <2>2. CASE UNCHANGED jobs
    BY <2>1, <2>2 DEF Unborn
  <2>3. ASSUME NEW k \in Job, jobs[k] # NoJob, NEW s, Marks(k, s)
        PROVE  Unborn(j)'
    BY <2>1, <2>3 DEF Marks, Sets, OtherJobs, Unborn
  <2>4. ASSUME NEW k \in Job, NewUpload(k)
        PROVE  Unborn(j)' \/ Born(j)'
    <3>1. CASE k # j
      BY <2>1, <2>4, <3>1 DEF NewUpload, Sets, OtherJobs, Unborn
    <3>2. CASE k = j
      <4>1. PICK kind \in {"ingest", "topic", "document", "session"}, t \in Topic,
                 status \in {"none", "processing"}, files \in Seq(Files) :
              files # <<>> /\ jobs'[j] = Record(kind, t, status, files)
        BY <2>4, <3>2 DEF NewUpload, Sets
      <4>2. /\ jobs'[j].kind = kind /\ jobs'[j].topic = t /\ jobs'[j].status = status
            /\ jobs'[j].files = files
        BY <4>1, RecordFields
      <4> QED
        BY <2>1, <4>1, <4>2 DEF Born, Status
    <3> QED
      BY <3>1, <3>2
  <2> QED
    BY <2>2, <2>3, <2>4, JobsMove DEF JobMoves
<1> QED
  BY <1>1, <1>2 DEF PlaceInv

\* A run that is left where it is, or only dirtied.
Stays(q) ==
    run'[q] = run[q] \/ (run[q].pc # "idle" /\ run'[q] = Dirty(run[q]))
StaysAt(q) ==
    /\ run'[q].pc = run[q].pc /\ run'[q].job = run[q].job /\ run'[q].file = run[q].file
    /\ run'[q].chunks = run[q].chunks /\ run'[q].chunk = run[q].chunk
    /\ run'[q].clean => run[q].clean

LEMMA StayingStays ==
    ASSUME NEW q \in Run, Stays(q)
    PROVE  StaysAt(q)
BY DirtyFields DEF Stays, StaysAt

LEMMA OthersStay ==
    ASSUME NEW r \in Run, NEW t, (\A q \in Run \ {r} : Soiled(q, t)) \/ Alone(r)
    PROVE  \A q \in Run \ {r} : Stays(q)
BY DEF Soiled, Alone, Stays, Concerns, At

LEMMA PlacedStays ==
    ASSUME PlaceInv, Changes, NEW q \in Run, Stays(q)
    PROVE  Placed(q)'
<1>1. CASE run[q].pc = "idle"
  <2>1. run[q] = Idle
    BY <1>1 DEF PlaceInv, Placed, Stands
  <2> QED
    BY <1>1, <2>1 DEF Stays, Placed
<1>2. CASE run[q].pc # "idle"
  <2>1. run[q].job \in Job /\ Born(run[q].job) /\ Stands(q) /\ run[q].file \in Nat \ {0}
    BY <1>2, Grounded DEF PlaceInv, Placed, Idle
  <2>2. PICK j \in Job : j = run[q].job
    BY <2>1
  <2>3. StaysAt(q) /\ Born(j)' /\ SameUpload(j)
    BY <2>1, <2>2, StayingStays, JobsBorn, UploadsKept
  <2>4. Stands(q)'
    BY <2>1, <2>2, <2>3 DEF StaysAt, Stands, SameUpload, Upload, MoreFiles
  <2> QED
    BY <2>1, <2>2, <2>3, <2>4 DEF StaysAt, Placed
<1> QED
  BY <1>1, <1>2

LEMMA FoundFile ==
    ASSUME PlaceInv, NEW r \in Run, run[r].pc # "idle", Found(r) # {}
    PROVE  /\ File(r) \in Found(r) /\ File(r) \in Files /\ File(r) \in ToSet(Upload(r).files)
           /\ \A g \in disk[run[r].job] : g.name = Path(r) => g = File(r)
<1>1. File(r) \in Found(r)
  BY DEF File
<1>2. run[r].job \in Job /\ Born(run[r].job)
  BY Grounded
<1>3. ToSet(Upload(r).files) \subseteq Files
  BY <1>2 DEF Born, Upload, ToSet
<1> QED
  BY <1>1, <1>2, <1>3 DEF Found, Born, Upload

\* A run that moves on with its own upload.
LEMMA GoesPlaced ==
    ASSUME PlaceInv, Changes, NEW r \in Run, run[r].pc # "idle",
           NEW pc, NEW file \in Nat \ {0}, NEW chunks, NEW chunk, NEW clean,
           Goes(r, pc, file, chunks, chunk, clean),
           LET kind == Upload(r).kind IN
           \/ pc = "storing" /\ chunk = 1 /\ kind \in {"ingest", "topic", "document"}
           \/ pc \in {"push", "ready"} /\ kind = "session"
           \/ pc = "extract" /\ chunk = 1 /\ kind \in {"ingest", "topic"}
           \/ /\ pc = "embed" /\ kind \in {"ingest", "topic"} /\ file <= Len(Upload(r).files)
              /\ chunk \in 1 .. Len(chunks) /\ \E f \in Files : chunks = ChunkTable[f]
           \/ pc = "raised" /\ kind \in {"ingest", "session"}
    PROVE  Placed(r)'
<1>1. run[r].job \in Job /\ Born(run[r].job)
  BY Grounded
<1>2. PICK j \in Job : j = run[r].job
  BY <1>1
<1>3. Born(j)' /\ SameUpload(j)
  BY <1>1, <1>2, JobsBorn, UploadsKept
<1>4. /\ run'[r].pc = pc /\ run'[r].job = j /\ run'[r].file = file
      /\ run'[r].chunks = chunks /\ run'[r].chunk = chunk
  BY <1>2, LocalFields DEF Goes, Becomes
<1>5. Upload(r)'.kind = Upload(r).kind /\ Upload(r)'.files = Upload(r).files
  BY <1>2, <1>3, <1>4 DEF SameUpload, Upload
<1>6. Stands(r)'
  BY <1>4, <1>5 DEF Stands, MoreFiles
<1> QED
  BY <1>3, <1>4, <1>6 DEF Placed

\* The run that takes an effect.
LEMMA EffectPlaced ==
    ASSUME PlaceInv, Changes, NEW r \in Run, Effect(r)
    PROVE  Placed(r)' /\ Alone(r)
<1> DEFINE l == run[r]
           kind == Upload(r).kind
<1>1. run[r].pc # "idle" /\ Stands(r) /\ run[r].file \in Nat \ {0}
  BY Grounded DEF Effect, PlaceInv, Placed, Idle
<1>2. Born(run[r].job) /\ run[r].job \in Job
  BY <1>1, Grounded
<1>3. Len(Upload(r).files) \in Nat
  BY <1>2 DEF Born, Upload
<1>4. ASSUME Frees(r)
      PROVE  Placed(r)' /\ Alone(r)
  BY <1>4 DEF Frees, Becomes, Placed
<1>5. ASSUME NEW clean, Turns(r, clean), kind \in {"ingest", "topic"}
      PROVE  Placed(r)' /\ Alone(r)
  <2>1. l.file + 1 \in Nat \ {0}
    BY <1>1
  <2>2. Goes(r, "extract", l.file + 1, <<>>, 1, clean)
    BY <1>5 DEF Turns
  <2>3. Alone(r)
    BY <2>2 DEF Goes, Becomes
  <2> QED
    BY <1>1, <1>5, <2>1, <2>2, <2>3, GoesPlaced
<1>6. CASE Saves(r)
  <2>1. /\ Goes(r, "storing", l.file + 1, l.chunks, l.chunk, l.clean)
        /\ l.file + 1 \in Nat \ {0}
        /\ l.chunk = 1 /\ kind \in {"ingest", "topic", "document"}
    BY <1>1, <1>6 DEF Saves, Stands
  <2>2. Alone(r)
    BY <2>1 DEF Goes, Becomes
  <2> QED
    BY <1>1, <2>1, <2>2, GoesPlaced
<1>7. CASE Enlists(r)
  <2>1. kind \in {"ingest", "topic", "document"} /\ l.chunk = 1
    BY <1>1, <1>7 DEF Enlists, Stands
  <2>2. CASE kind # "document"
    <3>1. Goes(r, "extract", 1, l.chunks, l.chunk, l.clean) /\ 1 \in Nat \ {0}
      BY <1>7, <2>2 DEF Enlists
    <3>2. Alone(r)
      BY <3>1 DEF Goes, Becomes
    <3> QED
      BY <1>1, <2>1, <2>2, <3>1, <3>2, GoesPlaced
  <2> QED
    BY <1>4, <1>7, <2>2 DEF Enlists
<1>8. CASE Shows(r)
  <2>1. Goes(r, "ready", l.file, l.chunks, l.chunk, l.clean) /\ kind = "session"
    BY <1>1, <1>8 DEF Shows, Moves, Stands
  <2>2. Alone(r)
    BY <2>1 DEF Goes, Becomes
  <2> QED
    BY <1>1, <2>1, <2>2, GoesPlaced
<1>9. CASE Ends(r) \/ Leaves(r)
  BY <1>4, <1>9 DEF Ends, Leaves
<1>10. CASE Breaks(r)
  <2>1. Goes(r, "raised", l.file, l.chunks, l.chunk, l.clean) /\ kind \in {"ingest", "session"}
    BY <1>1, <1>10 DEF Breaks, Moves, Stands
  <2>2. Alone(r)
    BY <2>1 DEF Goes, Becomes
  <2> QED
    BY <1>1, <2>1, <2>2, GoesPlaced
<1>11. CASE Passes(r)
  <2>1. Turns(r, l.clean) /\ kind \in {"ingest", "topic"}
    BY <1>1, <1>11 DEF Passes, Stands
  <2> QED
    BY <1>5, <2>1
<1>12. CASE Loads(r)
  <2> DEFINE cut == ChunkTable[File(r)]
  <2>1. /\ Goes(r, "embed", l.file, cut, l.chunk, l.clean) /\ kind \in {"ingest", "topic"}
        /\ l.file <= Len(Upload(r).files) /\ l.chunk = 1
    BY <1>1, <1>12 DEF Loads, Stands, MoreFiles
  <2>2. File(r) \in Files /\ Len(cut) \in Nat /\ Len(cut) > 0
    BY <1>1, <1>12, FoundFile, TableSeq DEF Loads
  <2>3. l.chunk \in 1 .. Len(cut) /\ \E f \in Files : cut = ChunkTable[f]
    BY <2>1, <2>2
  <2>4. Alone(r)
    BY <2>1 DEF Goes, Becomes
  <2> HIDE DEF cut
  <2> QED
    BY <1>1, <2>1, <2>3, <2>4, GoesPlaced
<1>13. CASE l.pc = "embed"
  <2>1. /\ kind \in {"ingest", "topic"} /\ l.file <= Len(Upload(r).files)
        /\ l.chunk \in 1 .. Len(l.chunks) /\ \E f \in Files : l.chunks = ChunkTable[f]
    BY <1>1, <1>13 DEF Stands, MoreFiles
  <2>2. Len(l.chunks) \in Nat
    BY <2>1, TableSeq
  <2>3. ASSUME NEW clean, ~LastChunk(r), Goes(r, "embed", l.file, l.chunks, l.chunk + 1, clean)
        PROVE  Placed(r)' /\ Alone(r)
    <3>1. l.chunk + 1 \in 1 .. Len(l.chunks)
      BY <2>1, <2>2, <2>3 DEF LastChunk
    <3>2. Alone(r)
      BY <2>3 DEF Goes, Becomes
    <3> QED
      BY <1>1, <2>1, <2>3, <3>1, <3>2, GoesPlaced
  <2>4. CASE Embeds(r)
    BY <1>5, <1>13, <2>1, <2>3, <2>4 DEF Embeds
  <2>5. CASE Skips(r)
    <3>1. PICK no : no = FALSE
      BY Zenon
    <3>2. IF LastChunk(r) THEN Turns(r, no)
          ELSE Goes(r, l.pc, l.file, l.chunks, l.chunk + 1, no)
      BY <2>5, <3>1, Zenon DEF Skips
    <3> QED
      BY <1>5, <1>13, <2>1, <2>3, <3>2
  <2>6. CASE Loses(r)
    <3>1. CASE kind = "topic"
      BY <1>5, <2>1, <2>6, <3>1 DEF Loses
    <3>2. CASE kind # "topic"
      <4>1. Goes(r, "raised", l.file, l.chunks, l.chunk, l.clean) /\ kind = "ingest"
        BY <2>1, <2>6, <3>2 DEF Loses, Moves
      <4>2. Alone(r)
        BY <4>1 DEF Goes, Becomes
      <4> QED
        BY <1>1, <4>1, <4>2, GoesPlaced
    <3> QED
      BY <3>1, <3>2
  <2>7. \/ Embeds(r) \/ Skips(r) \/ Loses(r) \/ Leaves(r)
    BY <1>13 DEF Effect, Saves, Enlists, Shows, Ends, Breaks, Passes, Loads
  <2> QED
    BY <1>9, <2>4, <2>5, <2>6, <2>7
<1> QED
  BY <1>6, <1>7, <1>8, <1>9, <1>10, <1>11, <1>12, <1>13 DEF Effect, Embeds, Skips, Loses

\* A run that starts.
LEMMA StartPlaced ==
    ASSUME NEW r \in Run, NEW j \in Job, NEW pc, NEW clean, Starts(r, pc, j, clean), Born(j)',
           LET kind == jobs'[j].kind IN
           \/ pc = "storing" /\ kind \in {"ingest", "topic", "document"}
           \/ pc = "push" /\ kind = "session"
           \/ pc = "extract" /\ kind = "ingest"
    PROVE  Placed(r)'
<1>1. /\ run'[r].pc = pc /\ run'[r].job = j /\ run'[r].file = 1 /\ run'[r].chunk = 1
  BY LocalFields DEF Starts
<1>2. Stands(r)'
  BY <1>1 DEF Stands, Upload
<1> QED
  BY <1>1, <1>2 DEF Placed

\* The request of a run: its upload, and what it does to the other runs.
LEMMA RequestPlaced ==
    ASSUME PlaceInv, Changes, NEW r \in Run, NEW j \in Job,
           Posts(r, j) \/ Chats(r, j) \/ Retriggers(r, j)
    PROVE  Placed(r)' /\ \A q \in Run \ {r} : Stays(q)
<1>1. ASSUME NEW d, Sets(j, d), IsJob(d), d.kind # "none"
      PROVE  Born(j)' /\ jobs'[j].kind = d.kind
  BY <1>1, JobsBorn DEF Sets, Unborn, NoJob
<1>2. PICK yes : yes = TRUE
  BY Zenon
<1>3. CASE Posts(r, j)
  <2>1. PICK kind \in {"ingest", "topic", "document"}, t \in Topic, files \in Batches :
          PostsAs(r, j, kind, t, files)
    BY <1>3 DEF Posts
  <2>2. PICK clean : clean = ~\E q \in Run : kind = "topic" /\ Concerns(q, t)
    BY Zenon
  <2>3. Starts(r, "storing", j, clean)
    BY <2>1, <2>2, Zenon DEF PostsAs
  <2>4. Sets(j, Record(kind, t, "none", Valid(files)))
    BY <2>1 DEF PostsAs
  <2>5. Born(j)' /\ jobs'[j].kind = kind
    BY <1>1, <2>4, RecordFields
  <2>6. \A q \in Run \ {r} : Stays(q)
    <3>1. (\A q \in Run \ {r} : Soiled(q, t)) \/ Alone(r)
      BY <2>1 DEF PostsAs
    <3> QED
      BY <3>1, OthersStay
  <2> QED
    BY <2>3, <2>5, <2>6, StartPlaced
<1>4. CASE Chats(r, j)
  <2>1. PICK t \in Topic, f \in Files :
          /\ Sets(j, Record("session", t, "processing", <<f>>))
          /\ Starts(r, "push", j, TRUE) /\ Alone(r)
    BY <1>4 DEF Chats
  <2>2. Starts(r, "push", j, yes)
    BY <1>2, <2>1, Zenon
  <2>3. Born(j)' /\ jobs'[j].kind = "session"
    BY <1>1, <2>1, RecordFields
  <2> QED
    BY <2>1, <2>2, <2>3, StartPlaced DEF Alone, Stays
<1>5. CASE Retriggers(r, j)
  <2>1. /\ Marks(j, "processing") /\ Starts(r, "extract", j, TRUE) /\ Alone(r)
        /\ jobs[j].kind = "ingest"
    BY <1>5 DEF Retriggers
  <2>2. Starts(r, "extract", j, yes)
    BY <1>2, <2>1, Zenon
  <2>3. Born(j)' /\ jobs'[j].kind = "ingest"
    BY <1>1, <2>1, RecordFields DEF Marks
  <2> QED
    BY <2>1, <2>2, <2>3, StartPlaced DEF Alone, Stays
<1> QED
  BY <1>3, <1>4, <1>5

LEMMA SoiledStays ==
    ASSUME NEW q \in Run, NEW t, Soiled(q, t)
    PROVE  Stays(q)
BY DEF Soiled, Stays, Concerns, At

LEMMA PlaceKept ==
    ASSUME PlaceInv, [Next]_vars
    PROVE  PlaceInv'
<1>1. Shape' /\ (Changes \/ UNCHANGED vars)
  BY StepMoves
<1>2. CASE UNCHANGED vars
  BY <1>2 DEF vars, PlaceInv, Shape, Unborn, Born, Placed, Stands, MoreFiles, Upload
<1>3. CASE Changes
  <2>1. \A j \in Job : Unborn(j)' \/ Born(j)'
    BY <1>3, JobsBorn
  <2>2. \A q \in Run : Placed(q)'
    <3>1. ASSUME NEW r \in Run, Effect(r)
          PROVE  \A q \in Run : Placed(q)'
      <4>1. Placed(r)' /\ Alone(r)
        BY <1>3, <3>1, EffectPlaced
      <4>2. \A q \in Run \ {r} : Stays(q)
        BY <4>1 DEF Alone, Stays
      <4> QED
        BY <1>3, <4>1, <4>2, PlacedStays
    <3>2. ASSUME NEW r \in Run, NEW j \in Job, Posts(r, j) \/ Chats(r, j) \/ Retriggers(r, j)
          PROVE  \A q \in Run : Placed(q)'
      <4>1. Placed(r)' /\ \A q \in Run \ {r} : Stays(q)
        BY <1>3, <3>2, RequestPlaced
      <4> QED
        BY <1>3, <4>1, PlacedStays
    <3>3. ASSUME NEW t, NEW name, Withdraws(t, name)
          PROVE  \A q \in Run : Placed(q)'
      <4>1. \A q \in Run : Stays(q)
        BY <3>3, SoiledStays DEF Withdraws
      <4> QED
        BY <1>3, <4>1, PlacedStays
    <3>4. ASSUME UNCHANGED run
          PROVE  \A q \in Run : Placed(q)'
      <4>1. \A q \in Run : Stays(q)
        BY <3>4 DEF Stays
      <4> QED
        BY <1>3, <4>1, PlacedStays
    <3>5. CASE Restarts
      BY <3>5 DEF Restarts, Placed
    <3> QED
      BY <1>3, <3>1, <3>2, <3>3, <3>4, <3>5 DEF Changes, Erases, Clears
  <2> QED
    BY <1>1, <2>1, <2>2 DEF PlaceInv
<1> QED
  BY <1>1, <1>2, <1>3

LEMMA PlaceInit ==
    ASSUME Init
    PROVE  PlaceInv
<1>1. IsRun(Idle) /\ IsJob(NoJob)
  BY DEF Idle, IsRun, Locals, NoJob, IsJob, Record
<1>2. \A r \in Run : run[r] = Idle
  BY DEF Init
<1>3. \A j \in Job : jobs[j] = NoJob /\ disk[j] = {}
  BY DEF Init
<1>4. run = [r \in Run |-> run[r]] /\ jobs = [j \in Job |-> jobs[j]]
  BY DEF Init
<1>5. disk = [j \in Job |-> disk[j]] /\ blocks = [t \in Topic |-> blocks[t]]
  BY DEF Init
<1>6. Shape
  BY <1>1, <1>2, <1>3, <1>4, <1>5 DEF Shape
<1> QED
  BY <1>2, <1>3, <1>6 DEF PlaceInv, Unborn, Placed

\* A run is always at a place its upload allows.
LEMMA PlaceHolds == Spec => []PlaceInv
<1>1. Init => PlaceInv
  BY PlaceInit
<1>2. PlaceInv /\ [Next]_vars => PlaceInv'
  BY PlaceKept
<1> QED
  BY <1>1, <1>2, PTL DEF Spec
-----------------------------------------------------------------------------
(* DomainInv.                                                              *)

LEMMA PointFields ==
    ASSUME PlaceInv, NEW r \in Run, run[r].pc = "embed"
    PROVE  /\ Point(r).job = run[r].job /\ run[r].job \in Job /\ Born(run[r].job)
           /\ Point(r).id = VectorId(Upload(r), run[r].job, Path(r), run[r].chunk)
           /\ Point(r).topic = Upload(r).topic /\ Point(r).name = Path(r)
           /\ Point(r).kind = Upload(r).kind
           /\ Point(r).text = run[r].chunks[run[r].chunk]
           /\ \E f \in Files : Point(r).text \in ToSet(ChunkTable[f])
<1>1. Stands(r) /\ run[r].job \in Job /\ Born(run[r].job)
  BY Grounded
<1>2. PICK f \in Files : run[r].chunks = ChunkTable[f] /\ run[r].chunk \in 1 .. Len(run[r].chunks)
  BY <1>1 DEF Stands
<1>3. run[r].chunk \in DOMAIN ChunkTable[f]
  BY <1>2, TableSeq
<1>4. /\ Point(r).job = run[r].job
      /\ Point(r).id = VectorId(Upload(r), run[r].job, Path(r), run[r].chunk)
      /\ Point(r).topic = Upload(r).topic /\ Point(r).name = Path(r)
      /\ Point(r).kind = Upload(r).kind
      /\ Point(r).text = run[r].chunks[run[r].chunk]
  BY DEF Point
<1> QED
  BY <1>1, <1>2, <1>3, <1>4 DEF ToSet

LEMMA StoreMoves ==
    ASSUME Changes
    PROVE  \A p \in store' : p \in store \/ \E r \in Run : run[r].pc = "embed" /\ p = Point(r)
BY DEF Changes, Effect, Saves, Enlists, Shows, Ends, Leaves, Breaks, Passes, Loads, Embeds, Skips,
       Loses, Posts, PostsAs, Chats, Retriggers, Erases, Withdraws, Clears, Restarts, Upserted

LEMMA SetsMove ==
    ASSUME PlaceInv, Changes
    PROVE  /\ records' \subseteq records \cup Job /\ skipped' \subseteq skipped \cup Job
           /\ erased' \subseteq erased \cup Topic
<1>1. ASSUME NEW r \in Run, Effect(r)
      PROVE  /\ records' \subseteq records \cup Job /\ skipped' \subseteq skipped \cup Job
             /\ erased' \subseteq erased \cup Topic
  <2>1. run[r].job \in Job
    BY <1>1, Grounded DEF Effect
  <2> QED
    BY <1>1, <2>1 DEF Effect, Saves, Enlists, Shows, Ends, Leaves, Breaks, Passes, Loads, Embeds,
                      Skips, Loses
<1> QED
  BY <1>1 DEF Changes, Posts, PostsAs, Chats, Retriggers, Erases, Withdraws, Clears, Restarts

LEMMA DomainKept ==
    ASSUME PlaceInv, DomainInv, [Next]_vars
    PROVE  DomainInv'
<1>1. Changes \/ UNCHANGED vars
  BY StepMoves
<1>2. CASE UNCHANGED vars
  BY <1>2 DEF vars, DomainInv
<1>3. CASE Changes
  <2>1. records' \subseteq Job /\ skipped' \subseteq Job /\ erased' \subseteq Topic
    BY <1>3, SetsMove DEF DomainInv
  <2>2. \A p \in store' : p.job \in Job /\ \E f \in Files : p.text \in ToSet(ChunkTable[f])
    BY <1>3, StoreMoves, PointFields DEF DomainInv
  <2> QED
    BY <2>1, <2>2 DEF DomainInv
<1> QED
  BY <1>1, <1>2, <1>3

\* A stored chunk is a window of its file's text, and is not empty.
LEMMA ChunksBounded ==
    ASSUME NEW f \in Files, NEW cut \in ToSet(ChunkTable[f])
    PROVE  cut \in Seq(Nat) /\ Len(cut) \in 1 .. ChunkSize
<1>1. cut \in Cut(f)
  BY TableSeq DEF ToSet
<1>2. cut \in ToSet(Windows(f.text)) /\ cut # <<>>
  BY <1>1 DEF Cut
<1>3. cut \in Seq(Nat) /\ Len(cut) <= ChunkSize
  BY <1>2, FileTexts, Windowed
<1>4. ChunkSize \in Nat
  BY Sizes
<1> QED
  BY <1>2, <1>3, <1>4

\* The state is well formed, and no chunk is longer than chunk_size.
THEOREM UploadsTypeCorrect == Spec => []TypeOK
<1>1. Init => DomainInv
  BY DEF Init, DomainInv
<1>2. PlaceInv /\ DomainInv /\ [Next]_vars => DomainInv'
  BY DomainKept
<1>3. ASSUME PlaceInv, DomainInv
      PROVE  TypeOK
  <2>1. ASSUME NEW j \in Job
        PROVE  /\ jobs[j].kind \in {"none", "ingest", "topic", "document", "session"}
               /\ jobs[j].status \in Status
    BY <1>3 DEF PlaceInv, Unborn, Born, NoJob, Status
  <2>2. ASSUME NEW r \in Run
        PROVE  /\ run[r].pc \in {"idle", "storing", "push", "ready", "extract", "embed", "raised"}
               /\ run[r].job \in Job \cup {"none"}
    BY <1>3 DEF PlaceInv, Placed, Stands, Idle
  <2>3. ASSUME NEW p \in store
        PROVE  p.job \in Job /\ Len(p.text) \in 1 .. ChunkSize
    BY <1>3, <2>3, ChunksBounded DEF DomainInv
  <2>4. records \subseteq Job /\ skipped \subseteq Job /\ erased \subseteq Topic
    BY <1>3 DEF DomainInv
  <2> QED
    BY <2>1, <2>2, <2>3, <2>4 DEF TypeOK
<1> QED
  BY <1>1, <1>2, <1>3, PlaceHolds, PTL DEF Spec
-----------------------------------------------------------------------------
(* SearchInv.                                                              *)

LEMMA StoreKept ==
    ASSUME Changes, NEW p \in store
    PROVE  \/ p \in store'
           \/ \E t \in Topic : \E name :
                 Withdraws(t, name) /\ p.kind = "topic" /\ p.topic = t /\ p.name = name
           \/ \E r \in Run : run[r].pc = "embed" /\ p.id = Point(r).id /\ Point(r) \in store'
BY DEF Changes, Effect, Saves, Enlists, Shows, Ends, Leaves, Breaks, Passes, Loads, Embeds, Skips,
       Loses, Posts, PostsAs, Chats, Retriggers, Erases, Withdraws, Clears, Restarts, Upserted

LEMMA IdsDiffer ==
    ASSUME NEW a, NEW b, NEW c, NEW d, NEW e
    PROVE  <<a, b, c>> # <<d, e>>
<1>1. Len(<<a, b, c>>) = 3 /\ Len(<<d, e>>) = 2
  OBVIOUS
<1> QED
  BY <1>1

LEMMA SkippedGrows ==
    ASSUME Changes
    PROVE  skipped \subseteq skipped'
BY DEF Changes, Effect, Saves, Enlists, Shows, Ends, Leaves, Breaks, Passes, Loads, Embeds, Skips,
       Loses, Posts, PostsAs, Chats, Retriggers, Erases, Withdraws, Clears, Restarts

LEMMA SingleStays ==
    ASSUME PlaceInv, Changes, NEW j \in Job, Born(j), Single(j)'
    PROVE  Single(j) /\ Chunks(j)' = Chunks(j)
<1>1. SameUpload(j) /\ skipped \subseteq skipped'
  BY UploadsKept, SkippedGrows
<1>2. Chunks(j)' = Chunks(j)
  BY <1>1 DEF SameUpload, Chunks
<1> QED
  BY <1>1, <1>2 DEF SameUpload, Single

\* The chunks of the ingestion of one file are only ever stored again.
LEMMA ChunkStays ==
    ASSUME PlaceInv, SearchInv, Changes, NEW j \in Job, Born(j), Single(j),
           NEW n, HasChunk(j, n, Chunks(j)[n])
    PROVE  \E p \in store' : /\ p.id = <<j, n>> /\ p.kind # "topic" /\ p.job = j
                             /\ p.text = Chunks(j)[n]
<1>1. PICK p \in store : /\ p.id = <<j, n>> /\ p.kind # "topic" /\ p.job = j
                         /\ p.text = Chunks(j)[n]
  BY DEF HasChunk
<1>2. ASSUME NEW r \in Run, run[r].pc = "embed", p.id = Point(r).id, Point(r) \in store'
      PROVE  \E q \in store' : /\ q.id = <<j, n>> /\ q.kind # "topic" /\ q.job = j
                               /\ q.text = Chunks(j)[n]
  <2>1. /\ Point(r).job = run[r].job /\ Point(r).kind = Upload(r).kind
        /\ Point(r).text = run[r].chunks[run[r].chunk]
        /\ Point(r).id = VectorId(Upload(r), run[r].job, Path(r), run[r].chunk)
    BY <1>2, PointFields
  <2>2. VectorId(Upload(r), run[r].job, Path(r), run[r].chunk) = <<j, n>>
    BY <1>1, <1>2, <2>1
  <2>3. Upload(r).kind # "topic"
    BY <2>2, IdsDiffer DEF VectorId
  <2>4. run[r].job = j /\ run[r].chunk = n
    BY <2>2, <2>3 DEF VectorId
  <2>5. run[r].chunks = Chunks(j)
    BY <1>2, <2>4 DEF SearchInv, Fed, At
  <2> QED
    BY <1>1, <1>2, <2>1, <2>3, <2>4, <2>5
<1> QED
  BY <1>1, <1>2, StoreKept

LEMMA UptoStays ==
    ASSUME PlaceInv, SearchInv, Changes, NEW j \in Job, Born(j), Single(j)',
           NEW m, Upto(j, m)
    PROVE  Upto(j, m)'
<1>1. Single(j) /\ Chunks(j)' = Chunks(j)
  BY SingleStays
<1>2. \A n \in 1 .. m : \E p \in store' :
         p.id = <<j, n>> /\ p.kind # "topic" /\ p.job = j /\ p.text = Chunks(j)[n]
  BY <1>1, ChunkStays DEF Upto
<1> QED
  BY <1>1, <1>2 DEF Upto, HasChunk

LEMMA FedStays ==
    ASSUME PlaceInv, SearchInv, Changes, NEW q \in Run, StaysAt(q)
    PROVE  Fed(q)'
<1> SUFFICES ASSUME run'[q].pc # "idle", Single(run[q].job)'
             PROVE  Fed(q)'
  BY DEF Fed, At, StaysAt
<1>1. run[q].pc # "idle" /\ run[q].job \in Job /\ Born(run[q].job)
  BY Grounded DEF StaysAt
<1>2. PICK j \in Job : j = run[q].job
  BY <1>1
<1>a. run'[q].job = j /\ Single(j)'
  BY <1>2 DEF StaysAt, Single
<1>3. Single(j) /\ Chunks(j)' = Chunks(j)
  BY <1>1, <1>2, <1>a, SingleStays
<1>4. PICK full, part : full = Len(Chunks(j)) /\ part = run[q].chunk - 1
  OBVIOUS
<1>5. /\ At(q, "extract") /\ run[q].file # 1 => Upto(j, full)
      /\ At(q, "embed") => run[q].file = 1 /\ run[q].chunks = Chunks(j) /\ Upto(j, part)
  BY <1>1, <1>2, <1>3, <1>4 DEF SearchInv, Fed, At
<1>6. /\ At(q, "extract") /\ run[q].file # 1 => Upto(j, full)'
      /\ At(q, "embed") => Upto(j, part)'
  BY <1>1, <1>2, <1>a, <1>5, UptoStays
<1> QED
  BY <1>2, <1>a, <1>3, <1>4, <1>5, <1>6 DEF Fed, At, StaysAt

LEMMA FedAway ==
    ASSUME NEW q \in Run, run'[q].pc \notin {"extract", "embed"} \/
                          (run'[q].pc = "extract" /\ run'[q].file = 1)
    PROVE  Fed(q)'
BY DEF Fed, At

\* The run that takes an effect.
LEMMA EffectFed ==
    ASSUME PlaceInv, SearchInv, Changes, NEW r \in Run, Effect(r)
    PROVE  Fed(r)'
<1> DEFINE l == run[r]
<1>1. run[r].pc # "idle" /\ Stands(r) /\ run[r].file \in Nat \ {0}
  BY Grounded DEF Effect, PlaceInv, Placed, Idle
<1>2. Born(run[r].job) /\ run[r].job \in Job
  BY <1>1, Grounded
<1>3. PICK j \in Job : j = run[r].job
  BY <1>2
<1>4. CASE Frees(r)
  <2>1. run'[r].pc = "idle"
    BY <1>4 DEF Frees, Becomes, Idle
  <2> QED
    BY <2>1, FedAway
<1>5. ASSUME NEW pc, NEW file, NEW chunks, NEW chunk, NEW clean,
             Goes(r, pc, file, chunks, chunk, clean)
      PROVE  /\ run'[r].pc = pc /\ run'[r].job = j /\ run'[r].file = file
             /\ run'[r].chunks = chunks /\ run'[r].chunk = chunk
  BY <1>3, <1>5, LocalFields DEF Goes, Becomes
<1>6. CASE Saves(r) \/ Shows(r) \/ Breaks(r)
  <2>1. \E pc \in {"storing", "ready", "raised"} : \E file, chunks, chunk, clean :
           Goes(r, pc, file, chunks, chunk, clean)
    BY <1>6 DEF Saves, Shows, Breaks, Moves
  <2>2. run'[r].pc \in {"storing", "ready", "raised"}
    BY <1>5, <2>1
  <2> QED
    BY <2>2, FedAway
<1>7. CASE Enlists(r)
  <2>1. CASE Upload(r).kind # "document"
    <3>1. Goes(r, "extract", 1, l.chunks, l.chunk, l.clean)
      BY <1>7, <2>1 DEF Enlists
    <3>2. run'[r].pc = "extract" /\ run'[r].file = 1
      BY <1>5, <3>1
    <3> QED
      BY <3>2, FedAway
  <2> QED
    BY <1>4, <1>7, <2>1 DEF Enlists
<1>8. ASSUME Single(j)', MoreFiles(r)
      PROVE  /\ Single(j) /\ Chunks(j)' = Chunks(j) /\ l.file = 1
             /\ Upload(r).kind = "ingest"
             /\ Found(r) # {} => ChunkTable[File(r)] = Chunks(j)
  <2>1. Single(j) /\ Chunks(j)' = Chunks(j)
    BY <1>2, <1>3, <1>8, SingleStays
  <2>2. Len(jobs[j].files) = 1 /\ Upload(r).kind = "ingest" /\ Upload(r).files = jobs[j].files
    BY <1>3, <2>1 DEF Single, Upload
  <2>3. l.file = 1
    <3>1. l.file <= 1 /\ l.file \in Nat \ {0}
      BY <1>1, <1>8, <2>2 DEF MoreFiles
    <3> QED
      BY <3>1
  <2>4. Found(r) # {} => File(r) = jobs[j].files[1]
    <3>1. jobs[j].files \in Seq(Files)
      BY <1>2, <1>3 DEF Born
    <3>2. \A f \in ToSet(jobs[j].files) : f = jobs[j].files[1]
      BY <2>2, <3>1 DEF ToSet
    <3> QED
      BY <1>1, <2>2, <3>2, FoundFile
  <2> QED
    BY <2>1, <2>2, <2>3, <2>4 DEF Chunks
<1>9. CASE Passes(r)
  <2>1. Turns(r, l.clean) /\ MoreFiles(r)
    BY <1>9 DEF Passes
  <2>2. run'[r].pc = "extract" /\ run'[r].job = j
    BY <1>5, <2>1 DEF Turns
  <2>3. ASSUME Single(j)'
        PROVE  Upto(j, Len(Chunks(j)))'
    <3>1. Chunks(j)' = <<>>
      BY <1>8, <1>9, <2>1, <2>3 DEF Passes
    <3> QED
      BY <3>1 DEF Upto
  <2> QED
    BY <2>2, <2>3 DEF Fed, At
<1>10. CASE Loads(r)
  <2> DEFINE cut == ChunkTable[File(r)]
  <2>1. Goes(r, "embed", l.file, cut, l.chunk, l.clean) /\ MoreFiles(r) /\ Found(r) # {}
    BY <1>10 DEF Loads
  <2>2. /\ run'[r].pc = "embed" /\ run'[r].job = j /\ run'[r].file = l.file
        /\ run'[r].chunks = cut /\ run'[r].chunk = l.chunk
    <3> HIDE DEF cut
    <3> QED
      BY <1>5, <2>1
  <2>3. l.chunk = 1
    BY <1>1, <1>10 DEF Loads, Stands
  <2>4. ASSUME Single(j)'
        PROVE  /\ run'[r].file = 1 /\ run'[r].chunks = Chunks(j)'
               /\ Upto(j, run[r].chunk - 1)'
    <3>1. Upto(j, run[r].chunk - 1)'
      BY <2>2, <2>3 DEF Upto
    <3> QED
      BY <1>8, <2>1, <2>2, <2>4, <3>1
  <2> HIDE DEF cut
  <2> QED
    BY <2>2, <2>4 DEF Fed, At
<1>11. CASE Embeds(r)
  <2>1. /\ l.pc = "embed" /\ MoreFiles(r) /\ l.chunk \in 1 .. Len(l.chunks)
        /\ store' = Upserted(r)
    BY <1>1, <1>11 DEF Embeds, Stands
  <2>0. PICK n : n = l.chunk
    OBVIOUS
  <2>2. ASSUME Single(j)'
        PROVE  l.chunks = Chunks(j) /\ Chunks(j)' = Chunks(j) /\ l.file = 1 /\ Upto(j, n)'
    <3>1. Single(j) /\ Chunks(j)' = Chunks(j) /\ l.file = 1 /\ Upload(r).kind # "topic"
      BY <1>8, <2>1, <2>2
    <3>2. l.chunks = Chunks(j) /\ Upto(j, n - 1)
      BY <1>1, <1>3, <2>0, <2>1, <3>1 DEF SearchInv, Fed, At
    <3>4. Upto(j, n - 1)'
      BY <1>2, <1>3, <2>2, <3>2, UptoStays
    <3>5. HasChunk(j, n, Chunks(j)[n])'
      <4>1. /\ Point(r).job = run[r].job /\ Point(r).kind = Upload(r).kind
            /\ Point(r).text = run[r].chunks[run[r].chunk]
            /\ Point(r).id = VectorId(Upload(r), run[r].job, Path(r), run[r].chunk)
        BY <2>1, PointFields
      <4>3. Point(r) \in store' /\ Point(r).id = <<j, n>>
        BY <1>3, <2>0, <2>1, <3>1, <4>1 DEF Upserted, VectorId
      <4> QED
        BY <1>3, <2>0, <3>1, <3>2, <4>1, <4>3 DEF HasChunk
    <3> QED
      BY <2>0, <2>1, <3>1, <3>2, <3>4, <3>5 DEF Upto
  <2>3. CASE LastChunk(r)
    <3>1. Turns(r, l.clean)
      BY <1>11, <2>3 DEF Embeds
    <3>2. run'[r].pc = "extract" /\ run'[r].job = j
      BY <1>5, <3>1 DEF Turns
    <3>3. ASSUME Single(j)'
          PROVE  Upto(j, Len(Chunks(j)))'
      <4>1. n = Len(Chunks(j)')
        BY <2>0, <2>2, <2>3, <3>3 DEF LastChunk
      <4>2. Upto(j, n)'
        BY <2>2, <3>3
      <4> QED
        BY <4>1, <4>2
    <3> QED
      BY <3>2, <3>3 DEF Fed, At
  <2>4. CASE ~LastChunk(r)
    <3>1. Goes(r, "embed", l.file, l.chunks, l.chunk + 1, l.clean)
      BY <1>11, <2>1, <2>4 DEF Embeds
    <3>2. /\ run'[r].pc = "embed" /\ run'[r].job = j /\ run'[r].file = l.file
          /\ run'[r].chunks = l.chunks /\ run'[r].chunk = l.chunk + 1
      BY <1>5, <3>1
    <3>3. run'[r].chunk - 1 = n
      BY <2>0, <2>1, <3>2
    <3>4. ASSUME Single(j)'
          PROVE  Upto(j, run[r].chunk - 1)'
      BY <2>2, <3>3, <3>4
    <3> QED
      BY <2>2, <3>2, <3>4 DEF Fed, At
  <2> QED
    BY <2>3, <2>4
<1>12. CASE Skips(r)
  <2>1. j \in skipped'
    BY <1>3, <1>12 DEF Skips
  <2>2. run'[r].job = j
    <3>1. \E pc, file, chunks, chunk, clean : Goes(r, pc, file, chunks, chunk, clean)
      BY <1>12 DEF Skips, Turns
    <3> QED
      BY <1>5, <3>1
  <2> QED
    BY <2>1, <2>2 DEF Fed, Single
<1>13. CASE Loses(r)
  <2>1. CASE Upload(r).kind = "topic"
    <3>1. Turns(r, l.clean) /\ MoreFiles(r)
      BY <1>1, <1>13, <2>1 DEF Loses, Stands
    <3>2. run'[r].job = j
      BY <1>5, <3>1 DEF Turns
    <3>3. ~Single(j)'
      BY <1>8, <2>1, <3>1
    <3> QED
      BY <3>2, <3>3 DEF Fed
  <2>2. CASE Upload(r).kind # "topic"
    <3>1. Goes(r, "raised", l.file, l.chunks, l.chunk, l.clean)
      BY <1>13, <2>2 DEF Loses, Moves
    <3>2. run'[r].pc = "raised"
      BY <1>5, <3>1
    <3> QED
      BY <3>2, FedAway
  <2> QED
    BY <2>1, <2>2
<1> QED
  BY <1>4, <1>6, <1>7, <1>9, <1>10, <1>11, <1>12, <1>13 DEF Effect, Ends, Leaves

\* Who ends a job well.
Finishes(r, j) ==
    /\ run[r].pc # "idle" /\ run[r].job = j /\ Ends(r)
    /\ jobs'[j].status = "done" => run[r].pc = "ready"
    /\ jobs'[j].status = "completed" => run[r].pc = "extract" /\ ~MoreFiles(r)

LEMMA StatusMoves ==
    ASSUME PlaceInv, Changes, NEW j \in Job
    PROVE  \/ jobs'[j].status = jobs[j].status
           \/ jobs'[j].status \in {"none", "processing", "failed"}
           \/ \E r \in Run : Finishes(r, j)
<1>1. ASSUME NEW k \in Job, NEW s, Marks(k, s)
      PROVE  jobs'[j].status = IF k = j THEN s ELSE jobs[j].status
  BY <1>1, RecordFields DEF Marks, Sets, OtherJobs
<1>2. ASSUME NEW k \in Job, NEW kind, NEW t, NEW s, NEW files, Sets(k, Record(kind, t, s, files))
      PROVE  jobs'[j].status = IF k = j THEN s ELSE jobs[j].status
  BY <1>2, RecordFields DEF Sets, OtherJobs
<1>3. ASSUME NEW r \in Run, Effect(r)
      PROVE  \/ jobs'[j].status = jobs[j].status
             \/ jobs'[j].status \in {"none", "processing", "failed"}
             \/ \E q \in Run : Finishes(q, j)
  <2>1. run[r].pc # "idle" /\ run[r].job \in Job
    BY <1>3, Grounded DEF Effect
  <2>2. CASE Enlists(r)
    BY <1>1, <2>1, <2>2 DEF Enlists
  <2>3. CASE Ends(r)
    <3>1. PICK s \in {"failed", "done", "completed"} :
             /\ Marks(run[r].job, s)
             /\ s = "done" => run[r].pc = "ready"
             /\ s = "completed" => run[r].pc = "extract" /\ ~MoreFiles(r)
      BY <2>3 DEF Ends
    <3>2. jobs'[j].status = IF run[r].job = j THEN s ELSE jobs[j].status
      BY <1>1, <2>1, <3>1
    <3>3. run[r].job = j => Finishes(r, j)
      BY <2>1, <2>3, <3>1, <3>2 DEF Finishes
    <3> QED
      BY <3>2, <3>3
  <2>4. CASE UNCHANGED jobs
    BY <2>4
  <2> QED
    BY <1>3, <2>2, <2>3, <2>4 DEF Effect, Saves, Shows, Leaves, Breaks, Passes, Loads, Embeds,
                                  Skips, Loses
<1>4. ASSUME NEW r \in Run, NEW k \in Job, Posts(r, k) \/ Chats(r, k) \/ Retriggers(r, k)
      PROVE  \/ jobs'[j].status = jobs[j].status
             \/ jobs'[j].status \in {"none", "processing", "failed"}
  <2>1. CASE Posts(r, k)
    <3>1. PICK kind, t, files : Sets(k, Record(kind, t, "none", files))
      BY <2>1 DEF Posts, PostsAs
    <3> QED
      BY <1>2, <3>1
  <2>2. CASE Chats(r, k)
    <3>1. PICK t, files : Sets(k, Record("session", t, "processing", files))
      BY <2>2 DEF Chats
    <3> QED
      BY <1>2, <3>1
  <2>3. CASE Retriggers(r, k)
    BY <1>1, <2>3 DEF Retriggers
  <2> QED
    BY <1>4, <2>1, <2>2, <2>3
<1> QED
  BY <1>3, <1>4 DEF Changes, Erases, Withdraws, Clears, Restarts

LEMMA CompletedFed ==
    ASSUME PlaceInv, SearchInv, Changes, NEW j \in Job, Single(j)',
           jobs'[j].status = "completed"
    PROVE  Upto(j, Len(Chunks(j)))'
<1>1. \/ jobs[j].status = "completed"
      \/ \E r \in Run : Finishes(r, j)
  BY StatusMoves
<1>2. Born(j)
  <2>1. CASE jobs[j].status = "completed"
    BY <2>1 DEF PlaceInv, Unborn, NoJob
  <2>2. ASSUME NEW r \in Run, Finishes(r, j)
        PROVE  Born(j)
    BY <2>2, Grounded DEF Finishes
  <2> QED
    BY <1>1, <2>1, <2>2
<1>3. Single(j) /\ Chunks(j)' = Chunks(j)
  BY <1>2, SingleStays
<1>4. PICK full : full = Len(Chunks(j))
  OBVIOUS
<1>5. Upto(j, full)
  <2>1. CASE jobs[j].status = "completed"
    BY <1>3, <1>4, <2>1 DEF SearchInv
  <2>2. ASSUME NEW r \in Run, Finishes(r, j)
        PROVE  Upto(j, full)
    <3>1. run[r].pc = "extract" /\ ~MoreFiles(r) /\ run[r].job = j
      BY <2>2 DEF Finishes
    <3>2. run[r].file # 1
      <4>1. Len(Upload(r).files) = 1
        BY <1>3, <3>1 DEF Upload, Single
      <4> QED
        BY <3>1, <4>1 DEF MoreFiles
    <3> QED
      BY <1>3, <1>4, <3>1, <3>2 DEF SearchInv, Fed, At
  <2> QED
    BY <1>1, <2>1, <2>2
<1>6. Upto(j, full)'
  BY <1>2, <1>5, UptoStays
<1> QED
  BY <1>3, <1>4, <1>6

LEMMA StartFed ==
    ASSUME NEW r \in Run, NEW j \in Job, Posts(r, j) \/ Chats(r, j) \/ Retriggers(r, j)
    PROVE  Fed(r)'
<1>1. \E pc \in {"storing", "push", "extract"} : \E clean : Starts(r, pc, j, clean)
  BY DEF Posts, PostsAs, Chats, Retriggers
<1>2. run'[r].pc \in {"storing", "push", "extract"} /\ run'[r].file = 1
  BY <1>1, LocalFields DEF Starts
<1> QED
  BY <1>2, FedAway

\* Each run is left where it is, but one.
LEMMA OthersStayed ==
    ASSUME PlaceInv, Changes
    PROVE  \/ \E r \in Run : Effect(r) /\ \A q \in Run \ {r} : StaysAt(q)
           \/ \E r \in Run, j \in Job : /\ Posts(r, j) \/ Chats(r, j) \/ Retriggers(r, j)
                                        /\ \A q \in Run \ {r} : StaysAt(q)
           \/ \A q \in Run : StaysAt(q)
           \/ Restarts
<1>1. ASSUME NEW r \in Run, Effect(r)
      PROVE  \A q \in Run \ {r} : StaysAt(q)
  BY <1>1, EffectPlaced DEF Alone, StaysAt
<1>2. ASSUME NEW r \in Run, NEW j \in Job, Posts(r, j) \/ Chats(r, j) \/ Retriggers(r, j)
      PROVE  \A q \in Run \ {r} : StaysAt(q)
  BY <1>2, RequestPlaced, StayingStays
<1>3. ASSUME NEW t, NEW name, Withdraws(t, name)
      PROVE  \A q \in Run : StaysAt(q)
  BY <1>3, SoiledStays, StayingStays DEF Withdraws
<1>4. UNCHANGED run => \A q \in Run : StaysAt(q)
  BY DEF StaysAt
<1> QED
  BY <1>1, <1>2, <1>3, <1>4 DEF Changes, Erases, Clears

LEMMA SearchKept ==
    ASSUME PlaceInv, SearchInv, [Next]_vars
    PROVE  SearchInv'
<1>1. Changes \/ UNCHANGED vars
  BY StepMoves
<1>2. CASE UNCHANGED vars
  BY <1>2 DEF vars, SearchInv, Fed, Single, Upto, HasChunk, Chunks, At
<1>3. CASE Changes
  <2>1. \A j \in Job : Single(j)' /\ jobs'[j].status = "completed" => Upto(j, Len(Chunks(j)))'
    BY <1>3, CompletedFed
  <2>2. \A q \in Run : Fed(q)'
    <3>1. ASSUME NEW q \in Run, StaysAt(q)
          PROVE  Fed(q)'
      BY <1>3, <3>1, FedStays
    <3>2. ASSUME NEW r \in Run, Effect(r)
          PROVE  Fed(r)'
      BY <1>3, <3>2, EffectFed
    <3>3. CASE Restarts
      BY <3>3 DEF Restarts, Fed, At, Idle
    <3> QED
      BY <1>3, <3>1, <3>2, <3>3, StartFed, OthersStayed
  <2> QED
    BY <2>1, <2>2 DEF SearchInv
<1> QED
  BY <1>1, <1>2, <1>3

\* When the ingestion of a file is completed, every word of it that is followed
\* by a space, or by the end of the text, within the overlap from where it starts
\* is whole in one of the stored chunks: however the windows are cut and shifted,
\* and whatever the other runs do.
THEOREM WordsAreSearchable == Spec => []CompletedIsSearchable
<1>1. Init => SearchInv
  <2> SUFFICES ASSUME Init
               PROVE  SearchInv
    OBVIOUS
  <2>1. \A j \in Job : jobs[j].status = "none"
    BY DEF Init, NoJob
  <2>2. \A r \in Run : run[r].pc = "idle"
    BY DEF Init, Idle
  <2> QED
    BY <2>1, <2>2 DEF SearchInv, Fed, At
<1>2. PlaceInv /\ SearchInv /\ [Next]_vars => SearchInv'
  BY SearchKept
<1>3. ASSUME PlaceInv, SearchInv
      PROVE  CompletedIsSearchable
  <2> SUFFICES ASSUME NEW j \in Completed, Len(jobs[j].files) = 1,
                      NEW w \in Words(jobs[j].files[1].text),
                      Anchored(jobs[j].files[1].text, w)
               PROVE  \E p \in store :
                         /\ p.job = j
                         /\ Holds(p.text, SubSeq(jobs[j].files[1].text, w[1], w[2]))
    BY DEF CompletedIsSearchable, Searchable
  <2> DEFINE f == jobs[j].files[1]
  <2>1. j \in Job /\ Single(j) /\ jobs[j].status = "completed"
    BY DEF Completed, Single
  <2>2. f \in Files
    <3>1. Born(j)
      BY <1>3, <2>1 DEF PlaceInv, Unborn, NoJob
    <3> QED
      BY <3>1 DEF Born
  <2> HIDE DEF f
  <2>3. Chunks(j) = ChunkTable[f] /\ Upto(j, Len(Chunks(j)))
    BY <1>3, <2>1 DEF SearchInv, Chunks, f
  <2>4. PICK cut \in ToSet(Windows(f.text)) \ {<<>>} : Holds(cut, SubSeq(f.text, w[1], w[2]))
    BY <2>2, FileTexts, WordsHeld DEF f
  <2>5. ~Blank(f.text)
    <3>1. /\ w[1] \in DOMAIN f.text /\ w[2] \in DOMAIN f.text /\ w[1] <= w[2]
          /\ \A c \in w[1] .. w[2] : f.text[c] \notin White
      BY DEF Words, f
    <3>2. w[1] \in 1 .. Len(f.text) /\ w[2] \in 1 .. Len(f.text)
      BY <2>2, <3>1, FileTexts
    <3>3. f.text[w[1]] \notin White
      BY <3>1, <3>2
    <3> QED
      BY <3>1, <3>3 DEF Blank
  <2>6. cut \in ToSet(ChunkTable[f]) /\ DOMAIN ChunkTable[f] = 1 .. Len(ChunkTable[f])
    BY <2>2, <2>4, <2>5, TableSeq DEF Cut
  <2>7. PICK n \in 1 .. Len(ChunkTable[f]) : ChunkTable[f][n] = cut
    BY <2>6 DEF ToSet
  <2>8. PICK p \in store : p.job = j /\ p.text = cut
    BY <2>3, <2>7 DEF Upto, HasChunk
  <2> QED
    BY <2>4, <2>8 DEF f
<1> QED
  BY <1>1, <1>2, <1>3, PlaceHolds, PTL DEF Spec
-----------------------------------------------------------------------------
(* DocInv.                                                                 *)

\* A run that was under way before, with the same upload.
Continues(q) ==
    run'[q].pc # "idle" => /\ run[q].pc # "idle" /\ run'[q].job = run[q].job
                           /\ run'[q].clean => run[q].clean
Asks(r, j) ==
    /\ Posts(r, j) \/ Chats(r, j) \/ Retriggers(r, j)
    /\ \A q \in Run \ {r} : StaysAt(q)

LEMMA EffectContinues ==
    ASSUME NEW r \in Run, Effect(r)
    PROVE  Continues(r)
<1>1. CASE Frees(r)
  BY <1>1 DEF Frees, Becomes, Idle, Continues
<1>2. ASSUME NEW pc, NEW file, NEW chunks, NEW chunk, NEW clean,
             Goes(r, pc, file, chunks, chunk, clean)
      PROVE  run'[r].job = run[r].job /\ run'[r].clean = clean
  BY <1>2, LocalFields DEF Goes, Becomes
<1>3. CASE \E pc, file, chunks, chunk : Goes(r, pc, file, chunks, chunk, run[r].clean)
  BY <1>2, <1>3 DEF Effect, Continues
<1>4. CASE \E pc, file, chunks, chunk : Goes(r, pc, file, chunks, chunk, FALSE)
  <2>1. PICK no : no = FALSE
    BY Zenon
  <2>2. PICK pc, file, chunks, chunk : Goes(r, pc, file, chunks, chunk, no)
    BY <1>4, <2>1, Zenon
  <2>3. run'[r].job = run[r].job /\ run'[r].clean = no
    BY <1>2, <2>2
  <2> QED
    BY <2>1, <2>3 DEF Effect, Continues
<1>5. Frees(r) \/ (\E pc, file, chunks, chunk : Goes(r, pc, file, chunks, chunk, run[r].clean))
               \/ (\E pc, file, chunks, chunk : Goes(r, pc, file, chunks, chunk, FALSE))
  <2>1. CASE Saves(r) \/ Enlists(r) \/ Shows(r) \/ Ends(r) \/ Leaves(r) \/ Breaks(r)
    BY <2>1 DEF Saves, Enlists, Shows, Ends, Leaves, Breaks, Moves
  <2>2. CASE Passes(r) \/ Loads(r) \/ Embeds(r) \/ Loses(r)
    BY <2>2 DEF Passes, Loads, Embeds, Loses, Moves, Turns
  <2>3. CASE Skips(r)
    BY <2>3, Zenon DEF Skips, Turns
  <2> QED
    BY <2>1, <2>2, <2>3 DEF Effect
<1> QED
  BY <1>1, <1>3, <1>4, <1>5

LEMMA RunsMove ==
    ASSUME PlaceInv, Changes
    PROVE  (\A q \in Run : Continues(q)) \/ \E r \in Run, j \in Job : Asks(r, j)
<1>1. \A q \in Run : StaysAt(q) => Continues(q)
  BY DEF StaysAt, Continues
<1>2. Restarts => \A q \in Run : Continues(q)
  BY DEF Restarts, Continues, Idle
<1> QED
  BY <1>1, <1>2, EffectContinues, OthersStayed DEF Asks

\* What a run that asks has afterwards.
LEMMA AskedRun ==
    ASSUME PlaceInv, Changes, NEW r \in Run, NEW j \in Job, Asks(r, j)
    PROVE  /\ run'[r].job = j /\ run'[r].pc \in {"storing", "push", "extract"}
           /\ jobs[j] = NoJob \/ jobs'[j].kind = "ingest"
           /\ jobs'[j].kind = "topic" =>
                 \E t \in Topic, files \in Batches : PostsAs(r, j, "topic", t, files)
<1>1. \E pc \in {"storing", "push", "extract"} : \E clean : Starts(r, pc, j, clean)
  BY DEF Asks, Posts, PostsAs, Chats, Retriggers
<1>2. run'[r].pc \in {"storing", "push", "extract"} /\ run'[r].job = j
  BY <1>1, LocalFields DEF Starts
<1>3. CASE Posts(r, j)
  <2>1. PICK kind \in {"ingest", "topic", "document"}, t \in Topic, files \in Batches :
          PostsAs(r, j, kind, t, files)
    BY <1>3 DEF Posts
  <2>2. jobs[j] = NoJob /\ jobs'[j].kind = kind
    BY <2>1, RecordFields DEF PostsAs, Sets
  <2> QED
    BY <1>2, <2>1, <2>2
<1>4. CASE Chats(r, j)
  <2>1. jobs[j] = NoJob /\ jobs'[j].kind = "session"
    BY <1>4, RecordFields DEF Chats, Sets
  <2> QED
    BY <1>2, <2>1
<1>5. CASE Retriggers(r, j)
  <2>1. jobs'[j].kind = "ingest"
    BY <1>5, RecordFields DEF Retriggers, Marks, Sets
  <2> QED
    BY <1>2, <2>1
<1> QED
  BY <1>3, <1>4, <1>5 DEF Asks

LEMMA UploadStays ==
    ASSUME PlaceInv, Changes, NEW q \in Run, run[q].pc # "idle",
           run'[q].job = run[q].job
    PROVE  /\ Upload(q)'.kind = Upload(q).kind /\ Upload(q)'.topic = Upload(q).topic
           /\ Upload(q)'.files = Upload(q).files
<1>1. run[q].job \in Job /\ Born(run[q].job)
  BY Grounded
<1>2. PICK j \in Job : j = run[q].job
  BY <1>1
<1>3. SameUpload(j)
  BY <1>1, <1>2, UploadsKept
<1> QED
  BY <1>2, <1>3 DEF SameUpload, Upload

LEMMA SoloKept ==
    ASSUME PlaceInv, Changes, Solo
    PROVE  Solo'
<1> SUFFICES ASSUME NEW q \in Run, NEW r \in Run, run'[q].pc # "idle", run'[r].pc # "idle",
                    run'[q].job = run'[r].job, Upload(r)'.kind # "ingest"
             PROVE  q = r
  BY DEF Solo, At
<1>1. CASE Continues(q) /\ Continues(r)
  <2>1. /\ run[q].pc # "idle" /\ run[r].pc # "idle" /\ run'[r].job = run[r].job
        /\ run[q].job = run[r].job
    BY <1>1 DEF Continues
  <2>2. Upload(r).kind # "ingest"
    BY <2>1, UploadStays
  <2> QED
    BY <2>1, <2>2 DEF Solo, At
<1>2. ASSUME NEW a \in Run, NEW j \in Job, Asks(a, j), q # r
      PROVE  FALSE
  <2>1. run'[a].job = j /\ (jobs[j] = NoJob \/ jobs'[j].kind = "ingest")
    BY <1>2, AskedRun
  <2>2. \A b \in Run \ {a} : StaysAt(b)
    BY <1>2 DEF Asks
  <2>3. CASE q # a /\ r # a
    BY <1>1, <1>2, <2>2, <2>3 DEF StaysAt, Continues
  <2>4. ASSUME NEW b \in Run \ {a}, run'[b].pc # "idle", run'[b].job = j
        PROVE  jobs[j] # NoJob
    BY <2>2, <2>4, Grounded, NotUnborn DEF StaysAt
  <2>5. jobs'[j].kind # "ingest"
    BY <1>2, <2>1, <2>3 DEF Upload
  <2> QED
    BY <1>2, <2>1, <2>3, <2>4, <2>5
<1> QED
  BY <1>1, <1>2, RunsMove

LEMMA ConcernsBefore ==
    ASSUME PlaceInv, Changes, NEW q \in Run, Continues(q), NEW t, Concerns(q, t)'
    PROVE  Concerns(q, t) /\ (run'[q].clean => run[q].clean)
<1>1. /\ run'[q].pc # "idle" /\ run[q].pc # "idle" /\ run'[q].job = run[q].job
      /\ run'[q].clean => run[q].clean
  BY DEF Concerns, At, Continues
<1>2. Upload(q)'.kind = Upload(q).kind /\ Upload(q)'.topic = Upload(q).topic
  BY <1>1, UploadStays
<1> QED
  BY <1>1, <1>2 DEF Concerns, At

\* The run of a new topic upload.
LEMMA PostedRun ==
    ASSUME PlaceInv, Changes, NEW r \in Run, NEW j \in Job, Asks(r, j),
           NEW t \in Topic, Concerns(r, t)'
    PROVE  \E files \in Batches :
              /\ PostsAs(r, j, "topic", t, files)
              /\ run'[r].clean => \A q \in Run : ~Concerns(q, t)
              /\ \A q \in Run \ {r} : Concerns(q, t) => ~run'[q].clean
              /\ Upload(r)'.files = Valid(files)
<1>1. run'[r].job = j /\ jobs'[j].kind = "topic" /\ jobs'[j].topic = t
  BY AskedRun DEF Concerns, Upload
<1>2. PICK t2 \in Topic, files \in Batches : PostsAs(r, j, "topic", t2, files)
  BY <1>1, AskedRun
<1>3. jobs'[j].topic = t2 /\ jobs'[j].files = Valid(files)
  BY <1>2, RecordFields DEF PostsAs, Sets
<1>4. PostsAs(r, j, "topic", t, files)
  BY <1>1, <1>2, <1>3
<1>5. run'[r].clean => \A q \in Run : ~Concerns(q, t)
  <2>1. PICK clean : clean = ~\E q \in Run : Concerns(q, t)
    BY Zenon
  <2>2. Starts(r, "storing", j, clean)
    BY <1>4, <2>1, Zenon DEF PostsAs
  <2>3. run'[r].clean = clean
    BY <2>2, LocalFields DEF Starts
  <2> QED
    BY <2>1, <2>3, Zenon
<1>6. \A q \in Run \ {r} : Concerns(q, t) => ~run'[q].clean
  BY <1>4, DirtyFields DEF PostsAs, Soiled
<1> QED
  BY <1>1, <1>3, <1>4, <1>5, <1>6 DEF Upload

LEMMA CleanAloneKept ==
    ASSUME PlaceInv, Changes, CleanAlone
    PROVE  CleanAlone'
<1> SUFFICES ASSUME NEW t \in Topic, NEW q \in Run, NEW r \in Run, Concerns(r, t)',
                    run'[r].clean, Concerns(q, t)'
             PROVE  q = r
  BY DEF CleanAlone
<1>1. CASE Continues(q) /\ Continues(r)
  BY <1>1, ConcernsBefore DEF CleanAlone
<1>2. ASSUME NEW a \in Run, NEW j \in Job, Asks(a, j), q # r
      PROVE  FALSE
  <2>1. \A b \in Run \ {a} : Continues(b)
    BY <1>2 DEF Asks, StaysAt, Continues
  <2>2. CASE q # a /\ r # a
    BY <1>1, <1>2, <2>1, <2>2
  <2>3. CASE r = a
    <3>1. Concerns(q, t)
      BY <1>2, <2>1, <2>3, ConcernsBefore
    <3> QED
      BY <1>2, <2>3, <3>1, PostedRun
  <2>4. CASE q = a
    <3>1. Concerns(r, t)
      BY <1>2, <2>1, <2>4, ConcernsBefore
    <3> QED
      BY <1>2, <2>4, <3>1, PostedRun
  <2> QED
    BY <1>2, <2>2, <2>3, <2>4
<1> QED
  BY <1>1, <1>2, RunsMove

\* Chunks of topic documents are put by a run at the document, and removed with
\* the document.
Agrees(r, t, name, n, text) ==
    (run[r].pc = "embed" /\ Concerns(r, t) /\ Path(r) = name /\ run[r].chunk = n)
        => run[r].chunks[n] = text

LEMMA PointConcerns ==
    ASSUME PlaceInv, NEW r \in Run, run[r].pc = "embed", Upload(r).kind = "topic"
    PROVE  /\ Concerns(r, Upload(r).topic) /\ Upload(r).topic \in Topic
           /\ Point(r).id = <<Upload(r).topic, Path(r), run[r].chunk>>
           /\ Path(r) \in Names(r)
           /\ Point(r).topic = Upload(r).topic /\ Point(r).name = Path(r)
           /\ Point(r).kind = "topic" /\ Point(r).text = run[r].chunks[run[r].chunk]
<1>1. Born(run[r].job) /\ Stands(r) /\ run[r].file \in Nat \ {0}
  BY Grounded DEF PlaceInv, Placed, Idle
<1>2. Path(r) \in Names(r)
  <2>1. Upload(r).files \in Seq(Files) /\ run[r].file <= Len(Upload(r).files)
    BY <1>1 DEF Born, Upload, Stands, MoreFiles
  <2>2. run[r].file \in DOMAIN Upload(r).files
    BY <1>1, <2>1
  <2> QED
    BY <2>2 DEF Path, Names, ToSet
<1>3. Upload(r).topic \in Topic
  BY <1>1 DEF Born, Upload
<1>4. Concerns(r, Upload(r).topic)
  BY DEF Concerns, At
<1> QED
  BY <1>2, <1>3, <1>4, PointFields DEF VectorId

LEMMA DocStays ==
    ASSUME PlaceInv, Changes, NEW t \in Topic, NEW name, NEW n, NEW text,
           HasDoc(t, name, n, text), ~Withdraws(t, name),
           \A r \in Run : Agrees(r, t, name, n, text)
    PROVE  HasDoc(t, name, n, text)'
<1>1. PICK p \in store : /\ p.id = <<t, name, n>> /\ p.kind = "topic" /\ p.topic = t
                         /\ p.name = name /\ p.text = text
  BY DEF HasDoc
<1>2. CASE p \in store'
  BY <1>1, <1>2 DEF HasDoc
<1>3. ASSUME NEW r \in Run, run[r].pc = "embed", p.id = Point(r).id, Point(r) \in store'
      PROVE  HasDoc(t, name, n, text)'
  <2>1. VectorId(Upload(r), run[r].job, Path(r), run[r].chunk) = <<t, name, n>>
    BY <1>1, <1>3, PointFields
  <2>2. Upload(r).kind = "topic"
    BY <2>1, IdsDiffer DEF VectorId
  <2>3. Upload(r).topic = t /\ Path(r) = name /\ run[r].chunk = n
    BY <2>1, <2>2 DEF VectorId
  <2>4. Concerns(r, t)
    BY <1>3, <2>2, <2>3 DEF Concerns, At
  <2>5. run[r].chunks[n] = text
    BY <1>3, <2>3, <2>4 DEF Agrees
  <2>6. /\ Point(r).id = <<t, name, n>> /\ Point(r).kind = "topic" /\ Point(r).topic = t
        /\ Point(r).name = name /\ Point(r).text = text
    BY <1>3, <2>1, <2>2, <2>3, <2>5, PointFields
  <2> QED
    BY <1>3, <2>6 DEF HasDoc
<1> QED
  BY <1>1, <1>2, <1>3, StoreKept

LEMMA DocPut ==
    ASSUME PlaceInv, NEW r \in Run, run[r].pc = "embed", store' = Upserted(r),
           NEW t, NEW name, NEW n, NEW text, Concerns(r, t), Path(r) = name, run[r].chunk = n,
           run[r].chunks[n] = text
    PROVE  HasDoc(t, name, n, text)'
<1>1. Upload(r).kind = "topic" /\ Upload(r).topic = t
  BY DEF Concerns
<1> QED
  BY <1>1, PointConcerns DEF HasDoc, Upserted

\* The directory of a topic upload past its storing only loses files.
LEMMA DiskShrinks ==
    ASSUME PlaceInv, Solo, Changes, NEW q \in Run, run[q].pc \in {"extract", "embed"},
           Upload(q).kind = "topic"
    PROVE  disk'[run[q].job] \subseteq disk[run[q].job]
<1>1. run[q].job \in Job
  BY Grounded
<1>2. ASSUME NEW r \in Run, run[r].pc # "idle", Saves(r)
      PROVE  disk'[run[q].job] = disk[run[q].job]
  <2>1. run[r].pc = "storing"
    BY <1>2 DEF Saves
  <2>2. run[r].job # run[q].job
    BY <2>1 DEF Solo, At
  <2> QED
    BY <1>1, <1>2, <2>2, StoredFile
<1> QED
  BY <1>1, <1>2, DisksMove DEF DiskMoves

LEMMA OnDiskStays ==
    ASSUME PlaceInv, Solo, Changes, NEW q \in Run, run[q].pc \in {"extract", "embed"},
           Upload(q).kind = "topic", run'[q].job = run[q].job,
           NEW name, NEW chunks, OnDisk(q, name, chunks)
    PROVE  OnDisk(q, name, chunks)'
<1>1. disk'[run[q].job] \subseteq disk[run[q].job]
  BY DiskShrinks
<1> QED
  BY <1>1 DEF OnDisk

\* A document withdrawn soils the runs of its topic.
LEMMA WithdrawSoils ==
    ASSUME NEW t, NEW name, Withdraws(t, name), NEW q \in Run, Concerns(q, t)
    PROVE  ~run'[q].clean
BY DirtyFields DEF Withdraws, Soiled

\* The chunks a clean run has put stay.
LEMMA CleanDocStays ==
    ASSUME PlaceInv, Changes, CleanAlone, NEW q \in Run, NEW t \in Topic,
           Concerns(q, t), run[q].clean, run'[q].clean, NEW name, NEW n, NEW text,
           HasDoc(t, name, n, text), run[q].chunk # n \/ Path(q) # name
    PROVE  HasDoc(t, name, n, text)'
<1>1. ~Withdraws(t, name)
  BY WithdrawSoils
<1>2. \A r \in Run : Agrees(r, t, name, n, text)
  BY DEF CleanAlone, Agrees
<1> QED
  BY <1>1, <1>2, DocStays

LEMMA EmbeddingStays ==
    ASSUME PlaceInv, DocInv, Changes, NEW q \in Run, StaysAt(q)
    PROVE  Embedding(q)'
<1> SUFFICES ASSUME run'[q].pc = "embed", Upload(q)'.kind = "topic"
             PROVE  Embedding(q)'
  BY DEF Embedding, At
<1>1. run[q].pc = "embed" /\ run'[q].job = run[q].job
  BY DEF StaysAt
<1>2. /\ Upload(q).kind = "topic" /\ Upload(q)'.topic = Upload(q).topic
      /\ Upload(q)'.files = Upload(q).files
  BY <1>1, UploadStays
<1>3. Concerns(q, Upload(q).topic) /\ Upload(q).topic \in Topic
  BY <1>1, <1>2, PointConcerns
<1>4. PICK t, name, chunks, chunk :
         /\ t \in Topic /\ t = Upload(q).topic /\ name = Path(q)
         /\ chunks = run[q].chunks /\ chunk = run[q].chunk
  BY <1>3
<1>5. /\ Upload(q)'.topic = t /\ Path(q)' = name /\ run'[q].chunks = chunks
      /\ run'[q].chunk = chunk
  BY <1>2, <1>4 DEF StaysAt, Path
<1>6. /\ OnDisk(q, name, chunks)
      /\ run[q].clean => \A n \in 1 .. chunk - 1 : HasDoc(t, name, n, chunks[n])
  BY <1>1, <1>2, <1>4 DEF DocInv, Embedding, At
<1>7. OnDisk(q, name, chunks)'
  BY <1>1, <1>2, <1>6, OnDiskStays DEF DocInv
<1>8. ASSUME run'[q].clean, NEW n \in 1 .. chunk - 1
      PROVE  HasDoc(t, name, n, chunks[n])'
  <2>1. run[q].clean
    BY <1>8 DEF StaysAt
  <2>2. run[q].chunk # n
    <3>1. chunk \in Int
      BY <1>1, <1>4, Grounded DEF Stands
    <3> QED
      BY <1>4, <1>8, <3>1
  <2> QED
    BY <1>3, <1>4, <1>6, <1>8, <2>1, <2>2, CleanDocStays DEF DocInv
<1> QED
  BY <1>5, <1>7, <1>8 DEF Embedding

\* The run that takes an effect.
LEMMA EffectEmbedding ==
    ASSUME PlaceInv, DocInv, Changes, NEW r \in Run, Effect(r)
    PROVE  Embedding(r)'
<1> DEFINE l == run[r]
<1> SUFFICES ASSUME run'[r].pc = "embed", Upload(r)'.kind = "topic"
             PROVE  Embedding(r)'
  BY DEF Embedding, At
<1>1. run[r].pc # "idle" /\ Stands(r)
  BY Grounded DEF Effect
<1>2. ASSUME NEW pc, NEW file, NEW chunks, NEW chunk, NEW clean,
             Goes(r, pc, file, chunks, chunk, clean)
      PROVE  /\ run'[r].pc = pc /\ run'[r].job = l.job /\ run'[r].file = file
             /\ run'[r].chunks = chunks /\ run'[r].chunk = chunk /\ run'[r].clean = clean
  BY <1>2, LocalFields DEF Goes, Becomes
<1>3. CASE Loads(r)
  <2> DEFINE cut == ChunkTable[File(r)]
  <2>1. /\ Goes(r, "embed", l.file, cut, l.chunk, l.clean) /\ Found(r) # {}
        /\ l.pc = "extract" /\ UNCHANGED <<disk, jobs>>
    BY <1>3 DEF Loads
  <2>2. \A g \in disk[l.job] : g.name = Path(r) => g = File(r)
    BY <1>1, <2>1, FoundFile
  <2>3. PICK name, chunks : name = Path(r) /\ chunks = cut
    OBVIOUS
  <2> HIDE DEF cut
  <2>4. /\ run'[r].job = l.job /\ run'[r].file = l.file /\ run'[r].chunks = chunks
        /\ run'[r].chunk = l.chunk
    BY <1>2, <2>1, <2>3
  <2>5. l.chunk = 1 /\ Path(r)' = name
    BY <1>1, <2>1, <2>3, <2>4 DEF Stands, Path, Upload
  <2>6. OnDisk(r, name, chunks)'
    BY <2>1, <2>2, <2>3, <2>4 DEF OnDisk, cut
  <2>7. run'[r].chunk = 1
    BY <2>4, <2>5
  <2> QED
    BY <2>4, <2>5, <2>6, <2>7 DEF Embedding
<1>4. CASE l.pc = "embed"
  <2>1. ~(\E clean : Turns(r, clean)) /\ ~Moves(r, "raised") /\ ~Frees(r)
    <3>1. \A clean : Turns(r, clean) => run'[r].pc = "extract"
      BY <1>2 DEF Turns
    <3>2. Moves(r, "raised") => run'[r].pc = "raised"
      BY <1>2 DEF Moves
    <3>3. Frees(r) => run'[r].pc = "idle"
      BY DEF Frees, Becomes, Idle
    <3> QED
      BY <3>1, <3>2, <3>3
  <2>2. /\ Embeds(r) \/ Skips(r)
        /\ ~LastChunk(r)
    BY <1>4, <2>1, Zenon DEF Effect, Saves, Enlists, Shows, Ends, Leaves, Breaks, Passes, Loads,
                             Embeds, Skips, Loses
  <2>3. PICK clean : /\ Goes(r, "embed", l.file, l.chunks, l.chunk + 1, clean)
                     /\ clean => Embeds(r) /\ l.clean
    <3>1. CASE Embeds(r)
      BY <1>4, <2>2, <3>1 DEF Embeds
    <3>2. CASE Skips(r)
      BY <1>4, <2>2, <3>2, Zenon DEF Skips
    <3> QED
      BY <2>2, <3>1, <3>2
  <2>4. /\ run'[r].job = l.job /\ run'[r].file = l.file /\ run'[r].chunks = l.chunks
        /\ run'[r].chunk = l.chunk + 1 /\ run'[r].clean = clean
    BY <1>2, <2>3
  <2>5. /\ Upload(r).kind = "topic" /\ Upload(r)'.topic = Upload(r).topic
        /\ Upload(r)'.files = Upload(r).files
    BY <1>1, <2>4, UploadStays
  <2>6. Concerns(r, Upload(r).topic) /\ Upload(r).topic \in Topic
    BY <1>4, <2>5, PointConcerns
  <2>7. PICK t, name, chunks, chunk :
           /\ t \in Topic /\ t = Upload(r).topic /\ name = Path(r)
           /\ chunks = l.chunks /\ chunk = l.chunk
    BY <2>6
  <2>8. Upload(r)'.topic = t /\ Path(r)' = name
    BY <2>4, <2>5, <2>7 DEF Path
  <2>9. /\ OnDisk(r, name, chunks)
        /\ l.clean => \A n \in 1 .. chunk - 1 : HasDoc(t, name, n, chunks[n])
    BY <1>4, <2>5, <2>7 DEF DocInv, Embedding, At
  <2>10. OnDisk(r, name, chunks)'
    BY <1>4, <2>4, <2>5, <2>9, OnDiskStays DEF DocInv
  <2>11. chunk \in Int
    BY <1>1, <1>4, <2>7 DEF Stands
  <2>12. ASSUME run'[r].clean, NEW n \in 1 .. chunk
         PROVE  HasDoc(t, name, n, chunks[n])'
    <3>1. Embeds(r) /\ l.clean
      BY <2>3, <2>4, <2>12
    <3>2. CASE n = chunk
      BY <1>4, <2>6, <2>7, <3>1, <3>2, DocPut DEF Embeds
    <3>3. CASE n # chunk
      <4>1. n \in 1 .. chunk - 1
        BY <2>11, <2>12, <3>3
      <4> QED
        BY <2>6, <2>7, <2>9, <2>12, <3>1, <3>3, <4>1, CleanDocStays DEF DocInv
    <3> QED
      BY <3>2, <3>3
  <2>13. run'[r].chunks = chunks /\ run'[r].chunk - 1 = chunk
    BY <2>4, <2>7, <2>11
  <2> QED
    BY <2>8, <2>10, <2>12, <2>13 DEF Embedding
<1>5. l.pc = "embed" \/ Loads(r)
  <2>1. ASSUME NEW pc, NEW file, NEW chunks, NEW chunk, NEW clean,
               Goes(r, pc, file, chunks, chunk, clean), pc # "embed"
        PROVE  FALSE
    BY <1>2, <2>1
  <2>2. ~Frees(r)
    BY DEF Frees, Becomes, Idle
  <2> QED
    BY <2>1, <2>2 DEF Effect, Saves, Enlists, Shows, Ends, Leaves, Breaks, Passes, Moves, Turns,
                      Embeds, Skips, Loses
<1> QED
  BY <1>3, <1>4, <1>5

LEMMA AskedEmbedding ==
    ASSUME PlaceInv, Changes, NEW r \in Run, NEW j \in Job, Asks(r, j)
    PROVE  Embedding(r)'
BY AskedRun DEF Embedding, At

LEMMA EmbeddingKept ==
    ASSUME PlaceInv, DocInv, Changes
    PROVE  \A q \in Run : Embedding(q)'
<1>1. CASE Restarts
  BY <1>1 DEF Restarts, Embedding, At, Idle
<1> QED
  BY <1>1, OthersStayed, EmbeddingStays, EffectEmbedding, AskedEmbedding DEF Asks

\* What becomes of the documents that are whole.
LEMMA CurrentMoves ==
    ASSUME Changes, NEW d \in current'
    PROVE  \/ d \in current
           \/ \E r \in Run :
                 /\ Embeds(r) /\ Upload(r).kind = "topic" /\ LastChunk(r) /\ run[r].clean
                 /\ d = [topic |-> Upload(r).topic, name |-> Path(r), chunks |-> run[r].chunks]
<1>1. ASSUME NEW r \in Run, Embeds(r)
      PROVE  \/ d \in current
             \/ \E q \in Run :
                   /\ Embeds(q) /\ Upload(q).kind = "topic" /\ LastChunk(q) /\ run[q].clean
                   /\ d = [topic |-> Upload(q).topic, name |-> Path(q), chunks |-> run[q].chunks]
  <2>1. CASE Upload(r).kind = "topic" /\ LastChunk(r) /\ run[r].clean
    BY <1>1, <2>1 DEF Embeds
  <2>2. CASE ~(Upload(r).kind = "topic" /\ LastChunk(r) /\ run[r].clean)
    BY <1>1, <2>2, Zenon DEF Embeds
  <2> QED
    BY <2>1, <2>2
<1>2. CASE \E r \in Run : Effect(r) /\ ~Embeds(r)
  BY <1>2 DEF Effect, Saves, Enlists, Shows, Ends, Leaves, Breaks, Passes, Loads, Skips, Loses
<1> QED
  BY <1>1, <1>2 DEF Changes, Posts, PostsAs, Chats, Retriggers, Erases, Withdraws, Clears, Restarts,
                    Undisturbed

LEMMA TurnedFields ==
    ASSUME NEW r, NEW clean, Turns(r, clean)
    PROVE  run'[r].pc = "extract" /\ run'[r].job = run[r].job /\ run'[r].clean = clean
<1>1. ASSUME NEW pc, NEW file, NEW chunks, NEW chunk, Goes(r, pc, file, chunks, chunk, clean)
      PROVE  run'[r].pc = pc /\ run'[r].job = run[r].job /\ run'[r].clean = clean
  BY <1>1, LocalFields DEF Goes, Becomes
<1> QED
  BY <1>1 DEF Turns

\* A document just embedded whole.
LEMMA NewWhole ==
    ASSUME PlaceInv, DocInv, Changes, NEW r \in Run,
           Embeds(r), Upload(r).kind = "topic", LastChunk(r), run[r].clean,
           NEW d, d = [topic |-> Upload(r).topic, name |-> Path(r), chunks |-> run[r].chunks]
    PROVE  WholeDoc(d)'
<1>1. d.topic = Upload(r).topic /\ d.name = Path(r) /\ d.chunks = run[r].chunks
  OBVIOUS
<1>2. run[r].pc = "embed" /\ store' = Upserted(r)
  BY DEF Embeds
<1>3. Concerns(r, d.topic) /\ d.topic \in Topic
  BY <1>1, <1>2, PointConcerns
<1>4. PICK f \in Files : d.chunks = ChunkTable[f]
  BY <1>1, <1>2, Grounded DEF Stands
<1>5. run[r].chunk = Len(d.chunks) /\ Len(d.chunks) \in Nat /\ DOMAIN d.chunks = 1 .. Len(d.chunks)
  BY <1>1, <1>4, TableSeq DEF LastChunk
<1>6. \A n \in 1 .. Len(d.chunks) - 1 : HasDoc(d.topic, d.name, n, d.chunks[n])
  BY <1>1, <1>2, <1>5 DEF DocInv, Embedding, At
<1>7. Turns(r, run[r].clean)
  BY DEF Embeds
<1>8. run'[r].clean
  <2>2. run'[r].clean = run[r].clean
    BY <1>7, TurnedFields
  <2> QED
    BY <2>2
<1>9. ASSUME NEW n \in DOMAIN d.chunks
      PROVE  HasDoc(d.topic, d.name, n, d.chunks[n])'
  <2>1. CASE n = Len(d.chunks)
    BY <1>1, <1>2, <1>3, <1>5, <2>1, DocPut
  <2>2. CASE n # Len(d.chunks)
    <3>1. n \in 1 .. Len(d.chunks) - 1
      BY <1>5, <1>9, <2>2
    <3> QED
      BY <1>3, <1>5, <1>6, <1>8, <2>2, <3>1, CleanDocStays DEF DocInv
  <2> QED
    BY <2>1, <2>2
<1> QED
  BY <1>3, <1>9 DEF WholeDoc

LEMMA WholeStays ==
    ASSUME PlaceInv, DocInv, Changes, NEW d \in current, d \in current'
    PROVE  WholeDoc(d)'
<1>1. d.topic \in Topic /\ \A n \in DOMAIN d.chunks : HasDoc(d.topic, d.name, n, d.chunks[n])
  BY DEF DocInv, WholeDoc
<1>2. ~Withdraws(d.topic, d.name)
  BY DEF Withdraws, Undisturbed
<1>3. ASSUME NEW r \in Run, NEW n
      PROVE  Agrees(r, d.topic, d.name, n, d.chunks[n])
  <2> SUFFICES ASSUME run[r].pc = "embed", Concerns(r, d.topic), Path(r) = d.name,
                      run[r].chunk = n
               PROVE  run[r].chunks[n] = d.chunks[n]
    BY DEF Agrees
  <2>1. d.name \in Names(r)
    BY PointConcerns DEF Concerns
  <2> QED
    BY <2>1 DEF DocInv, Repeats, At
<1>4. \A n \in DOMAIN d.chunks : HasDoc(d.topic, d.name, n, d.chunks[n])'
  BY <1>1, <1>2, <1>3, DocStays
<1> QED
  BY <1>1, <1>4 DEF WholeDoc

\* A run past its storing, at the documents of a topic, that changes nothing of
\* what it repeats.
LEMMA RepeatsStays ==
    ASSUME PlaceInv, DocInv, Changes, NEW d \in current, NEW q \in Run, StaysAt(q)
    PROVE  Repeats(d, q)'
<1> SUFFICES ASSUME Concerns(q, d.topic)', d.name \in Names(q)'
             PROVE  Repeats(d, q)'
  BY DEF Repeats
<1>1. Continues(q) /\ run[q].pc # "idle" /\ run'[q].job = run[q].job
  BY DEF StaysAt, Continues, Concerns, At
<1>2. Concerns(q, d.topic) /\ Upload(q)'.files = Upload(q).files /\ Upload(q).kind = "topic"
  BY <1>1, ConcernsBefore, UploadStays DEF Concerns
<1>3. d.name \in Names(q)
  BY <1>2 DEF Names
<1>4. /\ run[q].pc \in {"extract", "embed"} /\ OnDisk(q, d.name, d.chunks)
      /\ run[q].pc = "embed" /\ Path(q) = d.name => run[q].chunks = d.chunks
  BY <1>2, <1>3 DEF DocInv, Repeats, At
<1>5. OnDisk(q, d.name, d.chunks)'
  BY <1>1, <1>2, <1>4, OnDiskStays DEF DocInv
<1>6. Path(q)' = Path(q)
  BY <1>2 DEF Path, StaysAt
<1> QED
  BY <1>4, <1>5, <1>6 DEF Repeats, At, StaysAt

LEMMA EffectRepeats ==
    ASSUME PlaceInv, DocInv, Changes, NEW d \in current, NEW r \in Run, Effect(r)
    PROVE  Repeats(d, r)'
<1> DEFINE l == run[r]
<1> SUFFICES ASSUME Concerns(r, d.topic)', d.name \in Names(r)'
             PROVE  Repeats(d, r)'
  BY DEF Repeats
<1>1. run'[r].pc # "idle" /\ run[r].pc # "idle" /\ run'[r].job = run[r].job
  BY EffectContinues DEF Continues, Concerns, At
<1>2. Concerns(r, d.topic) /\ Upload(r)'.files = Upload(r).files /\ Upload(r).kind = "topic"
  BY <1>1, EffectContinues, ConcernsBefore, UploadStays DEF Concerns
<1>3. d.name \in Names(r)
  BY <1>2 DEF Names
<1>4. /\ run[r].pc \in {"extract", "embed"} /\ OnDisk(r, d.name, d.chunks)
      /\ run[r].pc = "embed" /\ Path(r) = d.name => run[r].chunks = d.chunks
  BY <1>2, <1>3 DEF DocInv, Repeats, At
<1>5. OnDisk(r, d.name, d.chunks)'
  BY <1>1, <1>2, <1>4, OnDiskStays DEF DocInv
<1>6. ASSUME NEW pc, NEW file, NEW chunks, NEW chunk, NEW clean,
             Goes(r, pc, file, chunks, chunk, clean)
      PROVE  run'[r].pc = pc /\ run'[r].file = file /\ run'[r].chunks = chunks
  BY <1>6, LocalFields DEF Goes, Becomes
<1>7. ASSUME NEW clean, Turns(r, clean)
      PROVE  Repeats(d, r)'
  <2>1. run'[r].pc = "extract"
    BY <1>6, <1>7 DEF Turns
  <2> QED
    BY <1>5, <2>1 DEF Repeats, At
<1>8. ASSUME NEW chunk, NEW clean, l.pc = "embed", Goes(r, l.pc, l.file, l.chunks, chunk, clean)
      PROVE  Repeats(d, r)'
  <2>1. run'[r].pc = "embed" /\ run'[r].file = l.file /\ run'[r].chunks = l.chunks
    BY <1>6, <1>8
  <2>2. Path(r)' = Path(r)
    BY <1>2, <2>1 DEF Path
  <2> QED
    BY <1>4, <1>5, <1>8, <2>1, <2>2 DEF Repeats, At
<1>9. CASE Loads(r)
  <2> DEFINE cut == ChunkTable[File(r)]
  <2>1. Goes(r, "embed", l.file, cut, l.chunk, l.clean) /\ Found(r) # {}
    BY <1>9 DEF Loads
  <2>2. File(r) \in disk[l.job] /\ File(r).name = Path(r)
    BY <1>1, <2>1, FoundFile DEF Found
  <2>3. Path(r) = d.name => cut = d.chunks
    BY <1>4, <2>2 DEF OnDisk
  <2> HIDE DEF cut
  <2>4. run'[r].pc = "embed" /\ run'[r].file = l.file /\ run'[r].chunks = cut
    BY <1>6, <2>1
  <2>5. Path(r)' = Path(r)
    BY <1>2, <2>4 DEF Path
  <2> QED
    BY <1>5, <2>3, <2>4, <2>5 DEF Repeats, At
<1>10. CASE Passes(r) \/ Loses(r) \/ Embeds(r)
  BY <1>2, <1>7, <1>8, <1>10 DEF Passes, Loses, Embeds
<1>11. CASE Skips(r)
  <2>1. PICK no : no = FALSE
    BY Zenon
  <2>2. l.pc = "embed" /\ (Turns(r, no) \/ Goes(r, l.pc, l.file, l.chunks, l.chunk + 1, no))
    BY <1>11, <2>1, Zenon DEF Skips
  <2> QED
    BY <1>7, <1>8, <2>2
<1>12. ~Frees(r)
  BY <1>1 DEF Frees, Becomes, Idle
<1> QED
  BY <1>2, <1>4, <1>9, <1>10, <1>11, <1>12 DEF Effect, Saves, Enlists, Shows, Ends, Leaves, Breaks

\* A run that asks is not at a document that stays.
LEMMA AskedRepeats ==
    ASSUME PlaceInv, DocInv, Changes, NEW d \in current, d \in current',
           NEW r \in Run, NEW j \in Job, Asks(r, j)
    PROVE  Repeats(d, r)'
<1> SUFFICES ASSUME Concerns(r, d.topic)', d.name \in Names(r)'
             PROVE  FALSE
  BY DEF Repeats
<1>1. d.topic \in Topic
  BY DEF DocInv, WholeDoc
<1>2. PICK files \in Batches : /\ PostsAs(r, j, "topic", d.topic, files)
                               /\ Upload(r)'.files = Valid(files)
  BY <1>1, PostedRun
<1>3. d.name \notin {f.name : f \in ToSet(files)}
  BY <1>2 DEF PostsAs, Undisturbed
<1>4. d.name \in {f.name : f \in ToSet(Valid(files))}
  BY <1>2 DEF Names
<1> QED
  BY <1>3, <1>4, ValidFiles

\* A document just embedded is met by no other run.
LEMMA NewRepeats ==
    ASSUME PlaceInv, DocInv, Changes, NEW r \in Run,
           Embeds(r), Upload(r).kind = "topic", LastChunk(r), run[r].clean,
           NEW d, d = [topic |-> Upload(r).topic, name |-> Path(r), chunks |-> run[r].chunks],
           NEW q \in Run
    PROVE  Repeats(d, q)'
<1>1. d.topic = Upload(r).topic /\ d.name = Path(r) /\ d.chunks = run[r].chunks
  OBVIOUS
<1>2. run[r].pc = "embed" /\ Turns(r, run[r].clean)
  BY DEF Embeds
<1>3. Concerns(r, d.topic) /\ d.topic \in Topic
  BY <1>1, <1>2, PointConcerns
<1>4. run'[r].pc = "extract" /\ run'[r].job = run[r].job
  BY <1>2, TurnedFields
<1>5. OnDisk(r, d.name, d.chunks)'
  <2>1. OnDisk(r, d.name, d.chunks)
    BY <1>1, <1>2 DEF DocInv, Embedding, At
  <2> QED
    BY <1>2, <1>4, <2>1, OnDiskStays DEF DocInv
<1>6. CASE q = r
  BY <1>4, <1>5, <1>6 DEF Repeats, At
<1>7. CASE q # r
  <2>1. Alone(r)
    BY <1>2 DEF Turns, Goes, Becomes
  <2>2. Continues(q)
    BY <1>7, <2>1 DEF Alone, Continues
  <2>3. ~Concerns(q, d.topic)'
    BY <1>3, <1>7, <2>2, ConcernsBefore DEF DocInv, CleanAlone
  <2> QED
    BY <2>3 DEF Repeats
<1> QED
  BY <1>6, <1>7

LEMMA DocKept ==
    ASSUME PlaceInv, DocInv, [Next]_vars
    PROVE  DocInv'
<1>1. Changes \/ UNCHANGED vars
  BY StepMoves
<1>2. CASE UNCHANGED vars
  <2>1. UNCHANGED <<run, jobs, disk, store, current>>
    BY <1>2 DEF vars
  <2>2. Solo' /\ CleanAlone'
    BY <2>1 DEF DocInv, Solo, CleanAlone, Concerns, Upload, At
  <2>3. \A r \in Run : Embedding(r)'
    BY <2>1 DEF DocInv, Embedding, OnDisk, HasDoc, Path, Upload, At
  <2>4. \A d \in current : WholeDoc(d)'
    BY <2>1 DEF DocInv, WholeDoc, HasDoc
  <2>5. \A d \in current, r \in Run : Repeats(d, r)'
    BY <2>1 DEF DocInv, Repeats, Concerns, OnDisk, Names, Path, Upload, At
  <2> QED
    BY <2>1, <2>2, <2>3, <2>4, <2>5 DEF DocInv
<1>3. CASE Changes
  <2>1. Solo' /\ CleanAlone'
    BY <1>3, SoloKept, CleanAloneKept DEF DocInv
  <2>2. \A q \in Run : Embedding(q)'
    BY <1>3, EmbeddingKept
  <2>3. \A d \in current' : WholeDoc(d)'
    BY <1>3, CurrentMoves, NewWhole, WholeStays
  <2>4. ASSUME NEW d \in current', NEW q \in Run
        PROVE  Repeats(d, q)'
    <3>1. CASE d \in current
      <4>1. CASE Restarts
        BY <4>1 DEF Restarts, Repeats, Concerns, At, Idle
      <4> QED
        BY <1>3, <2>4, <3>1, <4>1, OthersStayed, RepeatsStays, EffectRepeats, AskedRepeats DEF Asks
    <3>2. CASE d \notin current
      BY <1>3, <2>4, <3>2, CurrentMoves, NewRepeats
    <3> QED
      BY <3>1, <3>2
  <2> QED
    BY <2>1, <2>2, <2>3, <2>4 DEF DocInv
<1> QED
  BY <1>1, <1>2, <1>3

\* A document of a topic that was embedded from the first chunk to the last is
\* all there until it is uploaded again or removed: other documents, other
\* topics, ingestions and the uploads that were under way do not take its chunks.
THEOREM DocumentsStayWhole == Spec => []TopicDocumentWhole
<1>1. Init => DocInv
  <2> SUFFICES ASSUME Init
               PROVE  DocInv
    OBVIOUS
  <2>1. current = {} /\ \A r \in Run : run[r].pc = "idle"
    BY DEF Init, Idle
  <2> QED
    BY <2>1 DEF DocInv, Solo, CleanAlone, Embedding, Concerns, At
<1>2. PlaceInv /\ DocInv /\ [Next]_vars => DocInv'
  BY DocKept
<1>3. DocInv => TopicDocumentWhole
  BY DEF DocInv, WholeDoc, HasDoc, TopicDocumentWhole
<1> QED
  BY <1>1, <1>2, <1>3, PlaceHolds, PTL DEF Spec
-----------------------------------------------------------------------------
(* Sums, and the blocks that have room.                                    *)

Pick(s) == CHOOSE x \in s : TRUE
SumStep(F, s, sum) == IF s = {} THEN 0 ELSE F[Pick(s)] + sum[s \ {Pick(s)}]
SumOver(F, D) == CHOOSE sum : sum = [s \in SUBSET D |-> SumStep(F, s, sum)]

LEMMA SumIs ==
    ASSUME NEW F, NEW D, D = DOMAIN F
    PROVE  SumFunction(F) = SumOver(F, D)[D]
BY DEF SumFunction, SumFunctionOnSet, FoldFunctionOnSet, MapThenFoldSet, SumOver, SumStep, Pick

KeepStep(row, room, i, kept) ==
    IF i > Len(row) THEN [in |-> {}, used |-> 0]
    ELSE IF kept[i + 1].used + row[i].tokens <= room
         THEN [in |-> kept[i + 1].in \cup {i}, used |-> kept[i + 1].used + row[i].tokens]
         ELSE kept[i + 1]
Keeping(row, room) ==
    CHOOSE kept : kept = [i \in 1 .. Len(row) + 1 |-> KeepStep(row, room, i, kept)]

LEMMA KeptIs ==
    ASSUME NEW row, NEW room, ~(room <= 0)
    PROVE  Kept(row, room) = Keeping(row, room)[1].in
BY DEF Kept, Keeping, KeepStep

LEMMA Picked ==
    ASSUME NEW D, IsFiniteSet(D), NEW s \in SUBSET D
    PROVE  /\ IsFiniteSet(s) /\ Cardinality(s) \in Nat /\ (s = {} <=> Cardinality(s) = 0)
           /\ Cardinality(s) <= Cardinality(D)
           /\ s # {} => Pick(s) \in s
           /\ \A x \in s : s \ {x} \in SUBSET D /\ Cardinality(s \ {x}) = Cardinality(s) - 1
<1>1. IsFiniteSet(s) /\ Cardinality(s) <= Cardinality(D)
  BY FS_Subset
<1>2. Cardinality(s) \in Nat /\ (s = {} <=> Cardinality(s) = 0)
  BY <1>1, FS_CardinalityType, FS_EmptySet
<1>3. \A x \in s : Cardinality(s \ {x}) = Cardinality(s) - 1
  BY <1>1, FS_RemoveElement
<1>4. s # {} => Pick(s) \in s
  BY DEF Pick
<1> QED
  BY <1>1, <1>2, <1>3, <1>4

\* The recursion of a sum is satisfied.
LEMMA SumUnfolds ==
    ASSUME NEW D, IsFiniteSet(D), NEW F, \A x \in D : F[x] \in Nat
    PROVE  LET sum == SumOver(F, D) IN
           /\ \A s \in SUBSET D : sum[s] = SumStep(F, s, sum)
           /\ \A s \in SUBSET D : sum[s] \in Nat
<1> DEFINE Good(g, m) == \A s \in SUBSET D : Cardinality(s) <= m => g[s] = SumStep(F, s, g)
           S == {m \in Nat : \E g \in [SUBSET D -> Nat] : Good(g, m)}
<1>1. 0 \in S
  <2> DEFINE g == [s \in SUBSET D |-> 0]
  <2>1. g \in [SUBSET D -> Nat]
    OBVIOUS
  <2>2. Good(g, 0)
    <3>1. ASSUME NEW s \in SUBSET D, Cardinality(s) <= 0
          PROVE  g[s] = SumStep(F, s, g)
      <4>1. s = {}
        BY <3>1, Picked
      <4> QED
        BY <4>1 DEF SumStep
    <3> QED
      BY <3>1
  <2> QED
    BY <2>1, <2>2
<1>2. ASSUME NEW m \in S
      PROVE  m + 1 \in S
  <2>1. PICK g \in [SUBSET D -> Nat] : Good(g, m)
    BY <1>2
  <2> DEFINE h == [s \in SUBSET D |-> IF Cardinality(s) <= m THEN g[s] ELSE SumStep(F, s, g)]
  <2>2. ASSUME NEW s \in SUBSET D
        PROVE  SumStep(F, s, g) \in Nat
    BY Picked DEF SumStep
  <2>3. h \in [SUBSET D -> Nat]
    BY <2>2
  <2>4. ASSUME NEW s \in SUBSET D, Cardinality(s) <= m + 1
        PROVE  h[s] = SumStep(F, s, h)
    <3>1. h[s] = SumStep(F, s, g)
      BY <2>1
    <3>2. CASE s = {}
      BY <3>1, <3>2 DEF SumStep
    <3>3. CASE s # {}
      <4>1. /\ s \ {Pick(s)} \in SUBSET D
            /\ Cardinality(s \ {Pick(s)}) = Cardinality(s) - 1 /\ Cardinality(s) \in Nat
        BY <3>3, Picked
      <4>2. Cardinality(s \ {Pick(s)}) <= m
        BY <1>2, <2>4, <4>1
      <4>3. h[s \ {Pick(s)}] = g[s \ {Pick(s)}]
        BY <4>1, <4>2
      <4> HIDE DEF h
      <4> QED
        BY <3>1, <3>3, <4>3 DEF SumStep
    <3> QED
      BY <3>2, <3>3
  <2> HIDE DEF h
  <2>5. Good(h, m + 1)
    BY <2>4
  <2> QED
    BY <1>2, <2>3, <2>5
<1>3. Cardinality(D) \in S
  <2>1. Cardinality(D) \in Nat
    BY FS_CardinalityType
  <2> HIDE DEF S
  <2>2. S \in SUBSET Nat
    BY DEF S
  <2> QED
    BY <1>1, <1>2, <2>1, <2>2, AllNaturals
<1>4. PICK g \in [SUBSET D -> Nat] : Good(g, Cardinality(D))
  BY <1>3
<1>5. \A s \in SUBSET D : g[s] = SumStep(F, s, g)
  BY <1>4, Picked
<1>6. g = [s \in SUBSET D |-> SumStep(F, s, g)]
  BY <1>5
<1>7. PICK sum : sum = SumOver(F, D)
  OBVIOUS
<1>8. sum = [s \in SUBSET D |-> SumStep(F, s, sum)]
  BY <1>6, <1>7 DEF SumOver
<1>9. \A s \in SUBSET D : sum[s] = SumStep(F, s, sum)
  BY <1>8, Zenon
<1> DEFINE T == {m \in Nat : \A s \in SUBSET D : Cardinality(s) <= m => sum[s] \in Nat}
<1>10. 0 \in T
  <2>1. ASSUME NEW s \in SUBSET D, Cardinality(s) <= 0
        PROVE  sum[s] \in Nat
    <3>1. s = {}
      BY <2>1, Picked
    <3>2. SumStep(F, s, sum) = 0
      BY <3>1 DEF SumStep
    <3> QED
      BY <1>9, <3>2
  <2> QED
    BY <2>1
<1>11. ASSUME NEW m \in T
       PROVE  m + 1 \in T
  <2>1. ASSUME NEW s \in SUBSET D, Cardinality(s) <= m + 1
        PROVE  sum[s] \in Nat
    <3>1. CASE s = {}
      BY <1>9, <3>1 DEF SumStep
    <3>2. CASE s # {}
      <4>1. /\ s \ {Pick(s)} \in SUBSET D /\ Pick(s) \in D
            /\ Cardinality(s \ {Pick(s)}) = Cardinality(s) - 1 /\ Cardinality(s) \in Nat
        BY <3>2, Picked
      <4>2. Cardinality(s \ {Pick(s)}) <= m
        BY <1>11, <2>1, <4>1
      <4>3. sum[s \ {Pick(s)}] \in Nat
        BY <1>11, <4>1, <4>2
      <4>4. sum[s] = F[Pick(s)] + sum[s \ {Pick(s)}]
        BY <1>9, <3>2 DEF SumStep
      <4> QED
        BY <4>1, <4>3, <4>4
    <3> QED
      BY <3>1, <3>2
  <2> QED
    BY <1>11, <2>1
<1>12. T = Nat
  <2>1. T \in SUBSET Nat
    OBVIOUS
  <2> HIDE DEF T
  <2> QED
    BY <1>10, <1>11, <2>1, AllNaturals
<1>13. ASSUME NEW s \in SUBSET D
       PROVE  sum[s] \in Nat
  <2>1. Cardinality(s) \in T
    BY <1>12, Picked
  <2> QED
    BY <2>1, Picked
<1> QED
  BY <1>7, <1>9, <1>13

LEMMA SumEmpty ==
    ASSUME NEW D, IsFiniteSet(D), NEW F, \A x \in D : F[x] \in Nat
    PROVE  SumOver(F, D)[{}] = 0
<1>1. PICK sum : sum = SumOver(F, D)
  OBVIOUS
<1>2. \A s \in SUBSET D : sum[s] = SumStep(F, s, sum)
  BY <1>1, SumUnfolds
<1>3. sum[{}] = 0
  BY <1>2 DEF SumStep
<1> QED
  BY <1>1, <1>3

\* Any element may be taken out first.
LEMMA SumTaken ==
    ASSUME NEW D, IsFiniteSet(D), NEW F, \A x \in D : F[x] \in Nat,
           NEW z \in SUBSET D, NEW e \in z
    PROVE  SumOver(F, D)[z] = F[e] + SumOver(F, D)[z \ {e}]
<1>1. PICK sum : sum = SumOver(F, D)
  OBVIOUS
<1>2. \A s \in SUBSET D : sum[s] = SumStep(F, s, sum) /\ sum[s] \in Nat
  BY <1>1, SumUnfolds
<1> DEFINE S == {m \in Nat : \A s \in SUBSET D : Cardinality(s) <= m =>
                                \A x \in s : sum[s] = F[x] + sum[s \ {x}]}
<1>3. 0 \in S
  <2>1. \A s \in SUBSET D : Cardinality(s) <= 0 => s = {}
    BY Picked
  <2> QED
    BY <2>1
<1>4. ASSUME NEW m \in S
      PROVE  m + 1 \in S
  <2>1. ASSUME NEW s \in SUBSET D, Cardinality(s) <= m + 1, NEW x \in s
        PROVE  sum[s] = F[x] + sum[s \ {x}]
    <3>1. PICK c \in s : c = Pick(s)
      BY <2>1, Picked
    <3>2. sum[s] = F[c] + sum[s \ {c}]
      BY <1>2, <2>1, <3>1 DEF SumStep
    <3>3. CASE c = x
      BY <3>2, <3>3
    <3>4. CASE c # x
      <4>1. /\ s \ {c} \in SUBSET D /\ s \ {x} \in SUBSET D /\ Cardinality(s) \in Nat
            /\ Cardinality(s \ {c}) = Cardinality(s) - 1
            /\ Cardinality(s \ {x}) = Cardinality(s) - 1
        BY <2>1, <3>1, Picked
      <4>2. Cardinality(s \ {c}) <= m /\ Cardinality(s \ {x}) <= m
        BY <1>4, <2>1, <4>1
      <4>3. sum[s \ {c}] = F[x] + sum[(s \ {c}) \ {x}]
        BY <1>4, <2>1, <3>4, <4>1, <4>2
      <4>4. sum[s \ {x}] = F[c] + sum[(s \ {x}) \ {c}]
        BY <1>4, <3>1, <3>4, <4>1, <4>2
      <4>5. (s \ {x}) \ {c} = (s \ {c}) \ {x} /\ (s \ {x}) \ {c} \in SUBSET D
        OBVIOUS
      <4>6. PICK rest \in Nat : rest = sum[(s \ {x}) \ {c}]
        BY <1>2, <4>5
      <4>7. F[x] \in Nat /\ F[c] \in Nat
        BY <2>1, <3>1
      <4>8. sum[s \ {c}] = F[x] + rest /\ sum[s \ {x}] = F[c] + rest
        BY <4>3, <4>4, <4>5, <4>6
      <4>9. PICK fx \in Nat, fc \in Nat : fx = F[x] /\ fc = F[c]
        BY <4>7
      <4>10. fc + (fx + rest) = fx + (fc + rest)
        OBVIOUS
      <4> QED
        BY <3>2, <4>8, <4>9, <4>10
    <3> QED
      BY <3>3, <3>4
  <2> QED
    BY <1>4, <2>1
<1>5. S = Nat
  <2>1. S \in SUBSET Nat
    OBVIOUS
  <2> HIDE DEF S
  <2> QED
    BY <1>3, <1>4, <2>1, AllNaturals
<1>6. ASSUME NEW s \in SUBSET D, NEW x \in s
      PROVE  sum[s] = F[x] + sum[s \ {x}]
  <2>1. Cardinality(s) \in S
    BY <1>5, Picked
  <2> QED
    BY <2>1, Picked
<1>7. sum[z] = F[e] + sum[z \ {e}]
  BY <1>6
<1> QED
  BY <1>1, <1>7

\* The recursion of the blocks kept is satisfied.
Span(row) == 1 .. Len(row) + 1
Keepings(row) == [in : SUBSET (1 .. Len(row)), used : Nat]

LEMMA KeepStepType ==
    ASSUME NEW row \in Seq(Shown), NEW room \in Nat, NEW i \in Span(row),
           NEW kept, i <= Len(row) => kept[i + 1] \in Keepings(row)
    PROVE  KeepStep(row, room, i, kept) \in Keepings(row)
<1>0. Len(row) \in Nat /\ i \in 1 .. Len(row) + 1
  BY DEF Span
<1>1. CASE i > Len(row)
  BY <1>1 DEF KeepStep, Keepings
<1>2. CASE i <= Len(row)
  <2>1. row[i] \in Shown
    BY <1>0, <1>2
  <2>2. row[i].tokens \in Nat
    BY <2>1, FileTexts DEF Shown
  <2> QED
    BY <1>0, <1>2, <2>2 DEF KeepStep, Keepings
<1> QED
  BY <1>0, <1>1, <1>2

LEMMA KeepUnfolds ==
    ASSUME NEW row \in Seq(Shown), NEW room \in Nat
    PROVE  LET kept == Keeping(row, room) IN
           \A i \in Span(row) : /\ kept[i] = KeepStep(row, room, i, kept)
                                /\ kept[i] \in Keepings(row)
<1> DEFINE n == Len(row)
           V == Keepings(row)
           Good(g, m) == \A i \in Span(row) : i + m > n => g[i] = KeepStep(row, room, i, g)
           S == {m \in Nat : m <= n => \E g \in [Span(row) -> V] : Good(g, m)}
<1>0. n \in Nat /\ Span(row) = 1 .. n + 1
  BY DEF Span
<1> HIDE DEF V
<1>1. 0 \in S
  <2> DEFINE g == [i \in Span(row) |-> [in |-> {}, used |-> 0]]
  <2>1. g \in [Span(row) -> V]
    BY DEF V, Keepings
  <2>2. Good(g, 0)
    BY <1>0 DEF KeepStep
  <2> QED
    BY <2>1, <2>2
<1>2. ASSUME NEW m \in S
      PROVE  m + 1 \in S
  <2>0. SUFFICES ASSUME m + 1 <= n
                 PROVE  \E g \in [Span(row) -> V] : Good(g, m + 1)
    BY <1>2
  <2>1. PICK g \in [Span(row) -> V] : Good(g, m)
    BY <1>0, <1>2, <2>0
  <2> DEFINE h == [i \in Span(row) |-> IF i + m > n THEN g[i] ELSE KeepStep(row, room, i, g)]
  <2>2. ASSUME NEW i \in Span(row)
        PROVE  KeepStep(row, room, i, g) \in V
    <3>1. i <= n => i + 1 \in Span(row)
      BY <1>0
    <3>2. i <= n => g[i + 1] \in V
      BY <2>1, <3>1
    <3> QED
      BY <3>2, KeepStepType DEF V
  <2>3. h \in [Span(row) -> V]
    BY <2>1, <2>2
  <2>4. ASSUME NEW i \in Span(row), i + (m + 1) > n
        PROVE  h[i] = KeepStep(row, room, i, h)
    <3>1. h[i] = KeepStep(row, room, i, g)
      BY <2>1
    <3>2. CASE i > n
      BY <3>1, <3>2 DEF KeepStep
    <3>3. CASE i <= n
      <4>1. i + 1 \in Span(row) /\ (i + 1) + m > n
        BY <1>0, <1>2, <2>4, <3>3
      <4>2. h[i + 1] = g[i + 1]
        BY <4>1
      <4> HIDE DEF h
      <4> QED
        BY <3>1, <4>2 DEF KeepStep
    <3> QED
      BY <1>0, <3>2, <3>3
  <2> HIDE DEF h
  <2> QED
    BY <2>3, <2>4
<1>3. n \in S
  <2> HIDE DEF S
  <2>1. S \in SUBSET Nat
    BY DEF S
  <2> QED
    BY <1>0, <1>1, <1>2, <2>1, AllNaturals
<1>4. PICK g \in [Span(row) -> V] : Good(g, n)
  BY <1>0, <1>3
<1>5. \A i \in Span(row) : g[i] = KeepStep(row, room, i, g)
  BY <1>0, <1>4
<1>6. g = [i \in 1 .. Len(row) + 1 |-> KeepStep(row, room, i, g)]
  BY <1>0, <1>5
<1>7. PICK kept : kept = Keeping(row, room)
  OBVIOUS
<1>8. kept = [i \in 1 .. Len(row) + 1 |-> KeepStep(row, room, i, kept)]
  BY <1>6, <1>7 DEF Keeping
<1>9. \A i \in Span(row) : kept[i] = KeepStep(row, room, i, kept)
  BY <1>8, Zenon DEF Span
<1> DEFINE T == {m \in Nat : \A i \in Span(row) : i + m > n => kept[i] \in V}
<1>10. 0 \in T
  <2>1. ASSUME NEW i \in Span(row), i + 0 > n
        PROVE  kept[i] \in V
    <3>1. i > n
      BY <1>0, <2>1
    <3>2. KeepStep(row, room, i, kept) \in V
      BY <1>0, <3>1, KeepStepType DEF V
    <3> QED
      BY <1>9, <3>2
  <2> QED
    BY <2>1
<1>11. ASSUME NEW m \in T
       PROVE  m + 1 \in T
  <2>1. ASSUME NEW i \in Span(row), i + (m + 1) > n
        PROVE  kept[i] \in V
    <3>1. i <= n => i + 1 \in Span(row) /\ (i + 1) + m > n
      BY <1>0, <1>11, <2>1
    <3>2. i <= n => kept[i + 1] \in V
      BY <1>11, <3>1
    <3>3. KeepStep(row, room, i, kept) \in V
      BY <3>2, KeepStepType DEF V
    <3> QED
      BY <1>9, <3>3
  <2> QED
    BY <1>11, <2>1
<1>12. T = Nat
  <2>1. T \in SUBSET Nat
    OBVIOUS
  <2> HIDE DEF T
  <2> QED
    BY <1>10, <1>11, <2>1, AllNaturals
<1>13. \A i \in Span(row) : kept[i] \in V
  <2>1. n \in T
    BY <1>0, <1>12
  <2> QED
    BY <1>0, <2>1
<1> QED
  BY <1>7, <1>9, <1>13 DEF V

\* What is kept for newer blocks is no more than their sum, and a block once kept
\* stays kept.
LEMMA UsedIsBounded ==
    ASSUME NEW row \in Seq(Shown), NEW room \in Nat, NEW i \in 1 .. Len(row)
    PROVE  LET kept == Keeping(row, room)
               D == i .. Len(row)
               F == [k \in D |-> row[k].tokens]
               sum == SumOver(F, D)
           IN  /\ \A k \in i .. Len(row) + 1 : kept[k].used <= sum[k .. Len(row)]
               /\ sum[D] = row[i].tokens + sum[i + 1 .. Len(row)]
               /\ \A s \in SUBSET D : sum[s] \in Nat
<1> DEFINE n == Len(row)
           D == i .. n
           F == [k \in D |-> row[k].tokens]
<1>0. n \in Nat /\ i \in 1 .. n /\ \A k \in D : k \in 1 .. n /\ k \in Nat
  OBVIOUS
<1>1. PICK kept, sum : kept = Keeping(row, room) /\ sum = SumOver(F, D)
  OBVIOUS
<1>2. \A k \in Span(row) : kept[k] = KeepStep(row, room, k, kept) /\ kept[k] \in Keepings(row)
  BY <1>1, KeepUnfolds
<1>3. \A k \in D : F[k] = row[k].tokens /\ F[k] \in Nat
  <2>1. ASSUME NEW k \in D
        PROVE  row[k].tokens \in Nat
    <3>1. row[k] \in Shown
      BY <1>0
    <3> QED
      BY <3>1, FileTexts DEF Shown
  <2> QED
    BY <2>1
<1>4. IsFiniteSet(D)
  BY <1>0, FS_Interval
<1> HIDE DEF F
<1>5. /\ sum[{}] = 0
      /\ \A s \in SUBSET D : sum[s] \in Nat
      /\ \A s \in SUBSET D : \A x \in s : sum[s] = F[x] + sum[s \ {x}]
  <2>1. \A k \in D : F[k] \in Nat
    BY <1>3
  <2> HIDE DEF D
  <2>2. \A s \in SUBSET D : sum[s] \in Nat
    BY <1>1, <1>4, <2>1, SumUnfolds
  <2>3. sum[{}] = 0
    BY <1>1, <1>4, <2>1, SumEmpty
  <2>4. ASSUME NEW s \in SUBSET D, NEW x \in s
        PROVE  sum[s] = F[x] + sum[s \ {x}]
    <3>1. SumOver(F, D)[s] = F[x] + SumOver(F, D)[s \ {x}]
      BY <1>4, <2>1, SumTaken
    <3> QED
      BY <1>1, <3>1
  <2> QED
    BY <2>2, <2>3, <2>4
<1>6. ASSUME NEW k \in D
      PROVE  sum[k .. n] = row[k].tokens + sum[k + 1 .. n]
  <2>1. k .. n \in SUBSET D /\ k \in k .. n /\ (k .. n) \ {k} = k + 1 .. n
    BY <1>0
  <2> QED
    BY <1>3, <1>5, <2>1
<1> DEFINE S == {m \in Nat : \A k \in i .. n + 1 : k + m > n => kept[k].used <= sum[k .. n]}
<1>7. 0 \in S
  <2>1. ASSUME NEW k \in i .. n + 1, k + 0 > n
        PROVE  kept[k].used <= sum[k .. n]
    <3>1. k > n /\ k \in Span(row) /\ k .. n = {}
      BY <1>0, <2>1 DEF Span
    <3>2. kept[k] = [in |-> {}, used |-> 0]
      BY <1>2, <3>1 DEF KeepStep
    <3> QED
      BY <1>5, <3>1, <3>2
  <2> QED
    BY <2>1
<1>8. ASSUME NEW m \in S
      PROVE  m + 1 \in S
  <2>1. ASSUME NEW k \in i .. n + 1, k + (m + 1) > n
        PROVE  kept[k].used <= sum[k .. n]
    <3>1. CASE k > n
      BY <1>0, <1>7, <2>1, <3>1
    <3>2. CASE k <= n
      <4>1. k \in D /\ k + 1 \in i .. n + 1 /\ (k + 1) + m > n /\ k \in Span(row)
            /\ k + 1 \in Span(row)
        BY <1>0, <1>8, <2>1, <3>2 DEF Span
      <4>2. kept[k + 1].used <= sum[k + 1 .. n]
        BY <1>8, <4>1
      <4>3. kept[k].used \in {kept[k + 1].used, kept[k + 1].used + row[k].tokens}
        <5>1. kept[k] = KeepStep(row, room, k, kept)
          BY <1>2, <4>1
        <5>2. ~(k > Len(row))
          BY <3>2, <1>0, <4>1
        <5> QED
          BY <5>1, <5>2 DEF KeepStep
      <4>4. kept[k + 1].used \in Nat
        BY <1>2, <4>1 DEF Keepings
      <4>5. k + 1 .. n \in SUBSET D
        BY <1>0, <4>1
      <4>6. sum[k + 1 .. n] \in Nat /\ row[k].tokens \in Nat
        BY <1>3, <1>5, <4>1, <4>5
      <4>7. sum[k .. n] = row[k].tokens + sum[k + 1 .. n]
        BY <1>6, <4>1
      <4>8. PICK more \in Nat, newer \in Nat, own \in Nat :
               more = sum[k + 1 .. n] /\ newer = kept[k + 1].used /\ own = row[k].tokens
        BY <4>4, <4>6
      <4>9. newer <= more /\ kept[k].used \in {newer, newer + own} /\ sum[k .. n] = own + more
        BY <4>2, <4>3, <4>7, <4>8
      <4>10. newer <= own + more /\ newer + own <= own + more
        BY <4>9
      <4> QED
        BY <4>9, <4>10
    <3> QED
      BY <1>0, <2>1, <3>1, <3>2
  <2> QED
    BY <1>8, <2>1
<1>9. S = Nat
  <2>1. S \in SUBSET Nat
    OBVIOUS
  <2> HIDE DEF S
  <2> QED
    BY <1>7, <1>8, <2>1, AllNaturals
<1>10. \A k \in i .. n + 1 : kept[k].used <= sum[k .. n]
  <2>1. n \in S
    BY <1>0, <1>9
  <2> QED
    BY <1>0, <2>1
<1>11. sum[D] = row[i].tokens + sum[i + 1 .. n]
  BY <1>0, <1>6
<1> QED
  BY <1>1, <1>5, <1>10, <1>11 DEF F

LEMMA KeptGrows ==
    ASSUME NEW row \in Seq(Shown), NEW room \in Nat, NEW i \in 1 .. Len(row),
           i \in Keeping(row, room)[i].in
    PROVE  i \in Keeping(row, room)[1].in
<1>0. Len(row) \in Nat
  OBVIOUS
<1>1. PICK kept : kept = Keeping(row, room)
  OBVIOUS
<1>2. \A k \in Span(row) : kept[k] = KeepStep(row, room, k, kept)
  BY <1>1, KeepUnfolds
<1> DEFINE S == {m \in Nat : \A k \in 1 .. i : k + m >= i => i \in kept[k].in}
<1>3. 0 \in S
  BY <1>0, <1>1
<1>4. ASSUME NEW m \in S
      PROVE  m + 1 \in S
  <2>1. ASSUME NEW k \in 1 .. i, k + (m + 1) >= i
        PROVE  i \in kept[k].in
    <3>1. CASE k = i
      BY <1>1, <3>1
    <3>2. CASE k # i
      <4>1. k + 1 \in 1 .. i /\ (k + 1) + m >= i /\ k \in Span(row) /\ ~(k > Len(row))
        BY <1>0, <1>4, <2>1, <3>2 DEF Span
      <4>2. i \in kept[k + 1].in
        BY <1>4, <4>1
      <4>3. kept[k] = KeepStep(row, room, k, kept)
        BY <1>2, <4>1
      <4> QED
        BY <4>1, <4>2, <4>3 DEF KeepStep
    <3> QED
      BY <3>1, <3>2
  <2> QED
    BY <1>4, <2>1
<1>5. S = Nat
  <2>1. S \in SUBSET Nat
    OBVIOUS
  <2> HIDE DEF S
  <2> QED
    BY <1>3, <1>4, <2>1, AllNaturals
<1>6. i \in S
  BY <1>0, <1>5
<1>7. i \in kept[1].in
  BY <1>0, <1>6
<1> QED
  BY <1>1, <1>7

\* A block is put before the mentor unless it and the blocks after it exceed the
\* room.
LEMMA RoomIsUsed ==
    ASSUME NEW row \in Seq(Shown), NEW i \in DOMAIN row, NEW prompt \in 0 .. Budget
    PROVE  \/ i \in Kept(row, Budget - prompt)
           \/ prompt + SumFunction([k \in i .. Len(row) |-> row[k].tokens]) > Budget
<1> DEFINE n == Len(row)
           D == i .. n
           F == [k \in D |-> row[k].tokens]
           room == Budget - prompt
<1>0. n \in Nat /\ i \in 1 .. n /\ Budget \in Nat
  BY UploadsAssumption
<1>1. room \in Nat /\ Budget = prompt + room /\ prompt \in Nat
  BY <1>0
<1>2. row[i] \in Shown
  BY <1>0
<1>3. row[i].tokens \in Nat /\ row[i].tokens > 0
  BY <1>2, FileTexts DEF Shown
<1> HIDE DEF room
<1>4. PICK kept, sum : kept = Keeping(row, room) /\ sum = SumOver(F, D)
  OBVIOUS
<1>5. SumFunction(F) = sum[D]
  BY <1>4, SumIs
<1>6. /\ \A k \in i .. n + 1 : kept[k].used <= sum[k .. n]
      /\ sum[D] = row[i].tokens + sum[i + 1 .. n]
      /\ \A s \in SUBSET D : sum[s] \in Nat
  BY <1>0, <1>1, <1>4, UsedIsBounded
<1>7. i + 1 \in i .. n + 1 /\ i + 1 .. n \in SUBSET D /\ i \in Span(row) /\ i + 1 \in Span(row)
  BY <1>0 DEF Span
<1>8. sum[i + 1 .. n] \in Nat /\ kept[i + 1].used <= sum[i + 1 .. n]
  BY <1>6, <1>7
<1>9. kept[i] = KeepStep(row, room, i, kept) /\ kept[i + 1].used \in Nat
  BY <1>1, <1>4, <1>7, KeepUnfolds DEF Keepings
<1>10. CASE room = 0
  BY <1>1, <1>3, <1>5, <1>6, <1>8, <1>10
<1>11. CASE room # 0 /\ kept[i + 1].used + row[i].tokens <= room
  <2>1. i \in kept[i].in
    BY <1>0, <1>9, <1>11 DEF KeepStep
  <2>2. i \in kept[1].in
    BY <1>0, <1>1, <1>4, <2>1, KeptGrows
  <2>3. Kept(row, room) = kept[1].in
    BY <1>1, <1>4, <1>11, KeptIs
  <2> QED
    BY <2>2, <2>3 DEF room
<1>12. CASE ~(kept[i + 1].used + row[i].tokens <= room)
  <2>1. sum[D] > room
    BY <1>1, <1>3, <1>6, <1>8, <1>9, <1>12
  <2>2. sum[D] \in Nat
    BY <1>6
  <2> QED
    BY <1>1, <1>5, <2>1, <2>2
<1> QED
  BY <1>10, <1>11, <1>12
-----------------------------------------------------------------------------
(* ServedInv.                                                              *)

Pushes(r) ==
    LET t == Upload(r).topic  f == Upload(r).files[1] IN
    /\ run[r].pc = "push" /\ ~Blank(Text(f))
    /\ blocks' = [blocks EXCEPT ![t] = Append(@, f)] /\ UNCHANGED erased

LEMMA RowsMove ==
    ASSUME Changes
    PROVE  \/ UNCHANGED <<blocks, erased>>
           \/ \E r \in Run : Pushes(r)
           \/ \E t \in Topic : Erases(t)
BY DEF Changes, Effect, Saves, Enlists, Shows, Ends, Leaves, Breaks, Passes, Loads, Embeds, Skips,
       Loses, Posts, PostsAs, Chats, Retriggers, Withdraws, Clears, Restarts, Pushes

\* What is pushed was read, and is not blank.
LEMMA PushedShown ==
    ASSUME PlaceInv, NEW r \in Run, run[r].pc = "push", ~Blank(Text(Upload(r).files[1]))
    PROVE  Upload(r).files[1] \in Shown /\ Upload(r).topic \in Topic
<1> DEFINE f == Upload(r).files[1]
<1>1. run[r].job \in Job /\ Born(run[r].job)
  BY Grounded
<1>2. f \in Files /\ Upload(r).topic \in Topic
  BY <1>1 DEF Born, Upload
<1>3. Blank(<<>>)
  BY DEF Blank
<1> QED
  BY <1>2, <1>3 DEF Shown, Text

\* A row only grows, until its topic is deleted.
Grows(t) ==
    \/ blocks'[t] = blocks[t] /\ (t \in erased => t \in erased')
    \/ (\E f \in Shown : blocks'[t] = Append(blocks[t], f)) /\ (t \in erased => t \in erased')
    \/ blocks'[t] = <<>> /\ t \in erased'

LEMMA RowsGrow ==
    ASSUME PlaceInv, Changes
    PROVE  \A t \in Topic : Grows(t)
<1>0. DataShape
  BY ShapeParts DEF PlaceInv
<1>1. CASE UNCHANGED <<blocks, erased>>
  BY <1>1 DEF Grows
<1>2. ASSUME NEW r \in Run, Pushes(r)
      PROVE  \A t \in Topic : Grows(t)
  <2> DEFINE f == Upload(r).files[1]
  <2>1. f \in Shown /\ Upload(r).topic \in Topic
    BY <1>2, PushedShown DEF Pushes
  <2>2. blocks' = [blocks EXCEPT ![Upload(r).topic] = Append(@, f)] /\ UNCHANGED erased
    BY <1>2 DEF Pushes
  <2> HIDE DEF f
  <2>3. \A t \in Topic : blocks'[t] = IF t = Upload(r).topic THEN Append(blocks[t], f)
                                      ELSE blocks[t]
    BY <1>0, <2>1, <2>2 DEF DataShape
  <2> QED
    BY <2>1, <2>2, <2>3 DEF Grows
<1>3. ASSUME NEW s \in Topic, Erases(s)
      PROVE  \A t \in Topic : Grows(t)
  <2>1. \A t \in Topic : blocks'[t] = IF t = s THEN <<>> ELSE blocks[t]
    BY <1>0, <1>3 DEF DataShape, Erases
  <2> QED
    BY <1>3, <2>1 DEF Grows, Erases
<1> QED
  BY <1>1, <1>2, <1>3, RowsMove

LEMMA InRowStays ==
    ASSUME PlaceInv, ServedInv, Changes, NEW j \in Job, Born(j), InRow(j)
    PROVE  InRow(j)'
<1>1. PICK t \in Topic : t = jobs[j].topic /\ t = jobs'[j].topic
  BY UploadsKept DEF Born, SameUpload
<1>2. PICK f : f = jobs[j].files[1] /\ f = jobs'[j].files[1]
  BY UploadsKept DEF SameUpload
<1>3. Grows(t) /\ blocks[t] \in Seq(Shown)
  BY RowsGrow DEF ServedInv
<1>4. ASSUME t \notin erased'
      PROVE  \E i \in DOMAIN blocks'[t] : blocks'[t][i] = f
  <2>1. t \notin erased
    BY <1>3, <1>4 DEF Grows
  <2>2. PICK i \in DOMAIN blocks[t] : blocks[t][i] = f
    BY <1>1, <1>2, <2>1 DEF InRow
  <2>3. CASE blocks'[t] = blocks[t]
    BY <2>2, <2>3
  <2>4. ASSUME NEW g \in Shown, blocks'[t] = Append(blocks[t], g)
        PROVE  \E k \in DOMAIN blocks'[t] : blocks'[t][k] = f
    <3>1. i \in DOMAIN blocks'[t] /\ blocks'[t][i] = blocks[t][i]
      BY <1>3, <2>2, <2>4
    <3> QED
      BY <2>2, <3>1
  <2> QED
    BY <1>3, <1>4, <2>3, <2>4 DEF Grows
<1> QED
  BY <1>1, <1>2, <1>4 DEF InRow

LEMMA ShowsInRow ==
    ASSUME PlaceInv, ServedInv, Changes, NEW r \in Run, run[r].pc # "idle",
           Shows(r), NEW j \in Job, j = run[r].job
    PROVE  InRow(j)'
<1>0. DataShape /\ Born(j)
  BY Grounded
<1>1. PICK t \in Topic : t = jobs[j].topic /\ t = jobs'[j].topic
  BY <1>0, UploadsKept DEF Born, SameUpload
<1>2. PICK f : f = jobs[j].files[1] /\ f = jobs'[j].files[1]
  BY <1>0, UploadsKept DEF SameUpload
<1>3. f \in Shown
  BY <1>2, PushedShown DEF Shows, Upload
<1>4. blocks'[t] = Append(blocks[t], f) /\ blocks[t] \in Seq(Shown)
  BY <1>0, <1>1, <1>2 DEF Shows, Upload, DataShape, ServedInv
<1>5. /\ Len(blocks[t]) + 1 \in DOMAIN Append(blocks[t], f)
      /\ Append(blocks[t], f)[Len(blocks[t]) + 1] = f
  BY <1>3, <1>4
<1> QED
  BY <1>1, <1>2, <1>4, <1>5 DEF InRow

\* A run is ready when it was, or when it has just pushed.
LEMMA ReadyRuns ==
    ASSUME PlaceInv, Changes, NEW q \in Run, run'[q].pc = "ready"
    PROVE  \/ run[q].pc = "ready" /\ run'[q].job = run[q].job
           \/ run[q].pc # "idle" /\ Shows(q) /\ run'[q].job = run[q].job
<1>2. ASSUME StaysAt(q)
      PROVE  run[q].pc = "ready" /\ run'[q].job = run[q].job
  BY <1>2 DEF StaysAt
<1>3. ASSUME NEW j \in Job, Posts(q, j) \/ Chats(q, j) \/ Retriggers(q, j)
      PROVE  FALSE
  <2>1. \E pc \in {"storing", "push", "extract"} : \E clean : Starts(q, pc, j, clean)
    BY <1>3 DEF Posts, PostsAs, Chats, Retriggers
  <2>2. run'[q].pc \in {"storing", "push", "extract"}
    BY <2>1, LocalFields DEF Starts
  <2> QED
    BY <2>2
<1>4. CASE Restarts
  BY <1>4 DEF Restarts, Idle
<1>5. ASSUME Effect(q)
      PROVE  run[q].pc # "idle" /\ Shows(q) /\ run'[q].job = run[q].job
  <2>1. ASSUME NEW pc, NEW file, NEW chunks, NEW chunk, NEW clean,
               Goes(q, pc, file, chunks, chunk, clean)
        PROVE  run'[q].pc = pc /\ run'[q].job = run[q].job
    BY <2>1, LocalFields DEF Goes, Becomes
  <2>2. ASSUME NEW clean, Turns(q, clean)
        PROVE  FALSE
    BY <2>1, <2>2 DEF Turns
  <2>3. ASSUME Frees(q)
        PROVE  FALSE
    BY <2>3 DEF Frees, Becomes, Idle
  <2>4. CASE Shows(q)
    BY <1>5, <2>1, <2>4 DEF Effect, Shows, Moves
  <2>5. CASE Saves(q)
    BY <2>1, <2>5 DEF Saves
  <2>6. CASE Enlists(q)
    BY <2>1, <2>3, <2>6 DEF Enlists
  <2>7. CASE Ends(q) \/ Leaves(q)
    BY <2>3, <2>7 DEF Ends, Leaves
  <2>8. CASE Breaks(q)
    BY <2>1, <2>8 DEF Breaks, Moves
  <2>9. CASE Passes(q)
    BY <2>2, <2>9 DEF Passes
  <2>10. CASE Loads(q)
    BY <2>1, <2>10 DEF Loads
  <2>11. CASE Embeds(q)
    BY <2>1, <2>2, <2>11 DEF Embeds
  <2>12. CASE Skips(q)
    <3>1. PICK no : no = FALSE
      BY Zenon
    <3>2. run[q].pc = "embed" /\ IF LastChunk(q) THEN Turns(q, no)
          ELSE LET l == run[q] IN Goes(q, l.pc, l.file, l.chunks, l.chunk + 1, no)
      BY <2>12, <3>1, Zenon DEF Skips
    <3> QED
      BY <2>1, <2>2, <3>2
  <2>13. CASE Loses(q)
    BY <2>1, <2>2, <2>13 DEF Loses, Moves
  <2> QED
    BY <1>5, <2>4, <2>5, <2>6, <2>7, <2>8, <2>9, <2>10, <2>11, <2>12, <2>13 DEF Effect
<1> QED
  BY <1>2, <1>3, <1>4, <1>5, OthersStayed

LEMMA ServedKept ==
    ASSUME PlaceInv, ServedInv, [Next]_vars
    PROVE  ServedInv'
<1>1. Changes \/ UNCHANGED vars
  BY StepMoves
<1>2. CASE UNCHANGED vars
  BY <1>2 DEF vars, ServedInv, InRow, At
<1>3. CASE Changes
  <2>1. ASSUME NEW t \in Topic
        PROVE  blocks'[t] \in Seq(Shown)
    <3>1. Grows(t) /\ blocks[t] \in Seq(Shown)
      BY <1>3, RowsGrow DEF ServedInv
    <3>2. \A f \in Shown : Append(blocks[t], f) \in Seq(Shown)
      BY <3>1
    <3>3. <<>> \in Seq(Shown)
      OBVIOUS
    <3> QED
      BY <3>1, <3>2, <3>3, Zenon DEF Grows
  <2>2. ASSUME NEW j \in Job, jobs'[j].kind = "session", jobs'[j].status = "done"
        PROVE  InRow(j)'
    <3>1. CASE jobs[j].status = "done"
      <4>1. Born(j)
        BY <3>1 DEF PlaceInv, Unborn, NoJob
      <4>2. jobs[j].kind = "session"
        BY <1>3, <2>2, <4>1, UploadsKept DEF SameUpload
      <4> QED
        BY <1>3, <3>1, <4>1, <4>2, InRowStays DEF ServedInv
    <3>2. ASSUME NEW r \in Run, Finishes(r, j)
          PROVE  InRow(j)'
      <4>1. run[r].pc = "ready" /\ run[r].job = j
        BY <2>2, <3>2 DEF Finishes
      <4>2. Born(j) /\ InRow(j)
        BY <4>1, Grounded DEF ServedInv, At
      <4> QED
        BY <1>3, <4>2, InRowStays
    <3> QED
      BY <1>3, <2>2, <3>1, <3>2, StatusMoves
  <2>3. ASSUME NEW q \in Run, run'[q].pc = "ready"
        PROVE  InRow(run[q].job)'
    <3>1. \/ run[q].pc = "ready" /\ run'[q].job = run[q].job
          \/ run[q].pc # "idle" /\ Shows(q) /\ run'[q].job = run[q].job
      BY <1>3, <2>3, ReadyRuns
    <3>2. PICK j \in Job : j = run[q].job /\ j = run'[q].job /\ Born(j)
      BY <3>1, Grounded
    <3>3. InRow(j)'
      BY <1>3, <3>1, <3>2, InRowStays, ShowsInRow DEF ServedInv, At
    <3> QED
      BY <3>2, <3>3
  <2> QED
    BY <2>1, <2>2, <2>3 DEF ServedInv, At
<1> QED
  BY <1>1, <1>2, <1>3

\* A file that was reported ready in a chat is in the row of its topic until the
\* topic is deleted, and is put before the mentor unless it and the files sent
\* after it exceed the room.
THEOREM ReadyIsServed == Spec => []DoneIsServed
<1>1. Init => ServedInv
  <2> SUFFICES ASSUME Init
               PROVE  ServedInv
    OBVIOUS
  <2>1. \A t \in Topic : blocks[t] = <<>>
    BY DEF Init
  <2>2. \A j \in Job : jobs[j].status = "none"
    BY DEF Init, NoJob
  <2>3. \A r \in Run : run[r].pc = "idle"
    BY DEF Init, Idle
  <2>4. <<>> \in Seq(Shown)
    OBVIOUS
  <2> QED
    BY <2>1, <2>2, <2>3, <2>4 DEF ServedInv, At
<1>2. PlaceInv /\ ServedInv /\ [Next]_vars => ServedInv'
  BY ServedKept
<1>3. ASSUME PlaceInv, ServedInv
      PROVE  DoneIsServed
  <2>1. ASSUME NEW j \in Job, jobs[j].kind = "session", jobs[j].status = "done",
               jobs[j].topic \notin erased
        PROVE  LET row == blocks[jobs[j].topic] IN
               \E i \in DOMAIN row :
                  /\ row[i] = jobs[j].files[1]
                  /\ \A prompt \in 0 .. Budget :
                        \/ i \in Served(jobs[j].topic, prompt)
                        \/ prompt + SumFunction([k \in i .. Len(row) |-> row[k].tokens]) > Budget
    <3>1. PICK row : row = blocks[jobs[j].topic]
      OBVIOUS
    <3>2. jobs[j].topic \in Topic
      BY <1>3, <2>1 DEF PlaceInv, Unborn, Born, NoJob
    <3>3. row \in Seq(Shown)
      BY <1>3, <3>1, <3>2 DEF ServedInv
    <3>4. PICK i \in DOMAIN row : row[i] = jobs[j].files[1]
      BY <1>3, <2>1, <3>1 DEF ServedInv, InRow
    <3>5. ASSUME NEW prompt \in 0 .. Budget
          PROVE  \/ i \in Served(jobs[j].topic, prompt)
                 \/ prompt + SumFunction([k \in i .. Len(row) |-> row[k].tokens]) > Budget
      BY <3>1, <3>3, RoomIsUsed DEF Served
    <3> QED
      BY <3>1, <3>4, <3>5
  <2> QED
    BY <2>1 DEF DoneIsServed
<1> QED
  BY <1>1, <1>2, <1>3, PlaceHolds, PTL DEF Spec
=============================================================================
