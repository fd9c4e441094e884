------------------------------- MODULE Chunker -------------------------------
(***************************************************************************)
(* How the ingestion service cuts the narrative sections of a resume into  *)
(* the chunks it embeds.  A text is a sequence of sentences, a sentence a  *)
(* sequence of words (a token is a word), a chunk a sequence of words.     *)
(*                                                                         *)
(* ingestion-pipeline/app/services/chunker_service.py                      *)
(***************************************************************************)
EXTENDS Integers, FiniteSets, SequencesExt

CONSTANTS
    MaxTokens,      \* MAX_CHUNK_TOKENS (512)
    OverlapTokens   \* OVERLAP_TOKENS (50)

ASSUME ChunkAssumption ==
    /\ OverlapTokens \in Nat
    /\ MaxTokens \in Nat
    /\ OverlapTokens < MaxTokens

\* Splitting yields no blank sentence.
IsText(text) ==
    text \in Seq(ToSet(text)) /\ \A s \in ToSet(text) : s # <<>> /\ s \in Seq(ToSet(s))

Words(text) == FlattenSeq(text)
Smaller(a, b) == IF a < b THEN a ELSE b

\* A sentence that no chunk can hold is cut every MaxTokens words, each piece
\* starting OverlapTokens before the end of the one before.
Stride == MaxTokens - OverlapTokens
Pieces(n) == IF n <= MaxTokens THEN 1 ELSE 1 + (n - MaxTokens + Stride - 1) \div Stride

ForceSplitWords(sentence) ==
    [i \in 1 .. Pieces(Len(sentence)) |->
        SubSeq(sentence, (i - 1) * Stride + 1,
               Smaller((i - 1) * Stride + MaxTokens, Len(sentence)))]

\* The last sentences of a chunk that fit in the overlap, and at least one.
OverlapSentences(text) ==
    LET From(i) == SubSeq(text, i, Len(text))
        starts == {i \in DOMAIN text :
                      i = Len(text) \/ Len(Words(From(i))) <= OverlapTokens}
    IN  IF text = <<>> THEN <<>>
        ELSE From(CHOOSE i \in starts : \A j \in starts : i <= j)

Flush(chunks, open) == IF open = <<>> THEN chunks ELSE Append(chunks, Words(open))
Fits(open, sentence) == Len(Words(open)) + Len(sentence) <= MaxTokens

\* Faulty: the overlap is carried over whether or not the sentence still fits.
TakeSentenceOverfull(st, sentence) ==
    IF Fits(st.open, sentence)
    THEN [st EXCEPT !.open = Append(@, sentence)]
    ELSE [chunks |-> Flush(st.chunks, st.open),
          open |-> Append(OverlapSentences(st.open), sentence)]

\* One turn of the loop: the sentence joins the open chunk, or closes it and
\* opens the next one with the overlap, which it closes too if still too long.
TakeSentence(st, sentence) ==
    LET carried == OverlapSentences(st.open)
        flushed == Flush(st.chunks, st.open)
    IN  IF Fits(st.open, sentence)
        THEN [st EXCEPT !.open = Append(@, sentence)]
        ELSE IF Fits(carried, sentence)
        THEN [chunks |-> flushed, open |-> Append(carried, sentence)]
        ELSE IF Len(sentence) <= MaxTokens
        THEN [chunks |-> Flush(flushed, carried), open |-> <<sentence>>]
        ELSE [chunks |-> Flush(flushed, carried) \o ForceSplitWords(sentence),
              open |-> <<>>]

SplitWithOverlap(text) ==
    LET last == FoldLeft(TakeSentence, [chunks |-> <<>>, open |-> <<>>], text)
    IN  Flush(last.chunks, last.open)

\* SplitText keeps a text that fits in one chunk whole; a blank text has none.
SplitText(text) ==
    IF Words(text) = <<>> THEN <<>>
    ELSE IF Len(Words(text)) <= MaxTokens THEN <<Words(text)>>
    ELSE SplitWithOverlap(text)

\* A section with sub-entries is cut entry by entry, and its text only when
\* they yield nothing.
ChunkSection(section) ==
    LET parts == IF section.entries # <<>> THEN section.entries ELSE <<section.text>>
        cut == FlattenSeq([i \in DOMAIN parts |-> SplitText(parts[i])])
    IN  IF cut # <<>> THEN cut ELSE SplitText(section.text)

ChunkUnstructured(sections) ==
    SplitText(FlattenSeq([i \in DOMAIN sections |-> sections[i].text]))

Chunk(sections) ==
    IF \A s \in ToSet(sections) : s.name = "unstructured"
    THEN ChunkUnstructured(sections)
    ELSE FlattenSeq([i \in DOMAIN sections |-> ChunkSection(sections[i])])

=============================================================================
