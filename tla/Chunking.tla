------------------------------- MODULE Chunking -------------------------------
(***************************************************************************)
(* How the text of a record becomes embedding inputs (chunking.py).  A     *)
(* text is a sequence of paragraphs and a paragraph the sequence of its    *)
(* tokens; white space is not modelled, so texts are joined by \o and the  *)
(* tokens of a join are those of its parts.                                *)
(***************************************************************************)
EXTENDS Integers, Sequences, SequencesExt

CONSTANTS Stops,           \* the tokens that are sentence terminators
          Target,          \* the tokens a chunk is packed to
          OverlapPercent,  \* the share of a chunk that the next one repeats
          PrefixTokens,    \* the title and value path before an input
          ModelTokenLimit

ASSUME ChunkingAssumption ==
  /\ Target \in Nat \ {0} /\ PrefixTokens \in Nat /\ ModelTokenLimit \in Nat
  /\ OverlapPercent \in 0..100

\* Pieces under construction: those that are complete and the open one.
Nothing == [done |-> <<>>, open |-> <<>>]

Close(pieces) ==
  IF pieces.open = <<>> THEN pieces.done ELSE Append(pieces.done, pieces.open)

\* _split_sentences: a sentence ends before its terminator, which begins the
\* next one.
Sentences(text) ==
  Close(FoldLeft(LAMBDA s, t :
                   IF t \in Stops /\ s.open # <<>>
                     THEN [done |-> Append(s.done, s.open), open |-> <<t>>]
                     ELSE [s EXCEPT !.open = Append(@, t)],
                 Nothing, text))

\* Mutant: what is open is forgotten when an oversize piece comes.
PackDropping(s, piece, split) ==
  IF Len(piece) > Target THEN [done |-> s.done \o split, open |-> <<>>]
  ELSE IF Len(s.open) + Len(piece) <= Target THEN [s EXCEPT !.open = @ \o piece]
  ELSE [done |-> Append(s.done, s.open), open |-> piece]

\* One piece of a packing: one over the target stands alone, as it is split.
Pack(s, piece, split) ==
  IF Len(piece) > Target THEN [done |-> Close(s) \o split, open |-> <<>>]
  ELSE IF Len(s.open) + Len(piece) <= Target THEN [s EXCEPT !.open = @ \o piece]
  ELSE [done |-> Append(s.done, s.open), open |-> piece]

PackSentences(paragraph) ==
  Close(FoldLeft(LAMBDA s, sentence : Pack(s, sentence, <<sentence>>),
                 Nothing, Sentences(paragraph)))

PackParagraphs(paragraphs) ==
  Close(FoldLeft(LAMBDA s, paragraph : Pack(s, paragraph, PackSentences(paragraph)),
                 Nothing, paragraphs))

OverlapLimit(chunk) ==
  LET share == (Len(chunk) * OverlapPercent) \div 100
  IN IF share > 0 THEN share ELSE 1

\* The longest run of sentences at the end of a chunk within the limit.
Overlap(chunk) ==
  LET sentences == Sentences(chunk)
      tails == {FlattenSeq(SubSeq(sentences, k, Len(sentences))) : k \in DOMAIN sentences}
      short == {tail \in tails : Len(tail) <= OverlapLimit(chunk)}
  IN IF short = {} THEN <<>> ELSE CHOOSE t \in short : \A u \in short : Len(u) <= Len(t)

ApplyOverlap(packed) ==
  [k \in DOMAIN packed |->
     [overlap |-> IF k = 1 THEN <<>> ELSE Overlap(packed[k - 1]), text |-> packed[k]]]

\* The chunks of one value: the text that is new and what is repeated.
ChunksOf(paragraphs) == ApplyOverlap(PackParagraphs(paragraphs))

InputTokens(chunk) == PrefixTokens + Len(chunk.overlap) + Len(chunk.text)

\* chunk_record: the chunks of all values in schema order.
PlanOf(record) ==
  FlattenSeq([v \in DOMAIN record.values |-> ChunksOf(record.values[v].paragraphs)])

\* It refuses a record with an embedding input over the model's limit.
Oversize(record) ==
  \E k \in DOMAIN PlanOf(record) : InputTokens(PlanOf(record)[k]) > ModelTokenLimit

\* missing_provenance: a value with text, the title or supersedes has no source.
MissingProvenance(record) ==
  \/ ~record.headSourced
  \/ \E v \in DOMAIN record.values :
       record.values[v].paragraphs # <<>> /\ ~record.values[v].sourced

-----------------------------------------------------------------------------
(* What a chunking is to be, whatever the packing. *)

\* It has all the text in order and repeats only the end of the chunk before,
\* within the limit; a chunk over the target has no place to be split at, and
\* two chunks are apart because they do not fit in one or stand at an oversize
\* paragraph.
KeepsText(paragraphs, chunks) ==
  /\ FlattenSeq([k \in DOMAIN chunks |-> chunks[k].text]) = FlattenSeq(paragraphs)
  /\ \A k \in DOMAIN chunks :
       /\ Len(chunks[k].text) > Target =>
            \A i \in 2..Len(chunks[k].text) : chunks[k].text[i] \notin Stops
       /\ IF k = 1 THEN chunks[k].overlap = <<>>
          ELSE /\ IsSuffix(chunks[k].overlap, chunks[k - 1].text)
               /\ Len(chunks[k].overlap) <= OverlapLimit(chunks[k - 1].text)
               /\ \/ Len(chunks[k - 1].text) + Len(chunks[k].text) > Target
                  \/ \E p \in DOMAIN paragraphs :
                       /\ Len(paragraphs[p]) > Target
                       /\ Range(paragraphs[p]) \intersect
                            (Range(chunks[k - 1].text) \union Range(chunks[k].text)) # {}
=============================================================================
