------------------------------- MODULE EmbedRun -------------------------------
(***************************************************************************)
(* The embedding of one record after another (ingest.py, _ingest_entry and *)
(* _embed_in_batches): the chunks of a record are taken in order into      *)
(* batches within two caps, each batch is one call of the provider, and    *)
(* the record is written when every chunk has its vector.  A dry run shows *)
(* the number of calls beforehand, counted by a loop of its own.           *)
(***************************************************************************)
EXTENDS Chunking, ProviderCall

CONSTANTS Records, BatchChunkCap, BatchTokenCap

Values == [paragraphs : Seq(Seq(Nat)), sourced : BOOLEAN]

ASSUME EmbedAssumption ==
  /\ BatchChunkCap \in Nat \ {0}
  /\ BatchTokenCap \in Nat
  /\ Records \subseteq [values : Seq(Values), headSourced : BOOLEAN]

Chunk == [overlap : Seq(Nat), text : Seq(Nat)]

VARIABLES
  pc,       \* "idle", "read", "embed" or "end"
  record,   \* the record whose turn it is
  chunks,   \* its plan
  rest,     \* the chunks not taken yet
  batch,    \* those taken for the next call
  tokens,   \* the tokens of their inputs
  vectors,  \* the chunks whose vectors came, in the order of the vectors
  calls,    \* history: the embedding calls made for it
  preview,  \* history: the calls a dry run shows for it
  result    \* what became of it

runVars == <<pc, record, chunks, rest, batch, tokens, vectors, calls, preview, result>>

vars == <<runVars, callVars>>

\* The test of both loops: a chunk goes into an empty batch or within the caps.
Fits(size, sum, chunk) ==
  \/ size = 0
  \/ size < BatchChunkCap /\ sum + InputTokens(chunk) <= BatchTokenCap

\* _batch_count: what the dry run prints and the result reports.
BatchCount(plan) ==
  LET counted == FoldLeft(LAMBDA s, c :
                   IF Fits(s.size, s.sum, c)
                     THEN [s EXCEPT !.size = @ + 1, !.sum = @ + InputTokens(c)]
                     ELSE [count |-> s.count + 1, size |-> 1, sum |-> InputTokens(c)],
                   [count |-> 0, size |-> 0, sum |-> 0], plan)
  IN IF counted.size > 0 THEN counted.count + 1 ELSE counted.count

NoRecord == [values |-> <<>>, headSourced |-> TRUE]

Init ==
  /\ pc = "idle" /\ record = NoRecord /\ result = "none"
  /\ chunks = <<>> /\ rest = <<>> /\ vectors = <<>>
  /\ batch = <<>> /\ tokens = 0
  /\ calls = 0 /\ preview = 0
  /\ CallInit

Read ==
  /\ pc = "idle" /\ pc' = "read"
  /\ record' \in Records
  /\ UNCHANGED <<chunks, rest, batch, tokens, vectors, calls, preview, result, callVars>>

\* The loop over the entries of the manifest.
NextRecord ==
  /\ pc = "end" /\ pc' = "idle"
  /\ record' = NoRecord /\ result' = "none"
  /\ chunks' = <<>> /\ rest' = <<>> /\ vectors' = <<>>
  /\ batch' = <<>> /\ tokens' = 0
  /\ calls' = 0 /\ preview' = 0
  /\ UNCHANGED callVars

End(outcome) == pc' = "end" /\ result' = outcome

Refuse ==
  /\ pc = "read"
  /\ \/ MissingProvenance(record) /\ End("provenance.missing")
     \/ ~MissingProvenance(record) /\ Oversize(record) /\ End("chunking.oversize")
  /\ UNCHANGED <<record, chunks, rest, batch, tokens, vectors, calls, preview, callVars>>

PlanRecord ==
  /\ pc = "read" /\ ~MissingProvenance(record) /\ ~Oversize(record)
  /\ pc' = "embed"
  /\ chunks' = PlanOf(record) /\ rest' = chunks'
  /\ preview' = BatchCount(chunks')
  /\ UNCHANGED <<record, batch, tokens, vectors, calls, result, callVars>>

Gathering == pc = "embed" /\ ~Calling

BatchFull == rest # <<>> => ~Fits(Len(batch), tokens, Head(rest))

Take ==
  /\ Gathering /\ rest # <<>> /\ ~BatchFull
  /\ rest' = Tail(rest)
  /\ batch' = Append(batch, Head(rest))
  /\ tokens' = tokens + InputTokens(Head(rest))
  /\ UNCHANGED <<pc, record, chunks, vectors, calls, preview, result, callVars>>

SendBatch ==
  /\ Gathering /\ batch # <<>> /\ BatchFull
  /\ Dial("embedding")
  /\ calls' = calls + 1
  /\ UNCHANGED <<pc, record, chunks, rest, batch, tokens, vectors, preview, result>>

\* Mutant: the tokens of the batch are not set back.
EmbeddedCounting ==
  /\ Replied("embedding") /\ HangUp
  /\ vectors' = vectors \o batch
  /\ batch' = <<>>
  /\ UNCHANGED <<pc, record, chunks, rest, tokens, calls, preview, result>>

\* The vectors of the batch come: the provider returns one for each input in
\* their order, and neither number nor index is checked here.
Embedded ==
  /\ Replied("embedding") /\ HangUp
  /\ vectors' = vectors \o batch
  /\ batch' = <<>> /\ tokens' = 0
  /\ UNCHANGED <<pc, record, chunks, rest, calls, preview, result>>

Redial == pc = "embed" /\ Retry /\ UNCHANGED runVars

\* Mutant: what has been embedded is written all the same.
EmbeddingFailsPartly ==
  /\ pc = "embed" /\ CallFails
  /\ End("current")
  /\ UNCHANGED <<record, chunks, rest, batch, tokens, vectors, calls, preview>>

\* The vectors of the earlier batches are dropped with the record.
EmbeddingFails ==
  /\ pc = "embed" /\ CallFails
  /\ End("provider.embedding")
  /\ vectors' = <<>>
  /\ UNCHANGED <<record, chunks, rest, batch, tokens, calls, preview>>

WriteRecord ==
  /\ Gathering /\ rest = <<>> /\ batch = <<>>
  /\ End("current")
  /\ UNCHANGED <<record, chunks, rest, batch, tokens, vectors, calls, preview, callVars>>

Next ==
  \/ Read \/ Refuse \/ PlanRecord \/ Take \/ SendBatch \/ Embedded \/ Redial
  \/ EmbeddingFails \/ WriteRecord \/ NextRecord

Spec == Init /\ [][Next]_vars

-----------------------------------------------------------------------------
(* What correctness means. *)

\* The chunks of every value that is embedded carry its text whole and in
\* order, however paragraphs, oversize paragraphs, sentences and overlaps fall
\* together (chunking.py, chunk_record).
ChunksKeepText ==
  pc = "embed" => \A v \in DOMAIN record.values :
                    LET paragraphs == record.values[v].paragraphs
                    IN KeepsText(paragraphs, ChunksOf(paragraphs))

\* A batch never passes a cap, unless a single input does (AC-7).
WithinCaps ==
  /\ Len(batch) <= BatchChunkCap
  /\ Len(batch) > 1 => tokens <= BatchTokenCap

\* The batches stay within the caps and a written record cost the calls that
\* the dry run had shown for it: the two loops over the inputs agree.
SpendAsPreviewed ==
  /\ WithinCaps
  /\ calls <= preview
  /\ result = "current" => calls = preview

\* A written record has one vector for each chunk, in the order of the chunks;
\* a chunk is in no batch twice and in none too few, whatever failed before.
VectorsMatchInputs ==
  /\ pc = "embed" => vectors \o batch \o rest = chunks
  /\ result = "current" => vectors = chunks /\ ~MissingProvenance(record)
  /\ result \notin {"none", "current"} => vectors = <<>>
=============================================================================
