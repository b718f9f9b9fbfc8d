------------------------------- MODULE AnswerRun -------------------------------
(***************************************************************************)
(* One query from its filters to its result (application/query.py,         *)
(* query_index): retrieval, the model's facets and draft, the check of     *)
(* every sentence of the draft against the evidence it cites, coverage of  *)
(* the facets, citations.  Freshness and the store are QueryRun's.  The    *)
(* provider may fail, send malformed or invalid responses, and its valid   *)
(* responses say whatever the validators let through.                      *)
(***************************************************************************)
EXTENDS Retrieval, Verification, ProviderCall

CONSTANTS TextOf,        \* [Chunks -> tokens of the chunk's text]
          SourcesOf,     \* [Chunks -> sequence of its sources]
          SuccessorsOf,  \* [record -> records that supersede it]
          Filters,       \* the filters a query may be given
          Scores,        \* lexical scores, 0 for none
          Distances,     \* vector distances
          Drafts,        \* what the model may draft: sequences of sentences
          Divisions,     \* what it may divide a sentence into
          Coverages,     \* the coverage rows it may write
          MaxFacets, MaxSentences, MaxCited

VARIABLES
  pc,         \* the next stage of the query
  eligible,   \* the active chunks that pass the filters
  lex, sem,   \* their ranks
  accepted,   \* the chunks selected as evidence, in order
  facets,     \* how many facets the question has
  draft,      \* the sentences the model wrote
  fates,      \* what became of the first of them
  verdicts,   \* the verdicts on the claims of each, if it was divided
  round,      \* of the decomposition of the next one
  claims,     \* its claims, once they are a valid division
  found,      \* the verdicts on the first of them
  rows,       \* the coverage rows
  citations,  \* the sources of the answer's sentences, in order
  disclosed,  \* the supersessions it discloses
  outcome     \* how the query ended

\* The model may give any reason, also the one of a query without sentences.
Row == [facet : 1..MaxFacets, covered : BOOLEAN, by : Seq(1..MaxSentences),
        reason : {"model", "none emitted"}]

InSequence(d) ==
  \A i \in DOMAIN d :
    d[i].text \in Seq(Range(d[i].text)) /\ d[i].cites \in Seq(Range(d[i].cites))

\* A provider's response is a sequence, whatever it holds, and a text is one;
\* ingest lets no chunk without a source into the store (missing_provenance).
ASSUME AnswerAssumption ==
  /\ MaxFacets \in Nat /\ MaxSentences \in Nat /\ MaxCited \in Nat
  /\ Scores \subseteq Nat /\ Distances \subseteq Nat
  /\ \A d \in Drafts : d \in Seq(Range(d)) /\ InSequence(d)
  /\ \A d \in Divisions :
       d \in Seq(Range(d)) /\ \A i \in DOMAIN d : d[i] \in Seq(Range(d[i]))
  /\ \A c \in Chunks : SourcesOf[c] \in Seq(Range(SourcesOf[c])) /\ SourcesOf[c] # <<>>
  /\ Coverages \subseteq Seq(Row)

retrieved == <<eligible, lex, sem, accepted>>

written == <<facets, draft>>

judged == <<fates, verdicts, round, claims, found>>

shown == <<citations, disclosed>>

answerVars == <<pc, retrieved, written, judged, rows, shown, outcome, callVars>>

Stages == {"filter", "lexical", "semantic", "select", "facets", "answer", "sentence",
           "decompose", "claim", "coverage", "cite", "recheck", "ended"}

Fates == {"emitted", "no_available_citations", "decomposition_invalid",
          "unsupported_sub_claim"}

\* An abstention names its stage.
Outcomes == {"none", "answered", "retrieval", "claim_verification", "failed",
             "integrity_failure"}

Evidence == Range(accepted)

Emitted == {i \in DOMAIN fates : fates[i] = "emitted"}

Ranks == [Chunks -> 0..CandidateLimit]

AnswerTypeOK ==
  /\ CallTypeOK
  /\ pc \in Stages
  /\ eligible \subseteq Chunks
  /\ lex \in Ranks /\ sem \in Ranks
  /\ accepted \in Seq(Chunks)
  /\ facets \in 0..MaxFacets
  /\ draft \in Drafts \union {<<>>}
  /\ fates \in Seq(Fates) /\ Len(fates) \in 0..Len(draft)
  /\ verdicts \in Seq(Seq(BOOLEAN)) /\ Len(verdicts) = Len(fates)
  /\ round \in {1, 2}
  /\ claims \in Divisions \union {<<>>}
  /\ found \in Seq(BOOLEAN) /\ Len(found) <= Len(claims)
  /\ rows \in Seq(Row)
  /\ outcome \in Outcomes /\ (outcome = "none" <=> pc # "ended")

AnswerInit ==
  /\ pc = "filter" /\ eligible = {} /\ lex = Unranked /\ sem = Unranked
  /\ accepted = <<>> /\ facets = 0 /\ draft = <<>> /\ fates = <<>> /\ verdicts = <<>>
  /\ round = 1 /\ claims = <<>> /\ found = <<>> /\ rows = <<>>
  /\ citations = <<>> /\ disclosed = {} /\ outcome = "none"
  /\ CallInit

End(result) == pc' = "ended" /\ outcome' = result

-----------------------------------------------------------------------------
(* Retrieval. *)

Filter(filters, active) ==
  /\ pc = "filter"
  /\ eligible' = Passing(filters) \intersect active
  /\ eligible' # {}
  /\ pc' = "lexical"
  /\ UNCHANGED <<lex, sem, accepted, written, judged, rows, shown, outcome, callVars>>

\* No chunk is active, or none passes.
NothingEligible(filters, active) ==
  /\ pc = "filter"
  /\ Passing(filters) \intersect active = {}
  /\ End("retrieval")
  /\ UNCHANGED <<retrieved, written, judged, rows, shown, callVars>>

\* The question is too long, or the store's parity is broken.
Unanswerable ==
  /\ pc = "lexical"
  /\ End("failed")
  /\ UNCHANGED <<retrieved, written, judged, rows, shown, callVars>>

RankByWords(score) ==
  /\ pc = "lexical"
  /\ lex' = RankLexical(score)
  /\ pc' = "semantic"
  /\ Dial("embedding")
  /\ UNCHANGED <<eligible, sem, accepted, written, judged, rows, shown, outcome>>

\* The vector store matches the question's vector with every eligible chunk.
RankByMeaning(distance) ==
  /\ pc = "semantic"
  /\ Replied("embedding")
  /\ HangUp
  /\ sem' = RankSemantic(distance)
  /\ pc' = "select"
  /\ UNCHANGED <<eligible, lex, accepted, written, judged, rows, shown, outcome>>

\* The scorer or the vector store raised, or returned something else.
IntegrityFailure ==
  /\ \/ pc = "lexical"
     \/ pc = "semantic" /\ Replied("embedding")
  /\ HangUp
  /\ End("integrity_failure")
  /\ UNCHANGED <<retrieved, written, judged, rows, shown>>

SelectEvidence ==
  /\ pc = "select"
  /\ accepted' = Select(FusedOrder(lex, sem))
  /\ pc' = "facets"
  /\ Dial("facets")
  /\ UNCHANGED <<eligible, lex, sem, written, judged, rows, shown, outcome>>

-----------------------------------------------------------------------------
(* The model writes; the evidence and the notices go with the facets. *)

\* The ranks have served.
ExtractFacets(n) ==
  /\ pc = "facets"
  /\ Replied("facets")
  /\ facets' = n
  /\ eligible' = {} /\ lex' = Unranked /\ sem' = Unranked
  /\ pc' = "answer"
  /\ Dial("answer")
  /\ UNCHANGED <<accepted, draft, judged, rows, shown, outcome>>

\* validate_draft: no text twice, and every sentence cites some of the
\* evidence, no chunk twice.
ValidDraft(d) ==
  /\ Len(d) <= MaxSentences
  /\ IsInjective([i \in DOMAIN d |-> d[i].text])
  /\ \A i \in DOMAIN d :
       /\ Len(d[i].cites) \in 1..MaxCited
       /\ IsInjective(d[i].cites) /\ Range(d[i].cites) \subseteq Evidence

GenerateAnswer(d) ==
  /\ pc = "answer"
  /\ Replied("answer")
  /\ HangUp
  /\ ValidDraft(d)
  /\ draft' = d
  /\ pc' = "sentence"
  /\ UNCHANGED <<retrieved, facets, judged, rows, shown, outcome>>

-----------------------------------------------------------------------------
(* The sentences are checked, one after the other. *)

Judging == draft[Len(fates) + 1]

\* The chunks a sentence cites, as far as they are evidence.
Usable(s) == Range(s.cites) \intersect Evidence

Verbatim(text, s) == \E c \in Usable(s) : ContainedIn(text, TextOf[c])

Judged(fate, vs) ==
  /\ fates' = Append(fates, fate)
  /\ verdicts' = Append(verdicts, vs)
  /\ round' = 1 /\ claims' = <<>> /\ found' = <<>>
  /\ pc' = "sentence"
  /\ UNCHANGED <<retrieved, written, rows, shown, outcome>>

\* A verbatim sentence is emitted and one without citations is dropped; the
\* model is not asked.
JudgeAtOnce ==
  /\ pc = "sentence"
  /\ Len(fates) < Len(draft)
  /\ Verbatim(Judging.text, Judging) \/ Usable(Judging) = {}
  /\ Judged(IF Verbatim(Judging.text, Judging) THEN "emitted" ELSE "no_available_citations", <<>>)
  /\ UNCHANGED callVars

RequestDivision ==
  /\ pc = "sentence"
  /\ Len(fates) < Len(draft)
  /\ ~Verbatim(Judging.text, Judging) /\ Usable(Judging) # {}
  /\ pc' = "decompose"
  /\ Dial("decompose")
  /\ UNCHANGED <<retrieved, written, judged, rows, shown, outcome>>

AcceptDivision(response) ==
  /\ pc = "decompose"
  /\ Replied("decompose")
  /\ HangUp
  /\ response # <<>>
  /\ Disposition(response, Judging.text) = "valid"
  /\ claims' = response
  /\ pc' = "claim"
  /\ UNCHANGED <<retrieved, written, fates, verdicts, round, found, rows, shown, outcome>>

\* A division that adds or omits something is asked for once more.
RetryDivision(response) ==
  /\ pc = "decompose"
  /\ Replied("decompose")
  /\ response # <<>>
  /\ Disposition(response, Judging.text) \in RetryableDispositions
  /\ round = 1
  /\ round' = 2
  /\ Dial("decompose")
  /\ UNCHANGED <<pc, retrieved, written, fates, verdicts, claims, found, rows, shown, outcome>>

RejectDivision(response) ==
  /\ pc = "decompose"
  /\ Replied("decompose")
  /\ HangUp
  /\ \/ response = <<>>
     \/ Disposition(response, Judging.text) \in {"over_cap", "duplicate"}
     \/ round = 2 /\ Disposition(response, Judging.text) \in RetryableDispositions
  /\ Judged("decomposition_invalid", <<>>)

Checking == claims[Len(found) + 1]

ClaimVerbatim ==
  /\ pc = "claim"
  /\ ~Calling
  /\ Len(found) < Len(claims)
  /\ Verbatim(Checking, Judging)
  /\ found' = Append(found, TRUE)
  /\ UNCHANGED <<pc, retrieved, written, fates, verdicts, round, claims, rows, shown,
                 outcome, callVars>>

RequestVerdict ==
  /\ pc = "claim"
  /\ ~Calling
  /\ Len(found) < Len(claims)
  /\ ~Verbatim(Checking, Judging)
  /\ Dial("entailment")
  /\ UNCHANGED <<pc, retrieved, written, judged, rows, shown, outcome>>

Entail(supported) ==
  /\ pc = "claim"
  /\ Replied("entailment")
  /\ HangUp
  /\ found' = Append(found, supported)
  /\ UNCHANGED <<pc, retrieved, written, fates, verdicts, round, claims, rows, shown,
                 outcome>>

\* One unsupported claim drops the whole sentence.
JudgeClaims ==
  /\ pc = "claim"
  /\ Len(found) = Len(claims)
  /\ Judged(IF Range(found) = {TRUE} THEN "emitted" ELSE "unsupported_sub_claim", found)
  /\ UNCHANGED callVars

-----------------------------------------------------------------------------
(* Coverage of the facets, and the result. *)

RequestCoverage ==
  /\ pc = "sentence"
  /\ Len(fates) = Len(draft)
  /\ Emitted # {}
  /\ pc' = "coverage"
  /\ Dial("coverage")
  /\ UNCHANGED <<retrieved, written, judged, rows, shown, outcome>>

\* Mutant: without sentences there are no rows, so nothing is uncovered.
NothingEmittedNoRows ==
  /\ pc = "sentence"
  /\ Len(fates) = Len(draft)
  /\ Emitted = {}
  /\ pc' = "cite"
  /\ UNCHANGED <<retrieved, written, judged, rows, shown, outcome, callVars>>

\* No sentence is left: every facet is uncovered, and nothing is asked.
NothingEmitted ==
  /\ pc = "sentence"
  /\ Len(fates) = Len(draft)
  /\ Emitted = {}
  /\ rows' = [f \in 1..facets |->
                [facet |-> f, covered |-> FALSE, by |-> <<>>, reason |-> "none emitted"]]
  /\ End("claim_verification")
  /\ UNCHANGED <<retrieved, written, judged, shown, callVars>>

\* Mutant: the number of rows is not compared with that of the facets.
ValidCoverageShort(rs) ==
  \A f \in DOMAIN rs :
    /\ rs[f].facet = f
    /\ Range(rs[f].by) \subseteq Emitted
    /\ \A i, j \in DOMAIN rs[f].by : i < j => rs[f].by[i] < rs[f].by[j]
    /\ rs[f].covered <=> rs[f].by # <<>>

\* validate_coverage: a row for each facet in order, naming emitted sentences
\* in order if and only if it is covered.
ValidCoverage(rs) ==
  /\ Len(rs) = facets
  /\ \A f \in DOMAIN rs :
       /\ rs[f].facet = f
       /\ Range(rs[f].by) \subseteq Emitted
       /\ \A i, j \in DOMAIN rs[f].by : i < j => rs[f].by[i] < rs[f].by[j]
       /\ rs[f].covered <=> rs[f].by # <<>>

\* The facets and the rows are paired as far as both go.
Uncovered(rs) == {f \in DOMAIN rs : f <= facets /\ ~rs[f].covered}

Cover(rs) ==
  /\ pc = "coverage"
  /\ Replied("coverage")
  /\ HangUp
  /\ ValidCoverage(rs)
  /\ rows' = rs
  /\ IF Uncovered(rs) # {} THEN End("claim_verification") ELSE pc' = "cite" /\ UNCHANGED outcome
  /\ UNCHANGED <<retrieved, written, judged, shown>>

CitationsOf(c) == [k \in DOMAIN SourcesOf[c] |-> [chunk |-> c, source |-> SourcesOf[c][k]]]

\* Them once each, in the sentence's order.
Available(s) ==
  FoldLeft(LAMBDA seq, c : IF c \in Usable(s) \ Range(seq) THEN Append(seq, c) ELSE seq,
           <<>>, s.cites)

\* The sources behind the answer in the order of their uses.
Uses ==
  FoldLeftDomain(
    LAMBDA uses, i :
      IF i \in Emitted
        THEN FoldLeft(LAMBDA seq, c : seq \o CitationsOf(c), uses, Available(draft[i]))
        ELSE uses,
    <<>>, draft)

\* Mutant: every use of a source is a citation of its own.
AllocateCitationsAgain == Uses

\* Numbered by first use, once per chunk and source.
AllocateCitations ==
  FoldLeft(LAMBDA seq, x : IF x \in Range(seq) THEN seq ELSE Append(seq, x), <<>>, Uses)

\* The successors of the evidence's records, disclosed whatever the model
\* wrote: <<predecessor, successor>>.
Notices ==
  UNION {{<<RecordOf[c], r>> : r \in SuccessorsOf[RecordOf[c]]} : c \in Evidence}

Cite ==
  /\ pc = "cite"
  /\ citations' = AllocateCitations
  /\ disclosed' = Notices
  /\ pc' = "recheck"
  /\ UNCHANGED <<retrieved, written, judged, rows, outcome, callVars>>

Answer ==
  /\ pc = "recheck"
  /\ End("answered")
  /\ UNCHANGED <<retrieved, written, judged, rows, shown, callVars>>

\* The manifest changed meanwhile.  A failed result shows nothing.
RefuseChanged ==
  /\ pc = "recheck"
  /\ End("failed")
  /\ citations' = <<>> /\ disclosed' = {}
  /\ UNCHANGED <<retrieved, written, judged, rows, callVars>>

-----------------------------------------------------------------------------
ProviderFails ==
  /\ CallFails
  /\ End("failed")
  /\ UNCHANGED <<retrieved, written, judged, rows, shown>>

Redial ==
  /\ Retry \/ Repair
  /\ UNCHANGED <<pc, retrieved, written, judged, rows, shown, outcome>>

RetrievalStep ==
  \/ /\ pc = "filter"
     /\ \E filters \in Filters, active \in SUBSET Chunks :
          Filter(filters, active) \/ NothingEligible(filters, active)
  \/ Unanswerable \/ IntegrityFailure \/ SelectEvidence
  \/ pc = "lexical" /\ \E score \in [eligible -> Scores] : RankByWords(score)
  \/ pc = "semantic" /\ \E distance \in [eligible -> Distances] : RankByMeaning(distance)

WritingStep ==
  \/ \E n \in 1..MaxFacets : ExtractFacets(n)
  \/ \E d \in Drafts : GenerateAnswer(d)

JudgingStep ==
  \/ JudgeAtOnce \/ RequestDivision
  \/ \E response \in Divisions :
       AcceptDivision(response) \/ RetryDivision(response) \/ RejectDivision(response)
  \/ ClaimVerbatim \/ RequestVerdict \/ JudgeClaims
  \/ \E supported \in BOOLEAN : Entail(supported)

ResultStep ==
  \/ RequestCoverage \/ NothingEmitted \/ Cite \/ Answer \/ RefuseChanged
  \/ \E rs \in Coverages : Cover(rs)

AnswerNext ==
  RetrievalStep \/ WritingStep \/ JudgingStep \/ ResultStep \/ ProviderFails \/ Redial

AnswerSpec == AnswerInit /\ [][AnswerNext]_answerVars /\ WF_answerVars(AnswerNext)

-----------------------------------------------------------------------------
(* What correctness means. *)

\* The evidence is selected fairly, and a chunk that both rankings put before
\* another one is not behind it.
SelectionIsFair ==
  Candidates(lex, sem) # {} /\ accepted # <<>> =>
    LET order == FusedOrder(lex, sem)
        before(rank, c, d) == rank[d] = 0 \/ rank[c] \in 1..(rank[d] - 1)
    IN /\ Evidence \subseteq eligible
       /\ FairSelection(order, accepted)
       /\ \A i, j \in DOMAIN order :
            (i # j /\ before(lex, order[i], order[j]) /\ before(sem, order[i], order[j]))
              => i < j

\* A sentence is emitted if it stands word for word in a chunk it cites or all
\* its claims are supported, and one unsupported claim drops it.
FatesFollowVerdicts ==
  \A i \in DOMAIN fates :
    /\ fates[i] = "emitted" <=>
         Verbatim(draft[i].text, draft[i]) \/ Range(verdicts[i]) = {TRUE}
    /\ fates[i] = "unsupported_sub_claim" <=> FALSE \in Range(verdicts[i])

\* Every sentence of the draft that was judged has the one fate it earned, none
\* for want of a citation, and the claims that are verified divide their
\* sentence: they add nothing to it and omit nothing.
OneFate ==
  /\ FatesFollowVerdicts
  /\ "no_available_citations" \notin Range(fates)
  /\ claims # <<>> => Divides(claims, Judging.text)

\* An answer covers every facet of the question, each by sentences that are
\* in the answer and cite evidence.
AnswersCoverQuestion ==
  outcome = "answered" =>
    \A f \in 1..facets :
      \E row \in Range(rows) :
        /\ row.facet = f /\ row.covered /\ row.by # <<>>
        /\ \A i \in Range(row.by) : i \in Emitted /\ Range(draft[i].cites) \subseteq Evidence

\* The marks of a sentence in the citations.
Marks(i) == {k \in DOMAIN citations : citations[k].chunk \in Range(draft[i].cites)}

\* Each citation of an answer is listed once and is used by a sentence, every
\* source of a sentence is listed, and the numbers follow the first use.
CitationsResolve ==
  outcome = "answered" =>
    /\ IsInjective(citations)
    /\ \A i \in Emitted : \A c \in Range(draft[i].cites) :
         Range(CitationsOf(c)) \subseteq Range(citations)
    /\ \A k \in DOMAIN citations :
         /\ \E i \in Emitted : k \in Marks(i)
         /\ \A l \in 1..(k - 1), i \in Emitted :
              k \in Marks(i) => \E j \in Emitted : j <= i /\ l \in Marks(j)

\* The query implements its promise.
Promise == INSTANCE AnswerPromise WITH
             phase    <- IF pc \in {"filter", "lexical", "semantic", "select"} THEN "asked"
                         ELSE IF pc # "ended" THEN "gathered"
                         ELSE IF outcome \in {"retrieval", "claim_verification"} THEN "abstained"
                         ELSE IF outcome = "answered" THEN "answered" ELSE "failed",
             evidence <- Evidence,
             cited    <- IF outcome # "answered" THEN {}
                         ELSE {citations[k].chunk : k \in DOMAIN citations}

KeepsPromise == Promise!Spec

\* Whatever the provider answers or fails to, every query ends.
QueryEnds == <>(pc = "ended")
=============================================================================
