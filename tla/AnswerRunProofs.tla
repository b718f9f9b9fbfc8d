--------------------------- MODULE AnswerRunProofs ---------------------------
(***************************************************************************)
(* What one query does for any evidence, any responses and any limits: it  *)
(* sends no more requests than its limits allow, keeps or drops a sentence *)
(* as its verdicts say, answers no facet uncovered, selects its evidence   *)
(* fairly, cites all and only what its sentences rest on, keeps the        *)
(* promise of AnswerPromise, and an oracle that passes is right about it.  *)
(* The lemmas on an operator stand before the theorem that needs them; the *)
(* oracles of Evaluation read the state of a query and are proved here.    *)
(***************************************************************************)
EXTENDS Evaluation, FoldTheorems

-----------------------------------------------------------------------------
(* The requests of one operation.  The bound holds because the requests    *)
(* sent so far are bounded by the try and the attempt under way.           *)

CallStep ==
  \/ \E op \in Operations : Dial(op)
  \/ HangUp
  \/ Retry
  \/ Repair
  \/ UNCHANGED callVars

CallInv ==
  /\ CallTypeOK
  /\ ~Calling => sent = 0
  /\ Calling => sent <= (call.try - 1) * MaxAttempts + call.attempt
  /\ call.op = "embedding" => call.try = 1

\* What a step of the query does with the call.
LEMMA StepsAreCalls ==
  ASSUME [AnswerNext]_answerVars PROVE CallStep
<1>1. ASSUME NEW filters \in Filters, NEW active \in SUBSET Chunks, Filter(filters, active)
     PROVE CallStep
  BY <1>1 DEF Filter, CallStep, Replied, callVars, Structured, Operations
<1>2. ASSUME NEW filters \in Filters, NEW active \in SUBSET Chunks,
             NothingEligible(filters, active) PROVE CallStep
  BY <1>2 DEF NothingEligible, End, CallStep, Replied, callVars, Structured, Operations
<1>3. ASSUME Unanswerable PROVE CallStep
  BY <1>3 DEF Unanswerable, End, CallStep, Replied, callVars, Structured, Operations
<1>4. ASSUME IntegrityFailure PROVE CallStep
  BY <1>4 DEF IntegrityFailure, End, CallStep, Replied, callVars, Structured, Operations
<1>5. ASSUME SelectEvidence PROVE CallStep
  BY <1>5 DEF SelectEvidence, CallStep, Replied, callVars, Structured, Operations
<1>6. ASSUME NEW score \in [eligible -> Scores], RankByWords(score) PROVE CallStep
  BY <1>6 DEF RankByWords, CallStep, Replied, callVars, Structured, Operations
<1>7. ASSUME NEW distance \in [eligible -> Distances], RankByMeaning(distance)
     PROVE CallStep
  BY <1>7 DEF RankByMeaning, CallStep, Replied, callVars, Structured, Operations
<1>8. ASSUME NEW n \in 1..MaxFacets, ExtractFacets(n) PROVE CallStep
  BY <1>8 DEF ExtractFacets, CallStep, Replied, callVars, Structured, Operations
<1>9. ASSUME NEW d \in Drafts, GenerateAnswer(d) PROVE CallStep
  BY <1>9 DEF GenerateAnswer, CallStep, Replied, callVars, Structured, Operations
<1>10. ASSUME JudgeAtOnce PROVE CallStep
  BY <1>10 DEF JudgeAtOnce, Judged, CallStep, Replied, callVars, Structured, Operations
<1>11. ASSUME RequestDivision PROVE CallStep
  BY <1>11 DEF RequestDivision, CallStep, Replied, callVars, Structured, Operations
<1>12. ASSUME NEW response \in Divisions, AcceptDivision(response) PROVE CallStep
  BY <1>12 DEF AcceptDivision, CallStep, Replied, callVars, Structured, Operations
<1>13. ASSUME NEW response \in Divisions, RetryDivision(response) PROVE CallStep
  BY <1>13 DEF RetryDivision, CallStep, Replied, callVars, Structured, Operations
<1>14. ASSUME NEW response \in Divisions, RejectDivision(response) PROVE CallStep
  BY <1>14 DEF RejectDivision, Judged, CallStep, Replied, callVars, Structured, Operations
<1>15. ASSUME ClaimVerbatim PROVE CallStep
  BY <1>15 DEF ClaimVerbatim, CallStep, Replied, callVars, Structured, Operations
<1>16. ASSUME RequestVerdict PROVE CallStep
  BY <1>16 DEF RequestVerdict, CallStep, Replied, callVars, Structured, Operations
<1>17. ASSUME JudgeClaims PROVE CallStep
  BY <1>17 DEF JudgeClaims, Judged, CallStep, Replied, callVars, Structured, Operations
<1>18. ASSUME NEW supported \in BOOLEAN, Entail(supported) PROVE CallStep
  BY <1>18 DEF Entail, CallStep, Replied, callVars, Structured, Operations
<1>19. ASSUME RequestCoverage PROVE CallStep
  BY <1>19 DEF RequestCoverage, CallStep, Replied, callVars, Structured, Operations
<1>20. ASSUME NothingEmitted PROVE CallStep
  BY <1>20 DEF NothingEmitted, End, CallStep, Replied, callVars, Structured, Operations
<1>21. ASSUME Cite PROVE CallStep
  BY <1>21 DEF Cite, CallStep, Replied, callVars, Structured, Operations
<1>22. ASSUME Answer PROVE CallStep
  BY <1>22 DEF Answer, End, CallStep, Replied, callVars, Structured, Operations
<1>23. ASSUME RefuseChanged PROVE CallStep
  BY <1>23 DEF RefuseChanged, End, CallStep, Replied, callVars, Structured, Operations
<1>24. ASSUME NEW rs \in Coverages, Cover(rs) PROVE CallStep
  BY <1>24 DEF Cover, End, CallStep, Replied, callVars, Structured, Operations
<1>25. ASSUME ProviderFails PROVE CallStep
  BY <1>25
    DEF ProviderFails, End, CallFails, Exhausted, FinalFailure, Malformed, InvalidTwice,
        CallStep, Replied, callVars, Structured, Operations
<1>26. ASSUME Redial PROVE CallStep
  BY <1>26 DEF Redial, CallStep
<1>27. CASE UNCHANGED answerVars
  BY <1>27 DEF answerVars, CallStep, Replied, callVars, Structured, Operations
<1>28. QED
  BY <1>1, <1>2, <1>3, <1>4, <1>5, <1>6, <1>7, <1>8, <1>9, <1>10, <1>11, <1>12, <1>13,
     <1>14, <1>15, <1>16, <1>17, <1>18, <1>19, <1>20, <1>21, <1>22, <1>23, <1>24, <1>25,
     <1>26, <1>27 DEF AnswerNext, RetrievalStep, WritingStep, JudgingStep, ResultStep

\* The bound of each attempt lies within the bound of all.
LEMMA TriesBounded ==
  ASSUME NEW t \in 1..MaxTries, NEW k \in 1..MaxAttempts
  PROVE  (t - 1) * MaxAttempts + k <= MaxTries * MaxAttempts
<1> USE CallAssumption
<1>1. t * MaxAttempts <= MaxTries * MaxAttempts
  OBVIOUS
<1>2. (t - 1) * MaxAttempts + MaxAttempts = t * MaxAttempts
  OBVIOUS
<1> QED
  BY <1>1, <1>2

LEMMA CallStepKeeps ==
  ASSUME CallInv, CallStep PROVE CallInv'
<1> USE CallAssumption DEF CallInv, CallTypeOK, Calling, Operations, Structured, NoCall
<1>1. ASSUME NEW op \in Operations, Dial(op) PROVE CallInv'
  BY <1>1 DEF Dial
<1>2. CASE HangUp
  BY <1>2 DEF HangUp
<1>3. CASE Retry
  BY <1>3 DEF Retry
<1>4. CASE Repair
  <2>1. /\ call.op \in Structured /\ call.try < MaxTries
        /\ call' = [call EXCEPT !.try = @ + 1, !.attempt = 1]
    BY <1>4 DEF Repair
  <2>2. call \in [op : Operations, try : 1..MaxTries, attempt : 1..MaxAttempts]
    BY <2>1
  <2>3. /\ call.try \in Nat /\ call.attempt \in 1..MaxAttempts
        /\ call.try + 1 \in 1..MaxTries
        /\ call.op # "embedding" /\ call.op # "none"
    BY <2>1, <2>2
  <2>4. call'.try = call.try + 1 /\ call'.attempt = 1 /\ call'.op = call.op
    BY <2>1, <2>2
  <2>5. call' \in [op : Operations, try : 1..MaxTries, attempt : 1..MaxAttempts]
    <3>1. call' = [op |-> call.op, try |-> call.try + 1, attempt |-> 1]
      BY <2>1, <2>2
    <3> QED
      BY <2>1, <2>3, <3>1
  <2>6. /\ sent \in Nat /\ sent' = sent + 1
        /\ sent <= (call.try - 1) * MaxAttempts + call.attempt
    BY <1>4, <2>3 DEF Repair
  <2>7. sent' <= (call'.try - 1) * MaxAttempts + call'.attempt
    <3> DEFINE done == (call.try - 1) * MaxAttempts
    <3>1. done \in Int
      BY <2>3
    <3>2. (call'.try - 1) * MaxAttempts = done + MaxAttempts
      BY <2>3, <2>4
    <3> HIDE DEF done
    <3>3. sent <= done + call.attempt
      BY <2>6 DEF done
    <3> QED
      BY <2>3, <2>4, <2>6, <3>1, <3>2, <3>3
  <2> QED
    BY <2>3, <2>4, <2>5, <2>6, <2>7
<1>5. CASE UNCHANGED callVars
  BY <1>5 DEF callVars
<1> QED
  BY <1>1, <1>2, <1>3, <1>4, <1>5 DEF CallStep

LEMMA CallInvImplies ==
  ASSUME CallInv PROVE RequestsBounded
<1>1. CASE ~Calling
  BY <1>1, CallAssumption DEF CallInv, Calling, RequestsBounded
<1>2. CASE Calling
  BY <1>2, TriesBounded, CallAssumption
    DEF CallInv, CallTypeOK, Calling, RequestsBounded, NoCall
<1> QED
  BY <1>1, <1>2

\* However failures and invalid responses alternate, one operation of a query
\* sends a bounded number of requests.
THEOREM CallsAreBounded == AnswerSpec => []RequestsBounded
<1>1. AnswerInit => CallInv
  BY CallAssumption DEF AnswerInit, CallInit, CallInv, CallTypeOK, Calling, NoCall
<1>2. CallInv /\ [AnswerNext]_answerVars => CallInv'
  BY StepsAreCalls, CallStepKeeps
<1>3. CallInv => RequestsBounded
  BY CallInvImplies
<1> QED
  BY <1>1, <1>2, <1>3, PTL DEF AnswerSpec

-----------------------------------------------------------------------------
(* The sentences.  That a fate follows the verdicts holds of the sentence   *)
(* under judgement only because nothing it is compared with moves: the      *)
(* evidence and the draft stand before the first one is judged.             *)

Early == {"filter", "lexical", "semantic", "select", "facets", "answer"}

Progress ==
  /\ draft \in Seq(Range(draft)) /\ InSequence(draft)
  /\ claims \in Seq(Range(claims))
  /\ fates \in Seq(Fates) /\ Len(fates) <= Len(draft)
  /\ verdicts \in Seq(Seq(BOOLEAN)) /\ Len(verdicts) = Len(fates)
  /\ found \in Seq(BOOLEAN) /\ Len(found) <= Len(claims)
  /\ pc \in Early => draft = <<>> /\ fates = <<>> /\ verdicts = <<>>
  /\ pc \in Early \union {"sentence", "decompose"} => found = <<>>
  /\ pc \in {"decompose", "claim"} => Len(fates) < Len(draft)
  /\ pc = "claim" => claims # <<>>

\* The sentence that the model is asked about stands in no chunk.
Undecided == pc \in {"decompose", "claim"} => ~Verbatim(Judging.text, Judging)

\* The model is asked about a claim without a verdict.
Asked == call.op = "entailment" => pc = "claim" /\ Len(found) < Len(claims)

FateInv ==
  /\ Progress
  /\ ValidDraft(draft)
  /\ Undecided
  /\ FatesFollowVerdicts
  /\ "no_available_citations" \notin Range(fates)

\* A fate that follows the verdicts is added to those that do.
LEMMA JudgedKeeps ==
  ASSUME FateInv, Len(fates) < Len(draft), NEW fate \in Fates, NEW vs \in Seq(BOOLEAN),
         Judged(fate, vs), fate # "no_available_citations",
         fate = "emitted" <=> Verbatim(Judging.text, Judging) \/ Range(vs) = {TRUE},
         fate = "unsupported_sub_claim" <=> FALSE \in Range(vs)
  PROVE  FateInv'
<1>1. /\ fates' = Append(fates, fate) /\ verdicts' = Append(verdicts, vs)
      /\ claims' = <<>> /\ found' = <<>> /\ pc' = "sentence"
      /\ draft' = draft /\ accepted' = accepted
  BY DEF Judged, retrieved, written
<1>2. Progress'
  <2>1. draft' \in Seq(Range(draft')) /\ InSequence(draft)'
    BY <1>1 DEF FateInv, Progress, InSequence
  <2>2. /\ fates' \in Seq(Fates) /\ Len(fates') <= Len(draft')
        /\ verdicts' \in Seq(Seq(BOOLEAN)) /\ Len(verdicts') = Len(fates')
    BY <1>1 DEF FateInv, Progress
  <2>3. claims' \in Seq(Range(claims')) /\ found' \in Seq(BOOLEAN) /\ Len(found') <= Len(claims')
    BY <1>1 DEF Range
  <2> QED
    BY <1>1, <2>1, <2>2, <2>3 DEF Progress, Early
<1>3. ValidDraft(draft)'
  BY <1>1 DEF FateInv, ValidDraft, Evidence
<1>4. \A i \in DOMAIN fates :
        /\ fates'[i] = fates[i] /\ verdicts'[i] = verdicts[i]
        /\ Verbatim(draft[i].text, draft[i])' <=> Verbatim(draft[i].text, draft[i])
  BY <1>1 DEF FateInv, Progress, Verbatim, Usable, Evidence
<1>5. PICK n \in Nat : n = Len(fates) + 1
  BY DEF FateInv, Progress
<1>6. /\ DOMAIN fates' = DOMAIN fates \union {n}
      /\ fates'[n] = fate /\ verdicts'[n] = vs
      /\ draft[n] = Judging
      /\ Verbatim(draft[n].text, draft[n])' <=> Verbatim(Judging.text, Judging)
  <2>1. /\ DOMAIN fates' = DOMAIN fates \union {n}
        /\ fates'[n] = fate /\ verdicts'[n] = vs
    BY <1>1, <1>5 DEF FateInv, Progress
  <2>2. draft[n] = Judging
    BY <1>5 DEF Judging
  <2>3. Verbatim(draft[n].text, draft[n])' <=> Verbatim(draft[n].text, draft[n])
    BY <1>1 DEF Verbatim, Usable, Evidence
  <2> QED
    BY <2>1, <2>2, <2>3
<1>7. FatesFollowVerdicts'
  <2> SUFFICES ASSUME NEW i \in DOMAIN fates'
               PROVE /\ fates'[i] = "emitted" <=>
                          Verbatim(draft[i].text, draft[i])' \/ Range(verdicts'[i]) = {TRUE}
                     /\ fates'[i] = "unsupported_sub_claim" <=> FALSE \in Range(verdicts'[i])
    BY DEF FatesFollowVerdicts
  <2>1. CASE i \in DOMAIN fates
    BY <1>4, <2>1 DEF FateInv, FatesFollowVerdicts
  <2>2. CASE i = n
    BY <1>6, <2>2
  <2> QED
    BY <1>6, <2>1, <2>2
<1>8. ("no_available_citations" \notin Range(fates))'
  BY <1>4, <1>6 DEF FateInv, Range
<1> QED
  BY <1>1, <1>2, <1>3, <1>7, <1>8 DEF FateInv, Undecided

\* Every sentence of a valid draft cites some of the evidence.
LEMMA SentencesCite ==
  ASSUME FateInv, Len(fates) < Len(draft) PROVE Usable(Judging) # {}
<1>1. Len(fates) + 1 \in DOMAIN draft
  BY DEF FateInv, Progress
<1>2. /\ Len(Judging.cites) \in 1..MaxCited /\ Range(Judging.cites) \subseteq Evidence
      /\ Judging.cites \in Seq(Range(Judging.cites))
  BY <1>1 DEF FateInv, Progress, ValidDraft, InSequence, Judging
<1>3. 1 \in DOMAIN Judging.cites
  BY <1>2, AnswerAssumption
<1> QED
  BY <1>2, <1>3 DEF Usable, Range

\* What was judged stays as it was while the evidence and the draft do.
LEMMA FatesStay ==
  ASSUME FateInv, UNCHANGED <<draft, accepted, fates, verdicts>>
  PROVE  /\ ValidDraft(draft)' /\ FatesFollowVerdicts'
         /\ ("no_available_citations" \notin Range(fates))'
         /\ Verbatim(Judging.text, Judging)' <=> Verbatim(Judging.text, Judging)
<1>1. ValidDraft(draft)'
  BY DEF FateInv, ValidDraft, Evidence
<1>2. \A i : Verbatim(draft[i].text, draft[i])' <=> Verbatim(draft[i].text, draft[i])
  BY DEF Verbatim, Usable, Evidence
<1>3. Verbatim(Judging.text, Judging)' <=> Verbatim(Judging.text, Judging)
  BY DEF Verbatim, Usable, Evidence, Judging
<1>4. FatesFollowVerdicts'
  BY <1>2 DEF FateInv, FatesFollowVerdicts
<1>5. ("no_available_citations" \notin Range(fates))'
  BY DEF FateInv, Range
<1> QED
  BY <1>1, <1>3, <1>4, <1>5

\* Before the first sentence is judged there is nothing to say of any.
LEMMA NothingJudged ==
  ASSUME Progress', fates' = <<>>, ValidDraft(draft)', pc' \notin {"decompose", "claim"}
  PROVE  FateInv'
BY DEF FateInv, Undecided, FatesFollowVerdicts, Range

\* One step keeps the sentences' fates in order.
LEMMA FatesKeep ==
  ASSUME FateInv, Asked, [AnswerNext]_answerVars PROVE FateInv'
<1>1. ASSUME NEW filters \in Filters, NEW active \in SUBSET Chunks, Filter(filters, active)
     PROVE FateInv'
  <2>1. Progress'
    BY <1>1, AnswerAssumption
      DEF Filter, FateInv, Progress, Early, retrieved, written, judged
  <2>2. UNCHANGED <<draft, accepted, fates, verdicts>> /\ Undecided'
    BY <1>1, FatesStay
      DEF Filter, FateInv, Progress, Early, retrieved, written, judged, Undecided
  <2> QED
    BY <2>1, <2>2, FatesStay DEF FateInv
<1>2. ASSUME NEW filters \in Filters, NEW active \in SUBSET Chunks,
             NothingEligible(filters, active) PROVE FateInv'
  <2>1. Progress'
    BY <1>2, AnswerAssumption
      DEF NothingEligible, End, FateInv, Progress, Early, retrieved, written, judged
  <2>2. UNCHANGED <<draft, accepted, fates, verdicts>> /\ Undecided'
    BY <1>2, FatesStay
      DEF NothingEligible, End, FateInv, Progress, Early, retrieved, written, judged,
          Undecided
  <2> QED
    BY <2>1, <2>2, FatesStay DEF FateInv
<1>3. ASSUME Unanswerable PROVE FateInv'
  <2>1. Progress'
    BY <1>3, AnswerAssumption
      DEF Unanswerable, End, FateInv, Progress, Early, retrieved, written, judged
  <2>2. UNCHANGED <<draft, accepted, fates, verdicts>> /\ Undecided'
    BY <1>3, FatesStay
      DEF Unanswerable, End, FateInv, Progress, Early, retrieved, written, judged, Undecided
  <2> QED
    BY <2>1, <2>2, FatesStay DEF FateInv
<1>4. ASSUME IntegrityFailure PROVE FateInv'
  <2>1. Progress'
    BY <1>4, AnswerAssumption
      DEF IntegrityFailure, End, FateInv, Progress, Early, retrieved, written, judged
  <2>2. UNCHANGED <<draft, accepted, fates, verdicts>> /\ Undecided'
    BY <1>4, FatesStay
      DEF IntegrityFailure, End, FateInv, Progress, Early, retrieved, written, judged,
          Undecided
  <2> QED
    BY <2>1, <2>2, FatesStay DEF FateInv
<1>5. ASSUME SelectEvidence PROVE FateInv'
  <2>1. Progress' /\ fates' = <<>> /\ draft' = <<>>
    BY <1>5 DEF SelectEvidence, FateInv, Progress, Early, written, judged
  <2>2. ValidDraft(draft)'
    BY <2>1, AnswerAssumption DEF ValidDraft, IsInjective
  <2> QED
    BY <1>5, <2>1, <2>2, NothingJudged DEF SelectEvidence
<1>6. ASSUME NEW score \in [eligible -> Scores], RankByWords(score) PROVE FateInv'
  <2>1. Progress'
    BY <1>6, AnswerAssumption
      DEF RankByWords, FateInv, Progress, Early, retrieved, written, judged
  <2>2. UNCHANGED <<draft, accepted, fates, verdicts>> /\ Undecided'
    BY <1>6, FatesStay
      DEF RankByWords, FateInv, Progress, Early, retrieved, written, judged, Undecided
  <2> QED
    BY <2>1, <2>2, FatesStay DEF FateInv
<1>7. ASSUME NEW distance \in [eligible -> Distances], RankByMeaning(distance)
     PROVE FateInv'
  <2>1. Progress'
    BY <1>7, AnswerAssumption
      DEF RankByMeaning, FateInv, Progress, Early, retrieved, written, judged
  <2>2. UNCHANGED <<draft, accepted, fates, verdicts>> /\ Undecided'
    BY <1>7, FatesStay
      DEF RankByMeaning, FateInv, Progress, Early, retrieved, written, judged, Undecided
  <2> QED
    BY <2>1, <2>2, FatesStay DEF FateInv
<1>8. ASSUME NEW n \in 1..MaxFacets, ExtractFacets(n) PROVE FateInv'
  <2>1. Progress'
    BY <1>8, AnswerAssumption
      DEF ExtractFacets, FateInv, Progress, Early, retrieved, written, judged
  <2>2. UNCHANGED <<draft, accepted, fates, verdicts>> /\ Undecided'
    BY <1>8, FatesStay
      DEF ExtractFacets, FateInv, Progress, Early, retrieved, written, judged, Undecided
  <2> QED
    BY <2>1, <2>2, FatesStay DEF FateInv
<1>9. ASSUME NEW d \in Drafts, GenerateAnswer(d) PROVE FateInv'
  <2>1. draft' = d /\ accepted' = accepted /\ fates' = <<>> /\ verdicts' = <<>> /\ pc' = "sentence"
    BY <1>9 DEF GenerateAnswer, FateInv, Progress, Early, retrieved, judged
  <2>2. d \in Seq(Range(d)) /\ InSequence(d)
    BY AnswerAssumption
  <2>3. draft' \in Seq(Range(draft')) /\ InSequence(draft)'
    BY <2>1, <2>2 DEF InSequence
  <2>4. Progress'
    BY <1>9, <2>1, <2>3 DEF GenerateAnswer, FateInv, Progress, Early, judged
  <2>5. ValidDraft(draft)'
    BY <1>9, <2>1 DEF GenerateAnswer, ValidDraft, Evidence
  <2> QED
    BY <2>1, <2>4, <2>5, NothingJudged
<1>10. ASSUME JudgeAtOnce PROVE FateInv'
  <2>1. Verbatim(Judging.text, Judging)
    BY <1>10, SentencesCite DEF JudgeAtOnce
  <2>2. Judged("emitted", <<>>) /\ Len(fates) < Len(draft)
    BY <1>10, <2>1 DEF JudgeAtOnce
  <2>3. <<>> \in Seq(BOOLEAN) /\ Range(<<>>) = {} /\ "emitted" \in Fates
    BY DEF Range, Fates
  <2> QED
    BY <2>1, <2>2, <2>3, JudgedKeeps
<1>11. ASSUME RequestDivision PROVE FateInv'
  <2>1. Progress'
    BY <1>11, AnswerAssumption
      DEF RequestDivision, FateInv, Progress, Early, retrieved, written, judged
  <2>2. UNCHANGED <<draft, accepted, fates, verdicts>> /\ Undecided'
    BY <1>11, FatesStay
      DEF RequestDivision, FateInv, Progress, Early, retrieved, written, judged, Undecided
  <2> QED
    BY <2>1, <2>2, FatesStay DEF FateInv
<1>12. ASSUME NEW response \in Divisions, AcceptDivision(response) PROVE FateInv'
  <2>1. response \in Seq(Range(response)) /\ response # <<>>
    BY <1>12, AnswerAssumption DEF AcceptDivision
  <2>2. Progress'
    BY <1>12, <2>1 DEF AcceptDivision, FateInv, Progress, Early, retrieved, written
  <2>3. UNCHANGED <<draft, accepted, fates, verdicts>> /\ Undecided'
    BY <1>12, FatesStay DEF AcceptDivision, FateInv, Progress, retrieved, written, Undecided
  <2> QED
    BY <2>2, <2>3, FatesStay DEF FateInv
<1>13. ASSUME NEW response \in Divisions, RetryDivision(response) PROVE FateInv'
  <2>1. Progress'
    BY <1>13, AnswerAssumption
      DEF RetryDivision, FateInv, Progress, Early, retrieved, written, judged
  <2>2. UNCHANGED <<draft, accepted, fates, verdicts>> /\ Undecided'
    BY <1>13, FatesStay
      DEF RetryDivision, FateInv, Progress, Early, retrieved, written, judged, Undecided
  <2> QED
    BY <2>1, <2>2, FatesStay DEF FateInv
<1>14. ASSUME NEW response \in Divisions, RejectDivision(response) PROVE FateInv'
  <2>1. Judged("decomposition_invalid", <<>>) /\ Len(fates) < Len(draft)
    BY <1>14 DEF RejectDivision, FateInv, Progress
  <2>2. ~Verbatim(Judging.text, Judging)
    BY <1>14 DEF RejectDivision, FateInv, Undecided
  <2>3. <<>> \in Seq(BOOLEAN) /\ Range(<<>>) = {} /\ "decomposition_invalid" \in Fates
    BY DEF Range, Fates
  <2> QED
    BY <2>1, <2>2, <2>3, JudgedKeeps
<1>15. ASSUME ClaimVerbatim PROVE FateInv'
  <2>1. Progress'
    BY <1>15, AnswerAssumption
      DEF ClaimVerbatim, FateInv, Progress, Early, retrieved, written, judged
  <2>2. UNCHANGED <<draft, accepted, fates, verdicts>> /\ Undecided'
    BY <1>15, FatesStay
      DEF ClaimVerbatim, FateInv, Progress, Early, retrieved, written, judged, Undecided
  <2> QED
    BY <2>1, <2>2, FatesStay DEF FateInv
<1>16. ASSUME RequestVerdict PROVE FateInv'
  <2>1. Progress'
    BY <1>16, AnswerAssumption
      DEF RequestVerdict, FateInv, Progress, Early, retrieved, written, judged
  <2>2. UNCHANGED <<draft, accepted, fates, verdicts>> /\ Undecided'
    BY <1>16, FatesStay
      DEF RequestVerdict, FateInv, Progress, Early, retrieved, written, judged, Undecided
  <2> QED
    BY <2>1, <2>2, FatesStay DEF FateInv
<1>17. ASSUME JudgeClaims PROVE FateInv'
  <2> DEFINE fate == IF Range(found) = {TRUE} THEN "emitted" ELSE "unsupported_sub_claim"
  <2>1. Judged(fate, found) /\ Len(fates) < Len(draft) /\ fate \in Fates
    BY <1>17 DEF JudgeClaims, FateInv, Progress, Fates
  <2>2. ~Verbatim(Judging.text, Judging)
    BY <1>17 DEF JudgeClaims, FateInv, Undecided
  <2>3. found \in Seq(BOOLEAN) /\ Len(found) >= 1
    BY <1>17 DEF JudgeClaims, FateInv, Progress
  <2>4. Range(found) = {TRUE} <=> FALSE \notin Range(found)
    <3>1. 1 \in DOMAIN found /\ Range(found) \subseteq BOOLEAN
      BY <2>3 DEF Range
    <3>2. found[1] \in Range(found)
      BY <3>1 DEF Range
    <3> QED
      BY <3>1, <3>2
  <2> HIDE DEF fate
  <2>5. /\ fate # "no_available_citations"
        /\ fate = "emitted" <=> Range(found) = {TRUE}
        /\ fate = "unsupported_sub_claim" <=> FALSE \in Range(found)
    BY <2>4 DEF fate
  <2>6. fate = "emitted" <=> Verbatim(Judging.text, Judging) \/ Range(found) = {TRUE}
    BY <2>2, <2>5
  <2> QED
    BY <2>1, <2>3, <2>5, <2>6, JudgedKeeps
<1>18. ASSUME NEW supported \in BOOLEAN, Entail(supported) PROVE FateInv'
  <2>1. Progress'
    <3>1. Len(found) < Len(claims) /\ found' = Append(found, supported)
      BY <1>18 DEF Entail, Asked, Replied
    <3> QED
      BY <1>18, <3>1
        DEF Entail, FateInv, Progress, Early, retrieved, written, InSequence
  <2>2. UNCHANGED <<draft, accepted, fates, verdicts>> /\ Undecided'
    BY <1>18, FatesStay DEF Entail, FateInv, Progress, retrieved, written, Undecided
  <2> QED
    BY <2>1, <2>2, FatesStay DEF FateInv
<1>19. ASSUME RequestCoverage PROVE FateInv'
  <2>1. Progress'
    BY <1>19, AnswerAssumption
      DEF RequestCoverage, FateInv, Progress, Early, retrieved, written, judged
  <2>2. UNCHANGED <<draft, accepted, fates, verdicts>> /\ Undecided'
    BY <1>19, FatesStay
      DEF RequestCoverage, FateInv, Progress, Early, retrieved, written, judged, Undecided
  <2> QED
    BY <2>1, <2>2, FatesStay DEF FateInv
<1>20. ASSUME NothingEmitted PROVE FateInv'
  <2>1. Progress'
    BY <1>20, AnswerAssumption
      DEF NothingEmitted, End, FateInv, Progress, Early, retrieved, written, judged
  <2>2. UNCHANGED <<draft, accepted, fates, verdicts>> /\ Undecided'
    BY <1>20, FatesStay
      DEF NothingEmitted, End, FateInv, Progress, Early, retrieved, written, judged,
          Undecided
  <2> QED
    BY <2>1, <2>2, FatesStay DEF FateInv
<1>21. ASSUME Cite PROVE FateInv'
  <2>1. Progress'
    BY <1>21, AnswerAssumption
      DEF Cite, FateInv, Progress, Early, retrieved, written, judged
  <2>2. UNCHANGED <<draft, accepted, fates, verdicts>> /\ Undecided'
    BY <1>21, FatesStay
      DEF Cite, FateInv, Progress, Early, retrieved, written, judged, Undecided
  <2> QED
    BY <2>1, <2>2, FatesStay DEF FateInv
<1>22. ASSUME Answer PROVE FateInv'
  <2>1. Progress'
    BY <1>22, AnswerAssumption
      DEF Answer, End, FateInv, Progress, Early, retrieved, written, judged
  <2>2. UNCHANGED <<draft, accepted, fates, verdicts>> /\ Undecided'
    BY <1>22, FatesStay
      DEF Answer, End, FateInv, Progress, Early, retrieved, written, judged, Undecided
  <2> QED
    BY <2>1, <2>2, FatesStay DEF FateInv
<1>23. ASSUME RefuseChanged PROVE FateInv'
  <2>1. Progress'
    BY <1>23, AnswerAssumption
      DEF RefuseChanged, End, FateInv, Progress, Early, retrieved, written, judged
  <2>2. UNCHANGED <<draft, accepted, fates, verdicts>> /\ Undecided'
    BY <1>23, FatesStay
      DEF RefuseChanged, End, FateInv, Progress, Early, retrieved, written, judged,
          Undecided
  <2> QED
    BY <2>1, <2>2, FatesStay DEF FateInv
<1>24. ASSUME NEW rs \in Coverages, Cover(rs) PROVE FateInv'
  <2>1. Progress'
    BY <1>24, AnswerAssumption
      DEF Cover, End, FateInv, Progress, Early, retrieved, written, judged
  <2>2. UNCHANGED <<draft, accepted, fates, verdicts>> /\ Undecided'
    BY <1>24, FatesStay
      DEF Cover, End, FateInv, Progress, Early, retrieved, written, judged, Undecided
  <2> QED
    BY <2>1, <2>2, FatesStay DEF FateInv
<1>25. ASSUME ProviderFails PROVE FateInv'
  <2>1. Progress'
    BY <1>25, AnswerAssumption
      DEF ProviderFails, End, CallFails, Exhausted, FinalFailure, Malformed, InvalidTwice,
          FateInv, Progress, Early, retrieved, written, judged
  <2>2. UNCHANGED <<draft, accepted, fates, verdicts>> /\ Undecided'
    BY <1>25, FatesStay
      DEF ProviderFails, End, CallFails, Exhausted, FinalFailure, Malformed, InvalidTwice,
          FateInv, Progress, Early, retrieved, written, judged, Undecided
  <2> QED
    BY <2>1, <2>2, FatesStay DEF FateInv
<1>26. ASSUME Redial PROVE FateInv'
  <2>1. Progress'
    BY <1>26, AnswerAssumption
      DEF Redial, FateInv, Progress, Early, retrieved, written, judged
  <2>2. UNCHANGED <<draft, accepted, fates, verdicts>> /\ Undecided'
    BY <1>26, FatesStay
      DEF Redial, FateInv, Progress, Early, retrieved, written, judged, Undecided
  <2> QED
    BY <2>1, <2>2, FatesStay DEF FateInv
<1>27. CASE UNCHANGED answerVars
  <2>1. Progress'
    BY <1>27 DEF answerVars, FateInv, Progress, Early, written, judged, InSequence
  <2>2. UNCHANGED <<draft, accepted, fates, verdicts>> /\ Undecided'
    BY <1>27, FatesStay DEF answerVars, FateInv, retrieved, written, judged, Undecided
  <2> QED
    BY <2>1, <2>2, FatesStay DEF FateInv
<1>28. QED
  BY <1>1, <1>2, <1>3, <1>4, <1>5, <1>6, <1>7, <1>8, <1>9, <1>10, <1>11, <1>12, <1>13,
     <1>14, <1>15, <1>16, <1>17, <1>18, <1>19, <1>20, <1>21, <1>22, <1>23, <1>24, <1>25,
     <1>26, <1>27 DEF AnswerNext, RetrievalStep, WritingStep, JudgingStep, ResultStep

\* One step keeps the question to the model in its place.
LEMMA AskedKeeps ==
  ASSUME CallInv, FateInv, Asked, [AnswerNext]_answerVars PROVE Asked'
<1>1. ASSUME NEW filters \in Filters, NEW active \in SUBSET Chunks, Filter(filters, active)
     PROVE Asked'
  BY <1>1
    DEF Filter, Asked, FateInv, Progress, Early, written, judged, callVars, Dial, HangUp,
        NoCall, Calling, Replied, Retry, Repair
<1>2. ASSUME NEW filters \in Filters, NEW active \in SUBSET Chunks,
             NothingEligible(filters, active) PROVE Asked'
  BY <1>2
    DEF NothingEligible, End, Asked, FateInv, Progress, Early, written, judged, callVars,
        Dial, HangUp, NoCall, Calling, Replied, Retry, Repair
<1>3. ASSUME Unanswerable PROVE Asked'
  BY <1>3
    DEF Unanswerable, End, Asked, FateInv, Progress, Early, written, judged, callVars, Dial,
        HangUp, NoCall, Calling, Replied, Retry, Repair
<1>4. ASSUME IntegrityFailure PROVE Asked'
  BY <1>4
    DEF IntegrityFailure, End, Asked, FateInv, Progress, Early, written, judged, callVars,
        Dial, HangUp, NoCall, Calling, Replied, Retry, Repair
<1>5. ASSUME SelectEvidence PROVE Asked'
  BY <1>5
    DEF SelectEvidence, Asked, FateInv, Progress, Early, written, judged, callVars, Dial,
        HangUp, NoCall, Calling, Replied, Retry, Repair
<1>6. ASSUME NEW score \in [eligible -> Scores], RankByWords(score) PROVE Asked'
  BY <1>6
    DEF RankByWords, Asked, FateInv, Progress, Early, written, judged, callVars, Dial,
        HangUp, NoCall, Calling, Replied, Retry, Repair
<1>7. ASSUME NEW distance \in [eligible -> Distances], RankByMeaning(distance)
     PROVE Asked'
  BY <1>7
    DEF RankByMeaning, Asked, FateInv, Progress, Early, written, judged, callVars, Dial,
        HangUp, NoCall, Calling, Replied, Retry, Repair
<1>8. ASSUME NEW n \in 1..MaxFacets, ExtractFacets(n) PROVE Asked'
  BY <1>8
    DEF ExtractFacets, Asked, FateInv, Progress, Early, written, judged, callVars, Dial,
        HangUp, NoCall, Calling, Replied, Retry, Repair
<1>9. ASSUME NEW d \in Drafts, GenerateAnswer(d) PROVE Asked'
  BY <1>9
    DEF GenerateAnswer, Asked, FateInv, Progress, Early, written, judged, callVars, Dial,
        HangUp, NoCall, Calling, Replied, Retry, Repair
<1>10. ASSUME JudgeAtOnce PROVE Asked'
  BY <1>10
    DEF JudgeAtOnce, Judged, Asked, FateInv, Progress, Early, written, judged, callVars,
        Dial, HangUp, NoCall, Calling, Replied, Retry, Repair
<1>11. ASSUME RequestDivision PROVE Asked'
  BY <1>11
    DEF RequestDivision, Asked, FateInv, Progress, Early, written, judged, callVars, Dial,
        HangUp, NoCall, Calling, Replied, Retry, Repair
<1>12. ASSUME NEW response \in Divisions, AcceptDivision(response) PROVE Asked'
  BY <1>12
    DEF AcceptDivision, Asked, FateInv, Progress, Early, written, judged, callVars, Dial,
        HangUp, NoCall, Calling, Replied, Retry, Repair
<1>13. ASSUME NEW response \in Divisions, RetryDivision(response) PROVE Asked'
  BY <1>13
    DEF RetryDivision, Asked, FateInv, Progress, Early, written, judged, callVars, Dial,
        HangUp, NoCall, Calling, Replied, Retry, Repair
<1>14. ASSUME NEW response \in Divisions, RejectDivision(response) PROVE Asked'
  BY <1>14
    DEF RejectDivision, Judged, Asked, FateInv, Progress, Early, written, judged, callVars,
        Dial, HangUp, NoCall, Calling, Replied, Retry, Repair
<1>15. ASSUME ClaimVerbatim PROVE Asked'
  BY <1>15
    DEF ClaimVerbatim, Asked, FateInv, Progress, Early, written, judged, callVars, Dial,
        HangUp, NoCall, Calling, Replied, Retry, Repair
<1>16. ASSUME RequestVerdict PROVE Asked'
  BY <1>16
    DEF RequestVerdict, Asked, FateInv, Progress, Early, written, judged, callVars, Dial,
        HangUp, NoCall, Calling, Replied, Retry, Repair
<1>17. ASSUME JudgeClaims PROVE Asked'
  BY <1>17
    DEF JudgeClaims, Judged, Asked, FateInv, Progress, Early, written, judged, callVars,
        Dial, HangUp, NoCall, Calling, Replied, Retry, Repair
<1>18. ASSUME NEW supported \in BOOLEAN, Entail(supported) PROVE Asked'
  BY <1>18
    DEF Entail, Asked, FateInv, Progress, Early, written, judged, callVars, Dial, HangUp,
        NoCall, Calling, Replied, Retry, Repair
<1>19. ASSUME RequestCoverage PROVE Asked'
  BY <1>19
    DEF RequestCoverage, Asked, FateInv, Progress, Early, written, judged, callVars, Dial,
        HangUp, NoCall, Calling, Replied, Retry, Repair
<1>20. ASSUME NothingEmitted PROVE Asked'
  BY <1>20
    DEF NothingEmitted, End, Asked, FateInv, Progress, Early, written, judged, callVars,
        Dial, HangUp, NoCall, Calling, Replied, Retry, Repair
<1>21. ASSUME Cite PROVE Asked'
  BY <1>21
    DEF Cite, Asked, FateInv, Progress, Early, written, judged, callVars, Dial, HangUp,
        NoCall, Calling, Replied, Retry, Repair
<1>22. ASSUME Answer PROVE Asked'
  BY <1>22
    DEF Answer, End, Asked, FateInv, Progress, Early, written, judged, callVars, Dial,
        HangUp, NoCall, Calling, Replied, Retry, Repair
<1>23. ASSUME RefuseChanged PROVE Asked'
  BY <1>23
    DEF RefuseChanged, End, Asked, FateInv, Progress, Early, written, judged, callVars,
        Dial, HangUp, NoCall, Calling, Replied, Retry, Repair
<1>24. ASSUME NEW rs \in Coverages, Cover(rs) PROVE Asked'
  BY <1>24
    DEF Cover, End, Asked, FateInv, Progress, Early, written, judged, callVars, Dial,
        HangUp, NoCall, Calling, Replied, Retry, Repair
<1>25. ASSUME ProviderFails PROVE Asked'
  BY <1>25
    DEF ProviderFails, End, CallFails, Exhausted, FinalFailure, Malformed, InvalidTwice,
        Asked, FateInv, Progress, Early, written, judged, callVars, Dial, HangUp, NoCall,
        Calling, Replied, Retry, Repair
<1>26. ASSUME Redial PROVE Asked'
  <2>1. call \in [op : Operations, try : 1..MaxTries, attempt : 1..MaxAttempts]
    BY <1>26 DEF Redial, Retry, Repair, CallInv, CallTypeOK, Calling, NoCall, Structured
  <2>2. call'.op = call.op
    BY <1>26, <2>1 DEF Redial, Retry, Repair
  <2> QED
    BY <1>26, <2>2 DEF Redial, Asked, judged
<1>27. CASE UNCHANGED answerVars
  BY <1>27
    DEF answerVars, Asked, FateInv, Progress, Early, written, judged, callVars, Dial,
        HangUp, NoCall, Calling, Replied, Retry, Repair
<1>28. QED
  BY <1>1, <1>2, <1>3, <1>4, <1>5, <1>6, <1>7, <1>8, <1>9, <1>10, <1>11, <1>12, <1>13,
     <1>14, <1>15, <1>16, <1>17, <1>18, <1>19, <1>20, <1>21, <1>22, <1>23, <1>24, <1>25,
     <1>26, <1>27 DEF AnswerNext, RetrievalStep, WritingStep, JudgingStep, ResultStep

-----------------------------------------------------------------------------
(* The facets.  Once the rows are accepted nothing changes that they speak  *)
(* of, so an answer still has them when it is given.                        *)

CoverageInv ==
  /\ facets \in Nat
  /\ outcome # "none" => pc = "ended"
  /\ pc \in {"cite", "recheck"} \/ outcome = "answered" =>
       rows \in Seq(Row) /\ ValidCoverage(rows) /\ Uncovered(rows) = {}

\* One step keeps the accepted rows true of the sentences.
LEMMA CoverageKeeps ==
  ASSUME CoverageInv, [AnswerNext]_answerVars PROVE CoverageInv'
<1>1. ASSUME NEW filters \in Filters, NEW active \in SUBSET Chunks, Filter(filters, active)
     PROVE CoverageInv'
  BY <1>1, AnswerAssumption
    DEF Filter, CoverageInv, ValidCoverage, Uncovered, Emitted, written, judged
<1>2. ASSUME NEW filters \in Filters, NEW active \in SUBSET Chunks,
             NothingEligible(filters, active) PROVE CoverageInv'
  BY <1>2, AnswerAssumption
    DEF NothingEligible, End, CoverageInv, ValidCoverage, Uncovered, Emitted, written,
        judged
<1>3. ASSUME Unanswerable PROVE CoverageInv'
  BY <1>3, AnswerAssumption
    DEF Unanswerable, End, CoverageInv, ValidCoverage, Uncovered, Emitted, written, judged
<1>4. ASSUME IntegrityFailure PROVE CoverageInv'
  BY <1>4, AnswerAssumption
    DEF IntegrityFailure, End, CoverageInv, ValidCoverage, Uncovered, Emitted, written,
        judged
<1>5. ASSUME SelectEvidence PROVE CoverageInv'
  BY <1>5, AnswerAssumption
    DEF SelectEvidence, CoverageInv, ValidCoverage, Uncovered, Emitted, written, judged
<1>6. ASSUME NEW score \in [eligible -> Scores], RankByWords(score) PROVE CoverageInv'
  BY <1>6, AnswerAssumption
    DEF RankByWords, CoverageInv, ValidCoverage, Uncovered, Emitted, written, judged
<1>7. ASSUME NEW distance \in [eligible -> Distances], RankByMeaning(distance)
     PROVE CoverageInv'
  BY <1>7, AnswerAssumption
    DEF RankByMeaning, CoverageInv, ValidCoverage, Uncovered, Emitted, written, judged
<1>8. ASSUME NEW n \in 1..MaxFacets, ExtractFacets(n) PROVE CoverageInv'
  BY <1>8, AnswerAssumption
    DEF ExtractFacets, CoverageInv, ValidCoverage, Uncovered, Emitted, written, judged
<1>9. ASSUME NEW d \in Drafts, GenerateAnswer(d) PROVE CoverageInv'
  BY <1>9, AnswerAssumption
    DEF GenerateAnswer, CoverageInv, ValidCoverage, Uncovered, Emitted, written, judged
<1>10. ASSUME JudgeAtOnce PROVE CoverageInv'
  BY <1>10, AnswerAssumption
    DEF JudgeAtOnce, Judged, CoverageInv, ValidCoverage, Uncovered, Emitted, written, judged
<1>11. ASSUME RequestDivision PROVE CoverageInv'
  BY <1>11, AnswerAssumption
    DEF RequestDivision, CoverageInv, ValidCoverage, Uncovered, Emitted, written, judged
<1>12. ASSUME NEW response \in Divisions, AcceptDivision(response) PROVE CoverageInv'
  BY <1>12, AnswerAssumption
    DEF AcceptDivision, CoverageInv, ValidCoverage, Uncovered, Emitted, written, judged
<1>13. ASSUME NEW response \in Divisions, RetryDivision(response) PROVE CoverageInv'
  BY <1>13, AnswerAssumption
    DEF RetryDivision, CoverageInv, ValidCoverage, Uncovered, Emitted, written, judged
<1>14. ASSUME NEW response \in Divisions, RejectDivision(response) PROVE CoverageInv'
  BY <1>14, AnswerAssumption
    DEF RejectDivision, Judged, CoverageInv, ValidCoverage, Uncovered, Emitted, written,
        judged
<1>15. ASSUME ClaimVerbatim PROVE CoverageInv'
  BY <1>15, AnswerAssumption
    DEF ClaimVerbatim, CoverageInv, ValidCoverage, Uncovered, Emitted, written, judged
<1>16. ASSUME RequestVerdict PROVE CoverageInv'
  BY <1>16, AnswerAssumption
    DEF RequestVerdict, CoverageInv, ValidCoverage, Uncovered, Emitted, written, judged
<1>17. ASSUME JudgeClaims PROVE CoverageInv'
  BY <1>17, AnswerAssumption
    DEF JudgeClaims, Judged, CoverageInv, ValidCoverage, Uncovered, Emitted, written, judged
<1>18. ASSUME NEW supported \in BOOLEAN, Entail(supported) PROVE CoverageInv'
  BY <1>18, AnswerAssumption
    DEF Entail, CoverageInv, ValidCoverage, Uncovered, Emitted, written, judged
<1>19. ASSUME RequestCoverage PROVE CoverageInv'
  BY <1>19, AnswerAssumption
    DEF RequestCoverage, CoverageInv, ValidCoverage, Uncovered, Emitted, written, judged
<1>20. ASSUME NothingEmitted PROVE CoverageInv'
  BY <1>20, AnswerAssumption
    DEF NothingEmitted, End, CoverageInv, ValidCoverage, Uncovered, Emitted, written, judged
<1>21. ASSUME Cite PROVE CoverageInv'
  BY <1>21, AnswerAssumption
    DEF Cite, CoverageInv, ValidCoverage, Uncovered, Emitted, written, judged
<1>22. ASSUME Answer PROVE CoverageInv'
  BY <1>22, AnswerAssumption
    DEF Answer, End, CoverageInv, ValidCoverage, Uncovered, Emitted, written, judged
<1>23. ASSUME RefuseChanged PROVE CoverageInv'
  BY <1>23, AnswerAssumption
    DEF RefuseChanged, End, CoverageInv, ValidCoverage, Uncovered, Emitted, written, judged
<1>24. ASSUME NEW rs \in Coverages, Cover(rs) PROVE CoverageInv'
  <2>1. rs \in Seq(Row) /\ ValidCoverage(rs) /\ rows' = rs
    BY <1>24, AnswerAssumption DEF Cover
  <2>2. UNCHANGED <<facets, fates>> /\ pc = "coverage"
    BY <1>24 DEF Cover, written, judged
  <2>3. ValidCoverage(rows)' /\ Uncovered(rows)' = Uncovered(rs)
    BY <2>1, <2>2 DEF ValidCoverage, Uncovered, Emitted
  <2>4. CASE Uncovered(rs) = {}
    BY <1>24, <2>1, <2>2, <2>3, <2>4 DEF Cover, CoverageInv
  <2>5. CASE Uncovered(rs) # {}
    BY <1>24, <2>2, <2>5 DEF Cover, End, CoverageInv
  <2> QED
    BY <2>4, <2>5
<1>25. ASSUME ProviderFails PROVE CoverageInv'
  BY <1>25, AnswerAssumption
    DEF ProviderFails, End, CallFails, Exhausted, FinalFailure, Malformed, InvalidTwice,
        CoverageInv, ValidCoverage, Uncovered, Emitted, written, judged
<1>26. ASSUME Redial PROVE CoverageInv'
  BY <1>26, AnswerAssumption
    DEF Redial, CoverageInv, ValidCoverage, Uncovered, Emitted, written, judged
<1>27. CASE UNCHANGED answerVars
  BY <1>27 DEF answerVars, CoverageInv, ValidCoverage, Uncovered, Emitted, written, judged
<1>28. QED
  BY <1>1, <1>2, <1>3, <1>4, <1>5, <1>6, <1>7, <1>8, <1>9, <1>10, <1>11, <1>12, <1>13,
     <1>14, <1>15, <1>16, <1>17, <1>18, <1>19, <1>20, <1>21, <1>22, <1>23, <1>24, <1>25,
     <1>26, <1>27 DEF AnswerNext, RetrievalStep, WritingStep, JudgingStep, ResultStep

\* What an answer rests on covers every facet of the question.
LEMMA CoverageImplies ==
  ASSUME FateInv, CoverageInv PROVE AnswersCoverQuestion
<1> SUFFICES ASSUME outcome = "answered", NEW f \in 1..facets
             PROVE \E row \in Range(rows) :
                     /\ row.facet = f /\ row.covered /\ row.by # <<>>
                     /\ \A i \in Range(row.by) :
                          i \in Emitted /\ Range(draft[i].cites) \subseteq Evidence
  BY DEF AnswersCoverQuestion
<1>1. rows \in Seq(Row) /\ ValidCoverage(rows) /\ Uncovered(rows) = {} /\ f \in DOMAIN rows
  BY DEF CoverageInv, ValidCoverage
<1>2. /\ rows[f] \in Range(rows) /\ rows[f].facet = f /\ rows[f].covered /\ rows[f].by # <<>>
      /\ Range(rows[f].by) \subseteq Emitted
  BY <1>1 DEF ValidCoverage, Uncovered, Range
<1>3. \A i \in Emitted : i \in DOMAIN draft
  BY DEF FateInv, Progress, Emitted
<1>4. \A i \in Emitted : Range(draft[i].cites) \subseteq Evidence
  BY <1>3 DEF FateInv, ValidDraft
<1> QED
  BY <1>2, <1>4

\* A query answers only what it covers: each facet of the question by sentences
\* that were emitted and that cite the evidence the model was shown.
THEOREM AnswersCover == AnswerSpec => []AnswersCoverQuestion
<1> DEFINE Inv == CallInv /\ FateInv /\ Asked /\ CoverageInv
<1>1. AnswerInit => Inv
  BY CallAssumption, AnswerAssumption
    DEF AnswerInit, CallInit, CallInv, CallTypeOK, Calling, NoCall, Asked, FateInv,
        Progress,
        Early, Undecided, FatesFollowVerdicts, ValidDraft, IsInjective, Range,
        InSequence, CoverageInv
<1>2. Inv /\ [AnswerNext]_answerVars => Inv'
  BY StepsAreCalls, CallStepKeeps, FatesKeep, AskedKeeps, CoverageKeeps
<1>3. Inv => AnswersCoverQuestion
  BY CoverageImplies
<1> QED
  BY <1>1, <1>2, <1>3, PTL DEF AnswerSpec

-----------------------------------------------------------------------------
(* The division of a sentence into claims. The scan of a claim is a        *)
(* fold: what is used and added only grows, so a claim that the last       *)
(* token leaves additive was additive all along.                           *)

IsText(text) == text \in Seq(Range(text))

Scans(parent) == [used : SUBSET DOMAIN parent, added : Nat, free : BOOLEAN]

NoScan == [used |-> {}, added |-> 0, free |-> TRUE]

ScanStep(claim, parent) ==
  [vk \in Scans(parent) \X (1..Len(claim)) |-> ScanToken(vk[1], claim[vk[2]], parent)]

\* The parent token that a token takes.
Taken(scan, token, parent) ==
  LET free == FreeMatches(token, parent, scan.used)
  IN CHOOSE k \in free : \A l \in free : k <= l

LEMMA TakenIsFree ==
  ASSUME NEW parent, IsText(parent), NEW scan, NEW token,
         FreeMatches(token, parent, scan.used) # {}
  PROVE  Taken(scan, token, parent) \in FreeMatches(token, parent, scan.used)
<1> DEFINE free == FreeMatches(token, parent, scan.used)
<1>1. free \subseteq Nat /\ free # {}
  BY DEF IsText, FreeMatches
<1> HIDE DEF free
<1>2. \E k \in free : \A l \in free : k <= l
  BY <1>1, LeastNumber
<1>3. (CHOOSE k \in free : \A l \in free : k <= l) \in free
  BY <1>2
<1> QED BY <1>3 DEF Taken, free

\* What one token of a claim does to the scan.
LEMMA ScanCases ==
  ASSUME NEW parent, IsText(parent), NEW scan \in Scans(parent), NEW token
  PROVE  LET next == ScanToken(scan, token, parent)
             some == FreeMatches(token, parent, scan.used) # {}
         IN /\ next \in Scans(parent)
            /\ some => /\ next.used = scan.used \union {Taken(scan, token, parent)}
                       /\ next.added = scan.added /\ next.free = scan.free
            /\ ~some => /\ next.used = scan.used /\ next.added = scan.added + 1
                        /\ next.free <=> /\ scan.free /\ token \in FunctionWords
                                         /\ scan.added < MaxAddedFunctionWords
<1> DEFINE free == FreeMatches(token, parent, scan.used)
           k == Taken(scan, token, parent)
           next == ScanToken(scan, token, parent)
<1>1. /\ scan.used \in SUBSET DOMAIN parent /\ scan.added \in Nat /\ scan.free \in BOOLEAN
  BY DEF Scans
<1>2. \A u \in SUBSET DOMAIN parent :
        /\ [scan EXCEPT !.used = u] \in Scans(parent)
        /\ [scan EXCEPT !.used = u].used = u /\ [scan EXCEPT !.used = u].added = scan.added
        /\ [scan EXCEPT !.used = u].free = scan.free
  BY DEF Scans
<1>5. \A a \in Nat, f \in BOOLEAN :
        /\ [scan EXCEPT !.added = a, !.free = f] \in Scans(parent)
        /\ [scan EXCEPT !.added = a, !.free = f].used = scan.used
        /\ [scan EXCEPT !.added = a, !.free = f].added = a
        /\ [scan EXCEPT !.added = a, !.free = f].free = f
  BY DEF Scans
<1>3. CASE free # {}
  <2>1. k \in free
    BY <1>3, TakenIsFree
  <2>2. k \in DOMAIN parent
    BY <2>1 DEF FreeMatches
  <2> DEFINE u == scan.used \union {k}
  <2>3. u \in SUBSET DOMAIN parent
    BY <1>1, <2>2
  <2>4. next = [scan EXCEPT !.used = u]
    BY <1>3 DEF ScanToken, Taken
  <2> HIDE DEF u, k, next, free
  <2>5. next \in Scans(parent) /\ next.used = u /\ next.added = scan.added /\ next.free = scan.free
    BY <1>2, <2>3, <2>4
  <2> QED BY <1>3, <2>5 DEF u, k, next, free
<1>4. CASE ~(free # {})
  <2> DEFINE a == scan.added + 1
             f == scan.free /\ token \in FunctionWords /\ scan.added < MaxAddedFunctionWords
  <2>1. a \in Nat /\ f \in BOOLEAN
    BY <1>1
  <2>2. next = [scan EXCEPT !.added = a, !.free = f]
    BY <1>4 DEF ScanToken
  <2> HIDE DEF a, f, next, free
  <2>3. next \in Scans(parent) /\ next.used = scan.used /\ next.added = a /\ next.free = f
    BY <1>5, <2>1, <2>2
  <2> QED BY <1>4, <2>3 DEF a, f, next, free
<1> QED BY <1>3, <1>4

ScanRun(run, claim, parent) ==
  /\ run \in [0..Len(claim) -> Scans(parent)]
  /\ run[0] = NoScan
  /\ \A k \in 1..Len(claim) : run[k] = ScanToken(run[k - 1], claim[k], parent)

\* The scan of a claim, one value after each token.
LEMMA ScanFold ==
  ASSUME NEW claim, IsText(claim), NEW parent, IsText(parent)
  PROVE  \E run : ScanRun(run, claim, parent) /\ AdditiveFree(claim, parent) = run[Len(claim)].free
<1> DEFINE n == Len(claim)
           S == Scans(parent)
           step == ScanStep(claim, parent)
           Solves(it) == it = [s \in SUBSET DOMAIN claim |->
                                IF s = {} THEN NoScan
                                ELSE ScanToken(it[s \ {Max(s)}], claim[Max(s)], parent)]
           fold == CHOOSE it : Solves(it)
           run == [k \in 0..n |-> fold[1..k]]
<1>1. n \in Nat /\ DOMAIN claim = 1..n /\ NoScan \in S
  BY DEF IsText, Scans, NoScan
<1>2. step \in Steps(S, n)
  BY ScanCases DEF ScanStep, Steps
<1>3. PICK it : SolvesFold(it, step, NoScan, S, n)
  <2> HIDE DEF step, S
  <2> QED BY <1>1, <1>2, FoldHasValue
<1>4. Solves(it)
  <2>1. ASSUME NEW s \in SUBSET (1..n), s # {}
        PROVE  it[s] = ScanToken(it[s \ {Max(s)}], claim[Max(s)], parent)
    <3>1. Max(s) \in 1..n /\ s \ {Max(s)} \in SUBSET (1..n)
      BY <1>1, <2>1, MaxOfPrefix
    <3>2. it[s \ {Max(s)}] \in S
      BY <1>3, <3>1 DEF SolvesFold
    <3> QED BY <1>3, <2>1, <3>1, <3>2 DEF ScanStep, SolvesFold
  <2> HIDE DEF n
  <2> QED BY <1>1, <1>3, <2>1 DEF SolvesFold
<1>5. Solves(fold)
  <2> HIDE DEF Solves
  <2> QED BY <1>4
<1>6. AdditiveFree(claim, parent) = fold[DOMAIN claim].free
  BY DEF AdditiveFree, FoldLeft, MapThenFoldSet, NoScan
<1> HIDE DEF fold
<1>7. Repeats(run, step, NoScan, S, n)
  <2>1. \A s \in SUBSET (1..n) : s = {} => fold[s] = NoScan
    BY <1>5, <1>1
  <2>2. ASSUME NEW k \in 1..n, fold[(1..k) \ {k}] \in S
        PROVE  fold[1..k] = step[<<fold[(1..k) \ {k}], k>>]
    <3>1. 1..k \in SUBSET (1..n) /\ 1..k # {} /\ Max(1..k) = k
      BY <1>1, PrefixWithoutMax
    <3>2. fold[1..k] = ScanToken(fold[(1..k) \ {k}], claim[k], parent)
      BY <1>1, <1>5, <3>1
    <3> QED BY <2>2, <3>2 DEF ScanStep
  <2> HIDE DEF step, S
  <2>3. OnPrefixes(fold, step, NoScan, S, n)
    BY <2>1, <2>2 DEF OnPrefixes
  <2> QED BY <1>1, <1>2, <2>3, FoldOnPrefixes
<1>8. AdditiveFree(claim, parent) = run[n].free
  BY <1>1, <1>6
<1> HIDE DEF run
<1>9. ScanRun(run, claim, parent)
  <2>1. run \in [0..n -> S] /\ run[0] = NoScan
    BY <1>7 DEF Repeats
  <2>2. ASSUME NEW k \in 1..n PROVE run[k] = ScanToken(run[k - 1], claim[k], parent)
    <3>1. run[k] = step[<<run[k - 1], k>>] /\ <<run[k - 1], k>> \in S \X (1..n)
      <4> HIDE DEF step, S
      <4> QED BY <1>1, <1>7, RepeatsFacts
    <3> QED BY <3>1 DEF ScanStep
  <2> QED BY <2>1, <2>2 DEF ScanRun
<1> QED BY <1>8, <1>9

\* The greedy scan is sound: a claim it finds free of additions borrows its
\* words.
LEMMA AdditiveFreeBorrows ==
  ASSUME NEW claim, IsText(claim), NEW parent, IsText(parent), AdditiveFree(claim, parent)
  PROVE  Borrows(claim, parent)
<1> DEFINE n == Len(claim)
<1>1. PICK run : ScanRun(run, claim, parent) /\ AdditiveFree(claim, parent) = run[n].free
  BY ScanFold
<1> DEFINE Some(i) == FreeMatches(claim[i], parent, run[i - 1].used) # {}
           from == [i \in DOMAIN claim |->
                      IF Some(i) THEN Taken(run[i - 1], claim[i], parent) ELSE 0]
           new == {i \in DOMAIN claim : from[i] = 0}
           New(k) == {i \in 1..k : from[i] = 0}
<1>2. n \in Nat /\ DOMAIN claim = 1..n /\ 0 \notin DOMAIN parent
  BY DEF IsText
<1>3. \A k \in 0..n : run[k] \in Scans(parent)
  BY <1>1 DEF ScanRun
<1>4. ASSUME NEW i \in 1..n
      PROVE  /\ from[i] \in DOMAIN parent \union {0}
             /\ from[i] # 0 => /\ from[i] \notin run[i - 1].used
                               /\ TokensMatch(claim[i], parent[from[i]])
                               /\ run[i].used = run[i - 1].used \union {from[i]}
                               /\ run[i].added = run[i - 1].added
                               /\ run[i].free = run[i - 1].free
             /\ from[i] = 0 => /\ run[i].used = run[i - 1].used
                               /\ run[i].added = run[i - 1].added + 1
                               /\ run[i].free <=> /\ run[i - 1].free
                                                  /\ claim[i] \in FunctionWords
                                                  /\ run[i - 1].added < MaxAddedFunctionWords
  <2>1. /\ i - 1 \in 0..n /\ run[i - 1] \in Scans(parent)
        /\ run[i] = ScanToken(run[i - 1], claim[i], parent)
    BY <1>1, <1>2, <1>3 DEF ScanRun
  <2> HIDE DEF n
  <2>2. CASE Some(i)
    <3>1. from[i] = Taken(run[i - 1], claim[i], parent)
      BY <1>2, <2>2
    <3>2. from[i] \in FreeMatches(claim[i], parent, run[i - 1].used)
      BY <2>2, <3>1, TakenIsFree
    <3>3. /\ run[i].used = run[i - 1].used \union {from[i]}
          /\ run[i].added = run[i - 1].added
          /\ run[i].free = run[i - 1].free
      <4> DEFINE scan == run[i - 1]
      <4>1. scan \in Scans(parent) /\ FreeMatches(claim[i], parent, scan.used) # {}
            /\ run[i] = ScanToken(scan, claim[i], parent) /\ from[i] = Taken(scan, claim[i], parent)
        BY <2>1, <2>2, <3>1
      <4> HIDE DEF from, scan
      <4>2. /\ run[i].used = scan.used \union {from[i]} /\ run[i].added = scan.added
            /\ run[i].free = scan.free
        BY <4>1, ScanCases
      <4> QED BY <4>2 DEF scan
    <3> HIDE DEF from
    <3> QED BY <1>2, <3>2, <3>3 DEF FreeMatches
  <2>3. CASE ~Some(i)
    <3>1. from[i] = 0
      BY <1>2, <2>3
    <3> HIDE DEF from
    <3>2. /\ run[i].used = run[i - 1].used /\ run[i].added = run[i - 1].added + 1
          /\ run[i].free <=> /\ run[i - 1].free /\ claim[i] \in FunctionWords
                             /\ run[i - 1].added < MaxAddedFunctionWords
      BY <2>1, <2>3, ScanCases
    <3> QED BY <3>1, <3>2
  <2> QED BY <2>2, <2>3
<1>5. from \in [DOMAIN claim -> DOMAIN parent \union {0}]
  <2>1. \A i \in DOMAIN claim : from[i] \in DOMAIN parent \union {0}
    BY <1>2, <1>4
  <2>2. from = [i \in DOMAIN claim |-> from[i]]
    OBVIOUS
  <2> HIDE DEF from
  <2> QED BY <2>1, <2>2
<1> HIDE DEF from
<1> DEFINE Kept(k) ==
             /\ \A i \in 1..k : from[i] # 0 => from[i] \in run[k].used
             /\ IsFiniteSet(New(k)) /\ Cardinality(New(k)) = run[k].added
             /\ run[k].free => /\ run[k].added <= MaxAddedFunctionWords
                               /\ \A i \in New(k) : claim[i] \in FunctionWords
           G == {k \in 0..n : Kept(k)}
<1>6. 0 \in G
  <2>1. run[0].used = {} /\ run[0].added = 0
    BY <1>1 DEF ScanRun, NoScan
  <2>2. New(0) = {} /\ 0 \in 0..n
    BY <1>2
  <2>3. IsFiniteSet({}) /\ Cardinality({}) = 0
    BY FS_EmptySet
  <2>4. MaxAddedFunctionWords \in Nat
    BY VerificationAssumption
  <2> HIDE DEF New
  <2>5. /\ \A i \in 1..0 : from[i] # 0 => from[i] \in run[0].used
        /\ \A i \in New(0) : claim[i] \in FunctionWords
    BY <2>2
  <2>6. IsFiniteSet(New(0)) /\ Cardinality(New(0)) = run[0].added
    BY <2>1, <2>2, <2>3
  <2>7. Kept(0)
    BY <2>1, <2>4, <2>5, <2>6
  <2> QED BY <2>2, <2>7
<1>7. ASSUME NEW k \in 0..(n - 1), k \in G PROVE k + 1 \in G
  <2> DEFINE j == k + 1
  <2>1. j \in 1..n /\ j - 1 = k /\ j \in 0..n /\ k \in 0..n /\ 1..j = (1..k) \union {j} /\ j \notin 1..k
    BY <1>2
  <2>2. Kept(k)
    BY <1>7
  <2>3. run[k].added \in Nat /\ MaxAddedFunctionWords \in Nat
    BY <1>3, <2>1, VerificationAssumption DEF Scans
  <2> HIDE DEF j
  <2>4. /\ from[j] # 0 => /\ from[j] \notin run[k].used
                          /\ run[j].used = run[k].used \union {from[j]}
                          /\ run[j].added = run[k].added
                          /\ run[j].free = run[k].free
        /\ from[j] = 0 => /\ run[j].used = run[k].used
                          /\ run[j].added = run[k].added + 1
                          /\ run[j].free <=> /\ run[k].free
                                             /\ claim[j] \in FunctionWords
                                             /\ run[k].added < MaxAddedFunctionWords
    BY <1>4, <2>1
  <2>5. /\ from[j] # 0 => New(j) = New(k)
        /\ from[j] = 0 => New(j) = New(k) \union {j} /\ j \notin New(k)
    BY <2>1
  <2>6. \A i \in 1..j : from[i] # 0 => from[i] \in run[j].used
    <3> HIDE DEF New
    <3> QED BY <2>1, <2>2, <2>4
  <2>7. IsFiniteSet(New(j)) /\ Cardinality(New(j)) = run[j].added
    <3> HIDE DEF New
    <3>1. IsFiniteSet(New(k)) /\ Cardinality(New(k)) = run[k].added
      BY <2>2
    <3>2. CASE from[j] # 0
      BY <2>4, <2>5, <3>1, <3>2
    <3>3. CASE from[j] = 0
      <4>1. /\ IsFiniteSet(New(k) \union {j})
            /\ Cardinality(New(k) \union {j}) = Cardinality(New(k)) + 1
        BY <2>5, <3>1, <3>3, FS_AddElement
      <4> QED BY <2>4, <2>5, <3>1, <3>3, <4>1
    <3> QED BY <3>2, <3>3
  <2>8. run[j].free => /\ run[j].added <= MaxAddedFunctionWords
                       /\ \A i \in New(j) : claim[i] \in FunctionWords
    <3> HIDE DEF New
    <3>1. SUFFICES ASSUME run[j].free
                   PROVE  /\ run[j].added <= MaxAddedFunctionWords
                          /\ \A i \in New(j) : claim[i] \in FunctionWords
      OBVIOUS
    <3>2. /\ run[k].free => run[k].added <= MaxAddedFunctionWords
          /\ run[k].free => \A i \in New(k) : claim[i] \in FunctionWords
      BY <2>2
    <3>3. CASE from[j] # 0
      BY <2>4, <2>5, <3>1, <3>2, <3>3
    <3>4. CASE from[j] = 0
      <4>1. /\ run[k].free /\ claim[j] \in FunctionWords
            /\ run[k].added < MaxAddedFunctionWords /\ run[j].added = run[k].added + 1
        BY <2>4, <3>1, <3>4
      <4> QED BY <2>3, <2>5, <3>2, <3>4, <4>1
    <3> QED BY <3>3, <3>4
  <2> HIDE DEF New
  <2>9. Kept(j)
    BY <2>6, <2>7, <2>8
  <2> QED BY <2>1, <2>9 DEF j
<1>8. \A k \in 0..n : Kept(k)
  <2> HIDE DEF Kept
  <2>1. 0 \in G /\ \A k \in 0..(n - 1) : k \in G => k + 1 \in G
    BY <1>6, <1>7
  <2> HIDE DEF G
  <2>2. \A k \in 0..n : k \in G
    BY <1>2, <2>1, PrefixInduction
  <2> QED BY <2>2 DEF G
<1>9. \A i, j \in DOMAIN claim \ new : from[i] = from[j] => i = j
  <2>1. ASSUME NEW i \in 1..n, NEW j \in 1..n, from[i] # 0, from[i] = from[j], i < j
        PROVE  FALSE
    <3>1. i \in 1..(j - 1) /\ j - 1 \in 0..n
      BY <2>1
    <3>2. from[i] \in run[j - 1].used
      BY <1>8, <2>1, <3>1
    <3> QED BY <1>4, <2>1, <3>2
  <2>2. \A i, j \in 1..n : from[i] # 0 /\ from[i] = from[j] => i = j
    <3>1. \A i, j \in 1..n : i < j \/ j < i \/ i = j
      OBVIOUS
    <3> QED BY <2>1, <3>1
  <2> QED BY <1>2, <2>2
<1>10. new = New(n) /\ Kept(n)
  <2>1. new = New(n) /\ n \in 0..n
    BY <1>2
  <2> HIDE DEF Kept
  <2> QED BY <1>8, <2>1
<1>11. \A i \in DOMAIN claim \ new : TokensMatch(claim[i], parent[from[i]])
  BY <1>2, <1>4
<1>12. /\ \A i \in new : claim[i] \in FunctionWords
       /\ Cardinality(new) <= MaxAddedFunctionWords
  BY <1>1, <1>10
<1> QED BY <1>5, <1>9, <1>11, <1>12 DEF Borrows

\* A response that passes every test divides the sentence.
LEMMA ValidDivides ==
  ASSUME NEW response, IsText(response), \A i \in DOMAIN response : IsText(response[i]),
         NEW parent, IsText(parent), Disposition(response, parent) = "valid"
  PROVE  Divides(response, parent)
<1> DEFINE n == Len(response)
           R == Range(response)
<1>1. /\ ~(Cardinality(R) < n) /\ \A claim \in R : AdditiveFree(claim, parent)
      /\ Complete(response, parent)
  BY DEF Disposition
<1>2. n \in Nat /\ DOMAIN response = 1..n /\ R = {response[i] : i \in 1..n}
  BY DEF IsText, Range
<1>3. response \in [1..n -> R]
  BY DEF IsText
<1> HIDE DEF n, R
<1>4. \A i \in 1..n : response[i] \in R
  BY <1>2
<1>5. \A i \in DOMAIN response : Borrows(response[i], parent)
  BY <1>1, <1>2, <1>4, AdditiveFreeBorrows
<1>6. \A i, j \in 1..n : response[i] = response[j] => i = j
  <2>1. response \in Surjection(1..n, R)
    BY <1>2, <1>3 DEF Surjection
  <2>2. IsFiniteSet(1..n) /\ Cardinality(1..n) = n
    BY <1>2, FS_Interval
  <2>3. /\ IsFiniteSet(R) /\ Cardinality(R) <= n
        /\ Cardinality(R) = n <=> response \in Injection(1..n, R)
    BY <2>1, <2>2, FS_Surjection
  <2>4. Cardinality(R) = n
    BY <1>1, <1>2, <2>3, FS_CardinalityType
  <2>5. response \in Injection(1..n, R)
    BY <2>3, <2>4
  <2> QED BY <2>5 DEF Injection, IsInjective
<1>7. \A token \in Range(parent) \ CompletenessExempt :
        \E i \in DOMAIN response : \E t \in Range(response[i]) : TokensMatch(token, t)
  BY <1>1, <1>2 DEF Complete, R, n
<1> QED BY <1>2, <1>5, <1>6, <1>7 DEF Divides

\* While claims are verified they divide the sentence under judgement.
Divided ==
  claims # <<>> =>
    /\ pc \in {"claim", "ended"} /\ Len(fates) < Len(draft)
    /\ Divides(claims, Judging.text)

\* One step keeps the claims a division of their sentence.
LEMMA DividedKeeps ==
  ASSUME FateInv, Divided, [AnswerNext]_answerVars PROVE Divided'
<1>1. ASSUME NEW filters \in Filters, NEW active \in SUBSET Chunks, Filter(filters, active)
     PROVE Divided'
  BY <1>1 DEF Filter, Divided, Judging, judged, written
<1>2. ASSUME NEW filters \in Filters, NEW active \in SUBSET Chunks,
             NothingEligible(filters, active) PROVE Divided'
  BY <1>2 DEF NothingEligible, End, Divided, Judging, judged, written
<1>3. ASSUME Unanswerable PROVE Divided'
  BY <1>3 DEF Unanswerable, End, Divided, Judging, judged, written
<1>4. ASSUME IntegrityFailure PROVE Divided'
  BY <1>4 DEF IntegrityFailure, End, Divided, Judging, judged, written
<1>5. ASSUME SelectEvidence PROVE Divided'
  BY <1>5 DEF SelectEvidence, Divided, Judging, judged, written
<1>6. ASSUME NEW score \in [eligible -> Scores], RankByWords(score) PROVE Divided'
  BY <1>6 DEF RankByWords, Divided, Judging, judged, written
<1>7. ASSUME NEW distance \in [eligible -> Distances], RankByMeaning(distance)
     PROVE Divided'
  BY <1>7 DEF RankByMeaning, Divided, Judging, judged, written
<1>8. ASSUME NEW n \in 1..MaxFacets, ExtractFacets(n) PROVE Divided'
  BY <1>8 DEF ExtractFacets, Divided, Judging, judged, written
<1>9. ASSUME NEW d \in Drafts, GenerateAnswer(d) PROVE Divided'
  BY <1>9 DEF GenerateAnswer, Divided, Judging, judged, written
<1>10. ASSUME JudgeAtOnce PROVE Divided'
  BY <1>10 DEF JudgeAtOnce, Judged, Divided, Judging, judged, written
<1>11. ASSUME RequestDivision PROVE Divided'
  BY <1>11 DEF RequestDivision, Divided, Judging, judged, written
<1>12. ASSUME NEW response \in Divisions, AcceptDivision(response) PROVE Divided'
  <2>1. /\ claims' = response /\ Disposition(response, Judging.text) = "valid"
        /\ pc' = "claim" /\ draft' = draft /\ fates' = fates /\ Len(fates) < Len(draft)
    BY <1>12 DEF AcceptDivision, FateInv, Progress, written
  <2>2. IsText(response) /\ \A i \in DOMAIN response : IsText(response[i])
    BY AnswerAssumption DEF IsText
  <2>3. IsText(Judging.text)
    <3>1. Len(fates) + 1 \in DOMAIN draft
      BY <2>1 DEF FateInv, Progress
    <3> QED
      BY <3>1 DEF FateInv, Progress, InSequence, Judging, IsText
  <2>4. Divides(response, Judging.text)
    BY <2>1, <2>2, <2>3, ValidDivides
  <2>5. Judging' = Judging
    BY <2>1 DEF Judging
  <2> QED
    BY <2>1, <2>4, <2>5 DEF Divided
<1>13. ASSUME NEW response \in Divisions, RetryDivision(response) PROVE Divided'
  BY <1>13 DEF RetryDivision, Divided, Judging, judged, written
<1>14. ASSUME NEW response \in Divisions, RejectDivision(response) PROVE Divided'
  BY <1>14 DEF RejectDivision, Judged, Divided, Judging, judged, written
<1>15. ASSUME ClaimVerbatim PROVE Divided'
  BY <1>15 DEF ClaimVerbatim, Divided, Judging, judged, written
<1>16. ASSUME RequestVerdict PROVE Divided'
  BY <1>16 DEF RequestVerdict, Divided, Judging, judged, written
<1>17. ASSUME JudgeClaims PROVE Divided'
  BY <1>17 DEF JudgeClaims, Judged, Divided, Judging, judged, written
<1>18. ASSUME NEW supported \in BOOLEAN, Entail(supported) PROVE Divided'
  BY <1>18 DEF Entail, Divided, Judging, judged, written
<1>19. ASSUME RequestCoverage PROVE Divided'
  BY <1>19 DEF RequestCoverage, Divided, Judging, judged, written
<1>20. ASSUME NothingEmitted PROVE Divided'
  BY <1>20 DEF NothingEmitted, End, Divided, Judging, judged, written
<1>21. ASSUME Cite PROVE Divided'
  BY <1>21 DEF Cite, Divided, Judging, judged, written
<1>22. ASSUME Answer PROVE Divided'
  BY <1>22 DEF Answer, End, Divided, Judging, judged, written
<1>23. ASSUME RefuseChanged PROVE Divided'
  BY <1>23 DEF RefuseChanged, End, Divided, Judging, judged, written
<1>24. ASSUME NEW rs \in Coverages, Cover(rs) PROVE Divided'
  BY <1>24 DEF Cover, End, Divided, Judging, judged, written
<1>25. ASSUME ProviderFails PROVE Divided'
  BY <1>25
    DEF ProviderFails, End, CallFails, Exhausted, FinalFailure, Malformed, InvalidTwice,
        Divided, Judging, judged, written
<1>26. ASSUME Redial PROVE Divided'
  BY <1>26 DEF Redial, Divided, Judging, judged, written
<1>27. CASE UNCHANGED answerVars
  BY <1>27 DEF answerVars, Divided, Judging, judged, written
<1>28. QED
  BY <1>1, <1>2, <1>3, <1>4, <1>5, <1>6, <1>7, <1>8, <1>9, <1>10, <1>11, <1>12, <1>13,
     <1>14, <1>15, <1>16, <1>17, <1>18, <1>19, <1>20, <1>21, <1>22, <1>23, <1>24, <1>25,
     <1>26, <1>27 DEF AnswerNext, RetrievalStep, WritingStep, JudgingStep, ResultStep

\* Every sentence that was judged is emitted if and only if it stands verbatim
\* in evidence it cites or all its claims are supported, dropped if one is not,
\* never dropped for want of a citation; the claims that are verified divide it.
THEOREM FatesAreEarned == AnswerSpec => []OneFate
<1> DEFINE Inv == CallInv /\ FateInv /\ Asked /\ Divided
<1>1. AnswerInit => Inv
  BY CallAssumption, AnswerAssumption
    DEF AnswerInit, CallInit, CallInv, CallTypeOK, Calling, NoCall, Asked, FateInv,
        Progress,
        Early, Undecided, FatesFollowVerdicts, ValidDraft, IsInjective, Range, InSequence,
        Divided
<1>2. Inv /\ [AnswerNext]_answerVars => Inv'
  BY StepsAreCalls, CallStepKeeps, FatesKeep, AskedKeeps, DividedKeeps
<1>3. Inv => OneFate
  BY DEF FateInv, Divided, OneFate
<1> QED
  BY <1>1, <1>2, <1>3, PTL DEF AnswerSpec

-----------------------------------------------------------------------------
(* A rank is one more than the number of those ahead. *)

\* Who is ahead of whom is a strict total order on S.
Orders(ahead, S) ==
  /\ IsFiniteSet(S)
  /\ ahead \in [S -> SUBSET S]
  /\ \A c \in S : c \notin ahead[c]
  /\ \A c, d, e \in S : c \in ahead[d] /\ d \in ahead[e] => c \in ahead[e]
  /\ \A c, d \in S : c # d => c \in ahead[d] \/ d \in ahead[c]

LEMMA AheadCounts ==
  ASSUME NEW S, NEW ahead, Orders(ahead, S)
  PROVE  /\ \A c \in S : IsFiniteSet(ahead[c]) /\ Cardinality(ahead[c]) \in 0..(Cardinality(S) - 1)
         /\ \A c, d \in S : c \in ahead[d] <=> Cardinality(ahead[c]) < Cardinality(ahead[d])
         /\ \A c, d \in S : Cardinality(ahead[c]) = Cardinality(ahead[d]) => c = d
<1>1. ASSUME NEW c \in S
      PROVE  /\ ahead[c] \subseteq S /\ IsFiniteSet(ahead[c]) /\ Cardinality(ahead[c]) \in Nat
             /\ IsFiniteSet(ahead[c] \union {c})
             /\ Cardinality(ahead[c] \union {c}) = Cardinality(ahead[c]) + 1
  <2>1. ahead[c] \subseteq S /\ IsFiniteSet(S) /\ c \notin ahead[c]
    BY DEF Orders
  <2>2. IsFiniteSet(ahead[c])
    BY <2>1, FS_Subset
  <2> QED BY <2>1, <2>2, FS_AddElement, FS_CardinalityType
<1>2. ASSUME NEW c \in S, NEW T, IsFiniteSet(T), ahead[c] \union {c} \subseteq T
      PROVE  Cardinality(ahead[c]) < Cardinality(T) /\ Cardinality(T) \in Nat
  <2>1. Cardinality(ahead[c] \union {c}) <= Cardinality(T)
    BY <1>2, FS_Subset
  <2>2. Cardinality(T) \in Nat
    BY <1>2, FS_CardinalityType
  <2>3. /\ Cardinality(ahead[c] \union {c}) = Cardinality(ahead[c]) + 1
        /\ Cardinality(ahead[c]) \in Nat
    BY <1>1
  <2> DEFINE a == Cardinality(ahead[c])
             t == Cardinality(T)
  <2>4. a + 1 <= t /\ a \in Nat /\ t \in Nat
    BY <2>1, <2>2, <2>3
  <2> HIDE DEF a, t
  <2>5. a < t
    BY <2>4
  <2> QED BY <2>2, <2>5 DEF a, t
<1>3. \A c \in S : Cardinality(ahead[c]) \in 0..(Cardinality(S) - 1)
  <2>1. ASSUME NEW c \in S PROVE Cardinality(ahead[c]) \in 0..(Cardinality(S) - 1)
    <3>1. ahead[c] \union {c} \subseteq S /\ IsFiniteSet(S)
      BY <1>1 DEF Orders
    <3>2. Cardinality(ahead[c]) < Cardinality(S) /\ Cardinality(S) \in Nat
      BY <1>2, <3>1
    <3>3. Cardinality(ahead[c]) \in Nat
      BY <1>1
    <3> DEFINE a == Cardinality(ahead[c])
               t == Cardinality(S)
    <3>4. a \in Nat /\ t \in Nat /\ a < t
      BY <3>2, <3>3
    <3> HIDE DEF a, t
    <3>5. a \in 0..(t - 1)
      BY <3>4
    <3> QED BY <3>5 DEF a, t
  <2> QED BY <2>1
<1> DEFINE count == [c \in S |-> Cardinality(ahead[c])]
<1>4. count \in [S -> Nat] /\ \A c \in S : count[c] = Cardinality(ahead[c])
  BY <1>1
<1> HIDE DEF count
<1>5. ASSUME NEW c \in S, NEW d \in S, c \in ahead[d]
      PROVE  count[c] < count[d]
  <2>1. ahead[c] \union {c} \subseteq ahead[d]
    BY <1>1, <1>5 DEF Orders
  <2>2. IsFiniteSet(ahead[d])
    BY <1>1
  <2>3. Cardinality(ahead[c]) < Cardinality(ahead[d])
    BY <1>2, <2>1, <2>2
  <2> QED BY <1>4, <2>3
<1>6. ASSUME NEW c \in S, NEW d \in S, c # d
      PROVE  c \in ahead[d] \/ d \in ahead[c]
  BY <1>6 DEF Orders
<1>7. \A c, d \in S : c \in ahead[d] <=> count[c] < count[d]
  <2>1. ASSUME NEW c \in S, NEW d \in S, count[c] < count[d]
        PROVE  c \in ahead[d]
    <3>1. c # d
      BY <1>4, <2>1
    <3>2. d \notin ahead[c]
      <4>1. d \in ahead[c] => count[d] < count[c]
        BY <1>5
      <4> QED BY <1>4, <2>1, <4>1
    <3> QED BY <1>6, <3>1, <3>2
  <2> QED BY <1>5, <2>1
<1>8. \A c, d \in S : count[c] = count[d] => c = d
  <2>1. ASSUME NEW c \in S, NEW d \in S, count[c] = count[d], c # d
        PROVE  FALSE
    <3>1. count[c] < count[d] \/ count[d] < count[c]
      BY <1>5, <1>6, <2>1
    <3> QED BY <1>4, <2>1, <3>1
  <2> QED BY <2>1
<1>9. \A c, d \in S : c \in ahead[d] <=> Cardinality(ahead[c]) < Cardinality(ahead[d])
  BY <1>4, <1>7
<1>10. \A c, d \in S : Cardinality(ahead[c]) = Cardinality(ahead[d]) => c = d
  BY <1>4, <1>8
<1>11. \A c \in S : IsFiniteSet(ahead[c])
  BY <1>1
<1> QED BY <1>3, <1>9, <1>10, <1>11

\* Every rank up to the number of the ranked is taken, by one of them.
LEMMA RanksAreTaken ==
  ASSUME NEW S, NEW ahead, Orders(ahead, S), NEW i \in 1..Cardinality(S)
  PROVE  \E c \in S : 1 + Cardinality(ahead[c]) = i
<1> DEFINE n == Cardinality(S)
           rank == [c \in S |-> 1 + Cardinality(ahead[c])]
<1>1. n \in Nat /\ IsFiniteSet(S)
  BY FS_CardinalityType DEF Orders
<1>2. \A c \in S : rank[c] \in 1..n
  BY <1>1, AheadCounts
<1>3. rank \in Injection(S, 1..n)
  <2>1. rank \in [S -> 1..n]
    BY <1>2
  <2>2. \A c, d \in S : rank[c] = rank[d] => c = d
    <3>1. \A c, d \in S : Cardinality(ahead[c]) \in Nat /\ Cardinality(ahead[d]) \in Nat
      BY <1>1, AheadCounts
    <3>2. \A c, d \in S : Cardinality(ahead[c]) = Cardinality(ahead[d]) => c = d
      BY AheadCounts
    <3> QED BY <3>1, <3>2
  <2> HIDE DEF rank
  <2> QED BY <2>1, <2>2 DEF Injection, IsInjective
<1> HIDE DEF rank
<1>4. IsFiniteSet(1..n) /\ Cardinality(1..n) = n
  BY <1>1, FS_Interval
<1>5. rank \in Surjection(S, 1..n)
  BY <1>3, <1>4, FS_Injection
<1>6. PICK c \in S : rank[c] = i
  BY <1>5 DEF Surjection
<1> QED BY <1>6 DEF rank

\* The ranked in the order of their ranks.
InOrder(S, ahead) ==
  [i \in 1..Cardinality(S) |-> CHOOSE c \in Chunks : RankBy(S, ahead)[c] = i]

LEMMA RankedOrder ==
  ASSUME NEW S, S \subseteq Chunks, NEW ahead, Orders(ahead, S),
         NEW order, order = InOrder(S, ahead)
  PROVE  /\ Cardinality(S) \in Nat /\ order \in Seq(S) /\ Len(order) = Cardinality(S)
         /\ IsInjective(order) /\ Range(order) = S
         /\ \A i, j \in DOMAIN order : order[i] \in ahead[order[j]] <=> i < j
<1> DEFINE n == Cardinality(S)
           rank == RankBy(S, ahead)
<1>1. n \in Nat
  BY FS_CardinalityType DEF Orders
<1>2. \A c \in S : rank[c] = 1 + Cardinality(ahead[c]) /\ Cardinality(ahead[c]) \in 0..(n - 1)
  BY AheadCounts DEF RankBy
<1>3. \A c \in Chunks \ S : rank[c] = 0
  BY DEF RankBy
<1> HIDE DEF rank
<1>4. ASSUME NEW i \in 1..n PROVE order[i] \in S /\ rank[order[i]] = i
  <2>1. PICK c \in S : 1 + Cardinality(ahead[c]) = i
    BY RanksAreTaken
  <2>2. \E d \in Chunks : rank[d] = i
    BY <1>2, <2>1
  <2>3. order[i] = CHOOSE d \in Chunks : rank[d] = i
    BY DEF rank, InOrder
  <2>4. order[i] \in Chunks /\ rank[order[i]] = i
    BY <2>2, <2>3
  <2> QED BY <1>3, <2>4
<1>5. order \in Seq(S) /\ Len(order) = n /\ DOMAIN order = 1..n
  <2>1. order \in [1..n -> S]
    BY <1>4 DEF InOrder
  <2>2. \A f \in [1..n -> S] : f \in Seq(S) /\ Len(f) = n /\ DOMAIN f = 1..n
    BY <1>1
  <2> HIDE DEF n
  <2> QED BY <2>1, <2>2
<1>6. IsInjective(order)
  BY <1>4, <1>5 DEF IsInjective
<1>7. Range(order) = S
  <2>1. ASSUME NEW c \in S PROVE c \in Range(order)
    <3>1. rank[c] \in 1..n
      BY <1>1, <1>2
    <3>2. order[rank[c]] \in S /\ rank[order[rank[c]]] = rank[c]
      BY <1>4, <3>1
    <3>3. Cardinality(ahead[order[rank[c]]]) = Cardinality(ahead[c])
      BY <1>1, <1>2, <3>2
    <3>4. order[rank[c]] = c
      BY <3>2, <3>3, AheadCounts
    <3> QED BY <1>5, <3>1, <3>4 DEF Range
  <2>2. Range(order) \subseteq S
    BY <1>4, <1>5 DEF Range
  <2> QED BY <2>1, <2>2
<1>8. ASSUME NEW i \in DOMAIN order, NEW j \in DOMAIN order
      PROVE  order[i] \in ahead[order[j]] <=> i < j
  <2> DEFINE c == order[i]
             d == order[j]
  <2>1. c \in S /\ d \in S /\ rank[c] = i /\ rank[d] = j
    BY <1>4, <1>5
  <2> HIDE DEF c, d
  <2>2. c \in ahead[d] <=> Cardinality(ahead[c]) < Cardinality(ahead[d])
    BY <2>1, AheadCounts
  <2>3. i = 1 + Cardinality(ahead[c]) /\ j = 1 + Cardinality(ahead[d])
        /\ Cardinality(ahead[c]) \in Nat /\ Cardinality(ahead[d]) \in Nat
    BY <1>1, <1>2, <2>1
  <2>4. i < j <=> Cardinality(ahead[c]) < Cardinality(ahead[d])
    BY <2>3
  <2> QED BY <2>2, <2>4 DEF c, d
<1> QED BY <1>1, <1>5, <1>6, <1>7, <1>8

-----------------------------------------------------------------------------
(* Fractions, compared without division. *)

Positive == Nat \ {0}

\* A common factor changes no comparison.
LEMMA CommonFactor ==
  ASSUME NEW a \in Nat, NEW b \in Nat, NEW k \in Positive
  PROVE  /\ a > b <=> a * k > b * k
         /\ a >= b <=> a * k >= b * k
<1>1. a > b => a * k > b * k
  <2>1. SUFFICES ASSUME a > b PROVE a * k > b * k
    OBVIOUS
  <2>2. PICK d \in Positive : a = b + d
    <3>1. a - b \in Positive /\ a = b + (a - b)
      BY <2>1 DEF Positive
    <3> QED BY <3>1
  <2>3. a * k = b * k + d * k
    BY <2>2 DEF Positive
  <2>4. d * k > 0 /\ b * k \in Nat /\ d * k \in Nat
    BY <2>2 DEF Positive
  <2> QED BY <2>3, <2>4
<1>2. a < b => a * k < b * k
  <2>1. SUFFICES ASSUME a < b PROVE a * k < b * k
    OBVIOUS
  <2>2. PICK d \in Positive : b = a + d
    <3>1. b - a \in Positive /\ b = a + (b - a)
      BY <2>1 DEF Positive
    <3> QED BY <3>1
  <2>3. b * k = a * k + d * k
    BY <2>2 DEF Positive
  <2>4. d * k > 0 /\ a * k \in Nat /\ d * k \in Nat
    BY <2>2 DEF Positive
  <2> QED BY <2>3, <2>4
<1>3. a = b => a * k = b * k
  OBVIOUS
<1>4. a * k \in Nat /\ b * k \in Nat
  BY DEF Positive
<1> DEFINE p == a * k
           q == b * k
<1> HIDE DEF p, q
<1> QED BY <1>1, <1>2, <1>3, <1>4 DEF p, q

\* Through a middle one.
LEMMA GreaterThrough ==
  ASSUME NEW x \in Positive \X Positive, NEW y \in Positive \X Positive,
         NEW z \in Positive \X Positive, ~Greater(y, x), ~Greater(z, y)
  PROVE  /\ ~Greater(z, x)
         /\ Greater(x, y) \/ Greater(y, z) => Greater(x, z)
<1>1. PICK a \in Positive, b \in Positive, c \in Positive, d \in Positive,
           e \in Positive, f \in Positive : x = <<a, b>> /\ y = <<c, d>> /\ z = <<e, f>>
  OBVIOUS
<1>2. a * d >= c * b /\ c * f >= e * d
  BY <1>1 DEF Greater, Positive
<1>3. (a * d) * f >= (c * b) * f /\ (a * d > c * b => (a * d) * f > (c * b) * f)
  <2>1. a * d \in Nat /\ c * b \in Nat
    BY DEF Positive
  <2> QED BY <1>2, <2>1, CommonFactor
<1>4. (c * f) * b >= (e * d) * b /\ (c * f > e * d => (c * f) * b > (e * d) * b)
  <2>1. c * f \in Nat /\ e * d \in Nat
    BY DEF Positive
  <2> QED BY <1>2, <2>1, CommonFactor
<1>5. (c * b) * f = (c * f) * b /\ (a * d) * f = (a * f) * d /\ (e * d) * b = (e * b) * d
  BY DEF Positive
<1>6. a * f \in Nat /\ e * b \in Nat
  BY DEF Positive
<1>7. /\ (a * f) * d \in Nat /\ (c * b) * f \in Nat /\ (e * b) * d \in Nat
  BY <1>6 DEF Positive
<1>8. /\ (a * f) * d >= (e * b) * d
      /\ a * d > c * b \/ c * f > e * d => (a * f) * d > (e * b) * d
  BY <1>3, <1>4, <1>5, <1>7
<1>9. /\ a * f >= e * b
      /\ (a * f) * d > (e * b) * d => a * f > e * b
  BY <1>6, <1>8, CommonFactor
<1>10. /\ Greater(x, y) <=> a * d > c * b
       /\ Greater(y, z) <=> c * f > e * d
       /\ Greater(x, z) <=> a * f > e * b
       /\ Greater(z, x) <=> e * b > a * f
  BY <1>1 DEF Greater
<1>11. ~(e * b > a * f)
  BY <1>6, <1>9
<1> QED BY <1>8, <1>9, <1>10, <1>11

LEMMA GreaterIsStrict ==
  ASSUME NEW x \in Positive \X Positive, NEW y \in Positive \X Positive
  PROVE  ~Greater(x, x) /\ (Greater(x, y) => ~Greater(y, x))
<1>1. PICK a \in Positive, b \in Positive, c \in Positive, d \in Positive :
        x = <<a, b>> /\ y = <<c, d>>
  OBVIOUS
<1>2. a * d \in Nat /\ c * b \in Nat /\ a * b \in Nat
  BY DEF Positive
<1>3. /\ Greater(x, y) <=> a * d > c * b
      /\ Greater(y, x) <=> c * b > a * d
      /\ Greater(x, x) <=> a * b > a * b
  BY <1>1 DEF Greater
<1> QED BY <1>2, <1>3

-----------------------------------------------------------------------------
(* The fusion of the two rankings. *)

Rank == [Chunks -> Nat]

FusedScore(words, meaning) == [c \in Candidates(words, meaning) |-> Fused(words[c], meaning[c])]

FusedAhead(words, meaning) ==
  LET score == FusedScore(words, meaning)
  IN [c \in Candidates(words, meaning) |->
        {d \in Candidates(words, meaning) :
           \/ Greater(score[d], score[c])
           \/ ~Greater(score[c], score[d]) /\ FirstByKey(d, c)}]

LEMMA FusedIsPositive ==
  ASSUME NEW l \in Nat, NEW s \in Nat, l > 0 \/ s > 0
  PROVE  Fused(l, s) \in Positive \X Positive
<1>1. RRFConstant \in Nat
  BY RetrievalAssumption
<1>2. l > 0 => RRFConstant + l \in Positive
  BY <1>1 DEF Positive
<1>3. s > 0 => RRFConstant + s \in Positive
  BY <1>1 DEF Positive
<1>4. l > 0 /\ s > 0 => /\ 2 * RRFConstant + l + s \in Positive
                        /\ (RRFConstant + l) * (RRFConstant + s) \in Positive
  BY <1>1 DEF Positive
<1>5. 1 \in Positive
  BY DEF Positive
<1> QED BY <1>2, <1>3, <1>4, <1>5 DEF Fused

\* The candidates are ordered by their fused scores, then by their keys.
LEMMA FusedOrders ==
  ASSUME NEW words \in Rank, NEW meaning \in Rank
  PROVE  Orders(FusedAhead(words, meaning), Candidates(words, meaning))
<1> DEFINE S == Candidates(words, meaning)
           score == FusedScore(words, meaning)
           ahead == FusedAhead(words, meaning)
<1>1. S \subseteq Chunks /\ IsFiniteSet(S)
  <2>1. S \subseteq Chunks
    BY DEF Candidates
  <2> HIDE DEF S
  <2> QED BY <2>1, RetrievalAssumption, FS_Subset
<1>2. \A c \in S : score[c] \in Positive \X Positive
  <2>1. \A c \in S : words[c] \in Nat /\ meaning[c] \in Nat /\ (words[c] > 0 \/ meaning[c] > 0)
    BY <1>1 DEF Candidates, Rank
  <2> QED BY <2>1, FusedIsPositive DEF FusedScore
<1>3. \A c \in S : StableKey[c] \in Nat
  BY <1>1, RetrievalAssumption
<1>4. \A c, d \in S : StableKey[c] = StableKey[d] => c = d
  BY <1>1, RetrievalAssumption DEF IsInjective
<1> DEFINE Gr(c, d) == Greater(score[c], score[d])
<1>5. /\ ahead = [c \in S |-> {d \in S : Gr(d, c) \/ (~Gr(c, d) /\ FirstByKey(d, c))}]
  BY DEF FusedAhead
<1>6. \A c, d \in S : ~Gr(c, c) /\ (Gr(c, d) => ~Gr(d, c))
  <2> HIDE DEF S, score
  <2> QED BY <1>2, GreaterIsStrict
<1>7. \A c, d, e \in S : ~Gr(d, c) /\ ~Gr(e, d) =>
                           ~Gr(e, c) /\ (Gr(c, d) \/ Gr(d, e) => Gr(c, e))
  <2> HIDE DEF S, score
  <2> QED BY <1>2, GreaterThrough
<1> HIDE DEF S, score, ahead, Gr
<1>8. ahead \in [S -> SUBSET S]
  BY <1>5
<1>9. \A c, d \in S : d \in ahead[c] <=> Gr(d, c) \/ (~Gr(c, d) /\ FirstByKey(d, c))
  BY <1>5
<1>10. \A c \in S : c \notin ahead[c]
  <2>1. \A c \in S : ~FirstByKey(c, c)
    BY <1>3 DEF FirstByKey
  <2> QED BY <1>6, <1>9, <2>1
<1>11. \A c, d \in S : c # d => c \in ahead[d] \/ d \in ahead[c]
  <2>1. \A c, d \in S : c # d => FirstByKey(c, d) \/ FirstByKey(d, c)
    BY <1>3, <1>4 DEF FirstByKey
  <2> QED BY <1>9, <2>1
<1>12. \A c, d, e \in S : c \in ahead[d] /\ d \in ahead[e] => c \in ahead[e]
  <2>1. SUFFICES ASSUME NEW c \in S, NEW d \in S, NEW e \in S, c \in ahead[d], d \in ahead[e]
                 PROVE  c \in ahead[e]
    OBVIOUS
  <2>2. ~Gr(d, c) /\ ~Gr(e, d) /\ (Gr(c, d) \/ FirstByKey(c, d)) /\ (Gr(d, e) \/ FirstByKey(d, e))
    BY <1>6, <1>9, <2>1
  <2>3. ~Gr(e, c) /\ (Gr(c, d) \/ Gr(d, e) => Gr(c, e))
    BY <1>7, <2>2
  <2>4. FirstByKey(c, d) /\ FirstByKey(d, e) => FirstByKey(c, e)
    BY <1>3 DEF FirstByKey
  <2> QED BY <1>9, <2>2, <2>3, <2>4
<1>13. Orders(ahead, S)
  BY <1>1, <1>8, <1>10, <1>11, <1>12 DEF Orders
<1> QED BY <1>13 DEF ahead, S

\* The fused order lists every candidate once, the ones ahead first.
LEMMA FusedOrderFacts ==
  ASSUME NEW words \in Rank, NEW meaning \in Rank
  PROVE  LET S == Candidates(words, meaning)
             order == FusedOrder(words, meaning)
         IN /\ order \in Seq(S) /\ IsInjective(order) /\ Range(order) = S
            /\ Len(order) = Cardinality(S)
            /\ \A i, j \in DOMAIN order : order[i] \in FusedAhead(words, meaning)[order[j]] <=> i < j
<1> DEFINE S == Candidates(words, meaning)
           order == FusedOrder(words, meaning)
           ahead == FusedAhead(words, meaning)
<1>1. order = InOrder(S, ahead)
  <2>1. FusedRank(words, meaning) = RankBy(S, ahead)
    BY DEF FusedRank, FusedAhead, FusedScore
  <2> HIDE DEF ahead
  <2> QED BY <2>1 DEF FusedOrder, InOrder
<1>2. Orders(ahead, S) /\ S \subseteq Chunks
  BY FusedOrders DEF Candidates
<1> HIDE DEF S, order, ahead
<1>3. /\ order \in Seq(S) /\ Len(order) = Cardinality(S)
      /\ IsInjective(order) /\ Range(order) = S
      /\ \A i, j \in DOMAIN order : order[i] \in ahead[order[j]] <=> i < j
  BY <1>1, <1>2, RankedOrder
<1> QED BY <1>3 DEF S, order, ahead

\* A rank before another one.
Before(rank, c, d) == rank[d] = 0 \/ rank[c] \in 1..(rank[d] - 1)

\* Better in both rankings is better in the fusion.
LEMMA FusedGreater ==
  ASSUME NEW a \in Nat, NEW b \in Nat, NEW x \in Nat, NEW y \in Nat, x > 0 \/ y > 0,
         x = 0 \/ a \in 1..(x - 1), y = 0 \/ b \in 1..(y - 1)
  PROVE  Greater(Fused(a, b), Fused(x, y))
<1> DEFINE K == RRFConstant
           p == K + a
           q == K + b
           r == K + x
           s == K + y
<1>1. K \in Nat
  BY RetrievalAssumption
<1>2. x # 0 => p \in Positive /\ r \in Positive /\ p < r /\ a # 0
  BY <1>1 DEF Positive
<1>3. y # 0 => q \in Positive /\ s \in Positive /\ q < s /\ b # 0
  BY <1>1 DEF Positive
<1>4. a # 0 => p \in Positive
  BY <1>1 DEF Positive
<1>5. b # 0 => q \in Positive
  BY <1>1 DEF Positive
<1>6. /\ a = 0 => Fused(a, b) = <<1, q>>
      /\ a # 0 /\ b = 0 => Fused(a, b) = <<1, p>>
      /\ a # 0 /\ b # 0 => Fused(a, b) = <<p + q, p * q>>
  <2>1. 2 * K + a + b = p + q
    BY <1>1
  <2> QED BY <2>1 DEF Fused
<1>7. /\ x = 0 => Fused(x, y) = <<1, s>>
      /\ x # 0 /\ y = 0 => Fused(x, y) = <<1, r>>
      /\ x # 0 /\ y # 0 => Fused(x, y) = <<r + s, r * s>>
  <2>1. 2 * K + x + y = r + s
    BY <1>1
  <2> QED BY <2>1 DEF Fused
<1>8. \A u, v, w, z : Greater(<<u, v>>, <<w, z>>) <=> u * z > w * v
  BY DEF Greater
<1> HIDE DEF K, p, q, r, s
<1>9. ASSUME NEW u \in Positive, NEW v \in Positive, NEW w \in Positive, u < w
      PROVE  1 * w > 1 * u /\ (u + v) * w > 1 * (u * v) /\ (v + u) * w > 1 * (v * u)
  <2>1. w * v > u * v
    BY <1>9, CommonFactor DEF Positive
  <2>2. (u + v) * w = u * w + w * v /\ u * w \in Nat /\ w * v \in Nat /\ u * v \in Nat
    BY DEF Positive
  <2>3. (u + v) * w > u * v
    <3> DEFINE m == u * w
               k == w * v
               l == u * v
    <3>1. m \in Nat /\ k \in Nat /\ l \in Nat /\ k > l /\ (u + v) * w = m + k
      BY <2>1, <2>2
    <3> HIDE DEF m, k, l
    <3>2. m + k > l
      BY <3>1
    <3> QED BY <3>1, <3>2 DEF l
  <2>4. u + v = v + u /\ u * v = v * u /\ 1 * w = w /\ 1 * u = u /\ 1 * (u * v) = u * v
    BY <2>2 DEF Positive
  <2> QED BY <1>9, <2>3, <2>4 DEF Positive
<1>10. CASE y = 0
  <2>1. x # 0
    BY <1>10
  <2>2. CASE b = 0
    <3>1. 1 * r > 1 * p
      BY <1>2, <1>9, <2>1
    <3> QED BY <1>2, <1>6, <1>7, <1>8, <1>10, <2>1, <2>2, <3>1
  <2>3. CASE b # 0
    <3>1. (p + q) * r > 1 * (p * q)
      BY <1>2, <1>5, <1>9, <2>1, <2>3
    <3> QED BY <1>2, <1>6, <1>7, <1>8, <1>10, <2>1, <2>3, <3>1
  <2> QED BY <2>2, <2>3
<1>11. CASE x = 0
  <2>1. y # 0
    BY <1>11
  <2>2. CASE a = 0
    <3>1. 1 * s > 1 * q
      BY <1>3, <1>9, <2>1
    <3> QED BY <1>3, <1>6, <1>7, <1>8, <1>11, <2>1, <2>2, <3>1
  <2>3. CASE a # 0
    <3>1. (p + q) * s > 1 * (p * q)
      BY <1>3, <1>4, <1>9, <2>1, <2>3
    <3> QED BY <1>3, <1>6, <1>7, <1>8, <1>11, <2>1, <2>3, <3>1
  <2> QED BY <2>2, <2>3
<1>12. CASE x # 0 /\ y # 0
  <2>1. /\ p \in Positive /\ q \in Positive /\ r \in Positive /\ s \in Positive
        /\ p < r /\ q < s /\ a # 0 /\ b # 0
    BY <1>2, <1>3, <1>12
  <2>2. s * (p * r) > q * (p * r) /\ r * (q * s) > p * (q * s)
    <3>1. p * r \in Positive /\ q * s \in Positive
      BY <2>1 DEF Positive
    <3> QED BY <2>1, <3>1, CommonFactor DEF Positive
  <2>3. /\ (p + q) * (r * s) = s * (p * r) + r * (q * s)
        /\ (r + s) * (p * q) = q * (p * r) + p * (q * s)
    BY <2>1 DEF Positive
  <2>4. (p + q) * (r * s) > (r + s) * (p * q)
    <3> DEFINE k == s * (p * r)
               l == q * (p * r)
               m == r * (q * s)
               n == p * (q * s)
    <3>1. k \in Nat /\ l \in Nat /\ m \in Nat /\ n \in Nat
      BY <2>1 DEF Positive
    <3>2. k > l /\ m > n
      BY <2>2
    <3> HIDE DEF k, l, m, n
    <3>3. k + m > l + n
      BY <3>1, <3>2
    <3> QED BY <2>3, <3>3 DEF k, l, m, n
  <2> QED BY <1>6, <1>7, <1>8, <1>12, <2>1, <2>4
<1> QED BY <1>10, <1>11, <1>12

\* Before in both rankings is before in the fused order.
LEMMA FusedOrderAgrees ==
  ASSUME NEW words \in Rank, NEW meaning \in Rank,
         NEW i \in DOMAIN FusedOrder(words, meaning), NEW j \in DOMAIN FusedOrder(words, meaning),
         Before(words, FusedOrder(words, meaning)[i], FusedOrder(words, meaning)[j]),
         Before(meaning, FusedOrder(words, meaning)[i], FusedOrder(words, meaning)[j])
  PROVE  i < j
<1> DEFINE S == Candidates(words, meaning)
           order == FusedOrder(words, meaning)
           ahead == FusedAhead(words, meaning)
           c == order[i]
           d == order[j]
<1>1. /\ order \in Seq(S)
      /\ \A k, l \in DOMAIN order : order[k] \in ahead[order[l]] <=> k < l
  BY FusedOrderFacts
<1> HIDE DEF order
<1>2. c \in S /\ d \in S /\ i \in DOMAIN order /\ j \in DOMAIN order
  BY <1>1, ElementOfSeq DEF order
<1>3. Before(words, c, d) /\ Before(meaning, c, d)
  BY DEF order
<1> HIDE DEF c, d
<1>4. /\ words[c] \in Nat /\ words[d] \in Nat /\ meaning[c] \in Nat /\ meaning[d] \in Nat
      /\ words[d] > 0 \/ meaning[d] > 0
  BY <1>2 DEF Candidates, Rank
<1>5. Greater(Fused(words[c], meaning[c]), Fused(words[d], meaning[d]))
  BY <1>3, <1>4, FusedGreater DEF Before
<1>6. c \in ahead[d]
  BY <1>2, <1>5 DEF FusedAhead, FusedScore
<1>7. order[i] \in ahead[order[j]]
  BY <1>6 DEF c, d
<1> HIDE DEF ahead
<1> QED BY <1>1, <1>2, <1>7

-----------------------------------------------------------------------------
(* The selection in two passes, over a sequence that repeats nothing. *)

Values(seq, T) == {seq[i] : i \in T}

LEMMA ValuesCount ==
  ASSUME NEW S, NEW seq \in Seq(S), IsInjective(seq), NEW T, T \subseteq DOMAIN seq
  PROVE  /\ IsFiniteSet(T) /\ Cardinality(T) \in Nat
         /\ Cardinality(Values(seq, T)) = Cardinality(T)
<1>1. PICK n \in Nat : DOMAIN seq = 1..n
  OBVIOUS
<1>2. IsFiniteSet(T) /\ Cardinality(T) \in Nat
  <2>1. IsFiniteSet(1..n)
    BY FS_Interval
  <2>2. IsFiniteSet(T)
    BY <1>1, <2>1, FS_Subset
  <2> QED BY <2>2, FS_CardinalityType
<1> DEFINE f == [i \in T |-> seq[i]]
<1>3. f \in Surjection(T, Values(seq, T))
  BY DEF Surjection, Values
<1>4. f \in Injection(T, Values(seq, T))
  <2>1. f \in [T -> Values(seq, T)]
    BY DEF Values
  <2>2. \A i, j \in T : f[i] = f[j] => i = j
    BY DEF IsInjective
  <2> HIDE DEF f
  <2> QED BY <2>1, <2>2 DEF Injection, IsInjective
<1> HIDE DEF f
<1>5. Cardinality(Values(seq, T)) = Cardinality(T)
  BY <1>2, <1>3, <1>4, FS_Surjection
<1> QED BY <1>2, <1>5

\* The earlier places of the record at a place, and the places of the first
\* ones of each record.
Prior(order, i) == {j \in 1..(i - 1) : RecordOf[order[j]] = RecordOf[order[i]]}

Shares(order) == {i \in DOMAIN order : Cardinality(Prior(order, i)) < DiversityCap}

IsOrder(order) == order \in Seq(Chunks) /\ IsInjective(order)

LEMMA PriorFacts ==
  ASSUME NEW order, IsOrder(order), NEW i \in DOMAIN order
  PROVE  /\ i \in Nat /\ Prior(order, i) \subseteq DOMAIN order
         /\ IsFiniteSet(Prior(order, i)) /\ Cardinality(Prior(order, i)) \in Nat
         /\ Earlier(order, order[i]) = Prior(order, i)
         /\ order[i] \in WithinCap(order) <=> i \in Shares(order)
         /\ \A j \in Prior(order, i) :
              /\ j \in DOMAIN order /\ j < i
              /\ Prior(order, j) = Prior(order, i) \intersect 1..(j - 1)
<1>1. order \in Seq(Chunks) /\ IsInjective(order)
  BY DEF IsOrder
<1>2. PICK n \in Nat : DOMAIN order = 1..n
  BY <1>1
<1>3. i \in Nat /\ Prior(order, i) \subseteq DOMAIN order
  BY <1>2 DEF Prior
<1>4. IsFiniteSet(Prior(order, i)) /\ Cardinality(Prior(order, i)) \in Nat
  BY <1>1, <1>3, ValuesCount
<1>5. Earlier(order, order[i]) = Prior(order, i)
  <2>1. \A j \in DOMAIN order : order[j] = order[i] => j = i
    BY <1>1 DEF IsInjective
  <2>2. \A j \in DOMAIN order : j < i <=> j \in 1..(i - 1)
    BY <1>2
  <2> QED BY <1>2, <2>1, <2>2 DEF Earlier, FromRecord, Prior
<1>6. order[i] \in WithinCap(order) <=> i \in Shares(order)
  <2>1. order[i] \in Range(order)
    BY DEF Range
  <2> QED BY <1>5, <2>1 DEF WithinCap, Shares
<1>7. ASSUME NEW j \in Prior(order, i)
      PROVE  /\ j \in DOMAIN order /\ j < i
             /\ Prior(order, j) = Prior(order, i) \intersect 1..(j - 1)
  BY <1>2 DEF Prior
<1> QED BY <1>3, <1>4, <1>5, <1>6, <1>7

\* One is among the first of its record when too few of the first are earlier.
LEMMA SharesCount ==
  ASSUME NEW order, IsOrder(order), NEW i \in DOMAIN order
  PROVE  i \in Shares(order)
           <=> Cardinality(Prior(order, i) \intersect Shares(order)) < DiversityCap
<1> DEFINE E == Prior(order, i)
           H == E \intersect Shares(order)
<1>1. IsFiniteSet(E) /\ Cardinality(E) \in Nat /\ DiversityCap \in Nat
  BY PriorFacts, RetrievalAssumption
<1>2. ASSUME NEW T, T \subseteq E
      PROVE  IsFiniteSet(T) /\ Cardinality(T) \in Nat /\ Cardinality(T) <= Cardinality(E)
  BY <1>1, <1>2, FS_Subset, FS_CardinalityType
<1>3. i \in Shares(order) => Cardinality(H) < DiversityCap
  <2>1. i \in Shares(order) <=> Cardinality(E) < DiversityCap
    BY DEF Shares
  <2>2. Cardinality(H) \in Nat /\ Cardinality(H) <= Cardinality(E)
    BY <1>2
  <2> DEFINE a == Cardinality(H)
             b == Cardinality(E)
  <2> HIDE DEF a, b
  <2>3. a \in Nat /\ b \in Nat /\ a <= b /\ DiversityCap \in Nat
    BY <1>1, <2>2 DEF a, b
  <2>4. b < DiversityCap => a < DiversityCap
    BY <2>3
  <2> QED BY <2>1, <2>4 DEF a, b
<1>4. ASSUME i \notin Shares(order), Cardinality(H) < DiversityCap
      PROVE  FALSE
  <2>1. H # E
    BY <1>4 DEF Shares
  <2> DEFINE T == E \ H
  <2>2. T \subseteq Nat /\ T # {}
    BY <2>1 DEF Prior
  <2>3. PICK j \in T : \A k \in T : j <= k
    <3> HIDE DEF T
    <3> QED BY <2>2, LeastNumber
  <2>4. j \in E /\ j \notin Shares(order)
    BY <2>3
  <2>5. j \in DOMAIN order /\ Prior(order, j) = E \intersect 1..(j - 1)
    BY <2>4, PriorFacts
  <2>6. Prior(order, j) \subseteq H
    <3>1. \A k \in 1..(j - 1) : ~(j <= k)
      BY <2>2, <2>3
    <3> QED BY <2>3, <2>5, <3>1
  <2>7. Cardinality(Prior(order, j)) \in Nat /\ ~(Cardinality(Prior(order, j)) < DiversityCap)
    BY <2>4, <2>5, PriorFacts DEF Shares
  <2>8. IsFiniteSet(H) /\ Cardinality(H) \in Nat
    BY <1>2
  <2>9. Cardinality(Prior(order, j)) <= Cardinality(H)
    BY <2>6, <2>8, FS_Subset
  <2> DEFINE a == Cardinality(H)
             b == Cardinality(Prior(order, j))
  <2>10. a \in Nat /\ b \in Nat /\ b <= a /\ ~(b < DiversityCap) /\ a < DiversityCap /\ DiversityCap \in Nat
    BY <1>1, <1>4, <2>7, <2>8, <2>9
  <2> HIDE DEF a, b
  <2> QED BY <2>10
<1> QED BY <1>3, <1>4

\* The breadth pass over the first t of an order.
Lists(pass, order, t) ==
  /\ IsOrder(pass.accepted) /\ IsOrder(pass.deferred)
  /\ Range(pass.accepted) = Values(order, (1..t) \intersect Shares(order))
  /\ Range(pass.deferred) = Values(order, (1..t) \ Shares(order))
  /\ Len(pass.accepted) + Len(pass.deferred) = t
  /\ \A p, q \in DOMAIN pass.deferred : \A i, j \in 1..t :
       pass.deferred[p] = order[i] /\ pass.deferred[q] = order[j] /\ p < q => i < j

\* It ends when it is full.
Passed(pass, order, k) ==
  \E t \in 0..k : /\ Lists(pass, order, t)
                  /\ Len(pass.accepted) <= AcceptedLimit
                  /\ t = k \/ Len(pass.accepted) = AcceptedLimit

PassType == [accepted : Seq(Chunks), deferred : Seq(Chunks)]

LEMMA AppendNew ==
  ASSUME NEW seq, IsOrder(seq), NEW c \in Chunks, c \notin Range(seq)
  PROVE  /\ IsOrder(Append(seq, c)) /\ Len(Append(seq, c)) = Len(seq) + 1 /\ Len(seq) \in Nat
         /\ Range(Append(seq, c)) = Range(seq) \union {c}
         /\ \A p \in DOMAIN Append(seq, c) :
              \/ p \in DOMAIN seq /\ Append(seq, c)[p] = seq[p]
              \/ p = Len(seq) + 1 /\ Append(seq, c)[p] = c
         /\ DOMAIN seq = 1..Len(seq)
<1> DEFINE w == Append(seq, c)
           n == Len(seq)
<1>1. seq \in Seq(Chunks) /\ n \in Nat /\ DOMAIN seq = 1..n
  BY LenProperties DEF IsOrder
<1>2. /\ w \in Seq(Chunks) /\ Len(w) = n + 1 /\ DOMAIN w = 1..(n + 1)
      /\ w[n + 1] = c /\ \A p \in 1..n : w[p] = seq[p]
  BY <1>1, AppendProperties, LenProperties
<1> HIDE DEF w, n
<1>3. \A p \in 1..(n + 1) : p \in 1..n \/ p = n + 1
  BY <1>1
<1>4. IsInjective(w)
  <2>1. \A p \in 1..n : seq[p] # c
    BY <1>1 DEF Range
  <2>2. \A p, q \in 1..n : seq[p] = seq[q] => p = q
    BY <1>1 DEF IsOrder, IsInjective
  <2> QED BY <1>2, <1>3, <2>1, <2>2 DEF IsInjective
<1>5. Range(w) = Range(seq) \union {c}
  <2>1. n + 1 \in 1..(n + 1) /\ \A p \in 1..n : p \in 1..(n + 1)
    BY <1>1
  <2> QED BY <1>1, <1>2, <1>3, <2>1 DEF Range
<1> QED BY <1>1, <1>2, <1>3, <1>4, <1>5 DEF IsOrder, w, n

\* How many of a record the first pass has taken.
LEMMA TakenCount ==
  ASSUME NEW order, IsOrder(order), NEW k \in DOMAIN order, NEW pass, Lists(pass, order, k - 1)
  PROVE  Cardinality(FromRecord(pass.accepted, RecordOf[order[k]]))
           = Cardinality(Prior(order, k) \intersect Shares(order))
<1> DEFINE r == RecordOf[order[k]]
           a == pass.accepted
           T == FromRecord(a, r)
           H == Prior(order, k) \intersect Shares(order)
<1>1. a \in Seq(Chunks) /\ IsInjective(a) /\ order \in Seq(Chunks) /\ IsInjective(order)
  BY DEF IsOrder, Lists
<1>2. T \subseteq DOMAIN a /\ H \subseteq DOMAIN order
  BY DEF FromRecord, Shares
<1>3. Values(a, T) = {c \in Range(a) : RecordOf[c] = r}
  <2> HIDE DEF r
  <2> QED BY DEF Values, FromRecord, Range
<1>4. Values(order, H)
        = {c \in Values(order, (1..(k - 1)) \intersect Shares(order)) : RecordOf[c] = r}
  BY DEF Values, Prior
<1>5. Values(a, T) = Values(order, H)
  BY <1>3, <1>4 DEF Lists
<1>6. Cardinality(Values(a, T)) = Cardinality(T) /\ Cardinality(Values(order, H)) = Cardinality(H)
  <2> HIDE DEF a, T, H
  <2> QED BY <1>1, <1>2, ValuesCount
<1> QED BY <1>5, <1>6

\* One candidate more, when the pass is not full.
LEMMA ListsOneMore ==
  ASSUME NEW order, IsOrder(order), NEW k \in DOMAIN order,
         NEW pass \in PassType, Lists(pass, order, k - 1),
         NEW next \in PassType,
         IF k \in Shares(order)
           THEN next.accepted = Append(pass.accepted, order[k]) /\ next.deferred = pass.deferred
           ELSE next.deferred = Append(pass.deferred, order[k]) /\ next.accepted = pass.accepted
  PROVE  Lists(next, order, k)
<1> DEFINE c == order[k]
           n == Len(order)
<1>1. /\ order \in Seq(Chunks) /\ IsInjective(order) /\ n \in Nat /\ DOMAIN order = 1..n
      /\ c \in Chunks /\ k \in 1..n
  BY LenProperties, ElementOfSeq DEF IsOrder
<1>2. \A T : T \subseteq 1..(k - 1) => c \notin Values(order, T)
  <2>1. \A i \in 1..(k - 1) : i \in DOMAIN order /\ i # k
    BY <1>1
  <2> QED BY <1>1, <2>1 DEF Values, IsInjective
<1>3. c \notin Range(pass.accepted) /\ c \notin Range(pass.deferred)
  <2>1. /\ (1..(k - 1)) \intersect Shares(order) \subseteq 1..(k - 1)
        /\ (1..(k - 1)) \ Shares(order) \subseteq 1..(k - 1)
    OBVIOUS
  <2> QED BY <1>2, <2>1 DEF Lists
<1>4. /\ IsOrder(pass.accepted) /\ IsOrder(pass.deferred)
      /\ Len(pass.accepted) \in Nat /\ Len(pass.deferred) \in Nat
      /\ Len(pass.accepted) + Len(pass.deferred) = k - 1
  BY LenProperties DEF Lists, IsOrder
<1>5. \A i \in 1..k : i \in 1..(k - 1) \/ i = k
  BY <1>1
<1>6. k \in 1..k /\ \A i \in 1..(k - 1) : i \in 1..k /\ i # k /\ i < k
  BY <1>1
<1>9. /\ (Len(pass.accepted) + 1) + Len(pass.deferred) = k
      /\ Len(pass.accepted) + (Len(pass.deferred) + 1) = k
      /\ \A j \in 1..k : j \in DOMAIN order
  <2> DEFINE x == Len(pass.accepted)
             y == Len(pass.deferred)
  <2>1. x \in Nat /\ y \in Nat /\ x + y = k - 1 /\ k \in 1..n /\ n \in Nat /\ DOMAIN order = 1..n
    BY <1>1, <1>4
  <2> HIDE DEF x, y, n
  <2>2. (x + 1) + y = k /\ x + (y + 1) = k /\ \A j \in 1..k : j \in 1..n
    BY <2>1
  <2> QED BY <2>1, <2>2 DEF x, y
<1>7. CASE k \in Shares(order)
  <2>1. next.accepted = Append(pass.accepted, c) /\ next.deferred = pass.deferred
    BY <1>7
  <2>2. /\ IsOrder(next.accepted) /\ Len(next.accepted) = Len(pass.accepted) + 1
        /\ Range(next.accepted) = Range(pass.accepted) \union {c}
    BY <1>1, <1>3, <1>4, <2>1, AppendNew
  <2>3. /\ (1..k) \intersect Shares(order) = ((1..(k - 1)) \intersect Shares(order)) \union {k}
        /\ (1..k) \ Shares(order) = (1..(k - 1)) \ Shares(order)
    BY <1>5, <1>6, <1>7
  <2>4. Values(order, (1..k) \intersect Shares(order))
          = Values(order, (1..(k - 1)) \intersect Shares(order)) \union {c}
    BY <2>3 DEF Values
  <2>5. Range(next.accepted) = Values(order, (1..k) \intersect Shares(order))
    BY <2>2, <2>4 DEF Lists
  <2>6. Range(next.deferred) = Values(order, (1..k) \ Shares(order))
    BY <2>1, <2>3 DEF Lists
  <2>7. Len(next.accepted) + Len(next.deferred) = k
    BY <1>9, <2>1, <2>2
  <2>8. ASSUME NEW p \in DOMAIN next.deferred, NEW q \in DOMAIN next.deferred,
               NEW i \in 1..k, NEW j \in 1..k,
               next.deferred[p] = order[i], next.deferred[q] = order[j], p < q
        PROVE  i < j
    <3>1. pass.deferred[p] # c /\ pass.deferred[q] # c
      BY <1>3, <2>1, <2>8 DEF Range
    <3>2. i \in 1..(k - 1) /\ j \in 1..(k - 1)
      BY <1>5, <2>1, <2>8, <3>1
    <3> QED BY <2>1, <2>8, <3>2 DEF Lists
  <2> QED BY <1>4, <2>1, <2>2, <2>5, <2>6, <2>7, <2>8 DEF Lists
<1>8. CASE k \notin Shares(order)
  <2>1. next.deferred = Append(pass.deferred, c) /\ next.accepted = pass.accepted
    BY <1>8
  <2>2. /\ IsOrder(next.deferred) /\ Len(next.deferred) = Len(pass.deferred) + 1
        /\ Range(next.deferred) = Range(pass.deferred) \union {c}
        /\ \A p \in DOMAIN next.deferred :
             \/ p \in DOMAIN pass.deferred /\ next.deferred[p] = pass.deferred[p]
             \/ p = Len(pass.deferred) + 1 /\ next.deferred[p] = c
        /\ DOMAIN pass.deferred = 1..Len(pass.deferred)
    BY <1>1, <1>3, <1>4, <2>1, AppendNew
  <2>3. /\ (1..k) \ Shares(order) = ((1..(k - 1)) \ Shares(order)) \union {k}
        /\ (1..k) \intersect Shares(order) = (1..(k - 1)) \intersect Shares(order)
    BY <1>5, <1>6, <1>8
  <2>4. Values(order, (1..k) \ Shares(order))
          = Values(order, (1..(k - 1)) \ Shares(order)) \union {c}
    BY <2>3 DEF Values
  <2>5. Range(next.deferred) = Values(order, (1..k) \ Shares(order))
    BY <2>2, <2>4 DEF Lists
  <2>6. Range(next.accepted) = Values(order, (1..k) \intersect Shares(order))
    BY <2>1, <2>3 DEF Lists
  <2>7. Len(next.accepted) + Len(next.deferred) = k
    BY <1>9, <2>1, <2>2
  <2>8. ASSUME NEW p \in DOMAIN next.deferred, NEW q \in DOMAIN next.deferred,
               NEW i \in 1..k, NEW j \in 1..k,
               next.deferred[p] = order[i], next.deferred[q] = order[j], p < q
        PROVE  i < j
    <3>1. p \in DOMAIN pass.deferred /\ next.deferred[p] = pass.deferred[p]
      BY <1>4, <2>2, <2>8
    <3>2. i \in 1..(k - 1)
      <4>1. pass.deferred[p] # c
        BY <1>3, <3>1 DEF Range
      <4> QED BY <1>5, <2>8, <3>1, <4>1
    <3>3. CASE q \in DOMAIN pass.deferred /\ next.deferred[q] = pass.deferred[q]
      <4>1. pass.deferred[q] # c
        BY <1>3, <3>3 DEF Range
      <4>2. j \in 1..(k - 1)
        BY <1>5, <2>8, <3>3, <4>1
      <4> QED BY <2>8, <3>1, <3>2, <3>3, <4>2 DEF Lists
    <3>4. CASE next.deferred[q] = c
      <4>1. j = k
        <5>1. order[j] = order[k] /\ j \in DOMAIN order
          BY <1>9, <2>8, <3>4
        <5> QED BY <1>1, <5>1 DEF IsInjective
      <4> QED BY <1>6, <3>2, <4>1
    <3> QED BY <2>2, <3>3, <3>4
  <2> QED BY <1>4, <2>1, <2>2, <2>5, <2>6, <2>7, <2>8 DEF Lists
<1> QED BY <1>7, <1>8

LEMMA BreadthType ==
  ASSUME NEW pass \in PassType, NEW c \in Chunks
  PROVE  Breadth(pass, c) \in PassType
BY AppendProperties DEF Breadth, PassType

LEMMA BreadthPasses ==
  ASSUME NEW order, IsOrder(order), NEW k \in DOMAIN order,
         NEW pass \in PassType, Passed(pass, order, k - 1)
  PROVE  Passed(Breadth(pass, order[k]), order, k)
<1> DEFINE next == Breadth(pass, order[k])
<1>1. PICK t \in 0..(k - 1) : /\ Lists(pass, order, t)
                              /\ Len(pass.accepted) <= AcceptedLimit
                              /\ t = k - 1 \/ Len(pass.accepted) = AcceptedLimit
  BY DEF Passed
<1>2. /\ k \in Nat \ {0} /\ order[k] \in Chunks /\ AcceptedLimit \in Nat /\ DiversityCap \in Nat
      /\ Len(pass.accepted) \in Nat
  <2>1. order \in Seq(Chunks) /\ pass.accepted \in Seq(Chunks)
    BY DEF IsOrder, PassType
  <2> QED BY <2>1, ElementOfSeq, LenProperties, RetrievalAssumption
<1>3. CASE Len(pass.accepted) >= AcceptedLimit
  <2>1. next = pass
    BY <1>3 DEF Breadth
  <2>2. t \in 0..k /\ Len(pass.accepted) = AcceptedLimit
    BY <1>1, <1>2, <1>3
  <2> QED BY <1>1, <2>1, <2>2 DEF Passed
<1>4. CASE ~(Len(pass.accepted) >= AcceptedLimit)
  <2>1. t = k - 1 /\ Lists(pass, order, k - 1)
    BY <1>1, <1>2, <1>4
  <2> DEFINE taken == Cardinality(FromRecord(pass.accepted, RecordOf[order[k]]))
  <2>2. k \in Shares(order) <=> taken < DiversityCap
    BY <2>1, TakenCount, SharesCount
  <2>3. taken \in Nat
    <3>1. FromRecord(pass.accepted, RecordOf[order[k]]) \subseteq DOMAIN pass.accepted
      BY DEF FromRecord
    <3>2. pass.accepted \in Seq(Chunks) /\ IsInjective(pass.accepted)
      BY <2>1 DEF Lists, IsOrder
    <3> QED BY <3>1, <3>2, ValuesCount
  <2>4. next \in PassType
    BY <1>2, BreadthType
  <2>5. next = IF taken >= DiversityCap
                 THEN [pass EXCEPT !.deferred = Append(@, order[k])]
                 ELSE [pass EXCEPT !.accepted = Append(@, order[k])]
    BY <1>4 DEF Breadth
  <2>6. taken >= DiversityCap <=> k \notin Shares(order)
    <3> HIDE DEF taken
    <3> QED BY <1>2, <2>2, <2>3
  <2> HIDE DEF taken, next
  <2>7. IF k \in Shares(order)
          THEN next.accepted = Append(pass.accepted, order[k]) /\ next.deferred = pass.deferred
          ELSE next.deferred = Append(pass.deferred, order[k]) /\ next.accepted = pass.accepted
    BY <2>5, <2>6 DEF PassType
  <2>8. Lists(next, order, k)
    BY <2>1, <2>4, <2>7, ListsOneMore
  <2>9. Len(next.accepted) <= AcceptedLimit
    <3>1. Len(next.accepted) = Len(pass.accepted) \/ Len(next.accepted) = Len(pass.accepted) + 1
      <4>1. pass.accepted \in Seq(Chunks)
        BY DEF PassType
      <4> QED BY <2>7, <4>1, AppendProperties
    <3> QED BY <1>2, <1>4, <3>1
  <2>10. k \in 0..k
    BY <1>2
  <2>11. Passed(next, order, k)
    BY <2>8, <2>9, <2>10 DEF Passed
  <2> QED BY <2>11 DEF next
<1> QED BY <1>3, <1>4

BreadthStep(order) == [vk \in PassType \X (1..Len(order)) |-> Breadth(vk[1], order[vk[2]])]

Start == [accepted |-> <<>>, deferred |-> <<>>]

BreadthRun(run, order) ==
  /\ run \in [0..Len(order) -> PassType]
  /\ run[0] = Start
  /\ \A k \in 1..Len(order) : run[k] = Breadth(run[k - 1], order[k])

\* The breadth pass goes through the order, one candidate after the other.
LEMMA DiversifyFold ==
  ASSUME NEW order \in Seq(Chunks)
  PROVE  \E run : BreadthRun(run, order) /\ Diversify(order) = run[Len(order)]
<1> DEFINE n == Len(order)
           S == PassType
           step == BreadthStep(order)
           Solves(it) == it = [s \in SUBSET DOMAIN order |->
                                IF s = {} THEN Start ELSE Breadth(it[s \ {Max(s)}], order[Max(s)])]
           fold == CHOOSE it : Solves(it)
           run == [k \in 0..n |-> fold[1..k]]
<1>1. n \in Nat /\ DOMAIN order = 1..n /\ Start \in S
  BY LenProperties, EmptySeq DEF PassType, Start
<1>2. step \in Steps(S, n)
  BY BreadthType, ElementOfSeq DEF BreadthStep, Steps
<1>3. PICK it : SolvesFold(it, step, Start, S, n)
  <2> HIDE DEF step, S
  <2> QED BY <1>1, <1>2, FoldHasValue
<1>4. Solves(it)
  <2>1. ASSUME NEW s \in SUBSET (1..n), s # {}
        PROVE  it[s] = Breadth(it[s \ {Max(s)}], order[Max(s)])
    <3>1. Max(s) \in 1..n /\ s \ {Max(s)} \in SUBSET (1..n)
      BY <1>1, <2>1, MaxOfPrefix
    <3>2. it[s \ {Max(s)}] \in S
      BY <1>3, <3>1 DEF SolvesFold
    <3> QED BY <1>3, <2>1, <3>1, <3>2 DEF BreadthStep, SolvesFold
  <2> HIDE DEF n
  <2> QED BY <1>1, <1>3, <2>1 DEF SolvesFold
<1>5. Solves(fold)
  <2> HIDE DEF Solves
  <2> QED BY <1>4
<1>6. Diversify(order) = fold[DOMAIN order]
  BY DEF Diversify, Start, FoldLeft, MapThenFoldSet
<1> HIDE DEF fold
<1>7. Repeats(run, step, Start, S, n)
  <2>1. \A s \in SUBSET (1..n) : s = {} => fold[s] = Start
    BY <1>5, <1>1
  <2>2. ASSUME NEW k \in 1..n, fold[(1..k) \ {k}] \in S
        PROVE  fold[1..k] = step[<<fold[(1..k) \ {k}], k>>]
    <3>1. 1..k \in SUBSET (1..n) /\ 1..k # {} /\ Max(1..k) = k
      BY <1>1, PrefixWithoutMax
    <3>2. fold[1..k] = Breadth(fold[(1..k) \ {k}], order[k])
      BY <1>1, <1>5, <3>1
    <3> QED BY <2>2, <3>2 DEF BreadthStep
  <2> HIDE DEF step, S
  <2>3. OnPrefixes(fold, step, Start, S, n)
    BY <2>1, <2>2 DEF OnPrefixes
  <2> QED BY <1>1, <1>2, <2>3, FoldOnPrefixes
<1>8. Diversify(order) = run[n]
  BY <1>1, <1>6
<1> HIDE DEF run
<1>9. BreadthRun(run, order)
  <2>1. run \in [0..n -> S] /\ run[0] = Start
    BY <1>7 DEF Repeats
  <2>2. ASSUME NEW k \in 1..n PROVE run[k] = Breadth(run[k - 1], order[k])
    <3>1. run[k] = step[<<run[k - 1], k>>] /\ <<run[k - 1], k>> \in S \X (1..n)
      <4> HIDE DEF step, S
      <4> QED BY <1>1, <1>7, RepeatsFacts
    <3> QED BY <3>1 DEF BreadthStep
  <2> QED BY <2>1, <2>2 DEF BreadthRun
<1> QED BY <1>8, <1>9

LEMMA DiversifyFacts ==
  ASSUME NEW order, IsOrder(order)
  PROVE  Diversify(order) \in PassType /\ Passed(Diversify(order), order, Len(order))
<1> DEFINE n == Len(order)
<1>1. order \in Seq(Chunks) /\ n \in Nat /\ DOMAIN order = 1..n
  BY LenProperties DEF IsOrder
<1>2. PICK run : BreadthRun(run, order) /\ Diversify(order) = run[n]
  BY <1>1, DiversifyFold
<1> DEFINE G == {k \in 0..n : Passed(run[k], order, k)}
<1>3. \A k \in 0..n : run[k] \in PassType
  BY <1>2 DEF BreadthRun
<1>4. 0 \in G
  <2>1. run[0] = Start /\ 0 \in 0..n
    BY <1>1, <1>2 DEF BreadthRun
  <2>2. /\ <<>> \in Seq(Chunks) /\ IsInjective(<<>>) /\ Range(<<>>) = {} /\ Len(<<>>) = 0
        /\ DOMAIN <<>> = {}
    BY EmptySeq DEF IsInjective, Range
  <2>3. Lists(Start, order, 0)
    <3>1. /\ Start.accepted = <<>> /\ Start.deferred = <<>>
          /\ (1..0) \intersect Shares(order) = {} /\ (1..0) \ Shares(order) = {}
      BY DEF Start
    <3>2. Values(order, {}) = {}
      BY DEF Values
    <3>3. IsOrder(<<>>) /\ 0 + 0 = 0
      BY <2>2 DEF IsOrder
    <3>4. /\ Range(Start.accepted) = Values(order, (1..0) \intersect Shares(order))
          /\ Range(Start.deferred) = Values(order, (1..0) \ Shares(order))
      BY <2>2, <3>1, <3>2
    <3>5. Len(Start.accepted) + Len(Start.deferred) = 0
      BY <2>2, <3>1
    <3>6. DOMAIN Start.deferred = {}
      BY <2>2, <3>1
    <3>7. IsOrder(Start.accepted) /\ IsOrder(Start.deferred)
      BY <3>1, <3>3
    <3> QED BY <3>4, <3>5, <3>6, <3>7 DEF Lists
  <2>4. Len(Start.accepted) <= AcceptedLimit
    BY <2>2, RetrievalAssumption DEF Start
  <2>5. Passed(Start, order, 0)
    BY <2>3, <2>4 DEF Passed
  <2> QED BY <2>1, <2>5
<1>5. ASSUME NEW k \in 0..(n - 1), k \in G PROVE k + 1 \in G
  <2>1. k + 1 \in 1..n /\ k \in 0..n /\ (k + 1) - 1 = k
    BY <1>1
  <2>2. Passed(run[k], order, (k + 1) - 1) /\ run[k] \in PassType
    BY <1>3, <1>5, <2>1
  <2>3. Passed(Breadth(run[k], order[k + 1]), order, k + 1)
    BY <1>1, <2>1, <2>2, BreadthPasses
  <2>4. run[k + 1] = Breadth(run[k], order[k + 1])
    BY <1>2, <2>1 DEF BreadthRun
  <2> QED BY <1>1, <2>1, <2>3, <2>4
<1> HIDE DEF G
<1>6. \A k \in 0..n : k \in G
  BY <1>1, <1>4, <1>5, PrefixInduction
<1>7. n \in G /\ n \in 0..n
  BY <1>1, <1>6
<1> QED BY <1>2, <1>3, <1>7 DEF G

\* What the two passes select is a fair selection.
LEMMA SelectIsFair ==
  ASSUME NEW order, IsOrder(order)
  PROVE  /\ FairSelection(order, Select(order))
         /\ Select(order) \in Seq(Chunks)
         /\ order # <<>> => Select(order) # <<>>
<1> DEFINE n == Len(order)
           pass == Diversify(order)
           a == pass.accepted
           d == pass.deferred
           room == AcceptedLimit - Len(a)
           m == IF Len(d) < room THEN Len(d) ELSE room
           fill == SubSeq(d, 1, m)
           sel == Select(order)
           L == AcceptedLimit
           W == Shares(order)
<1>1. /\ order \in Seq(Chunks) /\ IsInjective(order) /\ n \in Nat /\ DOMAIN order = 1..n
      /\ L \in Nat \ {0}
  BY LenProperties, RetrievalAssumption DEF IsOrder
<1>2. pass \in PassType /\ Passed(pass, order, n)
  BY DiversifyFacts
<1> HIDE DEF pass, n
<1>3. PICK t \in 0..n : Lists(pass, order, t) /\ Len(a) <= L /\ (t = n \/ Len(a) = L)
  BY <1>2 DEF Passed
<1>4. /\ IsOrder(a) /\ IsOrder(d) /\ Len(a) + Len(d) = t
      /\ Range(a) = Values(order, (1..t) \intersect W)
      /\ Range(d) = Values(order, (1..t) \ W)
  BY <1>3 DEF Lists
<1>5. \A p, q \in DOMAIN d : \A i, j \in 1..t : d[p] = order[i] /\ d[q] = order[j] /\ p < q => i < j
  BY <1>3 DEF Lists
<1>6. /\ a \in Seq(Chunks) /\ d \in Seq(Chunks) /\ Len(a) \in Nat /\ Len(d) \in Nat
      /\ DOMAIN a = 1..Len(a) /\ DOMAIN d = 1..Len(d)
  BY <1>4, LenProperties DEF IsOrder
<1>7. sel = a \o fill
  BY DEF Select, pass
<1>8. m \in 0..Len(d) /\ Len(a) + m = (IF n < L THEN n ELSE L) /\ (m > 0 => t = n)
  <2> DEFINE x == Len(a)
             y == Len(d)
  <2>1. /\ x \in Nat /\ y \in Nat /\ x + y = t /\ t \in 0..n /\ n \in Nat /\ L \in Nat
        /\ x <= L /\ (t = n \/ x = L)
    BY <1>1, <1>3, <1>4, <1>6
  <2>2. m = IF y < L - x THEN y ELSE L - x
    OBVIOUS
  <2> HIDE DEF x, y, m, L
  <2>3. m \in 0..y /\ x + m = (IF n < L THEN n ELSE L) /\ (m > 0 => t = n)
    BY <2>1, <2>2
  <2> QED BY <2>3 DEF x, y
<1> HIDE DEF a, d, m, sel, room
<1>9. /\ fill \in Seq(Chunks) /\ Len(fill) = m /\ DOMAIN fill = 1..m
      /\ \A p \in 1..m : p \in 1..Len(d) /\ fill[p] = d[p]
  <2>1. /\ SubSeq(d, 1, m) \in Seq(Chunks) /\ Len(SubSeq(d, 1, m)) = m
        /\ \A p \in 1..m : SubSeq(d, 1, m)[p] = d[p]
    <3>1. \A p \in 1..m : d[p] \in Chunks
      BY <1>6, <1>8, ElementOfSeq
    <3>2. m \in Nat
      BY <1>6, <1>8
    <3> QED BY <3>1, <3>2
  <2>2. \A p \in 1..m : p \in 1..Len(d)
    BY <1>6, <1>8
  <2> QED BY <2>1, <2>2, LenProperties
<1> HIDE DEF fill
<1>10. m \in Nat
  BY <1>6, <1>8
<1>11. /\ sel \in Seq(Chunks) /\ Len(sel) = Len(a) + m /\ DOMAIN sel = 1..(Len(a) + m)
       /\ \A p \in 1..(Len(a) + m) : sel[p] = IF p <= Len(a) THEN a[p] ELSE fill[p - Len(a)]
  <2>1. /\ a \o fill \in Seq(Chunks) /\ Len(a \o fill) = Len(a) + Len(fill)
        /\ \A p \in 1..(Len(a) + Len(fill)) :
             (a \o fill)[p] = IF p <= Len(a) THEN a[p] ELSE fill[p - Len(a)]
    BY <1>6, <1>9, ConcatProperties
  <2> QED BY <1>7, <1>9, <2>1, LenProperties
<1>12. Range(sel) = Range(a) \union Range(fill)
  BY <1>6, <1>7, <1>9, RangeConcatenation
<1>13. /\ \A i \in 1..t : i \in DOMAIN order
       /\ \A i \in DOMAIN order : i \in 1..n
  BY <1>1, <1>3
<1>14. \A i \in 1..t : /\ order[i] \in Range(a) <=> i \in W
                       /\ order[i] \in Range(d) <=> i \notin W
  <2>1. \A i, j \in 1..t : order[i] = order[j] => i = j
    BY <1>1, <1>13 DEF IsInjective
  <2> QED BY <1>4, <2>1 DEF Values
<1>15. \A c \in Range(a) \union Range(d) : \E i \in 1..t : c = order[i]
  BY <1>4 DEF Values
<1>16. Range(fill) \subseteq Range(d)
  BY <1>6, <1>9 DEF Range
<1>17. Range(a) \intersect Range(d) = {}
  BY <1>14, <1>15
<1>18. IsInjective(sel)
  <2>1. \A p, q \in 1..Len(a) : a[p] = a[q] => p = q
    BY <1>4, <1>6 DEF IsOrder, IsInjective
  <2>2. \A p, q \in 1..m : fill[p] = fill[q] => p = q
    BY <1>4, <1>6, <1>9 DEF IsOrder, IsInjective
  <2>3. \A p \in 1..Len(a) : \A q \in 1..m : a[p] # fill[q]
    BY <1>6, <1>9, <1>16, <1>17 DEF Range
  <2>4. ASSUME NEW p \in 1..(Len(a) + m), NEW q \in 1..(Len(a) + m), sel[p] = sel[q]
        PROVE  p = q
    <3>1. \A x \in 1..(Len(a) + m) : \/ x \in 1..Len(a) /\ x <= Len(a)
                                     \/ x - Len(a) \in 1..m /\ ~(x <= Len(a))
      BY <1>6, <1>10
    <3>2. CASE p <= Len(a) /\ q <= Len(a)
      BY <1>11, <2>1, <2>4, <3>1, <3>2
    <3>3. CASE p <= Len(a) /\ ~(q <= Len(a))
      BY <1>11, <2>3, <2>4, <3>1, <3>3
    <3>4. CASE ~(p <= Len(a)) /\ q <= Len(a)
      BY <1>11, <2>3, <2>4, <3>1, <3>4
    <3>5. CASE ~(p <= Len(a)) /\ ~(q <= Len(a))
      <4>1. p - Len(a) = q - Len(a)
        BY <1>11, <2>2, <2>4, <3>1, <3>5
      <4> QED BY <1>6, <1>10, <4>1
    <3> QED BY <3>2, <3>3, <3>4, <3>5
  <2> QED BY <1>11, <2>4 DEF IsInjective
<1>19. Range(sel) \subseteq Range(order)
  BY <1>12, <1>13, <1>15, <1>16 DEF Range
<1>20. Len(sel) = IF Len(order) < AcceptedLimit THEN Len(order) ELSE AcceptedLimit
  BY <1>8, <1>11 DEF n
<1>21. \A i \in DOMAIN order : order[i] \in WithinCap(order) <=> i \in W
  BY PriorFacts
<1>22. \A c \in WithinCap(order) : \E i \in DOMAIN order : c = order[i]
  BY DEF WithinCap, Range
<1>23. Range(sel) \subseteq WithinCap(order) \/ WithinCap(order) \subseteq Range(sel)
  <2>1. CASE m > 0
    <3>1. t = n
      BY <1>8, <2>1
    <3>2. WithinCap(order) \subseteq Range(a)
      BY <1>13, <1>14, <1>21, <1>22, <3>1
    <3> QED BY <1>12, <3>2
  <2>2. CASE ~(m > 0)
    <3>1. m = 0
      BY <1>10, <2>2
    <3>2. Range(fill) = {}
      BY <1>9, <3>1 DEF Range
    <3>3. Range(a) \subseteq WithinCap(order)
      BY <1>13, <1>14, <1>15, <1>21
    <3> QED BY <1>12, <3>2, <3>3
  <2> QED BY <2>1, <2>2
<1>24. ASSUME NEW c \in Range(sel), NEW i \in Earlier(order, c)
       PROVE  order[i] \in Range(sel)
  <2>1. PICK j \in 1..t : c = order[j]
    BY <1>12, <1>15, <1>16
  <2>2. j \in DOMAIN order /\ i \in Prior(order, j)
    BY <1>13, <2>1, PriorFacts
  <2>3. i \in DOMAIN order /\ i < j /\ Prior(order, i) \subseteq Prior(order, j)
    BY <2>2, PriorFacts
  <2>4. i \in 1..t
    BY <1>1, <1>3, <2>3
  <2>5. CASE c \in Range(a)
    <3>1. j \in W
      BY <1>14, <2>1, <2>5
    <3>2. i \in W
      <4>1. /\ IsFiniteSet(Prior(order, j)) /\ Cardinality(Prior(order, j)) \in Nat
            /\ Cardinality(Prior(order, i)) \in Nat
        BY <2>2, <2>3, PriorFacts
      <4>2. Cardinality(Prior(order, i)) <= Cardinality(Prior(order, j))
        BY <2>3, <4>1, FS_Subset
      <4>3. Cardinality(Prior(order, j)) < DiversityCap
        BY <3>1 DEF Shares
      <4> DEFINE x == Cardinality(Prior(order, i))
                 y == Cardinality(Prior(order, j))
      <4>4. x \in Nat /\ y \in Nat /\ x <= y /\ y < DiversityCap /\ DiversityCap \in Nat
        BY <4>1, <4>2, <4>3, RetrievalAssumption
      <4> HIDE DEF x, y
      <4>5. x < DiversityCap
        BY <4>4
      <4> QED BY <2>3, <4>5 DEF x, Shares
    <3> QED BY <1>12, <1>14, <2>4, <3>2
  <2>6. CASE c \in Range(fill)
    <3>1. PICK p \in 1..m : c = fill[p]
      BY <1>9, <2>6 DEF Range
    <3>2. p \in DOMAIN d /\ d[p] = order[j]
      BY <1>6, <1>9, <2>1, <3>1
    <3>3. CASE i \in W
      BY <1>12, <1>14, <2>4, <3>3
    <3>4. CASE i \notin W
      <4>1. order[i] \in Range(d)
        BY <1>14, <2>4, <3>4
      <4>2. PICK q \in DOMAIN d : d[q] = order[i]
        BY <4>1 DEF Range
      <4>3. ~(p < q)
        <5>1. p < q => j < i
          BY <1>5, <2>4, <3>2, <4>2
        <5> QED BY <1>1, <2>3, <5>1
      <4>4. q \in 1..m
        BY <1>6, <1>10, <4>2, <4>3
      <4>5. order[i] = fill[q] /\ q \in DOMAIN fill
        BY <1>9, <4>2, <4>4
      <4> QED BY <1>12, <4>5 DEF Range
    <3> QED BY <3>3, <3>4
  <2> QED BY <1>12, <2>5, <2>6
<1>25. ASSUME NEW i \in DOMAIN order, NEW j \in DOMAIN order, i < j,
              order[i] \in WithinCap(order), order[j] \in WithinCap(order), order[j] \in Range(sel)
       PROVE  order[i] \in Range(sel)
  <2>1. i \in W /\ j \in W
    BY <1>21, <1>25
  <2>2. PICK k \in 1..t : order[j] = order[k]
    BY <1>12, <1>15, <1>16, <1>25
  <2>3. j \in 1..t
    BY <1>1, <1>13, <2>2 DEF IsInjective
  <2>4. i \in 1..t
    BY <1>1, <1>3, <1>25, <2>3
  <2> QED BY <1>12, <1>14, <2>1, <2>4
<1>26. FairSelection(order, sel)
  BY <1>18, <1>19, <1>20, <1>23, <1>24, <1>25 DEF FairSelection
<1>27. order # <<>> => sel # <<>>
  <2>1. order # <<>> => n # 0
    BY <1>1, EmptySeq DEF n
  <2>2. n # 0 => Len(sel) # 0
    BY <1>1, <1>20 DEF n
  <2>3. Len(<<>>) = 0
    OBVIOUS
  <2> QED BY <2>1, <2>2, <2>3
<1> QED BY <1>11, <1>26, <1>27 DEF sel

-----------------------------------------------------------------------------
(* The evidence of one query.                                              *)

\* What is ranked is ranked from 1 to the limit, and only what was asked for.
LEMMA CutFacts ==
  ASSUME NEW S, S \subseteq Chunks, NEW ahead \in [S -> SUBSET S]
  PROVE  LET rank == Cut(RankBy(S, ahead))
         IN rank \in Rank /\ \A c \in Chunks : rank[c] > 0 => c \in S
<1> DEFINE by == RankBy(S, ahead)
<1>1. IsFiniteSet(S)
  BY RetrievalAssumption, FS_Subset
<1>2. \A c \in S : Cardinality(ahead[c]) \in Nat
  <2>1. \A c \in S : IsFiniteSet(ahead[c])
    BY <1>1, FS_Subset
  <2> QED BY <2>1, FS_CardinalityType
<1>3. \A c \in Chunks : by[c] \in Nat /\ (by[c] > 0 => c \in S)
  BY <1>2 DEF RankBy
<1> HIDE DEF by
<1>4. /\ \A c \in Chunks : Cut(by)[c] \in Nat /\ (Cut(by)[c] > 0 => by[c] > 0)
      /\ Cut(by) = [c \in Chunks |-> Cut(by)[c]]
  BY <1>3 DEF Cut
<1> QED BY <1>3, <1>4 DEF Rank, by

LEMMA LexicalFacts ==
  ASSUME NEW S, S \subseteq Chunks, NEW score \in [S -> Nat]
  PROVE  /\ RankLexical(score) \in Rank
         /\ \A c \in Chunks : RankLexical(score)[c] > 0 => c \in S
<1> DEFINE T == {c \in S : score[c] > 0}
           Better(c, d) == score[c] > score[d] \/ (score[c] = score[d] /\ FirstByKey(c, d))
           ahead == [c \in T |-> {d \in T : Better(d, c)}]
<1>1. RankLexical(score) = Cut(RankBy(T, ahead))
  BY DEF RankLexical
<1>2. ahead \in [T -> SUBSET T] /\ T \subseteq S
  OBVIOUS
<1> HIDE DEF ahead, T
<1> QED BY <1>1, <1>2, CutFacts

\* The nearest chunk has rank 1, which no limit cuts.
LEMMA SemanticFacts ==
  ASSUME NEW S, S \subseteq Chunks, NEW distance \in [S -> Nat]
  PROVE  /\ RankSemantic(distance) \in Rank
         /\ \A c \in Chunks : RankSemantic(distance)[c] > 0 => c \in S
         /\ S # {} => \E c \in Chunks : RankSemantic(distance)[c] > 0
<1> DEFINE Better(c, d) ==
             distance[c] < distance[d] \/ (distance[c] = distance[d] /\ FirstByKey(c, d))
           ahead == [c \in S |-> {d \in S : Better(d, c)}]
<1>1. RankSemantic(distance) = Cut(RankBy(S, ahead))
  BY DEF RankSemantic
<1>2. ahead \in [S -> SUBSET S] /\ IsFiniteSet(S)
  BY RetrievalAssumption, FS_Subset
<1>3. \A c \in S : StableKey[c] \in Nat /\ distance[c] \in Nat
  BY RetrievalAssumption
<1>4. \A c, d \in S : StableKey[c] = StableKey[d] => c = d
  BY RetrievalAssumption DEF IsInjective
<1>5. \A c, d \in S : d \in ahead[c] <=> Better(d, c)
  OBVIOUS
<1> HIDE DEF ahead
<1>6. Orders(ahead, S)
  <2> USE DEF FirstByKey
  <2>1. \A c \in S : c \notin ahead[c]
    BY <1>3, <1>5
  <2>2. \A c, d, e \in S : c \in ahead[d] /\ d \in ahead[e] => c \in ahead[e]
    BY <1>3, <1>5
  <2>3. \A c, d \in S : c # d => c \in ahead[d] \/ d \in ahead[c]
    BY <1>3, <1>4, <1>5
  <2> QED BY <1>2, <2>1, <2>2, <2>3 DEF Orders
<1>7. ASSUME S # {} PROVE \E c \in Chunks : Cut(RankBy(S, ahead))[c] > 0
  <2>1. Cardinality(S) \in Nat \ {0}
    BY <1>2, <1>7, FS_CardinalityType, FS_EmptySet
  <2>2. 1 \in 1..Cardinality(S)
    BY <2>1
  <2>3. PICK c \in S : 1 + Cardinality(ahead[c]) = 1
    BY <1>6, <2>2, RanksAreTaken
  <2>4. RankBy(S, ahead)[c] = 1 /\ c \in Chunks
    BY <2>3 DEF RankBy
  <2>5. Cut(RankBy(S, ahead))[c] = 1
    BY <2>4, RetrievalAssumption DEF Cut
  <2> QED BY <2>4, <2>5
<1> QED BY <1>1, <1>2, <1>7, CutFacts

\* The evidence of two rankings that rank something.
LEMMA EvidenceFacts ==
  ASSUME NEW l \in Rank, NEW s \in Rank, Candidates(l, s) # {}
  PROVE  LET selected == Select(FusedOrder(l, s))
         IN /\ FairSelection(FusedOrder(l, s), selected)
            /\ selected \in Seq(Chunks) /\ selected # <<>>
            /\ Range(selected) \subseteq Candidates(l, s)
<1> DEFINE S == Candidates(l, s)
           order == FusedOrder(l, s)
<1>1. order \in Seq(S) /\ IsInjective(order) /\ Range(order) = S
  BY FusedOrderFacts
<1>2. S \subseteq Chunks
  BY DEF Candidates
<1>3. S # {}
  OBVIOUS
<1> HIDE DEF S, order
<1>4. IsOrder(order)
  BY <1>1, <1>2 DEF IsOrder
<1>5. order # <<>>
  BY <1>1, <1>3 DEF Range
<1>6. /\ FairSelection(order, Select(order)) /\ Select(order) \in Seq(Chunks)
      /\ Select(order) # <<>>
  BY <1>4, <1>5, SelectIsFair
<1>7. Range(Select(order)) \subseteq S
  BY <1>1, <1>6 DEF FairSelection
<1> QED BY <1>6, <1>7 DEF S, order

-----------------------------------------------------------------------------
(* What a fold that adds each value once returns. *)

AddOnce(seq, x, allowed) == IF x \in allowed \ Range(seq) THEN Append(seq, x) ELSE seq

OnceStep(seq, allowed) ==
  [vk \in Seq(Range(seq)) \X (1..Len(seq)) |-> AddOnce(vk[1], seq[vk[2]], allowed)]

OnceRun(run, seq, allowed) ==
  /\ run \in [0..Len(seq) -> Seq(Range(seq))]
  /\ run[0] = <<>>
  /\ \A k \in 1..Len(seq) : run[k] = AddOnce(run[k - 1], seq[k], allowed)

\* t continues s.
Continues(t, s) == Len(s) <= Len(t) /\ \A q \in 1..Len(s) : t[q] = s[q]

LEMMA OnceStepType ==
  ASSUME NEW seq, seq \in Seq(Range(seq)), NEW allowed
  PROVE  OnceStep(seq, allowed) \in Steps(Seq(Range(seq)), Len(seq))
<1>1. \A v \in Seq(Range(seq)), k \in 1..Len(seq) : AddOnce(v, seq[k], allowed) \in Seq(Range(seq))
  <2>1. \A k \in 1..Len(seq) : seq[k] \in Range(seq)
    BY ElementOfSeq
  <2> HIDE DEF Range
  <2> QED BY <2>1, AppendProperties DEF AddOnce
<1> QED BY <1>1 DEF OnceStep, Steps

\* One value more.
LEMMA OnceCases ==
  ASSUME NEW S, NEW v \in Seq(S), NEW x \in S, NEW allowed, IsInjective(v)
  PROVE  LET w == AddOnce(v, x, allowed)
         IN w \in Seq(S) /\ IsInjective(w) /\ Continues(w, v)
            /\ Range(w) = Range(v) \union ({x} \intersect allowed)
<1> DEFINE w == AddOnce(v, x, allowed)
<1>1. CASE x \in allowed \ Range(v)
  <2>1. /\ w \in Seq(S) /\ Len(w) = Len(v) + 1 /\ Len(v) \in Nat /\ w[Len(w)] = x
        /\ \A q \in 1..Len(v) : w[q] = v[q]
    BY <1>1, AppendProperties, LenProperties DEF AddOnce
  <2>2. DOMAIN w = 1..Len(v) \union {Len(v) + 1} /\ DOMAIN v = 1..Len(v)
    BY <2>1, LenProperties
  <2> HIDE DEF w
  <2>3. \A q \in 1..Len(v) : v[q] # x
    BY <1>1, <2>2 DEF Range
  <2>4. IsInjective(w)
    BY <2>1, <2>2, <2>3 DEF IsInjective
  <2>5. Range(w) = Range(v) \union {x}
    BY <2>1, <2>2 DEF Range
  <2> QED BY <1>1, <2>1, <2>4, <2>5 DEF Continues, w
<1>2. CASE x \notin allowed \ Range(v)
  BY <1>2, LenProperties DEF AddOnce, Continues
<1> QED BY <1>1, <1>2

\* Every prefix yields an injective sequence of its allowed values, and each of
\* these sequences continues the ones before.
LEMMA OnceFacts ==
  ASSUME NEW seq, seq \in Seq(Range(seq)), NEW allowed, NEW run, OnceRun(run, seq, allowed)
  PROVE  \A k \in 0..Len(seq) :
           /\ run[k] \in Seq(Range(seq)) /\ IsInjective(run[k])
           /\ Range(run[k]) = {seq[q] : q \in 1..k} \intersect allowed
           /\ \A j \in 0..k : Continues(run[k], run[j])
<1> DEFINE n == Len(seq)
           S == Range(seq)
           Done(k) == /\ run[k] \in Seq(S) /\ IsInjective(run[k])
                      /\ Range(run[k]) = {seq[q] : q \in 1..k} \intersect allowed
                      /\ \A j \in 0..k : Continues(run[k], run[j])
           G == {k \in 0..n : Done(k)}
<1>1. n \in Nat /\ \A k \in 1..n : seq[k] \in S
  BY ElementOfSeq, LenProperties
<1> HIDE DEF S
<1>2. 0 \in G
  <2>1. run[0] = <<>> /\ 0 \in 0..n
    BY <1>1 DEF OnceRun
  <2>2. Done(0)
    BY <2>1 DEF IsInjective, Range, Continues
  <2> QED BY <2>1, <2>2
<1>3. ASSUME NEW k \in 0..(n - 1), k \in G PROVE k + 1 \in G
  <2> DEFINE j == k + 1
             v == run[k]
             w == run[j]
             x == seq[j]
  <2>1. j \in 1..n /\ j \in 0..n /\ j - 1 = k /\ k \in 0..n
        /\ 1..j = (1..k) \union {j} /\ 0..j = (0..k) \union {j}
    BY <1>1
  <2>2. Done(k) /\ x \in S
    BY <1>1, <1>3, <2>1
  <2>3. w = AddOnce(v, x, allowed)
    BY <2>1 DEF OnceRun
  <2> HIDE DEF j
  <2>4. v \in Seq(S) /\ IsInjective(v)
    BY <2>2
  <2>5. Range(v) = {seq[q] : q \in 1..k} \intersect allowed
    BY <2>2
  <2>6. \A i \in 0..k : Continues(v, run[i]) /\ run[i] \in Seq(S)
    <3>1. run \in [0..n -> Seq(S)]
      BY DEF OnceRun, S
    <3>2. \A i \in 0..k : i \in 0..n
      BY <1>1, <2>1
    <3>3. \A i \in 0..k : run[i] \in Seq(S)
      BY <3>1, <3>2
    <3> QED BY <2>2, <3>3
  <2>7. {seq[q] : q \in 1..j} = {seq[q] : q \in 1..k} \union {x}
    BY <2>1
  <2> HIDE DEF v, w, x
  <2>8. /\ w \in Seq(S) /\ IsInjective(w) /\ Continues(w, v)
        /\ Range(w) = Range(v) \union ({x} \intersect allowed)
    BY <2>2, <2>3, <2>4, OnceCases
  <2>9. Range(w) = {seq[q] : q \in 1..j} \intersect allowed
    BY <2>5, <2>7, <2>8
  <2>10. \A i \in 0..j : Continues(w, run[i])
    <3>1. Continues(w, w)
      BY <2>8, LenProperties DEF Continues
    <3>2. ASSUME NEW i \in 0..k PROVE Continues(w, run[i])
      <4> DEFINE u == run[i]
      <4>1. Continues(v, u) /\ Len(u) \in Nat /\ Len(v) \in Nat /\ Len(w) \in Nat
        BY <2>4, <2>6, <2>8, LenProperties
      <4> HIDE DEF u
      <4>2. Continues(w, u)
        BY <2>8, <4>1 DEF Continues
      <4> QED BY <4>2 DEF u
    <3> QED BY <2>1, <3>1, <3>2 DEF w
  <2>11. Done(j)
    BY <2>8, <2>9, <2>10 DEF w
  <2> HIDE DEF Done
  <2> QED BY <2>1, <2>11 DEF j
<1>4. \A k \in 0..n : k \in G
  <2> HIDE DEF G
  <2> QED BY <1>1, <1>2, <1>3, PrefixInduction
<1> HIDE DEF n
<1> QED BY <1>4 DEF S, n

\* The chunks a sentence may cite are added once each.
LEMMA AvailableFold ==
  ASSUME NEW s, s.cites \in Seq(Range(s.cites))
  PROVE  \E run : OnceRun(run, s.cites, Usable(s)) /\ Available(s) = run[Len(s.cites)]
<1> DEFINE n == Len(s.cites)
           S == Seq(Range(s.cites))
           step == OnceStep(s.cites, Usable(s))
           Solves(it) == it = [t \in SUBSET DOMAIN s.cites |->
                                IF t = {} THEN <<>> ELSE AddOnce(it[t \ {Max(t)}], s.cites[Max(t)], Usable(s))]
           fold == CHOOSE it : Solves(it)
           run == [k \in 0..n |-> fold[1..k]]
<1>1. n \in Nat /\ DOMAIN s.cites = 1..n /\ <<>> \in S
  BY LenProperties
<1>2. step \in Steps(S, n)
  BY OnceStepType
<1>3. PICK it : SolvesFold(it, step, <<>>, S, n)
  <2> HIDE DEF step, S
  <2> QED BY <1>1, <1>2, FoldHasValue
<1>4. Solves(it)
  <2>1. ASSUME NEW t \in SUBSET (1..n), t # {}
        PROVE  it[t] = AddOnce(it[t \ {Max(t)}], s.cites[Max(t)], Usable(s))
    <3>1. Max(t) \in 1..n /\ t \ {Max(t)} \in SUBSET (1..n)
      BY <1>1, <2>1, MaxOfPrefix
    <3>2. it[t \ {Max(t)}] \in S
      BY <1>3, <3>1 DEF SolvesFold
    <3> QED BY <1>3, <2>1, <3>1, <3>2 DEF OnceStep, SolvesFold
  <2> HIDE DEF n
  <2> QED BY <1>1, <1>3, <2>1 DEF SolvesFold
<1>5. Solves(fold)
  <2> HIDE DEF Solves
  <2> QED BY <1>4
<1>6. Available(s) = fold[DOMAIN s.cites]
  BY DEF Available, AddOnce, FoldLeft, MapThenFoldSet
<1> HIDE DEF fold
<1>7. Repeats(run, step, <<>>, S, n)
  <2>1. \A t \in SUBSET (1..n) : t = {} => fold[t] = <<>>
    BY <1>5, <1>1
  <2>2. ASSUME NEW k \in 1..n, fold[(1..k) \ {k}] \in S
        PROVE  fold[1..k] = step[<<fold[(1..k) \ {k}], k>>]
    <3>1. 1..k \in SUBSET (1..n) /\ 1..k # {} /\ Max(1..k) = k
      BY <1>1, PrefixWithoutMax
    <3>2. fold[1..k] = AddOnce(fold[(1..k) \ {k}], s.cites[k], Usable(s))
      BY <1>1, <1>5, <3>1
    <3> QED BY <2>2, <3>2 DEF OnceStep
  <2> HIDE DEF step, S
  <2>3. OnPrefixes(fold, step, <<>>, S, n)
    BY <2>1, <2>2 DEF OnPrefixes
  <2> QED BY <1>1, <1>2, <2>3, FoldOnPrefixes
<1>8. Available(s) = run[n]
  BY <1>1, <1>6
<1> HIDE DEF run
<1>9. OnceRun(run, s.cites, Usable(s))
  <2>1. run \in [0..n -> S] /\ run[0] = <<>>
    BY <1>7 DEF Repeats
  <2>2. ASSUME NEW k \in 1..n PROVE run[k] = AddOnce(run[k - 1], s.cites[k], Usable(s))
    <3>1. run[k] = step[<<run[k - 1], k>>] /\ <<run[k - 1], k>> \in S \X (1..n)
      <4> HIDE DEF step, S
      <4> QED BY <1>1, <1>7, RepeatsFacts
    <3> QED BY <3>1 DEF OnceStep
  <2> QED BY <2>1, <2>2 DEF OnceRun
<1> QED BY <1>8, <1>9

\* They are those the sentence cites, as far as they are evidence.
LEMMA AvailableFacts ==
  ASSUME NEW s, s.cites \in Seq(Range(s.cites))
  PROVE  Available(s) \in Seq(Range(s.cites)) /\ Range(Available(s)) = Usable(s)
<1> DEFINE n == Len(s.cites)
<1>1. PICK run : OnceRun(run, s.cites, Usable(s)) /\ Available(s) = run[n]
  BY AvailableFold
<1>2. n \in Nat /\ n \in 0..n /\ Range(s.cites) = {s.cites[q] : q \in 1..n}
  BY LenProperties DEF Range
<1>3. /\ run[n] \in Seq(Range(s.cites))
      /\ Range(run[n]) = {s.cites[q] : q \in 1..n} \intersect Usable(s)
  <2>1. \A k \in 0..n : /\ run[k] \in Seq(Range(s.cites))
                         /\ Range(run[k]) = {s.cites[q] : q \in 1..k} \intersect Usable(s)
    <3> DEFINE seq == s.cites
               allowed == Usable(s)
    <3>1. seq \in Seq(Range(seq)) /\ OnceRun(run, seq, allowed)
      BY <1>1
    <3> HIDE DEF seq, allowed
    <3>2. \A k \in 0..Len(seq) :
            /\ run[k] \in Seq(Range(seq)) /\ IsInjective(run[k])
            /\ Range(run[k]) = {seq[q] : q \in 1..k} \intersect allowed
            /\ \A j \in 0..k : Continues(run[k], run[j])
      BY <3>1, OnceFacts
    <3> QED BY <3>2 DEF seq, allowed
  <2> HIDE DEF n
  <2> QED BY <1>2, <2>1
<1>4. Range(s.cites) \intersect Usable(s) = Usable(s)
  BY DEF Usable
<1> QED BY <1>1, <1>2, <1>3, <1>4

AddNew(seq, x) == IF x \in Range(seq) THEN seq ELSE Append(seq, x)

NewStep(seq) == [vk \in Seq(Range(seq)) \X (1..Len(seq)) |-> AddNew(vk[1], seq[vk[2]])]

NewRun(run, seq) ==
  /\ run \in [0..Len(seq) -> Seq(Range(seq))]
  /\ run[0] = <<>>
  /\ \A k \in 1..Len(seq) : run[k] = AddNew(run[k - 1], seq[k])

LEMMA NewStepType ==
  ASSUME NEW seq, seq \in Seq(Range(seq))
  PROVE  NewStep(seq) \in Steps(Seq(Range(seq)), Len(seq))
<1>1. \A v \in Seq(Range(seq)), k \in 1..Len(seq) : AddNew(v, seq[k]) \in Seq(Range(seq))
  <2>1. \A k \in 1..Len(seq) : seq[k] \in Range(seq)
    BY ElementOfSeq
  <2> DEFINE R == Range(seq)
  <2> HIDE DEF R
  <2>2. \A v \in Seq(R), x \in R : AddNew(v, x) \in Seq(R)
    BY AppendProperties DEF AddNew
  <2> QED BY <2>1, <2>2 DEF R
<1> QED BY <1>1 DEF NewStep, Steps

\* The citations are the uses, once each.
LEMMA AllocationFold ==
  ASSUME Uses \in Seq(Range(Uses))
  PROVE  \E run : NewRun(run, Uses) /\ AllocateCitations = run[Len(Uses)]
<1> DEFINE n == Len(Uses)
           S == Seq(Range(Uses))
           step == NewStep(Uses)
           Solves(it) == it = [s \in SUBSET DOMAIN Uses |->
                                IF s = {} THEN <<>> ELSE AddNew(it[s \ {Max(s)}], Uses[Max(s)])]
           fold == CHOOSE it : Solves(it)
           run == [k \in 0..n |-> fold[1..k]]
<1>1. n \in Nat /\ DOMAIN Uses = 1..n /\ <<>> \in S
  BY LenProperties
<1>2. step \in Steps(S, n)
  BY NewStepType
<1>3. PICK it : SolvesFold(it, step, <<>>, S, n)
  <2> HIDE DEF step, S
  <2> QED BY <1>1, <1>2, FoldHasValue
<1>4. Solves(it)
  <2>1. ASSUME NEW s \in SUBSET (1..n), s # {}
        PROVE  it[s] = AddNew(it[s \ {Max(s)}], Uses[Max(s)])
    <3>1. Max(s) \in 1..n /\ s \ {Max(s)} \in SUBSET (1..n)
      BY <1>1, <2>1, MaxOfPrefix
    <3>2. it[s \ {Max(s)}] \in S
      BY <1>3, <3>1 DEF SolvesFold
    <3> QED BY <1>3, <2>1, <3>1, <3>2 DEF NewStep, SolvesFold
  <2> HIDE DEF n
  <2> QED BY <1>1, <1>3, <2>1 DEF SolvesFold
<1>5. Solves(fold)
  <2> HIDE DEF Solves
  <2> QED BY <1>4
<1>6. AllocateCitations = fold[DOMAIN Uses]
  BY DEF AllocateCitations, AddNew, FoldLeft, MapThenFoldSet
<1> HIDE DEF fold
<1>7. Repeats(run, step, <<>>, S, n)
  <2>1. \A s \in SUBSET (1..n) : s = {} => fold[s] = <<>>
    BY <1>5, <1>1
  <2>2. ASSUME NEW k \in 1..n, fold[(1..k) \ {k}] \in S
        PROVE  fold[1..k] = step[<<fold[(1..k) \ {k}], k>>]
    <3>1. 1..k \in SUBSET (1..n) /\ 1..k # {} /\ Max(1..k) = k
      BY <1>1, PrefixWithoutMax
    <3>2. fold[1..k] = AddNew(fold[(1..k) \ {k}], Uses[k])
      BY <1>1, <1>5, <3>1
    <3> QED BY <2>2, <3>2 DEF NewStep
  <2> HIDE DEF step, S
  <2>3. OnPrefixes(fold, step, <<>>, S, n)
    BY <2>1, <2>2 DEF OnPrefixes
  <2> QED BY <1>1, <1>2, <2>3, FoldOnPrefixes
<1>8. AllocateCitations = run[n]
  BY <1>1, <1>6
<1> HIDE DEF run
<1>9. NewRun(run, Uses)
  <2>1. run \in [0..n -> S] /\ run[0] = <<>>
    BY <1>7 DEF Repeats
  <2>2. ASSUME NEW k \in 1..n PROVE run[k] = AddNew(run[k - 1], Uses[k])
    <3>1. run[k] = step[<<run[k - 1], k>>] /\ <<run[k - 1], k>> \in S \X (1..n)
      <4> HIDE DEF step, S
      <4> QED BY <1>1, <1>7, RepeatsFacts
    <3> QED BY <3>1 DEF NewStep
  <2> QED BY <2>1, <2>2 DEF NewRun
<1> QED BY <1>8, <1>9

\* They are injective and list every use, and the first uses yield the first
\* citations.
LEMMA AllocationFacts ==
  ASSUME Uses \in Seq(Range(Uses))
  PROVE  /\ AllocateCitations \in Seq(Range(Uses)) /\ IsInjective(AllocateCitations)
         /\ Range(AllocateCitations) = Range(Uses)
         /\ \A p \in 0..Len(Uses), k \in DOMAIN AllocateCitations : \A l \in 1..k :
              AllocateCitations[k] \in {Uses[q] : q \in 1..p}
                => AllocateCitations[l] \in {Uses[q] : q \in 1..p}
<1> DEFINE n == Len(Uses)
           R == Range(Uses)
           cs == AllocateCitations
<1>1. PICK run : NewRun(run, Uses) /\ cs = run[n]
  BY AllocationFold
<1>2. n \in Nat /\ n \in 0..n /\ R = {Uses[q] : q \in 1..n} /\ \A k \in 1..n : Uses[k] \in R
  BY LenProperties, ElementOfSeq DEF Range
<1>3. OnceRun(run, Uses, R)
  <2>1. \A v, x : x \in R => AddNew(v, x) = AddOnce(v, x, R)
    BY DEF AddNew, AddOnce
  <2> QED BY <1>1, <1>2, <2>1 DEF NewRun, OnceRun
<1>4. \A k \in 0..n : /\ run[k] \in Seq(R) /\ IsInjective(run[k])
                      /\ Range(run[k]) = {Uses[q] : q \in 1..k} \intersect R
                      /\ \A j \in 0..k : Continues(run[k], run[j])
  BY <1>3, OnceFacts
<1>5. \A k \in 0..n : Range(run[k]) = {Uses[q] : q \in 1..k}
  <2>1. \A k \in 0..n : {Uses[q] : q \in 1..k} \subseteq R
    BY <1>2
  <2> QED BY <1>4, <2>1
<1> HIDE DEF n, R, cs
<1>6. cs \in Seq(R) /\ IsInjective(cs) /\ Range(cs) = R
  BY <1>1, <1>2, <1>4, <1>5
<1>7. ASSUME NEW p \in 0..n, NEW k \in DOMAIN cs, NEW l \in 1..k, cs[k] \in Range(run[p])
      PROVE  cs[l] \in Range(run[p])
  <2> DEFINE u == run[p]
  <2>1. u \in Seq(R) /\ Continues(cs, u)
    BY <1>1, <1>2, <1>4
  <2> HIDE DEF u
  <2>2. Len(u) \in Nat /\ DOMAIN u = 1..Len(u) /\ Len(cs) \in Nat /\ DOMAIN cs = 1..Len(cs)
    BY <1>6, <2>1, LenProperties
  <2>3. PICK m \in 1..Len(u) : cs[k] = u[m]
    BY <1>7, <2>2 DEF Range, u
  <2>4. m \in DOMAIN cs /\ cs[m] = u[m]
    BY <2>1, <2>2 DEF Continues
  <2>5. m = k
    BY <1>6, <2>3, <2>4 DEF IsInjective
  <2>6. l \in 1..Len(u) /\ cs[l] = u[l]
    BY <2>1, <2>2, <2>5 DEF Continues
  <2> QED BY <2>2, <2>6 DEF Range, u
<1> QED BY <1>5, <1>6, <1>7 DEF n, R, cs

-----------------------------------------------------------------------------
(* The uses of the sources. *)

\* The citations there are.
Citable == UNION {Range(CitationsOf(c)) : c \in Chunks}

CitationsIn(C) == UNION {Range(CitationsOf(c)) : c \in C}

LEMMA CitationsType ==
  ASSUME NEW c \in Chunks
  PROVE  CitationsOf(c) \in Seq(Citable) /\ \A x \in Range(CitationsOf(c)) : x.chunk = c
<1> DEFINE cs == CitationsOf(c)
<1>1. SourcesOf[c] \in Seq(Range(SourcesOf[c]))
  BY AnswerAssumption
<1>2. PICK n \in Nat : DOMAIN SourcesOf[c] = 1..n
  BY <1>1
<1>3. DOMAIN cs = 1..n /\ \A k \in 1..n : cs[k].chunk = c
  BY <1>2 DEF CitationsOf
<1>4. \A k \in 1..n : cs[k] \in Citable
  <2>1. \A k \in 1..n : cs[k] \in Range(cs)
    BY <1>3 DEF Range
  <2> HIDE DEF cs
  <2> QED BY <2>1 DEF Citable, cs
<1>5. cs = [k \in 1..n |-> cs[k]]
  BY <1>2 DEF CitationsOf
<1>6. cs \in Seq(Citable)
  <2> HIDE DEF cs
  <2> QED BY <1>4, <1>5
<1> QED BY <1>3, <1>6 DEF Range

AddCitations(uses, c) == uses \o CitationsOf(c)

AddUses(uses, cites) == FoldLeft(LAMBDA seq, c : seq \o CitationsOf(c), uses, cites)

CitationStep(cites) ==
  [vk \in Seq(Citable) \X (1..Len(cites)) |-> AddCitations(vk[1], cites[vk[2]])]

CitationRun(run, uses, cites) ==
  /\ run \in [0..Len(cites) -> Seq(Citable)]
  /\ run[0] = uses
  /\ \A k \in 1..Len(cites) : run[k] = AddCitations(run[k - 1], cites[k])

\* The citations of one chunk more.
LEMMA CitationCases ==
  ASSUME NEW u \in Seq(Citable), NEW c \in Chunks
  PROVE  LET w == AddCitations(u, c)
         IN w \in Seq(Citable) /\ Continues(w, u)
            /\ Range(w) = Range(u) \union Range(CitationsOf(c))
<1>1. CitationsOf(c) \in Seq(Citable)
  BY CitationsType
<1>2. /\ u \o CitationsOf(c) \in Seq(Citable)
      /\ Len(u) <= Len(u \o CitationsOf(c))
      /\ \A q \in 1..Len(u) : (u \o CitationsOf(c))[q] = u[q]
  <2> DEFINE v == CitationsOf(c)
             w == u \o v
  <2>1. v \in Seq(Citable) /\ Len(u) \in Nat /\ Len(v) \in Nat
    BY <1>1, LenProperties
  <2> HIDE DEF v
  <2>2. /\ w \in Seq(Citable) /\ Len(w) = Len(u) + Len(v)
        /\ \A q \in 1..(Len(u) + Len(v)) : w[q] = IF q <= Len(u) THEN u[q] ELSE v[q - Len(u)]
    BY <2>1, ConcatProperties
  <2> HIDE DEF w
  <2>3. /\ w \in Seq(Citable) /\ Len(u) <= Len(w) /\ \A q \in 1..Len(u) : w[q] = u[q]
    BY <2>1, <2>2
  <2> QED BY <2>3 DEF v, w
<1>3. Range(u \o CitationsOf(c)) = Range(u) \union Range(CitationsOf(c))
  BY <1>1, RangeConcatenation
<1> QED BY <1>2, <1>3 DEF AddCitations, Continues

\* The citations of some chunks, one chunk after the other.
LEMMA AddUsesFold ==
  ASSUME NEW uses \in Seq(Citable), NEW cites \in Seq(Chunks)
  PROVE  \E run : CitationRun(run, uses, cites) /\ AddUses(uses, cites) = run[Len(cites)]
<1> DEFINE n == Len(cites)
           S == Seq(Citable)
           step == CitationStep(cites)
           Solves(it) == it = [s \in SUBSET DOMAIN cites |->
                                IF s = {} THEN uses ELSE AddCitations(it[s \ {Max(s)}], cites[Max(s)])]
           fold == CHOOSE it : Solves(it)
           run == [k \in 0..n |-> fold[1..k]]
<1>1. n \in Nat /\ DOMAIN cites = 1..n /\ uses \in S
  BY LenProperties
<1>2. step \in Steps(S, n)
  BY CitationCases, ElementOfSeq DEF CitationStep, Steps
<1>3. PICK it : SolvesFold(it, step, uses, S, n)
  <2> HIDE DEF step, S
  <2> QED BY <1>1, <1>2, FoldHasValue
<1>4. Solves(it)
  <2>1. ASSUME NEW s \in SUBSET (1..n), s # {}
        PROVE  it[s] = AddCitations(it[s \ {Max(s)}], cites[Max(s)])
    <3>1. Max(s) \in 1..n /\ s \ {Max(s)} \in SUBSET (1..n)
      BY <1>1, <2>1, MaxOfPrefix
    <3>2. it[s \ {Max(s)}] \in S
      BY <1>3, <3>1 DEF SolvesFold
    <3> QED BY <1>3, <2>1, <3>1, <3>2 DEF CitationStep, SolvesFold
  <2> HIDE DEF n
  <2> QED BY <1>1, <1>3, <2>1 DEF SolvesFold
<1>5. Solves(fold)
  <2> HIDE DEF Solves
  <2> QED BY <1>4
<1>6. AddUses(uses, cites) = fold[DOMAIN cites]
  BY DEF AddUses, AddCitations, FoldLeft, MapThenFoldSet
<1> HIDE DEF fold
<1>7. Repeats(run, step, uses, S, n)
  <2>1. \A s \in SUBSET (1..n) : s = {} => fold[s] = uses
    BY <1>5, <1>1
  <2>2. ASSUME NEW k \in 1..n, fold[(1..k) \ {k}] \in S
        PROVE  fold[1..k] = step[<<fold[(1..k) \ {k}], k>>]
    <3>1. 1..k \in SUBSET (1..n) /\ 1..k # {} /\ Max(1..k) = k
      BY <1>1, PrefixWithoutMax
    <3>2. fold[1..k] = AddCitations(fold[(1..k) \ {k}], cites[k])
      BY <1>1, <1>5, <3>1
    <3> QED BY <2>2, <3>2 DEF CitationStep
  <2> HIDE DEF step, S
  <2>3. OnPrefixes(fold, step, uses, S, n)
    BY <2>1, <2>2 DEF OnPrefixes
  <2> QED BY <1>1, <1>2, <2>3, FoldOnPrefixes
<1>8. AddUses(uses, cites) = run[n]
  BY <1>1, <1>6
<1> HIDE DEF run
<1>9. CitationRun(run, uses, cites)
  <2>1. run \in [0..n -> S] /\ run[0] = uses
    BY <1>7 DEF Repeats
  <2>2. ASSUME NEW k \in 1..n PROVE run[k] = AddCitations(run[k - 1], cites[k])
    <3>1. run[k] = step[<<run[k - 1], k>>] /\ <<run[k - 1], k>> \in S \X (1..n)
      <4> HIDE DEF step, S
      <4> QED BY <1>1, <1>7, RepeatsFacts
    <3> QED BY <3>1 DEF CitationStep
  <2> QED BY <2>1, <2>2 DEF CitationRun
<1> QED BY <1>8, <1>9

\* They follow what was used before.
LEMMA AddUsesFacts ==
  ASSUME NEW uses \in Seq(Citable), NEW cites \in Seq(Chunks)
  PROVE  /\ AddUses(uses, cites) \in Seq(Citable) /\ Continues(AddUses(uses, cites), uses)
         /\ Range(AddUses(uses, cites)) = Range(uses) \union CitationsIn(Range(cites))
<1> DEFINE n == Len(cites)
<1>1. PICK run : CitationRun(run, uses, cites) /\ AddUses(uses, cites) = run[n]
  BY AddUsesFold
<1> DEFINE Done(k) == /\ run[k] \in Seq(Citable) /\ Continues(run[k], uses)
                      /\ Range(run[k]) = Range(uses) \union CitationsIn({cites[q] : q \in 1..k})
           G == {k \in 0..n : Done(k)}
<1>2. n \in Nat /\ n \in 0..n /\ Range(cites) = {cites[q] : q \in 1..n}
      /\ \A k \in 1..n : cites[k] \in Chunks
  BY LenProperties, ElementOfSeq DEF Range
<1>3. 0 \in G
  <2>1. run[0] = uses /\ 0 \in 0..n
    BY <1>1, <1>2 DEF CitationRun
  <2>2. {cites[q] : q \in 1..0} = {} /\ CitationsIn({}) = {}
    BY DEF CitationsIn
  <2>3. Continues(uses, uses)
    BY LenProperties DEF Continues
  <2>4. Done(0)
    BY <2>1, <2>2, <2>3
  <2> QED BY <2>1, <2>4
<1>4. ASSUME NEW k \in 0..(n - 1), k \in G PROVE k + 1 \in G
  <2> DEFINE j == k + 1
             v == run[k]
             w == run[j]
             c == cites[j]
             before == {cites[q] : q \in 1..k}
  <2>1. j \in 1..n /\ j \in 0..n /\ j - 1 = k /\ 1..j = (1..k) \union {j}
    BY <1>2
  <2>2. Done(k) /\ c \in Chunks
    BY <1>2, <1>4, <2>1
  <2>3. w = AddCitations(v, c)
    BY <1>1, <2>1 DEF CitationRun
  <2> HIDE DEF j
  <2>4. {cites[q] : q \in 1..j} = before \union {c}
    BY <2>1
  <2>5. v \in Seq(Citable) /\ Continues(v, uses) /\ Range(v) = Range(uses) \union CitationsIn(before)
    BY <2>2
  <2> HIDE DEF v, w, c, before
  <2>6. /\ w \in Seq(Citable) /\ Continues(w, v)
        /\ Range(w) = Range(v) \union Range(CitationsOf(c))
    BY <2>2, <2>3, <2>5, CitationCases
  <2>7. CitationsIn(before \union {c}) = CitationsIn(before) \union Range(CitationsOf(c))
    BY DEF CitationsIn
  <2>8. Continues(w, uses)
    <3>1. Len(w) \in Nat /\ Len(v) \in Nat /\ Len(uses) \in Nat
      BY <2>5, <2>6, LenProperties
    <3> QED BY <2>5, <2>6, <3>1 DEF Continues
  <2>9. Range(w) = Range(uses) \union CitationsIn({cites[q] : q \in 1..j})
    BY <2>4, <2>5, <2>6, <2>7
  <2>10. Done(j)
    BY <2>6, <2>8, <2>9 DEF w
  <2> HIDE DEF Done
  <2> QED BY <2>1, <2>10 DEF j
<1>5. \A k \in 0..n : k \in G
  <2> HIDE DEF G
  <2> QED BY <1>2, <1>3, <1>4, PrefixInduction
<1>6. Done(n)
  <2> HIDE DEF Done
  <2> QED BY <1>2, <1>5
<1> QED BY <1>1, <1>2, <1>6

\* The numbers of the sentences.
Numbers == [i \in DOMAIN draft |-> i]

UseSentence(uses, i) == IF i \in Emitted THEN AddUses(uses, Available(draft[i])) ELSE uses

UseStep == [vk \in Seq(Citable) \X (1..Len(draft)) |-> UseSentence(vk[1], Numbers[vk[2]])]

UseRun(run) ==
  /\ run \in [0..Len(draft) -> Seq(Citable)]
  /\ run[0] = <<>>
  /\ \A k \in 1..Len(draft) : run[k] = UseSentence(run[k - 1], Numbers[k])

\* Every sentence cites chunks.
CitesChunks ==
  /\ draft \in Seq(Range(draft)) /\ InSequence(draft)
  /\ \A i \in DOMAIN draft : Range(draft[i].cites) \subseteq Chunks

LEMMA NumbersFacts ==
  ASSUME CitesChunks
  PROVE  Len(Numbers) = Len(draft) /\ DOMAIN Numbers = 1..Len(draft) /\ Len(draft) \in Nat
         /\ \A k \in 1..Len(draft) : Numbers[k] = k
<1>1. Len(draft) \in Nat /\ DOMAIN draft = 1..Len(draft)
  BY LenProperties DEF CitesChunks
<1>2. Numbers = [i \in 1..Len(draft) |-> i]
  BY <1>1 DEF Numbers
<1>3. [i \in 1..Len(draft) |-> i] \in Seq(Nat) /\ Len([i \in 1..Len(draft) |-> i]) = Len(draft)
  BY <1>1
<1> QED BY <1>1, <1>2, <1>3

\* One sentence more.
LEMMA UseCases ==
  ASSUME CitesChunks, NEW u \in Seq(Citable), NEW i \in DOMAIN draft
  PROVE  LET w == UseSentence(u, i)
         IN /\ w \in Seq(Citable) /\ Continues(w, u)
            /\ Range(w) = Range(u) \union
                            (IF i \in Emitted THEN CitationsIn(Usable(draft[i])) ELSE {})
<1>1. CASE i \in Emitted
  <2> DEFINE av == Available(draft[i])
  <2>1. draft[i].cites \in Seq(Range(draft[i].cites)) /\ Range(draft[i].cites) \subseteq Chunks
    BY DEF CitesChunks, InSequence
  <2>2. av \in Seq(Range(draft[i].cites)) /\ Range(av) = Usable(draft[i])
    BY <2>1, AvailableFacts
  <2>3. av \in Seq(Chunks)
    <3> DEFINE R == Range(draft[i].cites)
    <3>1. av \in Seq(R) /\ R \subseteq Chunks
      BY <2>1, <2>2
    <3> HIDE DEF R, av
    <3> QED BY <3>1
  <2> HIDE DEF av
  <2>4. /\ AddUses(u, av) \in Seq(Citable) /\ Continues(AddUses(u, av), u)
        /\ Range(AddUses(u, av)) = Range(u) \union CitationsIn(Range(av))
    BY <2>3, AddUsesFacts
  <2> QED BY <1>1, <2>2, <2>4 DEF UseSentence, av
<1>2. CASE i \notin Emitted
  <2>1. Continues(u, u)
    BY LenProperties DEF Continues
  <2> QED BY <1>2, <2>1 DEF UseSentence
<1> QED BY <1>1, <1>2

LEMMA UseStepType ==
  ASSUME CitesChunks PROVE UseStep \in Steps(Seq(Citable), Len(draft))
<1>1. \A v \in Seq(Citable), k \in 1..Len(draft) : UseSentence(v, Numbers[k]) \in Seq(Citable)
  <2>1. DOMAIN draft = 1..Len(draft)
    BY LenProperties DEF CitesChunks
  <2> QED BY <2>1, NumbersFacts, UseCases
<1> QED BY <1>1 DEF UseStep, Steps

\* The uses of all the sentences, one sentence after the other.
LEMMA UsesFold ==
  ASSUME CitesChunks
  PROVE  \E run : UseRun(run) /\ Uses = run[Len(draft)]
<1> DEFINE n == Len(draft)
           S == Seq(Citable)
           step == UseStep
           Solves(it) == it = [s \in SUBSET DOMAIN Numbers |->
                                IF s = {} THEN <<>> ELSE UseSentence(it[s \ {Max(s)}], Numbers[Max(s)])]
           fold == CHOOSE it : Solves(it)
           run == [k \in 0..n |-> fold[1..k]]
<1>1. n \in Nat /\ DOMAIN Numbers = 1..n /\ <<>> \in S
  BY NumbersFacts
<1>2. step \in Steps(S, n)
  BY UseStepType, NumbersFacts
<1>3. PICK it : SolvesFold(it, step, <<>>, S, n)
  <2> HIDE DEF step, S
  <2> QED BY <1>1, <1>2, FoldHasValue
<1>4. Solves(it)
  <2>1. ASSUME NEW s \in SUBSET (1..n), s # {}
        PROVE  it[s] = UseSentence(it[s \ {Max(s)}], Numbers[Max(s)])
    <3>1. Max(s) \in 1..n /\ s \ {Max(s)} \in SUBSET (1..n)
      BY <1>1, <2>1, MaxOfPrefix
    <3>2. it[s \ {Max(s)}] \in S
      BY <1>3, <3>1 DEF SolvesFold
    <3> QED BY <1>3, <2>1, <3>1, <3>2 DEF UseStep, SolvesFold
  <2> HIDE DEF n
  <2> QED BY <1>1, <1>3, <2>1 DEF SolvesFold
<1>5. Solves(fold)
  <2> HIDE DEF Solves
  <2> QED BY <1>4
<1>6. Uses = fold[DOMAIN Numbers]
  BY DEF Uses, UseSentence, AddUses, FoldLeftDomain, Numbers, FoldLeft, MapThenFoldSet
<1> HIDE DEF fold
<1>7. Repeats(run, step, <<>>, S, n)
  <2>1. \A s \in SUBSET (1..n) : s = {} => fold[s] = <<>>
    BY <1>5, <1>1
  <2>2. ASSUME NEW k \in 1..n, fold[(1..k) \ {k}] \in S
        PROVE  fold[1..k] = step[<<fold[(1..k) \ {k}], k>>]
    <3>1. 1..k \in SUBSET (1..n) /\ 1..k # {} /\ Max(1..k) = k
      BY <1>1, PrefixWithoutMax
    <3>2. fold[1..k] = UseSentence(fold[(1..k) \ {k}], Numbers[k])
      BY <1>1, <1>5, <3>1
    <3> QED BY <2>2, <3>2 DEF UseStep
  <2> HIDE DEF step, S
  <2>3. OnPrefixes(fold, step, <<>>, S, n)
    BY <2>1, <2>2 DEF OnPrefixes
  <2> QED BY <1>1, <1>2, <2>3, FoldOnPrefixes
<1>8. Uses = run[n]
  BY <1>1, <1>6
<1> HIDE DEF run
<1>9. UseRun(run)
  <2>1. run \in [0..n -> S] /\ run[0] = <<>>
    BY <1>7 DEF Repeats
  <2>2. ASSUME NEW k \in 1..n PROVE run[k] = UseSentence(run[k - 1], Numbers[k])
    <3>1. run[k] = step[<<run[k - 1], k>>] /\ <<run[k - 1], k>> \in S \X (1..n)
      <4> HIDE DEF step, S
      <4> QED BY <1>1, <1>7, RepeatsFacts
    <3> QED BY <3>1 DEF UseStep
  <2> QED BY <2>1, <2>2 DEF UseRun
<1> QED BY <1>8, <1>9

\* What the first k sentences use.
UsedBy(k) == UNION {CitationsIn(Usable(draft[j])) : j \in (1..k) \intersect Emitted}

\* The uses of the first sentences come first.
LEMMA UsesFacts ==
  ASSUME CitesChunks
  PROVE  /\ Uses \in Seq(Citable)
         /\ \A k \in 0..Len(draft) :
              \E p \in 0..Len(Uses) : {Uses[q] : q \in 1..p} = UsedBy(k)
         /\ Range(Uses) = UsedBy(Len(draft))
<1> DEFINE n == Len(draft)
<1>1. PICK run : UseRun(run) /\ Uses = run[n]
  BY UsesFold
<1> DEFINE Done(k) == /\ run[k] \in Seq(Citable) /\ Range(run[k]) = UsedBy(k)
                      /\ \A j \in 0..k : Continues(run[k], run[j])
           G == {k \in 0..n : Done(k)}
<1>2. n \in Nat /\ n \in 0..n /\ DOMAIN draft = 1..n /\ \A k \in 1..n : Numbers[k] = k
  BY NumbersFacts, LenProperties DEF CitesChunks
<1>3. \A k \in 0..n : run[k] \in Seq(Citable)
  BY <1>1 DEF UseRun
<1>4. 0 \in G
  <2>1. run[0] = <<>> /\ 0 \in 0..n
    BY <1>1, <1>2 DEF UseRun
  <2>2. UsedBy(0) = {} /\ Range(<<>>) = {}
    BY DEF UsedBy, Range
  <2>3. Continues(<<>>, <<>>)
    BY DEF Continues
  <2>4. Done(0)
    BY <2>1, <2>2, <2>3
  <2> QED BY <2>1, <2>4
<1>5. ASSUME NEW k \in 0..(n - 1), k \in G PROVE k + 1 \in G
  <2> DEFINE j == k + 1
             v == run[k]
             w == run[j]
  <2>1. j \in 1..n /\ j \in 0..n /\ k \in 0..n /\ j - 1 = k /\ 1..j = (1..k) \union {j}
        /\ 0..j = (0..k) \union {j}
    BY <1>2
  <2>2. Done(k) /\ \A i \in 0..k : run[i] \in Seq(Citable)
    BY <1>2, <1>3, <1>5, <2>1
  <2>3. w = UseSentence(v, j)
    <3>1. w = UseSentence(v, Numbers[j])
      BY <1>1, <2>1 DEF UseRun
    <3> QED BY <1>2, <2>1, <3>1
  <2> HIDE DEF j
  <2>4. v \in Seq(Citable) /\ Range(v) = UsedBy(k)
    BY <2>2
  <2>5. \A i \in 0..k : Continues(v, run[i])
    BY <2>2
  <2> HIDE DEF v, w
  <2>6. /\ w \in Seq(Citable) /\ Continues(w, v)
        /\ Range(w) = Range(v) \union (IF j \in Emitted THEN CitationsIn(Usable(draft[j])) ELSE {})
    BY <1>2, <2>1, <2>3, <2>4, UseCases
  <2>7. UsedBy(j) = UsedBy(k) \union (IF j \in Emitted THEN CitationsIn(Usable(draft[j])) ELSE {})
    <3>1. CASE j \in Emitted
      <4>1. (1..j) \intersect Emitted = ((1..k) \intersect Emitted) \union {j}
        BY <2>1, <3>1
      <4> QED BY <3>1, <4>1 DEF UsedBy
    <3>2. CASE j \notin Emitted
      <4>1. (1..j) \intersect Emitted = (1..k) \intersect Emitted
        BY <2>1, <3>2
      <4> QED BY <3>2, <4>1 DEF UsedBy
    <3> QED BY <3>1, <3>2
  <2>8. \A i \in 0..j : Continues(w, run[i])
    <3>1. Continues(w, w)
      BY <2>6, LenProperties DEF Continues
    <3>2. ASSUME NEW i \in 0..k PROVE Continues(w, run[i])
      <4> DEFINE u == run[i]
      <4>1. Continues(v, u) /\ Len(u) \in Nat /\ Len(v) \in Nat /\ Len(w) \in Nat
        BY <2>2, <2>4, <2>5, <2>6, LenProperties
      <4> HIDE DEF u
      <4>2. Continues(w, u)
        BY <2>6, <4>1 DEF Continues
      <4> QED BY <4>2 DEF u
    <3> QED BY <2>1, <3>1, <3>2 DEF w
  <2>9. Done(j)
    BY <2>4, <2>6, <2>7, <2>8 DEF w
  <2> HIDE DEF Done
  <2> QED BY <2>1, <2>9 DEF j
<1>6. \A k \in 0..n : Done(k)
  <2>1. \A k \in 0..n : k \in G
    <3> HIDE DEF G
    <3> QED BY <1>2, <1>4, <1>5, PrefixInduction
  <2> HIDE DEF Done
  <2> QED BY <2>1
<1>7. Uses \in Seq(Citable) /\ Range(Uses) = UsedBy(n)
  BY <1>1, <1>2, <1>6
<1>8. ASSUME NEW k \in 0..n
     PROVE \E p \in 0..Len(Uses) : {Uses[q] : q \in 1..p} = UsedBy(k)
  <2> DEFINE u == run[k]
             p == Len(u)
  <2>1. u \in Seq(Citable) /\ Range(u) = UsedBy(k)
    BY <1>6
  <2>2. Continues(Uses, u)
    BY <1>1, <1>2, <1>6
  <2> HIDE DEF u
  <2>3. p \in Nat /\ Len(Uses) \in Nat /\ p <= Len(Uses) /\ \A q \in 1..p : Uses[q] = u[q]
    BY <1>7, <2>1, <2>2, LenProperties DEF Continues
  <2>4. Range(u) = {u[q] : q \in 1..p}
    BY <2>1, LenProperties DEF Range
  <2>5. {Uses[q] : q \in 1..p} = {u[q] : q \in 1..p}
    BY <2>3
  <2> QED BY <2>1, <2>3, <2>4, <2>5
<1> QED BY <1>7, <1>8

-----------------------------------------------------------------------------
(* The citations of an answer.                                             *)

\* What CitationsResolve says of the citations of an answer.
Resolves(cs) ==
  /\ IsInjective(cs)
  /\ \A i \in Emitted : \A c \in Range(draft[i].cites) : Range(CitationsOf(c)) \subseteq Range(cs)
  /\ \A k \in DOMAIN cs :
       /\ \E i \in Emitted : cs[k].chunk \in Range(draft[i].cites)
       /\ \A l \in 1..(k - 1), i \in Emitted :
            cs[k].chunk \in Range(draft[i].cites) =>
              \E j \in Emitted : j <= i /\ cs[l].chunk \in Range(draft[j].cites)

\* The citations that an answer is given resolve, and there are some.
LEMMA AllocationResolves ==
  ASSUME CitesChunks, Emitted \subseteq DOMAIN draft,
         \A i \in DOMAIN draft : /\ Usable(draft[i]) = Range(draft[i].cites)
                                 /\ Range(draft[i].cites) # {}
  PROVE  /\ AllocateCitations \in Seq(Citable) /\ Resolves(AllocateCitations)
         /\ Emitted # {} => AllocateCitations # <<>>
<1> DEFINE n == Len(draft)
           cs == AllocateCitations
           Used(k) == UNION {CitationsIn(Range(draft[j].cites)) : j \in (1..k) \intersect Emitted}
<1>1. n \in Nat /\ DOMAIN draft = 1..n
  BY LenProperties DEF CitesChunks
<1>2. /\ Uses \in Seq(Citable)
      /\ \A k \in 0..n : \E p \in 0..Len(Uses) : {Uses[q] : q \in 1..p} = Used(k)
      /\ Range(Uses) = Used(n)
  <2>1. \A k : UsedBy(k) = Used(k)
    BY DEF UsedBy
  <2> QED BY <2>1, UsesFacts
<1>3. Uses \in Seq(Range(Uses)) /\ Range(Uses) \subseteq Citable
  <2> DEFINE u == Uses
  <2>1. u \in Seq(Citable)
    BY <1>2
  <2> HIDE DEF u
  <2>2. u \in Seq(Range(u)) /\ Range(u) \subseteq Citable
    BY <2>1, ElementOfSeq, LenProperties DEF Range
  <2> QED BY <2>2 DEF u
<1>4. /\ cs \in Seq(Range(Uses)) /\ IsInjective(cs) /\ Range(cs) = Range(Uses)
      /\ \A p \in 0..Len(Uses), k \in DOMAIN cs : \A l \in 1..k :
           cs[k] \in {Uses[q] : q \in 1..p} => cs[l] \in {Uses[q] : q \in 1..p}
  BY <1>3, AllocationFacts
<1> HIDE DEF cs
<1>5. cs \in Seq(Citable)
  <2> DEFINE R == Range(Uses)
  <2>1. cs \in Seq(R) /\ R \subseteq Citable
    BY <1>3, <1>4
  <2> HIDE DEF R
  <2> QED BY <2>1
<1>6. DOMAIN cs = 1..Len(cs) /\ Len(cs) \in Nat
  BY <1>5, LenProperties
<1>7. ASSUME NEW i \in Emitted, NEW c \in Range(draft[i].cites)
      PROVE  c \in Chunks /\ Range(CitationsOf(c)) \subseteq Range(cs)
  <2>1. i \in (1..n) \intersect Emitted
    BY <1>1
  <2>2. Range(CitationsOf(c)) \subseteq Used(n)
    BY <2>1 DEF CitationsIn
  <2> HIDE DEF Used
  <2> QED BY <1>2, <1>4, <2>1, <2>2 DEF CitesChunks
<1>8. ASSUME NEW k \in 0..n, NEW x
      PROVE  x \in Used(k) => /\ x \in Range(CitationsOf(x.chunk))
                              /\ \E j \in (1..k) \intersect Emitted : x.chunk \in Range(draft[j].cites)
  <2> SUFFICES ASSUME x \in Used(k)
               PROVE  /\ x \in Range(CitationsOf(x.chunk))
                      /\ \E j \in (1..k) \intersect Emitted : x.chunk \in Range(draft[j].cites)
    OBVIOUS
  <2>1. PICK j \in (1..k) \intersect Emitted : x \in CitationsIn(Range(draft[j].cites))
    OBVIOUS
  <2>2. PICK c \in Range(draft[j].cites) : x \in Range(CitationsOf(c))
    BY <2>1 DEF CitationsIn
  <2>3. c \in Chunks
    BY <2>1 DEF CitesChunks
  <2>4. x.chunk = c
    BY <2>2, <2>3, CitationsType
  <2> HIDE DEF Used
  <2> QED BY <2>1, <2>2, <2>4
<1>9. ASSUME NEW k \in DOMAIN cs
      PROVE  /\ cs[k] \in Range(CitationsOf(cs[k].chunk))
             /\ \E i \in Emitted : cs[k].chunk \in Range(draft[i].cites)
  <2>1. cs[k] \in Range(cs)
    BY DEF Range
  <2>2. cs[k] \in Used(n) /\ n \in 0..n
    BY <1>1, <1>2, <1>4, <2>1
  <2> DEFINE x == cs[k]
  <2> HIDE DEF x, n, Used
  <2>3. /\ x \in Range(CitationsOf(x.chunk))
        /\ \E j \in (1..n) \intersect Emitted : x.chunk \in Range(draft[j].cites)
    BY <1>8, <2>2 DEF x
  <2> QED BY <2>3 DEF x
<1>10. ASSUME NEW k \in DOMAIN cs, NEW l \in 1..(k - 1), NEW i \in Emitted,
              cs[k].chunk \in Range(draft[i].cites)
       PROVE  \E j \in Emitted : j <= i /\ cs[l].chunk \in Range(draft[j].cites)
  <2>1. i \in 0..n /\ i \in 1..n /\ i \in (1..i) \intersect Emitted /\ l \in 1..k
    BY <1>1, <1>6
  <2>2. PICK p \in 0..Len(Uses) : {Uses[q] : q \in 1..p} = Used(i)
    BY <1>2, <2>1
  <2>3. cs[k] \in Used(i)
    <3>1. cs[k] \in CitationsIn(Range(draft[i].cites))
      BY <1>9, <1>10 DEF CitationsIn
    <3> QED BY <2>1, <3>1
  <2> DEFINE x == cs[l]
             V == {Uses[q] : q \in 1..p}
  <2>4. x \in Used(i)
    <3>1. cs[k] \in V
      BY <2>2, <2>3
    <3>2. cs[k] \in V => cs[l] \in V
      BY <1>4, <2>1
    <3> QED BY <2>2, <3>1, <3>2
  <2> HIDE DEF x, Used
  <2>5. \E j \in (1..i) \intersect Emitted : x.chunk \in Range(draft[j].cites)
    BY <1>8, <2>1, <2>4
  <2> QED BY <1>1, <2>1, <2>5 DEF x
<1>11. Resolves(cs)
  BY <1>4, <1>7, <1>9, <1>10 DEF Resolves
<1>12. ASSUME Emitted # {} PROVE cs # <<>>
  <2>1. PICK i \in Emitted : TRUE
    BY <1>12
  <2>2. PICK c \in Range(draft[i].cites) : TRUE
    OBVIOUS
  <2>3. c \in Chunks /\ Range(CitationsOf(c)) \subseteq Range(cs)
    BY <1>7
  <2>4. SourcesOf[c] \in Seq(Range(SourcesOf[c])) /\ SourcesOf[c] # <<>>
    BY <2>3, AnswerAssumption
  <2>5. 1 \in DOMAIN SourcesOf[c]
    BY <2>4
  <2>6. 1 \in DOMAIN CitationsOf(c)
    BY <2>5 DEF CitationsOf
  <2>7. CitationsOf(c)[1] \in Range(CitationsOf(c))
    BY <2>6 DEF Range
  <2>8. Range(<<>>) = {}
    BY DEF Range
  <2> QED BY <2>3, <2>7, <2>8
<1> QED BY <1>5, <1>11, <1>12 DEF cs

-----------------------------------------------------------------------------
(* One query selects fairly. The order of the two ranks is known when      *)
(* the evidence is selected and the ranks are dropped only when the        *)
(* evidence stands.                                                        *)

Retrieving == {"filter", "lexical", "semantic", "select"}

\* The ranks rank only what is eligible, something is ranked when the evidence
\* is selected, and while the ranks stand the evidence is a fair selection.
Ranked ==
  /\ eligible \subseteq Chunks
  /\ pc \in {"lexical", "semantic"} => eligible # {}
  /\ lex \in Rank /\ sem \in Rank
  /\ \A c \in Chunks : lex[c] > 0 \/ sem[c] > 0 => c \in eligible
  /\ pc = "filter" => Candidates(lex, sem) = {}
  /\ pc = "select" => Candidates(lex, sem) # {}

Chosen ==
  /\ accepted \in Seq(Chunks)
  /\ pc \in Retrieving => accepted = <<>>
  /\ pc \notin Retrieving \union {"ended"} => accepted # <<>>
  /\ Candidates(lex, sem) # {} /\ accepted # <<>> =>
       Evidence \subseteq eligible /\ FairSelection(FusedOrder(lex, sem), accepted)

LEMMA UnrankedFacts ==
  /\ Unranked \in Rank /\ Candidates(Unranked, Unranked) = {}
  /\ \A c \in Chunks : ~(Unranked[c] > 0)
BY DEF Unranked, Rank, Candidates

\* One step keeps the ranks true.
LEMMA RankedKeeps ==
  ASSUME Ranked, [AnswerNext]_answerVars PROVE Ranked'
<1>1. ASSUME NEW filters \in Filters, NEW active \in SUBSET Chunks, Filter(filters, active)
     PROVE Ranked'
  <2>1. /\ pc = "filter" /\ pc' = "lexical" /\ lex' = lex /\ sem' = sem
        /\ eligible' \subseteq Chunks /\ eligible' # {}
    BY <1>1 DEF Filter, Passing
  <2>2. \A c \in Chunks : ~(lex[c] > 0 \/ sem[c] > 0)
    BY <2>1 DEF Ranked, Candidates
  <2> QED BY <2>1, <2>2 DEF Ranked
<1>2. ASSUME NEW filters \in Filters, NEW active \in SUBSET Chunks,
             NothingEligible(filters, active) PROVE Ranked'
  BY <1>2 DEF NothingEligible, End, Ranked, retrieved, written, judged
<1>3. ASSUME Unanswerable PROVE Ranked'
  BY <1>3 DEF Unanswerable, End, Ranked, retrieved, written, judged
<1>4. ASSUME IntegrityFailure PROVE Ranked'
  BY <1>4 DEF IntegrityFailure, End, Ranked, retrieved, written, judged
<1>5. ASSUME SelectEvidence PROVE Ranked'
  BY <1>5 DEF SelectEvidence, Ranked, retrieved, written, judged
<1>6. ASSUME NEW score \in [eligible -> Scores], RankByWords(score) PROVE Ranked'
  <2>1. /\ pc = "lexical" /\ pc' = "semantic" /\ lex' = RankLexical(score) /\ sem' = sem
        /\ eligible' = eligible
    BY <1>6 DEF RankByWords
  <2>2. score \in [eligible -> Nat]
    BY AnswerAssumption
  <2>3. lex' \in Rank /\ \A c \in Chunks : lex'[c] > 0 => c \in eligible
    BY <2>1, <2>2, LexicalFacts DEF Ranked
  <2> QED BY <2>1, <2>3 DEF Ranked
<1>7. ASSUME NEW distance \in [eligible -> Distances], RankByMeaning(distance)
     PROVE Ranked'
  <2>1. /\ pc = "semantic" /\ pc' = "select" /\ sem' = RankSemantic(distance) /\ lex' = lex
        /\ eligible' = eligible
    BY <1>7 DEF RankByMeaning
  <2>2. distance \in [eligible -> Nat]
    BY AnswerAssumption
  <2>3. /\ sem' \in Rank /\ \A c \in Chunks : sem'[c] > 0 => c \in eligible
        /\ \E c \in Chunks : sem'[c] > 0
    BY <2>1, <2>2, SemanticFacts DEF Ranked
  <2>4. Candidates(lex, sem)' # {}
    BY <2>3 DEF Candidates
  <2> QED BY <2>1, <2>3, <2>4 DEF Ranked
<1>8. ASSUME NEW n \in 1..MaxFacets, ExtractFacets(n) PROVE Ranked'
  <2>1. eligible' = {} /\ lex' = Unranked /\ sem' = Unranked /\ pc' = "answer"
    BY <1>8 DEF ExtractFacets
  <2>2. \A c \in Chunks : ~(Unranked[c] > 0)
    BY DEF Unranked
  <2> QED BY <2>1, <2>2, UnrankedFacts DEF Ranked
<1>9. ASSUME NEW d \in Drafts, GenerateAnswer(d) PROVE Ranked'
  BY <1>9 DEF GenerateAnswer, Ranked, retrieved, written, judged
<1>10. ASSUME JudgeAtOnce PROVE Ranked'
  BY <1>10 DEF JudgeAtOnce, Judged, Ranked, retrieved, written, judged
<1>11. ASSUME RequestDivision PROVE Ranked'
  BY <1>11 DEF RequestDivision, Ranked, retrieved, written, judged
<1>12. ASSUME NEW response \in Divisions, AcceptDivision(response) PROVE Ranked'
  BY <1>12 DEF AcceptDivision, Ranked, retrieved, written, judged
<1>13. ASSUME NEW response \in Divisions, RetryDivision(response) PROVE Ranked'
  BY <1>13 DEF RetryDivision, Ranked, retrieved, written, judged
<1>14. ASSUME NEW response \in Divisions, RejectDivision(response) PROVE Ranked'
  BY <1>14 DEF RejectDivision, Judged, Ranked, retrieved, written, judged
<1>15. ASSUME ClaimVerbatim PROVE Ranked'
  BY <1>15 DEF ClaimVerbatim, Ranked, retrieved, written, judged
<1>16. ASSUME RequestVerdict PROVE Ranked'
  BY <1>16 DEF RequestVerdict, Ranked, retrieved, written, judged
<1>17. ASSUME JudgeClaims PROVE Ranked'
  BY <1>17 DEF JudgeClaims, Judged, Ranked, retrieved, written, judged
<1>18. ASSUME NEW supported \in BOOLEAN, Entail(supported) PROVE Ranked'
  BY <1>18 DEF Entail, Ranked, retrieved, written, judged
<1>19. ASSUME RequestCoverage PROVE Ranked'
  BY <1>19 DEF RequestCoverage, Ranked, retrieved, written, judged
<1>20. ASSUME NothingEmitted PROVE Ranked'
  BY <1>20 DEF NothingEmitted, End, Ranked, retrieved, written, judged
<1>21. ASSUME Cite PROVE Ranked'
  BY <1>21 DEF Cite, Ranked, retrieved, written, judged
<1>22. ASSUME Answer PROVE Ranked'
  BY <1>22 DEF Answer, End, Ranked, retrieved, written, judged
<1>23. ASSUME RefuseChanged PROVE Ranked'
  BY <1>23 DEF RefuseChanged, End, Ranked, retrieved, written, judged
<1>24. ASSUME NEW rs \in Coverages, Cover(rs) PROVE Ranked'
  BY <1>24 DEF Cover, End, Ranked, retrieved, written, judged
<1>25. ASSUME ProviderFails PROVE Ranked'
  BY <1>25
    DEF ProviderFails, End, CallFails, Exhausted, FinalFailure, Malformed, InvalidTwice,
        Ranked, retrieved, written, judged
<1>26. ASSUME Redial PROVE Ranked'
  BY <1>26 DEF Redial, Ranked, retrieved, written, judged
<1>27. CASE UNCHANGED answerVars
  BY <1>27 DEF answerVars, Ranked, retrieved, written, judged
<1>28. QED
  BY <1>1, <1>2, <1>3, <1>4, <1>5, <1>6, <1>7, <1>8, <1>9, <1>10, <1>11, <1>12, <1>13,
     <1>14, <1>15, <1>16, <1>17, <1>18, <1>19, <1>20, <1>21, <1>22, <1>23, <1>24, <1>25,
     <1>26, <1>27 DEF AnswerNext, RetrievalStep, WritingStep, JudgingStep, ResultStep

\* One step keeps the evidence a fair selection.
LEMMA ChosenKeeps ==
  ASSUME Ranked, Chosen, [AnswerNext]_answerVars PROVE Chosen'
<1>1. ASSUME NEW filters \in Filters, NEW active \in SUBSET Chunks, Filter(filters, active)
     PROVE Chosen'
  BY <1>1 DEF Filter, Chosen, Retrieving, Evidence, retrieved, written, judged
<1>2. ASSUME NEW filters \in Filters, NEW active \in SUBSET Chunks,
             NothingEligible(filters, active) PROVE Chosen'
  BY <1>2 DEF NothingEligible, End, Chosen, Retrieving, Evidence, retrieved, written, judged
<1>3. ASSUME Unanswerable PROVE Chosen'
  BY <1>3 DEF Unanswerable, End, Chosen, Retrieving, Evidence, retrieved, written, judged
<1>4. ASSUME IntegrityFailure PROVE Chosen'
  BY <1>4
    DEF IntegrityFailure, End, Chosen, Retrieving, Evidence, retrieved, written, judged
<1>5. ASSUME SelectEvidence PROVE Chosen'
  <2>1. /\ pc = "select" /\ pc' = "facets" /\ accepted' = Select(FusedOrder(lex, sem))
        /\ UNCHANGED <<eligible, lex, sem>>
    BY <1>5 DEF SelectEvidence
  <2>2. lex \in Rank /\ sem \in Rank /\ Candidates(lex, sem) # {}
    BY <2>1 DEF Ranked
  <2> DEFINE order == FusedOrder(lex, sem)
  <2>3. /\ FairSelection(order, accepted') /\ accepted' \in Seq(Chunks) /\ accepted' # <<>>
        /\ Range(accepted') \subseteq Candidates(lex, sem)
    BY <2>1, <2>2, EvidenceFacts
  <2>4. Candidates(lex, sem) \subseteq eligible
    BY DEF Ranked, Candidates
  <2>5. order' = order
    BY <2>1
  <2> HIDE DEF order
  <2>6. FairSelection(order', accepted')
    BY <2>3, <2>5
  <2>7. Evidence' \subseteq eligible'
    BY <2>1, <2>3, <2>4 DEF Evidence
  <2> QED BY <2>1, <2>3, <2>6, <2>7 DEF Chosen, Retrieving, order
<1>6. ASSUME NEW score \in [eligible -> Scores], RankByWords(score) PROVE Chosen'
  BY <1>6 DEF RankByWords, Chosen, Retrieving, Evidence, retrieved, written, judged
<1>7. ASSUME NEW distance \in [eligible -> Distances], RankByMeaning(distance)
     PROVE Chosen'
  BY <1>7 DEF RankByMeaning, Chosen, Retrieving, Evidence, retrieved, written, judged
<1>8. ASSUME NEW n \in 1..MaxFacets, ExtractFacets(n) PROVE Chosen'
  <2>1. /\ lex' = Unranked /\ sem' = Unranked /\ pc = "facets" /\ pc' = "answer"
        /\ accepted' = accepted
    BY <1>8 DEF ExtractFacets
  <2>2. Candidates(lex, sem)' = {}
    BY <2>1, UnrankedFacts
  <2> QED BY <2>1, <2>2 DEF Chosen, Retrieving
<1>9. ASSUME NEW d \in Drafts, GenerateAnswer(d) PROVE Chosen'
  BY <1>9 DEF GenerateAnswer, Chosen, Retrieving, Evidence, retrieved, written, judged
<1>10. ASSUME JudgeAtOnce PROVE Chosen'
  BY <1>10 DEF JudgeAtOnce, Judged, Chosen, Retrieving, Evidence, retrieved, written, judged
<1>11. ASSUME RequestDivision PROVE Chosen'
  BY <1>11 DEF RequestDivision, Chosen, Retrieving, Evidence, retrieved, written, judged
<1>12. ASSUME NEW response \in Divisions, AcceptDivision(response) PROVE Chosen'
  BY <1>12 DEF AcceptDivision, Chosen, Retrieving, Evidence, retrieved, written, judged
<1>13. ASSUME NEW response \in Divisions, RetryDivision(response) PROVE Chosen'
  BY <1>13 DEF RetryDivision, Chosen, Retrieving, Evidence, retrieved, written, judged
<1>14. ASSUME NEW response \in Divisions, RejectDivision(response) PROVE Chosen'
  BY <1>14
    DEF RejectDivision, Judged, Chosen, Retrieving, Evidence, retrieved, written, judged
<1>15. ASSUME ClaimVerbatim PROVE Chosen'
  BY <1>15 DEF ClaimVerbatim, Chosen, Retrieving, Evidence, retrieved, written, judged
<1>16. ASSUME RequestVerdict PROVE Chosen'
  BY <1>16 DEF RequestVerdict, Chosen, Retrieving, Evidence, retrieved, written, judged
<1>17. ASSUME JudgeClaims PROVE Chosen'
  BY <1>17 DEF JudgeClaims, Judged, Chosen, Retrieving, Evidence, retrieved, written, judged
<1>18. ASSUME NEW supported \in BOOLEAN, Entail(supported) PROVE Chosen'
  BY <1>18 DEF Entail, Chosen, Retrieving, Evidence, retrieved, written, judged
<1>19. ASSUME RequestCoverage PROVE Chosen'
  BY <1>19 DEF RequestCoverage, Chosen, Retrieving, Evidence, retrieved, written, judged
<1>20. ASSUME NothingEmitted PROVE Chosen'
  BY <1>20 DEF NothingEmitted, End, Chosen, Retrieving, Evidence, retrieved, written, judged
<1>21. ASSUME Cite PROVE Chosen'
  BY <1>21 DEF Cite, Chosen, Retrieving, Evidence, retrieved, written, judged
<1>22. ASSUME Answer PROVE Chosen'
  BY <1>22 DEF Answer, End, Chosen, Retrieving, Evidence, retrieved, written, judged
<1>23. ASSUME RefuseChanged PROVE Chosen'
  BY <1>23 DEF RefuseChanged, End, Chosen, Retrieving, Evidence, retrieved, written, judged
<1>24. ASSUME NEW rs \in Coverages, Cover(rs) PROVE Chosen'
  BY <1>24 DEF Cover, End, Chosen, Retrieving, Evidence, retrieved, written, judged
<1>25. ASSUME ProviderFails PROVE Chosen'
  BY <1>25
    DEF ProviderFails, End, CallFails, Exhausted, FinalFailure, Malformed, InvalidTwice,
        Chosen, Retrieving, Evidence, retrieved, written, judged
<1>26. ASSUME Redial PROVE Chosen'
  BY <1>26 DEF Redial, Chosen, Retrieving, Evidence, retrieved, written, judged
<1>27. CASE UNCHANGED answerVars
  BY <1>27 DEF answerVars, Chosen, Retrieving, Evidence, retrieved, written, judged
<1>28. QED
  BY <1>1, <1>2, <1>3, <1>4, <1>5, <1>6, <1>7, <1>8, <1>9, <1>10, <1>11, <1>12, <1>13,
     <1>14, <1>15, <1>16, <1>17, <1>18, <1>19, <1>20, <1>21, <1>22, <1>23, <1>24, <1>25,
     <1>26, <1>27 DEF AnswerNext, RetrievalStep, WritingStep, JudgingStep, ResultStep

\* The evidence is a fair selection of what the rankings found.
THEOREM SelectionIsFairAlways == AnswerSpec => []SelectionIsFair
<1> DEFINE Inv == Ranked /\ Chosen
<1>1. AnswerInit => Inv
  BY UnrankedFacts DEF AnswerInit, Ranked, Chosen, Retrieving
<1>2. Inv /\ [AnswerNext]_answerVars => Inv'
  BY RankedKeeps, ChosenKeeps
<1>3. Inv => SelectionIsFair
  <2>1. ASSUME Ranked, Chosen, Candidates(lex, sem) # {}, accepted # <<>>
        PROVE  SelectionIsFair
    <3>1. /\ Evidence \subseteq eligible
          /\ FairSelection(FusedOrder(lex, sem), accepted)
          /\ lex \in Rank /\ sem \in Rank
      BY <2>1 DEF Ranked, Chosen
    <3> DEFINE order == FusedOrder(lex, sem)
               before(rank, c, d) == rank[d] = 0 \/ rank[c] \in 1..(rank[d] - 1)
    <3>2. ASSUME NEW i \in DOMAIN order, NEW j \in DOMAIN order,
                 before(lex, order[i], order[j]), before(sem, order[i], order[j])
          PROVE  i < j
      BY <3>1, <3>2, FusedOrderAgrees DEF Before
    <3> HIDE DEF before
    <3>3. SelectionIsFair <=>
            (Candidates(lex, sem) # {} /\ accepted # <<>> =>
               /\ Evidence \subseteq eligible
               /\ FairSelection(order, accepted)
               /\ \A i, j \in DOMAIN order :
                    (i # j /\ before(lex, order[i], order[j]) /\ before(sem, order[i], order[j]))
                      => i < j)
      BY DEF SelectionIsFair, before
    <3> HIDE DEF order
    <3>4. FairSelection(order, accepted)
      BY <3>1 DEF order
    <3> QED BY <3>1, <3>2, <3>3, <3>4
  <2> QED BY <2>1 DEF SelectionIsFair
<1> QED
  BY <1>1, <1>2, <1>3, PTL DEF AnswerSpec

-----------------------------------------------------------------------------
(* One query cites fairly. What an answer rests on does not move between   *)
(* the allocation and the answer.                                          *)

\* An answer, given or about to be given, has citations that resolve.
Cited ==
  /\ outcome # "none" => pc = "ended"
  /\ pc \in {"coverage", "cite"} => Emitted # {}
  /\ pc = "recheck" \/ outcome = "answered" =>
       /\ citations \in Seq(Citable) /\ citations # <<>> /\ Resolves(citations)
       /\ \A k \in DOMAIN citations : citations[k].chunk \in Evidence

LEMMA CitedStays ==
  ASSUME Cited, pc = "recheck" \/ outcome = "answered",
         UNCHANGED <<citations, fates, draft, accepted>>
  PROVE  /\ citations' \in Seq(Citable) /\ citations' # <<>> /\ Resolves(citations)'
         /\ \A k \in DOMAIN citations' : citations'[k].chunk \in Evidence'
<1>1. Resolves(citations)' <=> Resolves(citations)
  BY DEF Resolves, Emitted
<1>2. Evidence' = Evidence
  BY DEF Evidence
<1> QED BY <1>1, <1>2 DEF Cited

\* The citations allocated for the emitted sentences.
LEMMA CitationsAllocated ==
  ASSUME FateInv, accepted \in Seq(Chunks), Emitted # {}
  PROVE  /\ AllocateCitations \in Seq(Citable) /\ AllocateCitations # <<>>
         /\ Resolves(AllocateCitations)
         /\ \A k \in DOMAIN AllocateCitations : AllocateCitations[k].chunk \in Evidence
<1>1. /\ draft \in Seq(Range(draft)) /\ InSequence(draft) /\ Emitted \subseteq DOMAIN draft
      /\ \A i \in DOMAIN draft : /\ Len(draft[i].cites) \in 1..MaxCited
                                 /\ Range(draft[i].cites) \subseteq Evidence
  <2>1. Emitted \subseteq DOMAIN draft
    BY DEF FateInv, Progress, Emitted
  <2> QED BY <2>1 DEF FateInv, Progress, ValidDraft
<1>2. Evidence \subseteq Chunks
  BY DEF Evidence, Range
<1>3. CitesChunks
  BY <1>1, <1>2 DEF CitesChunks
<1>4. \A i \in DOMAIN draft : /\ Usable(draft[i]) = Range(draft[i].cites)
                              /\ Range(draft[i].cites) # {}
  <2>1. ASSUME NEW i \in DOMAIN draft PROVE Range(draft[i].cites) # {}
    <3>1. draft[i].cites \in Seq(Range(draft[i].cites)) /\ Len(draft[i].cites) \in 1..MaxCited
      BY <1>1 DEF InSequence
    <3> DEFINE cs == draft[i].cites
    <3>2. cs \in Seq(Range(cs)) /\ Len(cs) \in 1..MaxCited
      BY <3>1
    <3> HIDE DEF cs
    <3>3. 1 \in DOMAIN cs
      BY <3>2, AnswerAssumption
    <3>4. cs[1] \in Range(cs)
      BY <3>3 DEF Range
    <3> QED BY <3>4 DEF cs
  <2> QED BY <1>1, <2>1 DEF Usable
<1>5. /\ AllocateCitations \in Seq(Citable) /\ Resolves(AllocateCitations)
      /\ AllocateCitations # <<>>
  BY <1>1, <1>3, <1>4, AllocationResolves
<1>6. \A k \in DOMAIN AllocateCitations : AllocateCitations[k].chunk \in Evidence
  <2> DEFINE cs == AllocateCitations
  <2>1. \A k \in DOMAIN cs : \E i \in Emitted : cs[k].chunk \in Range(draft[i].cites)
    BY <1>5 DEF Resolves
  <2> HIDE DEF cs
  <2>2. \A k \in DOMAIN cs : cs[k].chunk \in Evidence
    BY <1>1, <2>1
  <2> QED BY <2>2 DEF cs
<1> QED BY <1>5, <1>6

\* One step keeps the citations of an answer true of its sentences.
LEMMA CitedKeeps ==
  ASSUME FateInv, Chosen, Cited, [AnswerNext]_answerVars PROVE Cited'
<1>1. ASSUME NEW filters \in Filters, NEW active \in SUBSET Chunks, Filter(filters, active)
     PROVE Cited'
  BY <1>1 DEF Filter, Cited
<1>2. ASSUME NEW filters \in Filters, NEW active \in SUBSET Chunks,
             NothingEligible(filters, active) PROVE Cited'
  BY <1>2 DEF NothingEligible, End, Cited
<1>3. ASSUME Unanswerable PROVE Cited'
  BY <1>3 DEF Unanswerable, End, Cited
<1>4. ASSUME IntegrityFailure PROVE Cited'
  BY <1>4 DEF IntegrityFailure, End, Cited
<1>5. ASSUME SelectEvidence PROVE Cited'
  BY <1>5 DEF SelectEvidence, Cited
<1>6. ASSUME NEW score \in [eligible -> Scores], RankByWords(score) PROVE Cited'
  BY <1>6 DEF RankByWords, Cited
<1>7. ASSUME NEW distance \in [eligible -> Distances], RankByMeaning(distance)
     PROVE Cited'
  BY <1>7 DEF RankByMeaning, Cited
<1>8. ASSUME NEW n \in 1..MaxFacets, ExtractFacets(n) PROVE Cited'
  BY <1>8 DEF ExtractFacets, Cited
<1>9. ASSUME NEW d \in Drafts, GenerateAnswer(d) PROVE Cited'
  BY <1>9 DEF GenerateAnswer, Cited
<1>10. ASSUME JudgeAtOnce PROVE Cited'
  BY <1>10 DEF JudgeAtOnce, Judged, Cited
<1>11. ASSUME RequestDivision PROVE Cited'
  BY <1>11 DEF RequestDivision, Cited
<1>12. ASSUME NEW response \in Divisions, AcceptDivision(response) PROVE Cited'
  BY <1>12 DEF AcceptDivision, Cited
<1>13. ASSUME NEW response \in Divisions, RetryDivision(response) PROVE Cited'
  BY <1>13 DEF RetryDivision, Cited
<1>14. ASSUME NEW response \in Divisions, RejectDivision(response) PROVE Cited'
  BY <1>14 DEF RejectDivision, Judged, Cited
<1>15. ASSUME ClaimVerbatim PROVE Cited'
  BY <1>15 DEF ClaimVerbatim, Cited
<1>16. ASSUME RequestVerdict PROVE Cited'
  BY <1>16 DEF RequestVerdict, Cited
<1>17. ASSUME JudgeClaims PROVE Cited'
  BY <1>17 DEF JudgeClaims, Judged, Cited
<1>18. ASSUME NEW supported \in BOOLEAN, Entail(supported) PROVE Cited'
  BY <1>18 DEF Entail, Cited
<1>19. ASSUME RequestCoverage PROVE Cited'
  <2>1. /\ pc = "sentence" /\ pc' = "coverage" /\ Emitted # {} /\ UNCHANGED <<fates, outcome>>
    BY <1>19 DEF RequestCoverage, judged
  <2>2. Emitted' = Emitted
    BY <2>1 DEF Emitted
  <2> QED BY <2>1, <2>2 DEF Cited
<1>20. ASSUME NothingEmitted PROVE Cited'
  BY <1>20 DEF NothingEmitted, End, Cited
<1>21. ASSUME Cite PROVE Cited'
  <2>1. /\ pc = "cite" /\ pc' = "recheck" /\ citations' = AllocateCitations
        /\ UNCHANGED <<fates, draft, accepted, outcome>>
    BY <1>21 DEF Cite, retrieved, written, judged
  <2>2. Emitted # {} /\ accepted \in Seq(Chunks) /\ outcome = "none"
    BY <2>1 DEF Cited, Chosen
  <2> DEFINE cs == AllocateCitations
  <2>3. /\ cs \in Seq(Citable) /\ cs # <<>> /\ Resolves(cs)
        /\ \A k \in DOMAIN cs : cs[k].chunk \in Evidence
    BY <2>2, CitationsAllocated
  <2>4. citations' = cs
    BY <2>1
  <2> HIDE DEF cs
  <2>6. Resolves(citations)'
    BY <2>1, <2>3, <2>4 DEF Resolves, Emitted
  <2>7. Evidence' = Evidence
    BY <2>1 DEF Evidence
  <2> QED BY <2>1, <2>2, <2>3, <2>4, <2>6, <2>7 DEF Cited
<1>22. ASSUME Answer PROVE Cited'
  <2>1. pc = "recheck" /\ pc' = "ended" /\ UNCHANGED <<citations, fates, draft, accepted>>
    BY <1>22 DEF Answer, End, retrieved, written, judged, shown
  <2> QED BY <2>1, CitedStays DEF Cited
<1>23. ASSUME RefuseChanged PROVE Cited'
  BY <1>23 DEF RefuseChanged, End, Cited
<1>24. ASSUME NEW rs \in Coverages, Cover(rs) PROVE Cited'
  <2>1. /\ pc = "coverage" /\ Emitted' = Emitted
        /\ \/ pc' = "ended" /\ outcome' = "claim_verification"
           \/ pc' = "cite" /\ outcome' = outcome
    BY <1>24 DEF Cover, End, Emitted, judged
  <2> QED BY <2>1 DEF Cited
<1>25. ASSUME ProviderFails PROVE Cited'
  BY <1>25
    DEF ProviderFails, End, CallFails, Exhausted, FinalFailure, Malformed, InvalidTwice,
        Cited
<1>26. ASSUME Redial PROVE Cited'
  <2>1. UNCHANGED <<pc, outcome, citations, fates, draft, accepted>>
    BY <1>26 DEF Redial, retrieved, written, judged, shown
  <2>2. Emitted' = Emitted
    BY <2>1 DEF Emitted
  <2> QED BY <2>1, <2>2, CitedStays DEF Cited
<1>27. CASE UNCHANGED answerVars
  <2>1. UNCHANGED <<pc, outcome, citations, fates, draft, accepted>>
    BY <1>27 DEF answerVars, retrieved, written, judged, shown
  <2>2. Emitted' = Emitted
    BY <2>1 DEF Emitted
  <2> QED BY <2>1, <2>2, CitedStays DEF Cited
<1>28. QED
  BY <1>1, <1>2, <1>3, <1>4, <1>5, <1>6, <1>7, <1>8, <1>9, <1>10, <1>11, <1>12, <1>13,
     <1>14, <1>15, <1>16, <1>17, <1>18, <1>19, <1>20, <1>21, <1>22, <1>23, <1>24, <1>25,
     <1>26, <1>27 DEF AnswerNext, RetrievalStep, WritingStep, JudgingStep, ResultStep

AnswerInv == CallInv /\ FateInv /\ Asked /\ Ranked /\ Chosen /\ Cited

LEMMA AnswerInvHolds ==
  /\ AnswerInit => AnswerInv
  /\ AnswerInv /\ [AnswerNext]_answerVars => AnswerInv'
<1>1. AnswerInit => CallInv /\ FateInv /\ Asked
  BY CallAssumption, AnswerAssumption
    DEF AnswerInit, CallInit, CallInv, CallTypeOK, Calling, NoCall, Asked, FateInv,
        Progress,
        Early, Undecided, FatesFollowVerdicts, ValidDraft, IsInjective, Range, InSequence
<1>2. AnswerInit => Ranked /\ Chosen /\ Cited
  BY UnrankedFacts DEF AnswerInit, Ranked, Chosen, Retrieving, Cited
<1>3. AnswerInv /\ [AnswerNext]_answerVars => AnswerInv'
  BY StepsAreCalls, CallStepKeeps, FatesKeep, AskedKeeps, RankedKeeps, ChosenKeeps,
     CitedKeeps
    DEF AnswerInv
<1> QED BY <1>1, <1>2, <1>3 DEF AnswerInv

\* The citations of an answer resolve.
THEOREM CitationsResolveAlways == AnswerSpec => []CitationsResolve
<1>1. AnswerInv => CitationsResolve
  <2> SUFFICES ASSUME AnswerInv, outcome = "answered" PROVE CitationsResolve
    BY DEF CitationsResolve
  <2>1. citations \in Seq(Citable) /\ Resolves(citations)
    BY DEF AnswerInv, Cited
  <2>2. \A k \in DOMAIN citations, i \in Emitted :
          k \in Marks(i) <=> citations[k].chunk \in Range(draft[i].cites)
    BY DEF Marks
  <2>3. \A k \in DOMAIN citations : \A l \in 1..(k - 1) : l \in DOMAIN citations
    BY <2>1
  <2>4. /\ IsInjective(citations)
        /\ \A i \in Emitted : \A c \in Range(draft[i].cites) :
             Range(CitationsOf(c)) \subseteq Range(citations)
    BY <2>1 DEF Resolves
  <2>5. ASSUME NEW k \in DOMAIN citations PROVE \E i \in Emitted : k \in Marks(i)
    BY <2>1, <2>2 DEF Resolves
  <2>6. ASSUME NEW k \in DOMAIN citations, NEW l \in 1..(k - 1), NEW i \in Emitted, k \in Marks(i)
        PROVE  \E j \in Emitted : j <= i /\ l \in Marks(j)
    <3>1. citations[k].chunk \in Range(draft[i].cites)
      BY <2>2, <2>6
    <3>2. PICK j \in Emitted : j <= i /\ citations[l].chunk \in Range(draft[j].cites)
      BY <2>1, <3>1 DEF Resolves
    <3>3. l \in DOMAIN citations
      BY <2>3
    <3> QED BY <2>2, <3>2, <3>3
  <2> QED BY <2>4, <2>5, <2>6 DEF CitationsResolve
<1> QED
  BY <1>1, AnswerInvHolds, PTL DEF AnswerSpec

\* A request is under way only at the stages that wait for one.
Placed ==
  Calling => /\ pc \in {"semantic", "facets", "answer", "decompose", "claim", "coverage"}
             /\ pc = "claim" => call.op = "entailment"

\* One step keeps the requests in their stages.
LEMMA PlacedKeeps ==
  ASSUME CallInv, Asked, Placed, [AnswerNext]_answerVars PROVE Placed'
<1>1. ASSUME NEW filters \in Filters, NEW active \in SUBSET Chunks, Filter(filters, active)
     PROVE Placed'
  BY <1>1 DEF Filter, Placed, Calling, Dial, HangUp, NoCall, callVars, Replied, Asked
<1>2. ASSUME NEW filters \in Filters, NEW active \in SUBSET Chunks,
             NothingEligible(filters, active) PROVE Placed'
  BY <1>2
    DEF NothingEligible, End, Placed, Calling, Dial, HangUp, NoCall, callVars, Replied,
        Asked
<1>3. ASSUME Unanswerable PROVE Placed'
  BY <1>3
    DEF Unanswerable, End, Placed, Calling, Dial, HangUp, NoCall, callVars, Replied, Asked
<1>4. ASSUME IntegrityFailure PROVE Placed'
  BY <1>4
    DEF IntegrityFailure, End, Placed, Calling, Dial, HangUp, NoCall, callVars, Replied,
        Asked
<1>5. ASSUME SelectEvidence PROVE Placed'
  BY <1>5
    DEF SelectEvidence, Placed, Calling, Dial, HangUp, NoCall, callVars, Replied, Asked
<1>6. ASSUME NEW score \in [eligible -> Scores], RankByWords(score) PROVE Placed'
  BY <1>6 DEF RankByWords, Placed, Calling, Dial, HangUp, NoCall, callVars, Replied, Asked
<1>7. ASSUME NEW distance \in [eligible -> Distances], RankByMeaning(distance)
     PROVE Placed'
  BY <1>7 DEF RankByMeaning, Placed, Calling, Dial, HangUp, NoCall, callVars, Replied, Asked
<1>8. ASSUME NEW n \in 1..MaxFacets, ExtractFacets(n) PROVE Placed'
  BY <1>8 DEF ExtractFacets, Placed, Calling, Dial, HangUp, NoCall, callVars, Replied, Asked
<1>9. ASSUME NEW d \in Drafts, GenerateAnswer(d) PROVE Placed'
  BY <1>9
    DEF GenerateAnswer, Placed, Calling, Dial, HangUp, NoCall, callVars, Replied, Asked
<1>10. ASSUME JudgeAtOnce PROVE Placed'
  BY <1>10
    DEF JudgeAtOnce, Judged, Placed, Calling, Dial, HangUp, NoCall, callVars, Replied, Asked
<1>11. ASSUME RequestDivision PROVE Placed'
  BY <1>11
    DEF RequestDivision, Placed, Calling, Dial, HangUp, NoCall, callVars, Replied, Asked
<1>12. ASSUME NEW response \in Divisions, AcceptDivision(response) PROVE Placed'
  BY <1>12
    DEF AcceptDivision, Placed, Calling, Dial, HangUp, NoCall, callVars, Replied, Asked
<1>13. ASSUME NEW response \in Divisions, RetryDivision(response) PROVE Placed'
  BY <1>13
    DEF RetryDivision, Placed, Calling, Dial, HangUp, NoCall, callVars, Replied, Asked
<1>14. ASSUME NEW response \in Divisions, RejectDivision(response) PROVE Placed'
  BY <1>14
    DEF RejectDivision, Judged, Placed, Calling, Dial, HangUp, NoCall, callVars, Replied,
        Asked
<1>15. ASSUME ClaimVerbatim PROVE Placed'
  BY <1>15
    DEF ClaimVerbatim, Placed, Calling, Dial, HangUp, NoCall, callVars, Replied, Asked
<1>16. ASSUME RequestVerdict PROVE Placed'
  BY <1>16
    DEF RequestVerdict, Placed, Calling, Dial, HangUp, NoCall, callVars, Replied, Asked
<1>17. ASSUME JudgeClaims PROVE Placed'
  BY <1>17
    DEF JudgeClaims, Judged, Placed, Calling, Dial, HangUp, NoCall, callVars, Replied, Asked
<1>18. ASSUME NEW supported \in BOOLEAN, Entail(supported) PROVE Placed'
  BY <1>18 DEF Entail, Placed, Calling, Dial, HangUp, NoCall, callVars, Replied, Asked
<1>19. ASSUME RequestCoverage PROVE Placed'
  BY <1>19
    DEF RequestCoverage, Placed, Calling, Dial, HangUp, NoCall, callVars, Replied, Asked
<1>20. ASSUME NothingEmitted PROVE Placed'
  BY <1>20
    DEF NothingEmitted, End, Placed, Calling, Dial, HangUp, NoCall, callVars, Replied, Asked
<1>21. ASSUME Cite PROVE Placed'
  BY <1>21 DEF Cite, Placed, Calling, Dial, HangUp, NoCall, callVars, Replied, Asked
<1>22. ASSUME Answer PROVE Placed'
  BY <1>22 DEF Answer, End, Placed, Calling, Dial, HangUp, NoCall, callVars, Replied, Asked
<1>23. ASSUME RefuseChanged PROVE Placed'
  BY <1>23
    DEF RefuseChanged, End, Placed, Calling, Dial, HangUp, NoCall, callVars, Replied, Asked
<1>24. ASSUME NEW rs \in Coverages, Cover(rs) PROVE Placed'
  BY <1>24 DEF Cover, End, Placed, Calling, Dial, HangUp, NoCall, callVars, Replied, Asked
<1>25. ASSUME ProviderFails PROVE Placed'
  BY <1>25
    DEF ProviderFails, End, CallFails, Exhausted, FinalFailure, Malformed, InvalidTwice,
               Placed, HangUp, Calling, NoCall
<1>26. ASSUME Redial PROVE Placed'
  <2>1. pc' = pc /\ Calling
    BY <1>26 DEF Redial, Retry, Repair, Calling, Structured
  <2>2. call'.op = call.op
    BY <1>26 DEF Redial, Retry, Repair, CallInv, CallTypeOK, NoCall
  <2> QED BY <2>1, <2>2 DEF Placed, Calling
<1>27. CASE UNCHANGED answerVars
  BY <1>27 DEF answerVars, Placed, Calling, Dial, HangUp, NoCall, callVars, Replied, Asked
<1>28. QED
  BY <1>1, <1>2, <1>3, <1>4, <1>5, <1>6, <1>7, <1>8, <1>9, <1>10, <1>11, <1>12, <1>13,
     <1>14, <1>15, <1>16, <1>17, <1>18, <1>19, <1>20, <1>21, <1>22, <1>23, <1>24, <1>25,
     <1>26, <1>27 DEF AnswerNext, RetrievalStep, WritingStep, JudgingStep, ResultStep

-----------------------------------------------------------------------------
(* The refinement. *)

Phase ==
  IF pc \in Retrieving THEN "asked"
  ELSE IF pc # "ended" THEN "gathered"
  ELSE IF outcome \in {"retrieval", "claim_verification"} THEN "abstained"
  ELSE IF outcome = "answered" THEN "answered" ELSE "failed"

CitedChunks ==
  IF outcome # "answered" THEN {} ELSE {citations[k].chunk : k \in DOMAIN citations}

\* What a step is in the promise.
PromisedStep ==
  \/ UNCHANGED <<Phase, Evidence, CitedChunks>>
  \/ /\ Phase = "asked" /\ Phase' = "gathered" /\ CitedChunks' = CitedChunks
     /\ Evidence' # {} /\ Evidence' \subseteq Chunks
  \/ /\ Phase = "gathered" /\ Phase' = "answered" /\ Evidence' = Evidence
     /\ CitedChunks' # {} /\ CitedChunks' \subseteq Evidence /\ Evidence \subseteq Chunks
  \/ /\ Phase \in {"asked", "gathered"} /\ Phase' \in {"abstained", "failed"}
     /\ Evidence' = Evidence /\ CitedChunks' = CitedChunks

LEMMA PromisedStepIs == PromisedStep => [Promise!Next]_(Promise!promiseVars)
<1>1. ASSUME UNCHANGED <<Phase, Evidence, CitedChunks>>
      PROVE  UNCHANGED Promise!promiseVars
  BY <1>1 DEF Promise!promiseVars, Phase, CitedChunks, Retrieving
<1>2. ASSUME Phase = "asked", Phase' = "gathered", CitedChunks' = CitedChunks,
             Evidence' # {}, Evidence' \subseteq Chunks
      PROVE  Promise!Gather(Evidence')
  BY <1>2 DEF Promise!Gather, Phase, CitedChunks, Retrieving
<1>3. ASSUME Phase = "gathered", Phase' = "answered", Evidence' = Evidence,
             CitedChunks' # {}, CitedChunks' \subseteq Evidence
      PROVE  Promise!Answer(CitedChunks')
  BY <1>3 DEF Promise!Answer, Phase, CitedChunks, Retrieving
<1>4. ASSUME Phase \in {"asked", "gathered"}, Phase' \in {"abstained", "failed"},
             Evidence' = Evidence, CitedChunks' = CitedChunks
      PROVE  Promise!GiveUp
  BY <1>4 DEF Promise!GiveUp, Phase, CitedChunks, Retrieving
<1>5. Promise!GiveUp => Promise!Next
  BY DEF Promise!Next
<1>6. ASSUME Phase = "gathered", Phase' = "answered", Evidence' = Evidence,
             CitedChunks' # {}, CitedChunks' \subseteq Evidence, Evidence \subseteq Chunks
      PROVE  Promise!Next
  <2>1. PICK C \in SUBSET Chunks : C = CitedChunks'
    BY <1>6
  <2>2. Promise!Answer(C)
    BY <1>3, <1>6, <2>1 DEF Promise!Answer
  <2> QED BY <2>2 DEF Promise!Next
<1>7. ASSUME Phase = "asked", Phase' = "gathered", CitedChunks' = CitedChunks,
             Evidence' # {}, Evidence' \subseteq Chunks
      PROVE  Promise!Next
  <2>1. Evidence' \in SUBSET Chunks
    BY <1>7
  <2>2. Promise!Gather(Evidence')
    BY <1>2, <1>7
  <2> QED BY <2>1, <2>2 DEF Promise!Next
<1> QED
  BY <1>1, <1>4, <1>5, <1>6, <1>7 DEF PromisedStep

\* Each step is one of the promise or none.
LEMMA StepsArePromised ==
  ASSUME Chosen, Chosen', Cited, Placed, [AnswerNext]_answerVars PROVE PromisedStep
<1>1. ASSUME NEW filters \in Filters, NEW active \in SUBSET Chunks, Filter(filters, active)
     PROVE PromisedStep
  BY <1>1
    DEF Filter, PromisedStep, Phase, CitedChunks, Retrieving, Evidence, Cited, retrieved,
        shown, Placed
<1>2. ASSUME NEW filters \in Filters, NEW active \in SUBSET Chunks,
             NothingEligible(filters, active) PROVE PromisedStep
  BY <1>2
    DEF NothingEligible, End, PromisedStep, Phase, CitedChunks, Retrieving, Evidence, Cited,
        retrieved, shown, Placed
<1>3. ASSUME Unanswerable PROVE PromisedStep
  BY <1>3
    DEF Unanswerable, End, PromisedStep, Phase, CitedChunks, Retrieving, Evidence, Cited,
        retrieved, shown, Placed
<1>4. ASSUME IntegrityFailure PROVE PromisedStep
  BY <1>4
    DEF IntegrityFailure, End, PromisedStep, Phase, CitedChunks, Retrieving, Evidence,
        Cited, retrieved, shown, Placed
<1>5. ASSUME SelectEvidence PROVE PromisedStep
  <2>1. /\ pc = "select" /\ pc' = "facets" /\ outcome' = outcome /\ citations' = citations
    BY <1>5 DEF SelectEvidence, shown
  <2>2. accepted' \in Seq(Chunks) /\ accepted' # <<>>
    BY <2>1 DEF Chosen, Retrieving
  <2>3. Evidence' # {} /\ Evidence' \subseteq Chunks
    <3>1. 1 \in DOMAIN accepted'
      BY <2>2
    <3> QED BY <2>2, <3>1 DEF Evidence, Range
  <2> QED BY <2>1, <2>3 DEF PromisedStep, Phase, CitedChunks, Retrieving
<1>6. ASSUME NEW score \in [eligible -> Scores], RankByWords(score) PROVE PromisedStep
  BY <1>6
    DEF RankByWords, PromisedStep, Phase, CitedChunks, Retrieving, Evidence, Cited,
        retrieved, shown, Placed
<1>7. ASSUME NEW distance \in [eligible -> Distances], RankByMeaning(distance)
     PROVE PromisedStep
  BY <1>7
    DEF RankByMeaning, PromisedStep, Phase, CitedChunks, Retrieving, Evidence, Cited,
        retrieved, shown, Placed
<1>8. ASSUME NEW n \in 1..MaxFacets, ExtractFacets(n) PROVE PromisedStep
  BY <1>8
    DEF ExtractFacets, PromisedStep, Phase, CitedChunks, Retrieving, Evidence, Cited,
        retrieved, shown, Placed
<1>9. ASSUME NEW d \in Drafts, GenerateAnswer(d) PROVE PromisedStep
  BY <1>9
    DEF GenerateAnswer, PromisedStep, Phase, CitedChunks, Retrieving, Evidence, Cited,
        retrieved, shown, Placed
<1>10. ASSUME JudgeAtOnce PROVE PromisedStep
  BY <1>10
    DEF JudgeAtOnce, Judged, PromisedStep, Phase, CitedChunks, Retrieving, Evidence, Cited,
        retrieved, shown, Placed
<1>11. ASSUME RequestDivision PROVE PromisedStep
  BY <1>11
    DEF RequestDivision, PromisedStep, Phase, CitedChunks, Retrieving, Evidence, Cited,
        retrieved, shown, Placed
<1>12. ASSUME NEW response \in Divisions, AcceptDivision(response) PROVE PromisedStep
  BY <1>12
    DEF AcceptDivision, PromisedStep, Phase, CitedChunks, Retrieving, Evidence, Cited,
        retrieved, shown, Placed
<1>13. ASSUME NEW response \in Divisions, RetryDivision(response) PROVE PromisedStep
  BY <1>13
    DEF RetryDivision, PromisedStep, Phase, CitedChunks, Retrieving, Evidence, Cited,
        retrieved, shown, Placed
<1>14. ASSUME NEW response \in Divisions, RejectDivision(response) PROVE PromisedStep
  BY <1>14
    DEF RejectDivision, Judged, PromisedStep, Phase, CitedChunks, Retrieving, Evidence,
        Cited, retrieved, shown, Placed
<1>15. ASSUME ClaimVerbatim PROVE PromisedStep
  BY <1>15
    DEF ClaimVerbatim, PromisedStep, Phase, CitedChunks, Retrieving, Evidence, Cited,
        retrieved, shown, Placed
<1>16. ASSUME RequestVerdict PROVE PromisedStep
  BY <1>16
    DEF RequestVerdict, PromisedStep, Phase, CitedChunks, Retrieving, Evidence, Cited,
        retrieved, shown, Placed
<1>17. ASSUME JudgeClaims PROVE PromisedStep
  BY <1>17
    DEF JudgeClaims, Judged, PromisedStep, Phase, CitedChunks, Retrieving, Evidence, Cited,
        retrieved, shown, Placed
<1>18. ASSUME NEW supported \in BOOLEAN, Entail(supported) PROVE PromisedStep
  BY <1>18
    DEF Entail, PromisedStep, Phase, CitedChunks, Retrieving, Evidence, Cited, retrieved,
        shown, Placed
<1>19. ASSUME RequestCoverage PROVE PromisedStep
  BY <1>19
    DEF RequestCoverage, PromisedStep, Phase, CitedChunks, Retrieving, Evidence, Cited,
        retrieved, shown, Placed
<1>20. ASSUME NothingEmitted PROVE PromisedStep
  BY <1>20
    DEF NothingEmitted, End, PromisedStep, Phase, CitedChunks, Retrieving, Evidence, Cited,
        retrieved, shown, Placed
<1>21. ASSUME Cite PROVE PromisedStep
  <2>1. /\ pc = "cite" /\ pc' = "recheck" /\ outcome' = outcome /\ accepted' = accepted
    BY <1>21 DEF Cite, retrieved
  <2>2. outcome = "none"
    BY <2>1 DEF Cited
  <2> QED BY <2>1, <2>2 DEF PromisedStep, Phase, CitedChunks, Retrieving, Evidence
<1>22. ASSUME Answer PROVE PromisedStep
  <2>1. /\ pc = "recheck" /\ pc' = "ended" /\ outcome' = "answered"
        /\ citations' = citations /\ accepted' = accepted
    BY <1>22 DEF Answer, End, retrieved, shown
  <2>2. /\ citations \in Seq(Citable) /\ citations # <<>>
        /\ \A k \in DOMAIN citations : citations[k].chunk \in Evidence
    BY <2>1 DEF Cited
  <2>3. DOMAIN citations # {}
    BY <2>2
  <2>4. CitedChunks' = {citations[k].chunk : k \in DOMAIN citations} /\ Evidence' = Evidence
    BY <2>1 DEF CitedChunks, Evidence
  <2>5. Evidence \subseteq Chunks
    BY DEF Chosen, Evidence, Range
  <2>6. Phase = "gathered" /\ Phase' = "answered"
    BY <2>1 DEF Phase, Retrieving
  <2>7. CitedChunks' # {} /\ CitedChunks' \subseteq Evidence
    BY <2>2, <2>3, <2>4
  <2> QED BY <2>4, <2>5, <2>6, <2>7 DEF PromisedStep
<1>23. ASSUME RefuseChanged PROVE PromisedStep
  <2>1. /\ pc = "recheck" /\ pc' = "ended" /\ outcome' = "failed" /\ accepted' = accepted
    BY <1>23 DEF RefuseChanged, End, retrieved
  <2>2. outcome = "none"
    BY <2>1 DEF Cited
  <2> QED BY <2>1, <2>2 DEF PromisedStep, Phase, CitedChunks, Retrieving, Evidence
<1>24. ASSUME NEW rs \in Coverages, Cover(rs) PROVE PromisedStep
  BY <1>24
    DEF Cover, End, PromisedStep, Phase, CitedChunks, Retrieving, Evidence, Cited,
        retrieved, shown, Placed
<1>25. ASSUME ProviderFails PROVE PromisedStep
  <2>1. /\ Calling /\ pc' = "ended" /\ outcome' = "failed" /\ accepted' = accepted
    BY <1>25
      DEF ProviderFails, End, CallFails, Exhausted, FinalFailure, Malformed, InvalidTwice,
        Calling, Structured, retrieved
  <2>2. pc # "ended" /\ outcome = "none"
    BY <2>1 DEF Cited, Placed
  <2> QED BY <2>1, <2>2 DEF PromisedStep, Phase, CitedChunks, Retrieving, Evidence
<1>26. ASSUME Redial PROVE PromisedStep
  <2>1. UNCHANGED <<pc, outcome, citations, accepted>>
    BY <1>26 DEF Redial, retrieved, shown
  <2> QED BY <2>1 DEF PromisedStep, Phase, CitedChunks, Evidence
<1>27. CASE UNCHANGED answerVars
  BY <1>27
    DEF answerVars, PromisedStep, Phase, CitedChunks, Retrieving, Evidence, Cited,
        retrieved, shown, Placed
<1>28. QED
  BY <1>1, <1>2, <1>3, <1>4, <1>5, <1>6, <1>7, <1>8, <1>9, <1>10, <1>11, <1>12, <1>13,
     <1>14, <1>15, <1>16, <1>17, <1>18, <1>19, <1>20, <1>21, <1>22, <1>23, <1>24, <1>25,
     <1>26, <1>27 DEF AnswerNext, RetrievalStep, WritingStep, JudgingStep, ResultStep

\* The query keeps its promise.
THEOREM PromiseIsKept == AnswerSpec => KeepsPromise
<1> DEFINE Inv == AnswerInv /\ Placed
<1>1. AnswerInit => Inv
  BY AnswerInvHolds DEF AnswerInit, Placed, Calling, NoCall, CallInit
<1>2. Inv /\ [AnswerNext]_answerVars => Inv'
  BY AnswerInvHolds, PlacedKeeps DEF AnswerInv
<1>3. AnswerInit => Promise!Init
  BY DEF AnswerInit, Promise!Init, Evidence, Range
<1>4. Inv /\ Inv' /\ [AnswerNext]_answerVars => [Promise!Next]_(Promise!promiseVars)
  BY StepsArePromised, PromisedStepIs DEF AnswerInv
<1> QED
  BY <1>1, <1>2, <1>3, <1>4, PTL DEF AnswerSpec, KeepsPromise, Promise!Spec

-----------------------------------------------------------------------------
(* A query comes to its end.  What is left of it, from the stages down to   *)
(* the attempts of one request, is less after every step, and no order of   *)
(* numbers descends for ever.                                               *)

\* The stages left; the sentences are judged in one.
StagesLeft ==
  CASE pc = "filter" -> 10 [] pc = "lexical" -> 9 [] pc = "semantic" -> 8 [] pc = "select" -> 7
    [] pc = "facets" -> 6 [] pc = "answer" -> 5
    [] pc \in {"sentence", "decompose", "claim"} -> 4
    [] pc = "coverage" -> 3 [] pc = "cite" -> 2 [] pc = "recheck" -> 1 [] OTHER -> 0

SentencesLeft == Len(draft) - Len(fates)

\* A sentence is divided in at most two rounds before its claims are verified.
RoundsLeft ==
  CASE pc = "sentence" -> 3
    [] pc = "decompose" /\ round = 1 -> 2
    [] pc = "decompose" /\ round # 1 -> 1
    [] OTHER -> 0

\* A claim is asked about and answered.
VerdictsLeft == 2 * (Len(claims) - Len(found)) + (IF Calling THEN 0 ELSE 1)

TriesLeft == MaxTries - call.try

AttemptsLeft == MaxAttempts - call.attempt

Left == <<StagesLeft, SentencesLeft, RoundsLeft, VerdictsLeft, TriesLeft, AttemptsLeft>>

\* What a step does to it.
Descends == <<Left', Left>> \in Less(6)

\* The least that a step takes away.
Nearer ==
  \/ StagesLeft' < StagesLeft
  \/ StagesLeft' = StagesLeft /\ SentencesLeft' < SentencesLeft
  \/ UNCHANGED <<StagesLeft, SentencesLeft>> /\ RoundsLeft' < RoundsLeft
  \/ UNCHANGED <<StagesLeft, SentencesLeft, RoundsLeft>> /\ VerdictsLeft' < VerdictsLeft
  \/ /\ UNCHANGED <<StagesLeft, SentencesLeft, RoundsLeft, VerdictsLeft>>
     /\ TriesLeft' < TriesLeft
  \/ /\ UNCHANGED <<StagesLeft, SentencesLeft, RoundsLeft, VerdictsLeft, TriesLeft>>
     /\ AttemptsLeft' < AttemptsLeft

LEMMA LeftIsNatural ==
  ASSUME AnswerInv PROVE Left \in [1..6 -> Nat]
<1>1. /\ Len(draft) \in Nat /\ Len(fates) \in Nat /\ Len(fates) <= Len(draft)
      /\ Len(claims) \in Nat /\ Len(found) \in Nat /\ Len(found) <= Len(claims)
  BY DEF AnswerInv, FateInv, Progress
<1>2. TriesLeft \in Nat /\ AttemptsLeft \in Nat
  BY CallAssumption DEF AnswerInv, CallInv, CallTypeOK, NoCall, TriesLeft, AttemptsLeft
<1>3. SentencesLeft \in Nat
  BY <1>1 DEF SentencesLeft
<1>4. VerdictsLeft \in Nat
  <2> DEFINE k == Len(claims) - Len(found)
             e == IF Calling THEN 0 ELSE 1
  <2>1. k \in Nat /\ e \in Nat
    BY <1>1
  <2> HIDE DEF k, e
  <2>2. 2 * k + e \in Nat
    BY <2>1
  <2> QED BY <2>2 DEF VerdictsLeft, k, e
<1>5. StagesLeft \in Nat
  BY DEF StagesLeft
<1>6. RoundsLeft \in Nat
  BY DEF RoundsLeft
<1>7. \A a, b, c, d, e, f \in Nat : <<a, b, c, d, e, f>> \in [1..6 -> Nat]
  <2>1. 1..6 = {1, 2, 3, 4, 5, 6}
    OBVIOUS
  <2>2. ASSUME NEW a \in Nat, NEW b \in Nat, NEW c \in Nat, NEW d \in Nat, NEW e \in Nat, NEW f \in Nat
        PROVE  <<a, b, c, d, e, f>> \in [1..6 -> Nat]
    <3> DEFINE t == <<a, b, c, d, e, f>>
    <3>1. DOMAIN t = 1..6 /\ t = [i \in 1..6 |-> t[i]]
      OBVIOUS
    <3>2. t[1] \in Nat /\ t[2] \in Nat /\ t[3] \in Nat /\ t[4] \in Nat /\ t[5] \in Nat /\ t[6] \in Nat
      OBVIOUS
    <3> HIDE DEF t
    <3>3. \A i \in 1..6 : t[i] \in Nat
      BY <2>1, <3>2
    <3>4. t \in [1..6 -> Nat]
      BY <3>1, <3>3
    <3> QED BY <3>4 DEF t
  <2> QED BY <2>2
<1> QED BY <1>2, <1>3, <1>4, <1>5, <1>6, <1>7 DEF Left

\* What is nearer is less.
LEMMA NearerIsLess ==
  ASSUME Left \in [1..6 -> Nat], Left' \in [1..6 -> Nat], Nearer
  PROVE  <<Left', Left>> \in Less(6)
<1>1. /\ Left[1] = StagesLeft /\ Left[2] = SentencesLeft /\ Left[3] = RoundsLeft
      /\ Left[4] = VerdictsLeft /\ Left[5] = TriesLeft /\ Left[6] = AttemptsLeft
  BY DEF Left
<1>2. /\ Left'[1] = StagesLeft' /\ Left'[2] = SentencesLeft' /\ Left'[3] = RoundsLeft'
      /\ Left'[4] = VerdictsLeft' /\ Left'[5] = TriesLeft' /\ Left'[6] = AttemptsLeft'
  BY DEF Left
<1>3. \E j \in 1..6 : Left'[j] < Left[j] /\ \A i \in 1..(j - 1) : Left'[i] = Left[i]
  <2>1. CASE Left'[1] < Left[1]
    <3>1. 1..(1 - 1) = {} /\ 1 \in 1..6
      OBVIOUS
    <3> QED BY <2>1, <3>1
  <2>2. CASE Left'[1] = Left[1] /\ Left'[2] < Left[2]
    <3>1. 1..(2 - 1) = {1} /\ 2 \in 1..6
      OBVIOUS
    <3> QED BY <2>2, <3>1
  <2>3. CASE Left'[1] = Left[1] /\ Left'[2] = Left[2] /\ Left'[3] < Left[3]
    <3>1. 1..(3 - 1) = {1, 2} /\ 3 \in 1..6
      OBVIOUS
    <3> QED BY <2>3, <3>1
  <2>4. CASE /\ Left'[1] = Left[1] /\ Left'[2] = Left[2] /\ Left'[3] = Left[3]
             /\ Left'[4] < Left[4]
    <3>1. 1..(4 - 1) = {1, 2, 3} /\ 4 \in 1..6
      OBVIOUS
    <3> QED BY <2>4, <3>1
  <2>5. CASE /\ Left'[1] = Left[1] /\ Left'[2] = Left[2] /\ Left'[3] = Left[3]
             /\ Left'[4] = Left[4] /\ Left'[5] < Left[5]
    <3>1. 1..(5 - 1) = {1, 2, 3, 4} /\ 5 \in 1..6
      OBVIOUS
    <3> QED BY <2>5, <3>1
  <2>6. CASE /\ Left'[1] = Left[1] /\ Left'[2] = Left[2] /\ Left'[3] = Left[3]
             /\ Left'[4] = Left[4] /\ Left'[5] = Left[5] /\ Left'[6] < Left[6]
    <3>1. 1..(6 - 1) = {1, 2, 3, 4, 5} /\ 6 \in 1..6
      OBVIOUS
    <3> QED BY <2>6, <3>1
  <2> HIDE DEF Left
  <2> QED BY <1>1, <1>2, <2>1, <2>2, <2>3, <2>4, <2>5, <2>6 DEF Nearer
<1> QED BY <1>3, LessAtOnePlace

\* A sentence that gets its fate is done with.
LEMMA JudgedIsNearer ==
  ASSUME AnswerInv, NEW fate, NEW vs, Judged(fate, vs), pc \in {"sentence", "decompose", "claim"}
  PROVE  Nearer
<1>1. fates' = Append(fates, fate) /\ draft' = draft /\ pc' = "sentence"
  BY DEF Judged, written
<1>2. fates \in Seq(Fates) /\ Len(fates) \in Nat /\ Len(draft) \in Nat
  BY DEF AnswerInv, FateInv, Progress
<1>3. Len(fates') = Len(fates) + 1
  BY <1>1, <1>2
<1>4. SentencesLeft' < SentencesLeft
  BY <1>1, <1>2, <1>3 DEF SentencesLeft
<1>5. StagesLeft' = StagesLeft
  BY <1>1 DEF StagesLeft
<1> QED BY <1>4, <1>5 DEF Nearer

\* So is a claim.
LEMMA FoundIsNearer ==
  ASSUME AnswerInv, NEW verdict, found' = Append(found, verdict), UNCHANGED <<pc, draft, fates, round, claims>>
  PROVE  Nearer
<1>1. found \in Seq(BOOLEAN) /\ Len(found) \in Nat /\ Len(claims) \in Nat
  BY DEF AnswerInv, FateInv, Progress
<1>2. Len(found') = Len(found) + 1
  BY <1>1
<1>3. VerdictsLeft' < VerdictsLeft
  BY <1>1, <1>2 DEF VerdictsLeft
<1> QED BY <1>3 DEF Nearer, StagesLeft, SentencesLeft, RoundsLeft



\* Every step takes something away.
LEMMA StepsAreNearer ==
  ASSUME AnswerInv, Placed, AnswerNext PROVE Nearer
<1>1. ASSUME NEW filters \in Filters, NEW active \in SUBSET Chunks, Filter(filters, active)
     PROVE Nearer
  BY <1>1 DEF Filter, Nearer, StagesLeft
<1>2. ASSUME NEW filters \in Filters, NEW active \in SUBSET Chunks,
             NothingEligible(filters, active) PROVE Nearer
  BY <1>2 DEF NothingEligible, End, Nearer, StagesLeft
<1>3. ASSUME Unanswerable PROVE Nearer
  BY <1>3 DEF Unanswerable, End, Nearer, StagesLeft
<1>4. ASSUME IntegrityFailure PROVE Nearer
  BY <1>4 DEF IntegrityFailure, End, Nearer, StagesLeft
<1>5. ASSUME SelectEvidence PROVE Nearer
  BY <1>5 DEF SelectEvidence, Nearer, StagesLeft
<1>6. ASSUME NEW score \in [eligible -> Scores], RankByWords(score) PROVE Nearer
  BY <1>6 DEF RankByWords, Nearer, StagesLeft
<1>7. ASSUME NEW distance \in [eligible -> Distances], RankByMeaning(distance)
     PROVE Nearer
  BY <1>7 DEF RankByMeaning, Nearer, StagesLeft
<1>8. ASSUME NEW n \in 1..MaxFacets, ExtractFacets(n) PROVE Nearer
  BY <1>8 DEF ExtractFacets, Nearer, StagesLeft
<1>9. ASSUME NEW d \in Drafts, GenerateAnswer(d) PROVE Nearer
  BY <1>9 DEF GenerateAnswer, Nearer, StagesLeft
<1>10. ASSUME JudgeAtOnce PROVE Nearer
  BY <1>10, JudgedIsNearer DEF JudgeAtOnce
<1>11. ASSUME RequestDivision PROVE Nearer
  BY <1>11
    DEF RequestDivision, Nearer, StagesLeft, SentencesLeft, RoundsLeft, written, judged
<1>12. ASSUME NEW response \in Divisions, AcceptDivision(response) PROVE Nearer
  BY <1>12 DEF AcceptDivision, Nearer, StagesLeft, SentencesLeft, RoundsLeft, written
<1>13. ASSUME NEW response \in Divisions, RetryDivision(response) PROVE Nearer
  <2>1. /\ pc = "decompose" /\ pc' = "decompose" /\ round = 1 /\ round' = 2
        /\ UNCHANGED <<draft, fates>>
    BY <1>13 DEF RetryDivision, written
  <2>2. RoundsLeft = 2
    BY <2>1 DEF RoundsLeft
  <2>3. RoundsLeft' = 1
    BY <2>1 DEF RoundsLeft
  <2> QED BY <2>1, <2>2, <2>3 DEF Nearer, StagesLeft, SentencesLeft
<1>14. ASSUME NEW response \in Divisions, RejectDivision(response) PROVE Nearer
  BY <1>14, JudgedIsNearer DEF RejectDivision
<1>15. ASSUME ClaimVerbatim PROVE Nearer
  BY <1>15, FoundIsNearer DEF ClaimVerbatim, written
<1>16. ASSUME RequestVerdict PROVE Nearer
  <2>1. /\ pc = "claim" /\ ~Calling /\ Calling'
        /\ UNCHANGED <<pc, draft, fates, round, claims, found>>
    BY <1>16 DEF RequestVerdict, written, judged, Dial, Calling
  <2>2. VerdictsLeft' < VerdictsLeft
    BY <2>1 DEF VerdictsLeft, AnswerInv, FateInv, Progress
  <2> QED BY <2>1, <2>2 DEF Nearer, StagesLeft, SentencesLeft, RoundsLeft
<1>17. ASSUME JudgeClaims PROVE Nearer
  BY <1>17, JudgedIsNearer DEF JudgeClaims
<1>18. ASSUME NEW supported \in BOOLEAN, Entail(supported) PROVE Nearer
  BY <1>18, FoundIsNearer DEF Entail, written
<1>19. ASSUME RequestCoverage PROVE Nearer
  BY <1>19 DEF RequestCoverage, Nearer, StagesLeft
<1>20. ASSUME NothingEmitted PROVE Nearer
  <2>1. pc = "sentence" /\ pc' = "ended"
    BY <1>20 DEF NothingEmitted, End
  <2> QED BY <2>1 DEF Nearer, StagesLeft
<1>21. ASSUME Cite PROVE Nearer
  BY <1>21 DEF Cite, Nearer, StagesLeft
<1>22. ASSUME Answer PROVE Nearer
  BY <1>22 DEF Answer, End, Nearer, StagesLeft
<1>23. ASSUME RefuseChanged PROVE Nearer
  BY <1>23 DEF RefuseChanged, End, Nearer, StagesLeft
<1>24. ASSUME NEW rs \in Coverages, Cover(rs) PROVE Nearer
  BY <1>24 DEF Cover, End, Nearer, StagesLeft
<1>25. ASSUME ProviderFails PROVE Nearer
  <2>1. Calling
    BY <1>25
      DEF ProviderFails, CallFails, Exhausted, FinalFailure, Malformed, InvalidTwice,
          Calling, Structured
  <2>2. pc \in {"semantic", "facets", "answer", "decompose", "claim", "coverage"} /\ pc' = "ended"
    BY <1>25, <2>1 DEF ProviderFails, End, Placed
  <2> QED BY <2>2 DEF Nearer, StagesLeft
<1>26. ASSUME Redial PROVE Nearer
  <2>1. /\ UNCHANGED <<pc, draft, fates, round, claims, found>>
        /\ Retry \/ Repair
    BY <1>26 DEF Redial, written, judged
  <2>2. Calling
    BY <2>1 DEF Retry, Repair, Calling, Structured
  <2>3. call \in [op : Operations, try : 1..MaxTries, attempt : 1..MaxAttempts]
    BY <2>2 DEF Calling, AnswerInv, CallInv, CallTypeOK, NoCall
  <2>4. call'.op = call.op
    BY <2>1, <2>3 DEF Retry, Repair
  <2>5. Calling'
    BY <2>2, <2>4 DEF Calling
  <2>6. UNCHANGED <<StagesLeft, SentencesLeft, RoundsLeft, VerdictsLeft>>
    BY <2>1, <2>2, <2>5 DEF StagesLeft, SentencesLeft, RoundsLeft, VerdictsLeft
  <2>7. CASE Retry
    <3>1. TriesLeft' = TriesLeft /\ AttemptsLeft' < AttemptsLeft
      BY <2>3, <2>7, CallAssumption DEF Retry, TriesLeft, AttemptsLeft
    <3> QED BY <2>6, <3>1 DEF Nearer
  <2>8. CASE Repair
    <3>1. TriesLeft' < TriesLeft
      BY <2>3, <2>8, CallAssumption DEF Repair, TriesLeft
    <3> QED BY <2>6, <3>1 DEF Nearer
  <2> QED BY <2>1, <2>7, <2>8
<1>27. QED
  BY <1>1, <1>2, <1>3, <1>4, <1>5, <1>6, <1>7, <1>8, <1>9, <1>10, <1>11, <1>12, <1>13,
     <1>14, <1>15, <1>16, <1>17, <1>18, <1>19, <1>20, <1>21, <1>22, <1>23, <1>24, <1>25,
     <1>26 DEF AnswerNext, RetrievalStep, WritingStep, JudgingStep, ResultStep

\* Every step of a query leaves less to be done than there was, whatever the
\* provider answers, and there is no infinite descent: the retries within the
\* repairs within the rounds within the sentences cannot go on for ever.
THEOREM QueryAdvances ==
  /\ IsWellFoundedOn(Less(6), [1..6 -> Nat])
  /\ AnswerSpec => [](Left \in [1..6 -> Nat]) /\ [][Descends]_answerVars
<1> DEFINE Inv == AnswerInv /\ Placed
<1>1. IsWellFoundedOn(Less(6), [1..6 -> Nat])
  BY LessIsWellFounded
<1>2. AnswerInit => Inv
  BY AnswerInvHolds DEF AnswerInit, Placed, Calling, NoCall, CallInit
<1>3. Inv /\ [AnswerNext]_answerVars => Inv'
  BY AnswerInvHolds, PlacedKeeps DEF AnswerInv
<1>4. Inv => Left \in [1..6 -> Nat]
  BY LeftIsNatural
<1>5. /\ Inv /\ Left \in [1..6 -> Nat] /\ (Left \in [1..6 -> Nat])'
      /\ [AnswerNext]_answerVars
      => [Descends]_answerVars
  BY StepsAreNearer, NearerIsLess DEF Descends
<1>6. AnswerSpec => [](Left \in [1..6 -> Nat]) /\ [][Descends]_answerVars
  BY <1>2, <1>3, <1>4, <1>5, PTL DEF AnswerSpec
<1> QED BY <1>1, <1>6

-----------------------------------------------------------------------------
(* The oracles see only the rows and the citations. *)

\* What an end without an answer leaves for them.
Abstains ==
  /\ pc \in {"answer", "sentence", "decompose", "claim", "coverage"} => facets \in Nat \ {0}
  /\ outcome = "retrieval" => accepted = <<>>
  /\ outcome = "claim_verification" =>
       /\ \E row \in Range(rows) : ~row.covered
       /\ Emitted = {} => \A row \in Range(rows) : row.reason = "none emitted"

\* The supersessions are those of the evidence.
Disclosed == pc = "recheck" \/ outcome = "answered" => disclosed = Notices

\* One step keeps what an abstention is told from.
LEMMA AbstainsKeeps ==
  ASSUME Chosen, Cited, Abstains, [AnswerNext]_answerVars PROVE Abstains'
<1>1. ASSUME NEW filters \in Filters, NEW active \in SUBSET Chunks, Filter(filters, active)
     PROVE Abstains'
  BY <1>1 DEF Filter, Abstains, Cited, retrieved, written
<1>2. ASSUME NEW filters \in Filters, NEW active \in SUBSET Chunks,
             NothingEligible(filters, active) PROVE Abstains'
  <2>1. accepted = <<>> /\ UNCHANGED <<accepted, facets>> /\ pc' = "ended" /\ outcome' = "retrieval"
    BY <1>2 DEF NothingEligible, End, Chosen, Retrieving, retrieved, written
  <2> QED BY <2>1 DEF Abstains
<1>3. ASSUME Unanswerable PROVE Abstains'
  BY <1>3 DEF Unanswerable, End, Abstains, Cited, retrieved, written
<1>4. ASSUME IntegrityFailure PROVE Abstains'
  BY <1>4 DEF IntegrityFailure, End, Abstains, Cited, retrieved, written
<1>5. ASSUME SelectEvidence PROVE Abstains'
  BY <1>5 DEF SelectEvidence, Abstains, Cited, retrieved, written
<1>6. ASSUME NEW score \in [eligible -> Scores], RankByWords(score) PROVE Abstains'
  BY <1>6 DEF RankByWords, Abstains, Cited, retrieved, written
<1>7. ASSUME NEW distance \in [eligible -> Distances], RankByMeaning(distance)
     PROVE Abstains'
  BY <1>7 DEF RankByMeaning, Abstains, Cited, retrieved, written
<1>8. ASSUME NEW n \in 1..MaxFacets, ExtractFacets(n) PROVE Abstains'
  <2>1. /\ pc = "facets" /\ facets' = n /\ pc' = "answer"
        /\ UNCHANGED <<outcome, accepted, rows, fates>>
    BY <1>8 DEF ExtractFacets, judged
  <2>2. n \in Nat \ {0}
    BY AnswerAssumption DEF AnswerAssumption
  <2>3. Emitted' = Emitted
    BY <2>1 DEF Emitted
  <2> QED BY <2>1, <2>2, <2>3 DEF Abstains
<1>9. ASSUME NEW d \in Drafts, GenerateAnswer(d) PROVE Abstains'
  BY <1>9 DEF GenerateAnswer, Abstains, Cited, retrieved, written
<1>10. ASSUME JudgeAtOnce PROVE Abstains'
  BY <1>10 DEF JudgeAtOnce, Judged, Abstains, Cited, retrieved, written
<1>11. ASSUME RequestDivision PROVE Abstains'
  BY <1>11 DEF RequestDivision, Abstains, Cited, retrieved, written
<1>12. ASSUME NEW response \in Divisions, AcceptDivision(response) PROVE Abstains'
  BY <1>12 DEF AcceptDivision, Abstains, Cited, retrieved, written
<1>13. ASSUME NEW response \in Divisions, RetryDivision(response) PROVE Abstains'
  BY <1>13 DEF RetryDivision, Abstains, Cited, retrieved, written
<1>14. ASSUME NEW response \in Divisions, RejectDivision(response) PROVE Abstains'
  BY <1>14 DEF RejectDivision, Judged, Abstains, Cited, retrieved, written
<1>15. ASSUME ClaimVerbatim PROVE Abstains'
  BY <1>15 DEF ClaimVerbatim, Abstains, Cited, retrieved, written
<1>16. ASSUME RequestVerdict PROVE Abstains'
  BY <1>16 DEF RequestVerdict, Abstains, Cited, retrieved, written
<1>17. ASSUME JudgeClaims PROVE Abstains'
  BY <1>17 DEF JudgeClaims, Judged, Abstains, Cited, retrieved, written
<1>18. ASSUME NEW supported \in BOOLEAN, Entail(supported) PROVE Abstains'
  BY <1>18 DEF Entail, Abstains, Cited, retrieved, written
<1>19. ASSUME RequestCoverage PROVE Abstains'
  <2>1. /\ pc = "sentence" /\ pc' = "coverage" /\ UNCHANGED <<outcome, facets>>
    BY <1>19 DEF RequestCoverage, written
  <2> QED BY <2>1 DEF Abstains, Cited
<1>20. ASSUME NothingEmitted PROVE Abstains'
  <2>1. /\ pc = "sentence" /\ Emitted = {} /\ pc' = "ended" /\ outcome' = "claim_verification"
        /\ rows' = [f \in 1..facets |->
                      [facet |-> f, covered |-> FALSE, by |-> <<>>, reason |-> "none emitted"]]
    BY <1>20 DEF NothingEmitted, End
  <2>2. facets \in Nat \ {0}
    <3>1. pc \in {"answer", "sentence", "decompose", "claim", "coverage"}
      BY <2>1
    <3> QED BY <3>1 DEF Abstains
  <2>3. \A row \in Range(rows') : ~row.covered /\ row.reason = "none emitted"
    <3>1. DOMAIN rows' = 1..facets
      BY <2>1
    <3>2. ASSUME NEW f \in 1..facets
          PROVE  ~rows'[f].covered /\ rows'[f].reason = "none emitted"
      BY <2>1, <3>2
    <3> QED BY <3>1, <3>2 DEF Range
  <2>4. rows'[1] \in Range(rows')
    <3>1. 1 \in 1..facets
      BY <2>2
    <3>2. 1 \in DOMAIN rows'
      BY <2>1, <3>1
    <3> QED BY <3>2 DEF Range
  <2> QED BY <2>1, <2>3, <2>4 DEF Abstains
<1>21. ASSUME Cite PROVE Abstains'
  BY <1>21 DEF Cite, Abstains, Cited, retrieved, written
<1>22. ASSUME Answer PROVE Abstains'
  BY <1>22 DEF Answer, End, Abstains, Cited, retrieved, written
<1>23. ASSUME RefuseChanged PROVE Abstains'
  BY <1>23 DEF RefuseChanged, End, Abstains, Cited, retrieved, written
<1>24. ASSUME NEW rs \in Coverages, Cover(rs) PROVE Abstains'
  <2>1. /\ pc = "coverage" /\ rows' = rs /\ UNCHANGED <<fates, facets, accepted>>
        /\ \/ Uncovered(rs) # {} /\ pc' = "ended" /\ outcome' = "claim_verification"
           \/ pc' = "cite" /\ outcome' = outcome
    BY <1>24 DEF Cover, End, retrieved, written, judged
  <2>2. Emitted # {} /\ Emitted' = Emitted /\ outcome = "none"
    BY <2>1 DEF Cited, Emitted
  <2>3. Uncovered(rs) # {} => \E row \in Range(rs) : ~row.covered
    BY DEF Uncovered, Range
  <2> QED BY <2>1, <2>2, <2>3 DEF Abstains
<1>25. ASSUME ProviderFails PROVE Abstains'
  BY <1>25
    DEF ProviderFails, End, CallFails, Exhausted, FinalFailure, Malformed, InvalidTwice,
        Abstains, Cited, retrieved, written
<1>26. ASSUME Redial PROVE Abstains'
  <2>1. UNCHANGED <<pc, outcome, rows, facets, fates, accepted>>
    BY <1>26 DEF Redial, retrieved, written, judged
  <2>2. Emitted' = Emitted
    BY <2>1 DEF Emitted
  <2> QED BY <2>1, <2>2 DEF Abstains
<1>27. CASE UNCHANGED answerVars
  <2>1. UNCHANGED <<pc, outcome, rows, facets, fates, accepted>>
    BY <1>27 DEF answerVars, retrieved, written, judged
  <2>2. Emitted' = Emitted
    BY <2>1 DEF Emitted
  <2> QED BY <2>1, <2>2 DEF Abstains
<1>28. QED
  BY <1>1, <1>2, <1>3, <1>4, <1>5, <1>6, <1>7, <1>8, <1>9, <1>10, <1>11, <1>12, <1>13,
     <1>14, <1>15, <1>16, <1>17, <1>18, <1>19, <1>20, <1>21, <1>22, <1>23, <1>24, <1>25,
     <1>26, <1>27 DEF AnswerNext, RetrievalStep, WritingStep, JudgingStep, ResultStep

\* One step keeps the supersessions those of the evidence.
LEMMA DisclosedKeeps ==
  ASSUME Cited, Disclosed, [AnswerNext]_answerVars PROVE Disclosed'
<1>1. ASSUME NEW filters \in Filters, NEW active \in SUBSET Chunks, Filter(filters, active)
     PROVE Disclosed'
  BY <1>1 DEF Filter, Disclosed, Cited
<1>2. ASSUME NEW filters \in Filters, NEW active \in SUBSET Chunks,
             NothingEligible(filters, active) PROVE Disclosed'
  BY <1>2 DEF NothingEligible, End, Disclosed, Cited
<1>3. ASSUME Unanswerable PROVE Disclosed'
  BY <1>3 DEF Unanswerable, End, Disclosed, Cited
<1>4. ASSUME IntegrityFailure PROVE Disclosed'
  BY <1>4 DEF IntegrityFailure, End, Disclosed, Cited
<1>5. ASSUME SelectEvidence PROVE Disclosed'
  BY <1>5 DEF SelectEvidence, Disclosed, Cited
<1>6. ASSUME NEW score \in [eligible -> Scores], RankByWords(score) PROVE Disclosed'
  BY <1>6 DEF RankByWords, Disclosed, Cited
<1>7. ASSUME NEW distance \in [eligible -> Distances], RankByMeaning(distance)
     PROVE Disclosed'
  BY <1>7 DEF RankByMeaning, Disclosed, Cited
<1>8. ASSUME NEW n \in 1..MaxFacets, ExtractFacets(n) PROVE Disclosed'
  BY <1>8 DEF ExtractFacets, Disclosed, Cited
<1>9. ASSUME NEW d \in Drafts, GenerateAnswer(d) PROVE Disclosed'
  BY <1>9 DEF GenerateAnswer, Disclosed, Cited
<1>10. ASSUME JudgeAtOnce PROVE Disclosed'
  BY <1>10 DEF JudgeAtOnce, Judged, Disclosed, Cited
<1>11. ASSUME RequestDivision PROVE Disclosed'
  BY <1>11 DEF RequestDivision, Disclosed, Cited
<1>12. ASSUME NEW response \in Divisions, AcceptDivision(response) PROVE Disclosed'
  BY <1>12 DEF AcceptDivision, Disclosed, Cited
<1>13. ASSUME NEW response \in Divisions, RetryDivision(response) PROVE Disclosed'
  BY <1>13 DEF RetryDivision, Disclosed, Cited
<1>14. ASSUME NEW response \in Divisions, RejectDivision(response) PROVE Disclosed'
  BY <1>14 DEF RejectDivision, Judged, Disclosed, Cited
<1>15. ASSUME ClaimVerbatim PROVE Disclosed'
  BY <1>15 DEF ClaimVerbatim, Disclosed, Cited
<1>16. ASSUME RequestVerdict PROVE Disclosed'
  BY <1>16 DEF RequestVerdict, Disclosed, Cited
<1>17. ASSUME JudgeClaims PROVE Disclosed'
  BY <1>17 DEF JudgeClaims, Judged, Disclosed, Cited
<1>18. ASSUME NEW supported \in BOOLEAN, Entail(supported) PROVE Disclosed'
  BY <1>18 DEF Entail, Disclosed, Cited
<1>19. ASSUME RequestCoverage PROVE Disclosed'
  BY <1>19 DEF RequestCoverage, Disclosed, Cited
<1>20. ASSUME NothingEmitted PROVE Disclosed'
  BY <1>20 DEF NothingEmitted, End, Disclosed, Cited
<1>21. ASSUME Cite PROVE Disclosed'
  <2>1. disclosed' = Notices /\ accepted' = accepted
    BY <1>21 DEF Cite, retrieved
  <2> QED BY <2>1 DEF Disclosed, Notices, Evidence
<1>22. ASSUME Answer PROVE Disclosed'
  <2>1. pc = "recheck" /\ disclosed' = disclosed /\ accepted' = accepted
    BY <1>22 DEF Answer, shown, retrieved
  <2> QED BY <2>1 DEF Disclosed, Notices, Evidence
<1>23. ASSUME RefuseChanged PROVE Disclosed'
  BY <1>23 DEF RefuseChanged, End, Disclosed, Cited
<1>24. ASSUME NEW rs \in Coverages, Cover(rs) PROVE Disclosed'
  BY <1>24 DEF Cover, End, Disclosed, Cited
<1>25. ASSUME ProviderFails PROVE Disclosed'
  BY <1>25
    DEF ProviderFails, End, CallFails, Exhausted, FinalFailure, Malformed, InvalidTwice,
        Disclosed, Cited
<1>26. ASSUME Redial PROVE Disclosed'
  <2>1. UNCHANGED <<pc, outcome, disclosed, accepted>>
    BY <1>26 DEF Redial, shown, retrieved
  <2> QED BY <2>1 DEF Disclosed, Notices, Evidence
<1>27. CASE UNCHANGED answerVars
  <2>1. UNCHANGED <<pc, outcome, disclosed, accepted>>
    BY <1>27 DEF answerVars, shown, retrieved
  <2> QED BY <2>1 DEF Disclosed, Notices, Evidence
<1>28. QED
  BY <1>1, <1>2, <1>3, <1>4, <1>5, <1>6, <1>7, <1>8, <1>9, <1>10, <1>11, <1>12, <1>13,
     <1>14, <1>15, <1>16, <1>17, <1>18, <1>19, <1>20, <1>21, <1>22, <1>23, <1>24, <1>25,
     <1>26, <1>27 DEF AnswerNext, RetrievalStep, WritingStep, JudgingStep, ResultStep

LEMMA OracleIsRight ==
  ASSUME AnswerInv, CoverageInv, Abstains, Disclosed,
         NEW o \in Oracles, pc = "ended", Satisfies(o)
  PROVE  /\ o.state = "abstained" => accepted = <<>> \/ \E row \in Range(rows) : ~row.covered
         /\ o.cause = "uncovered_facet" => Emitted # {}
         /\ \A r \in o.required :
              \/ \E i \in Emitted : \E c \in Range(draft[i].cites) : RecordOf[c] = r
              \/ \E c \in Evidence : r \in SuccessorsOf[RecordOf[c]]
         /\ o.covering => \A prefix \in o.prefixes :
              \E i \in Emitted : /\ \E row \in Range(rows) : i \in Range(row.by)
                                 /\ RestsOn(i, prefix, RequiredScope(o))
<1>1. CASE o.state = "abstained"
  <2>1. /\ outcome \in {"retrieval", "claim_verification"}
        /\ o.cause # None => AbstentionCause = o.cause
    BY <1>1 DEF Satisfies, Abstained
  <2>2. accepted = <<>> \/ \E row \in Range(rows) : ~row.covered
    BY <2>1 DEF Abstains
  <2>3. o.cause = "uncovered_facet" => Emitted # {}
    <3>1. SUFFICES ASSUME o.cause = "uncovered_facet", Emitted = {} PROVE FALSE
      OBVIOUS
    <3>2. AbstentionCause = "uncovered_facet" /\ None # "uncovered_facet"
      BY <2>1, <3>1, OracleAssumption
    <3>3. outcome = "claim_verification" /\ ~\A row \in Range(rows) : row.reason = "none emitted"
      BY <3>2 DEF AbstentionCause
    <3> QED BY <3>1, <3>3 DEF Abstains
  <2>4. o.required = {} /\ o.prefixes = {}
    BY <1>1, OracleAssumption
  <2> QED BY <2>2, <2>3, <2>4
<1>2. CASE o.state # "abstained"
  <2>1. /\ outcome = "answered" /\ o.required \subseteq CitedRecords
        /\ \A prefix \in o.prefixes : Matched(o, prefix)
    BY <1>2 DEF Satisfies
  <2>2. o.cause # "uncovered_facet"
    BY <1>2, OracleAssumption
  <2>3. /\ citations \in Seq(Citable) /\ Resolves(citations) /\ disclosed = Notices
        /\ ValidCoverage(rows)
    BY <2>1 DEF AnswerInv, Cited, Disclosed, CoverageInv
  <2>4. ASSUME NEW r \in o.required
        PROVE  \/ \E i \in Emitted : \E c \in Range(draft[i].cites) : RecordOf[c] = r
               \/ \E c \in Evidence : r \in SuccessorsOf[RecordOf[c]]
    <3>1. PICK x \in Citations : x.record = r
      BY <2>1 DEF CitedRecords
    <3>2. CASE x \in {ChunkCitation(y.chunk) : y \in Range(citations)}
      <4>1. PICK k \in DOMAIN citations : x = ChunkCitation(citations[k].chunk)
        BY <3>2 DEF Range
      <4>2. PICK i \in Emitted : citations[k].chunk \in Range(draft[i].cites)
        BY <2>3 DEF Resolves
      <4>3. RecordOf[citations[k].chunk] = r
        BY <3>1, <4>1 DEF ChunkCitation
      <4> QED BY <4>2, <4>3
    <3>3. CASE x \in {[record |-> n[2], path |-> SupersedesPath] : n \in disclosed}
      <4>1. PICK n \in Notices : x.record = n[2]
        BY <2>3, <3>3
      <4>2. PICK c \in Evidence : n \in {<<RecordOf[c], s>> : s \in SuccessorsOf[RecordOf[c]]}
        BY <4>1 DEF Notices
      <4>3. n[2] \in SuccessorsOf[RecordOf[c]]
        BY <4>2
      <4> QED BY <3>1, <4>1, <4>3
    <3> QED BY <3>2, <3>3 DEF Citations
  <2>5. ASSUME o.covering, NEW prefix \in o.prefixes
        PROVE  \E i \in Emitted : /\ \E row \in Range(rows) : i \in Range(row.by)
                                  /\ RestsOn(i, prefix, RequiredScope(o))
    <3>1. PICK x \in CoveringCitations :
            /\ HasPrefix(prefix, x.path)
            /\ RequiredScope(o) # {} => x.record \in RequiredScope(o)
      BY <2>1, <2>5 DEF Matched
    <3>2. PICK i \in CoveringSentences : \E c \in Usable(draft[i]) : x = ChunkCitation(c)
      BY <3>1 DEF CoveringCitations
    <3>3. PICK c \in Range(draft[i].cites) : x = ChunkCitation(c)
      BY <3>2 DEF Usable
    <3>4. PICK k \in DOMAIN rows : i \in Range(rows[k].by)
      BY <3>2 DEF CoveringSentences, Range
    <3>5. i \in Emitted
      BY <2>3, <3>4 DEF ValidCoverage
    <3>6. rows[k] \in Range(rows)
      BY <3>4 DEF Range
    <3>7. RestsOn(i, prefix, RequiredScope(o))
      BY <3>1, <3>3 DEF RestsOn, ChunkCitation
    <3> QED BY <3>4, <3>5, <3>6, <3>7
  <2> QED BY <1>2, <2>2, <2>4, <2>5
<1> QED BY <1>1, <1>2

\* An oracle that passes is right about the query.
THEOREM OraclesAreRight == AnswerSpec => []OraclesTellTruth
<1> DEFINE Inv == AnswerInv /\ CoverageInv /\ Abstains /\ Disclosed
<1>1. AnswerInit => Inv
  BY AnswerInvHolds DEF AnswerInit, CoverageInv, Abstains, Disclosed
<1>2. Inv /\ [AnswerNext]_answerVars => Inv'
  BY AnswerInvHolds, CoverageKeeps, AbstainsKeeps, DisclosedKeeps DEF AnswerInv
<1>3. Inv => OraclesTellTruth
  <2> HIDE DEF Inv
  <2>1. SUFFICES ASSUME Inv, NEW o \in Oracles, pc = "ended", Satisfies(o)
                 PROVE  /\ o.state = "abstained" => accepted = <<>> \/ \E row \in Range(rows) : ~row.covered
                        /\ o.cause = "uncovered_facet" => Emitted # {}
                        /\ \A r \in o.required :
                             \/ \E i \in Emitted : \E c \in Range(draft[i].cites) : RecordOf[c] = r
                             \/ \E c \in Evidence : r \in SuccessorsOf[RecordOf[c]]
                        /\ o.covering => \A prefix \in o.prefixes :
                             \E i \in Emitted : /\ \E row \in Range(rows) : i \in Range(row.by)
                                                /\ RestsOn(i, prefix, RequiredScope(o))
    BY DEF OraclesTellTruth
  <2> QED BY <2>1, OracleIsRight DEF Inv
<1> QED
  BY <1>1, <1>2, <1>3, PTL DEF AnswerSpec
=============================================================================
