------------------------------ MODULE Retrieval ------------------------------
(***************************************************************************)
(* The retrieval stages of a query (application/query.py, filters.py) as   *)
(* operators: the filters, the two rankings, their fusion, the selection   *)
(* in two passes that keeps one record from filling the evidence, and the  *)
(* citations of an answer.  Scores and distances are numbers to compare.   *)
(***************************************************************************)
EXTENDS Naturals, Sequences, FiniteSets, SequencesExt

CONSTANTS Chunks,          \* the ids of the active chunks
          RecordOf,        \* [Chunks -> record]
          StatusOf,        \* [Chunks -> status of the record, or None]
          TagsOf,          \* [Chunks -> set of tags of the record]
          PathOf,          \* [Chunks -> value path]
          StableKey,       \* [Chunks -> Nat], the order of stable_sort_key
          CandidateLimit, AcceptedLimit, DiversityCap, RRFConstant,
          Star,            \* the index of a selector that takes any index
          None

ASSUME RetrievalAssumption ==
  /\ IsFiniteSet(Chunks)
  /\ StableKey \in [Chunks -> Nat] /\ IsInjective(StableKey)
  /\ CandidateLimit \in Nat \ {0} /\ AcceptedLimit \in Nat \ {0} /\ DiversityCap \in Nat \ {0}
  /\ RRFConstant \in Nat

-----------------------------------------------------------------------------
(* Filters. A value path is a field and, in a list, an index. *)

MatchesValuePath(selector, path) ==
  \/ selector = path
  \/ selector.index = Star /\ path.index # None /\ selector.field = path.field

\* The constraints a chunk fails: OR within a field, AND across fields, and
\* no constraint where nothing was asked.
ExclusionReasons(c, filters) ==
  {field \in DOMAIN filters :
     /\ filters[field] # {}
     /\ CASE field = "record_id" -> RecordOf[c] \notin filters[field]
          [] field = "status" -> StatusOf[c] \notin filters[field]
          [] field = "tag" -> TagsOf[c] \intersect filters[field] = {}
          [] field = "value_path" ->
               \A selector \in filters[field] : ~MatchesValuePath(selector, PathOf[c])}

Passing(filters) == {c \in Chunks : ExclusionReasons(c, filters) = {}}

-----------------------------------------------------------------------------
(* Rankings: a rank from 1, or 0 for a chunk that is not ranked. *)

Unranked == [c \in Chunks |-> 0]

\* The chunks of S ranked by how many others are ahead of each.
RankBy(S, ahead) == [c \in Chunks |-> IF c \in S THEN 1 + Cardinality(ahead[c]) ELSE 0]

Cut(rank) == [c \in Chunks |-> IF rank[c] <= CandidateLimit THEN rank[c] ELSE 0]

FirstByKey(c, d) == StableKey[c] < StableKey[d]

\* Only positive scores are ranked: a chunk without a query term, and one
\* whose score is not positive, score 0 here.
RankLexical(score) ==
  LET S == {c \in DOMAIN score : score[c] > 0}
      Better(c, d) == score[c] > score[d] \/ (score[c] = score[d] /\ FirstByKey(c, d))
  IN Cut(RankBy(S, [c \in S |-> {d \in S : Better(d, c)}]))

RankSemantic(distance) ==
  LET S == DOMAIN distance
      Better(c, d) ==
        distance[c] < distance[d] \/ (distance[c] = distance[d] /\ FirstByKey(c, d))
  IN Cut(RankBy(S, [c \in S |-> {d \in S : Better(d, c)}]))

\* The sum of 1/(constant + rank) over the rankings that hold the chunk, as a
\* fraction.
Fused(lexical, semantic) ==
  IF lexical = 0 THEN <<1, RRFConstant + semantic>>
  ELSE IF semantic = 0 THEN <<1, RRFConstant + lexical>>
  ELSE <<2 * RRFConstant + lexical + semantic,
         (RRFConstant + lexical) * (RRFConstant + semantic)>>

Greater(x, y) == x[1] * y[2] > y[1] * x[2]

Candidates(lex, sem) == {c \in Chunks : lex[c] > 0 \/ sem[c] > 0}

FusedRank(lex, sem) ==
  LET S == Candidates(lex, sem)
      score == [c \in S |-> Fused(lex[c], sem[c])]
      Better(c, d) == \/ Greater(score[c], score[d])
                      \/ ~Greater(score[d], score[c]) /\ FirstByKey(c, d)
  IN RankBy(S, [c \in S |-> {d \in S : Better(d, c)}])

\* The candidates from fused rank 1 upward.
FusedOrder(lex, sem) ==
  LET rank == FusedRank(lex, sem)
  IN [i \in 1..Cardinality(Candidates(lex, sem)) |-> CHOOSE c \in Chunks : rank[c] = i]

-----------------------------------------------------------------------------
(* Selection in two passes. *)

FromRecord(seq, r) == {i \in DOMAIN seq : RecordOf[seq[i]] = r}

\* Mutant: the cap is compared one too late.
BreadthBeyondCap(pass, c) ==
  IF Len(pass.accepted) >= AcceptedLimit THEN pass
  ELSE IF Cardinality(FromRecord(pass.accepted, RecordOf[c])) > DiversityCap
    THEN [pass EXCEPT !.deferred = Append(@, c)]
  ELSE [pass EXCEPT !.accepted = Append(@, c)]

\* One candidate of the breadth pass.
Breadth(pass, c) ==
  IF Len(pass.accepted) >= AcceptedLimit THEN pass
  ELSE IF Cardinality(FromRecord(pass.accepted, RecordOf[c])) >= DiversityCap
    THEN [pass EXCEPT !.deferred = Append(@, c)]
  ELSE [pass EXCEPT !.accepted = Append(@, c)]

Diversify(order) ==
  FoldLeft(Breadth, [accepted |-> <<>>, deferred |-> <<>>], order)

\* The fill pass takes deferred candidates while there is room.
Select(order) ==
  LET pass == Diversify(order)
      room == AcceptedLimit - Len(pass.accepted)
  IN pass.accepted
       \o SubSeq(pass.deferred, 1,
                 IF Len(pass.deferred) < room THEN Len(pass.deferred) ELSE room)

-----------------------------------------------------------------------------
(* What a fair selection is, whatever the passes. *)

\* The candidates of a record that come before c.
Earlier(order, c) ==
  {i \in FromRecord(order, RecordOf[c]) : \E j \in DOMAIN order : order[j] = c /\ i < j}

WithinCap(order) == {c \in Range(order) : Cardinality(Earlier(order, c)) < DiversityCap}

FairSelection(order, accepted) ==
  /\ IsInjective(accepted) /\ Range(accepted) \subseteq Range(order)
  \* Nothing that fits is left out.
  /\ Len(accepted) = IF Len(order) < AcceptedLimit THEN Len(order) ELSE AcceptedLimit
  \* A record goes beyond its cap only when every record has had its share.
  /\ Range(accepted) \subseteq WithinCap(order) \/ WithinCap(order) \subseteq Range(accepted)
  \* Better candidates of a record first, and better shares of records first.
  /\ \A c \in Range(accepted) : \A i \in Earlier(order, c) : order[i] \in Range(accepted)
  /\ \A i, j \in DOMAIN order :
       (i < j /\ order[i] \in WithinCap(order) /\ order[j] \in WithinCap(order)
              /\ order[j] \in Range(accepted)) => order[i] \in Range(accepted)
=============================================================================
