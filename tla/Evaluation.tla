------------------------------ MODULE Evaluation ------------------------------
(***************************************************************************)
(* The oracles of the evaluation battery (application/evaluation.py) over  *)
(* the result of a query: they see its state, its coverage rows and the    *)
(* record and value path of its citations, which include the disclosures   *)
(* of supersessions, and are to tell from these what the query did.        *)
(***************************************************************************)
EXTENDS AnswerRun

CONSTANTS Oracles,         \* the expectations of the query fixtures
          ProposedRecords  \* [ids : set of records, unparsed : Nat]

\* QueryOracle refuses a cause with an answer, and the loader of a battery
\* (battery_manifest.py) an abstention that names a record or a value path;
\* EVALUATION_FIXTURES has neither.
ASSUME OracleAssumption ==
  /\ None \notin {"uncovered_facet", "no_emitted_sentences"}
  /\ \A o \in Oracles :
       /\ o.cause # None => o.state = "abstained"
       /\ o.state = "abstained" => o.required = {} /\ o.prefixes = {}

Abstained == outcome \in {"retrieval", "claim_verification"}

\* abstention_cause, None when it cannot be read.
AbstentionCause ==
  IF outcome # "claim_verification" \/ rows = <<>> THEN None
  ELSE IF \A row \in Range(rows) : row.reason = "none emitted" THEN "no_emitted_sentences"
  ELSE "uncovered_facet"

SupersedesPath == [field |-> "supersedes", index |-> None]

\* What an oracle sees of a citation; a disclosure cites the successor.
ChunkCitation(c) == [record |-> RecordOf[c], path |-> PathOf[c]]

Citations ==
  {ChunkCitation(x.chunk) : x \in Range(citations)}
    \union {[record |-> n[2], path |-> SupersedesPath] : n \in disclosed}

CitedRecords == {x.record : x \in Citations}

\* The sentences that some covered row names.
CoveringSentences == UNION {Range(row.by) : row \in {x \in Range(rows) : x.covered}}

\* Mutant: the citations of every sentence count.
CoveringCitationsOfAll == {ChunkCitation(x.chunk) : x \in Range(citations)}

CoveringCitations ==
  {ChunkCitation(c) : c \in UNION {Usable(draft[i]) : i \in CoveringSentences}}

HasPrefix(prefix, path) ==
  prefix.field = path.field /\ prefix.index \in {None, path.index}

RequiredScope(o) ==
  IF o.required # {} THEN o.required
  ELSE IF o.proposed THEN ProposedRecords.ids ELSE {}

Matched(o, prefix) ==
  \E x \in IF o.covering THEN CoveringCitations ELSE Citations :
    HasPrefix(prefix, x.path) /\ (RequiredScope(o) # {} => x.record \in RequiredScope(o))

\* _satisfies.
Satisfies(o) ==
  IF o.state = "abstained"
    THEN /\ Abstained /\ Citations = {}
         /\ o.cause # None => AbstentionCause = o.cause
    ELSE /\ outcome = "answered"
         /\ o.proposed => /\ ProposedRecords.unparsed = 0
                          /\ ProposedRecords.ids # {}
                          /\ ProposedRecords.ids \subseteq CitedRecords
         /\ o.required \subseteq CitedRecords
         /\ \A prefix \in o.prefixes : Matched(o, prefix)

-----------------------------------------------------------------------------
(* What correctness means. *)

\* The sentence rests on a chunk at such a path, of such a record.
RestsOn(i, prefix, scope) ==
  \E c \in Range(draft[i].cites) :
    HasPrefix(prefix, PathOf[c]) /\ (scope # {} => RecordOf[c] \in scope)

\* An oracle that passes is right about the query: a facet that was left
\* uncovered was weighed against sentences that were emitted, a required
\* record stands behind an emitted sentence or succeeds one of the evidence,
\* and with the covering scope each prefix is that of a chunk behind a
\* sentence that covers a facet.
OraclesTellTruth ==
  \A o \in Oracles :
    pc = "ended" /\ Satisfies(o) =>
      /\ o.state = "abstained" => accepted = <<>> \/ \E row \in Range(rows) : ~row.covered
      /\ o.cause = "uncovered_facet" => Emitted # {}
      /\ \A r \in o.required :
           \/ \E i \in Emitted : \E c \in Range(draft[i].cites) : RecordOf[c] = r
           \/ \E c \in Evidence : r \in SuccessorsOf[RecordOf[c]]
      /\ o.covering => \A prefix \in o.prefixes :
           \E i \in Emitted : /\ \E row \in Range(rows) : i \in Range(row.by)
                              /\ RestsOn(i, prefix, RequiredScope(o))
=============================================================================
