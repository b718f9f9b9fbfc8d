------------------------------- MODULE QueryRun -------------------------------
(***************************************************************************)
(* `decision-memory query` (application/query.py, query_index) beside      *)
(* `ingest` and `adapt`: the whole of one query holds the shared lock, the *)
(* whole of one ingest the exclusive one, and the manifest is read three   *)
(* times while adapt, which takes no lock, may be rewriting it.  Queries   *)
(* change nothing, so one at a time shows all that they can see.  The      *)
(* model and the retrieval stages choose which chunks are cited.           *)
(***************************************************************************)
EXTENDS IngestRun

VARIABLES
  qpc,       \* the next step of the query
  allow,     \* --allow-stale was given
  began,     \* the manifest's stamp at the start: only the properties read it
  fresh,     \* the freshness the query found
  accepted,  \* the chunks retrieval accepted
  cites,     \* the chunks the emitted sentences cite
  notices,   \* <<predecessor, successor>> to disclose
  marked,    \* the cited records marked stale_version
  outcome    \* how the last query ended

queryVars == <<qpc, allow, began, fresh, accepted, cites, notices, marked, outcome>>

systemVars == <<vars, queryVars>>

Asking == qpc # "idle"

Ingesting == pc \notin {"idle", "done"}

\* The store lock, by what it promises (StoreLock implements it).
Lock == INSTANCE RWLock WITH
          Procs   <- {"ingest", "query"},
          readers <- IF Asking THEN {"query"} ELSE {},
          writers <- IF Ingesting THEN {"ingest"} ELSE {}

Outcomes == {"none", "answered", "abstained", "refused", "changed", "failed"}

QueryTypeOK ==
  /\ qpc \in {"idle", "check", "retrieve", "verify", "cite", "recheck"}
  /\ allow \in BOOLEAN
  /\ began \in Stamps
  /\ fresh \in {"none", "current", "drift", "unknown"}
  /\ accepted \subseteq Chunk /\ cites \subseteq accepted
  /\ notices \subseteq Records \X Records
  /\ marked \subseteq Records
  /\ outcome \in Outcomes

SystemInit ==
  /\ Init
  /\ qpc = "idle" /\ allow = FALSE /\ began = 0 /\ fresh = "none" /\ accepted = {}
  /\ cites = {} /\ notices = {} /\ marked = {} /\ outcome = "none"

-----------------------------------------------------------------------------
\* Mutant: no lock is taken.
AskUnlocked(a) ==
  /\ qpc = "idle"
  /\ qpc' = "check" /\ allow' = a /\ began' = stamp /\ fresh' = "none" /\ accepted' = {}
  /\ cites' = {} /\ notices' = {} /\ marked' = {} /\ outcome' = "none"
  /\ UNCHANGED vars

Ask(a) ==
  /\ qpc = "idle"
  /\ qpc' = "check" /\ allow' = a /\ began' = stamp /\ fresh' = "none" /\ accepted' = {}
  /\ cites' = {} /\ notices' = {} /\ marked' = {} /\ outcome' = "none"
  /\ UNCHANGED vars
  /\ Lock!AcquireShared("query")

\* The result is rendered and the process exits.
End(result) ==
  /\ qpc' = "idle" /\ outcome' = result
  /\ allow' = FALSE /\ began' = 0 /\ fresh' = "none"
  /\ accepted' = {} /\ cites' = {} /\ notices' = {} /\ marked' = {}
  /\ UNCHANGED vars

\* No generation, or one of another pipeline: --allow-stale does not help.
Unusable == active # None => gens[active].sig # pipeline

RefuseStore == qpc = "check" /\ Unusable /\ End("failed")

\* The first read of the manifest.
RefuseStale ==
  /\ qpc = "check" /\ ~Unusable
  /\ Freshness(gens[active], manifest) # "current" /\ ~allow
  /\ End("refused")

CheckFreshness ==
  /\ qpc = "check" /\ ~Unusable
  /\ Freshness(gens[active], manifest) = "current" \/ allow
  /\ fresh' = Freshness(gens[active], manifest)
  /\ qpc' = "retrieve"
  /\ UNCHANGED <<vars, allow, began, accepted, cites, notices, marked, outcome>>

\* No chunk is active, or the filters take none of them.
NothingToRetrieve == qpc = "retrieve" /\ End("abstained")

\* The filters, the two rankings, fusion and diversity accept some of the
\* active chunks; the notices of their records go to the model with them.
Retrieve(S) ==
  /\ qpc = "retrieve"
  /\ S # {} /\ S \subseteq ActiveChunks(gens[active])
  /\ Parity(gens[active])
  /\ accepted' = S
  /\ notices' = {<<c[1], q>> : c \in S, q \in Records}
                  \intersect {e \in Records \X Records : e[2] \in Notices(gens[active], e[1])}
  /\ qpc' = "verify"
  /\ UNCHANGED <<vars, allow, began, fresh, cites, marked, outcome>>

\* Each emitted sentence stands on accepted chunks it cites.
Verify(C) ==
  /\ qpc = "verify"
  /\ C # {} /\ C \subseteq accepted
  /\ cites' = C
  /\ qpc' = "cite"
  /\ UNCHANGED <<vars, allow, began, fresh, accepted, notices, marked, outcome>>

\* A facet of the question that no emitted sentence covers.
Uncovered == qpc = "verify" /\ End("abstained")

\* active_fingerprint reads the version of any one chunk row of the record.
Outdated(s, r, c) ==
  /\ s.ledger[r].st # "removed" /\ s.ledger[r].desired # None
  /\ c[2] # s.ledger[r].desired

Cite ==
  /\ qpc = "cite"
  /\ \E row \in [{c[1] : c \in cites} -> gens[active].chunks] :
       /\ \A r \in DOMAIN row : row[r][1] = r
       /\ marked' = {r \in DOMAIN row : Outdated(gens[active], r, row[r])}
  /\ qpc' = "recheck"
  /\ UNCHANGED <<vars, allow, began, fresh, accepted, cites, notices, outcome>>

\* Usage errors, parity problems, retrieval integrity failures and provider
\* failures end the query; the process may also be killed at any point.
FailQuery == Asking /\ End("failed")

\* Mutant: the second look compares entries, as the first one did.
RawChangedByEntries == gens[active].semantic # None /\ manifest # gens[active].semantic

\* The manifest's bytes against those the last ingest recorded; a store that
\* recorded none has nothing to compare with.
RawChanged ==
  /\ gens[active].raw # None
  /\ manifest = None \/ <<manifest, stamp>> # gens[active].raw

Answer == qpc = "recheck" /\ (RawChanged => allow) /\ End("answered")

RefuseChanged == qpc = "recheck" /\ RawChanged /\ ~allow /\ End("changed")

QueryStep ==
  \/ RefuseStore \/ RefuseStale \/ CheckFreshness
  \/ NothingToRetrieve
  \/ \E S \in SUBSET Chunk : Retrieve(S) \/ Verify(S)
  \/ Uncovered \/ Cite \/ FailQuery \/ Answer \/ RefuseChanged

\* A running query is one process: an upgrade concerns the next one.
IngestStep ==
  \/ (\E k \in BOOLEAN : BeginResume(k) \/ \E rb \in BOOLEAN : BeginFresh(rb, k))
       /\ UNCHANGED queryVars /\ Lock!AcquireExclusive("ingest")
  \/ (RunStep \/ Crash) /\ UNCHANGED queryVars

SystemNext ==
  \/ \E m \in Manifests \union {None} : PublishManifest(m) /\ UNCHANGED queryVars
  \/ \E p \in Pipelines : ~Asking /\ Upgrade(p) /\ UNCHANGED queryVars
  \/ IngestStep
  \/ \E a \in BOOLEAN : Ask(a)
  \/ QueryStep

SystemSpec == SystemInit /\ [][SystemNext]_systemVars

-----------------------------------------------------------------------------
(* What a query may rely on and what its user may. *)

\* The step that shows an answer.
Answering == Asking /\ outcome' = "answered"

\* What the query read is what the store still holds when it answers: nothing
\* it accepted was rewritten, superseded or deleted under it.
ReadsStayTrue ==
  qpc \in {"verify", "cite", "recheck"} =>
    /\ ~Unusable
    /\ accepted \subseteq ActiveChunks(gens[active]) \intersect gens[active].vecs
    /\ \A e \in notices : e[2] \in Notices(gens[active], e[1])

\* A default answer stands on one manifest, the one the store was made from:
\* adapt rewrote nothing since the query began, and no record has failed.
DefaultAnswersStandStill ==
  [][Answering /\ ~allow =>
       /\ stamp = began /\ fresh = "current"
       /\ manifest = gens[active].semantic
       /\ ~HasFailedRecords(gens[active])]_systemVars

\* What may be evidence, --allow-stale or not.  After a run that finished, only
\* the records that its manifest lists and that it could ingest, whatever an
\* earlier run failed on, or had begun to remove when it was killed; after a
\* run that was killed, a removal that it began may not have happened yet.
EvidenceIsServed ==
  Asking =>
    \A c \in accepted :
      \/ /\ gens[active].ledger[c[1]].st = "current"
         /\ pc = "done" => c[1] \in Listed(plan) \ failed
      \/ /\ gens[active].ledger[c[1]].st = "pending_removal"
         /\ pc = "idle"

-----------------------------------------------------------------------------
(* What the documents say of a query; the code does otherwise. *)

\* A query is refused for a manifest that changed during it only when the
\* manifest did change between its start and its recheck.
RefusedOnlyIfChanged ==
  [][Asking /\ outcome' = "changed" => stamp # began]_systemVars

\* A removal intent is ineligible before the content goes: a failed removal
\* never serves the record (active_chunks does not look at the state).
PendingNeverServed ==
  Asking => \A c \in accepted : gens[active].ledger[c[1]].st # "pending_removal"

\* Old vectors are inert: a default answer cites the version of a record that
\* its snapshot says is active.
CitesActiveVersions ==
  [][Answering /\ ~allow =>
       \A c \in cites : gens[active].snap[c[1]] = c[2]]_systemVars
=============================================================================
