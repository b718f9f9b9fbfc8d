------------------------------ MODULE IngestRun ------------------------------
(***************************************************************************)
(* `decision-memory ingest` (application/ingest.py, _run_ingest) over the  *)
(* store of generations, one SQLite transaction, Chroma call or file       *)
(* rename per step, with a crash allowed between any two.  The exclusive   *)
(* lock makes one run at a time (StoreLock); `adapt` takes no lock, so the *)
(* manifest and the record files can change under a run.                   *)
(***************************************************************************)
EXTENDS GenerationStore

CONSTANTS
  GenIds,     \* the fresh generation ids there are; bounds the rebuilds
  Manifests   \* the manifests adapt may publish

ASSUME GenIdsAssumption == None \notin GenIds

ASSUME ManifestsAssumption == Manifests \subseteq Entries

VARIABLES
  pipeline,  \* the signature of the program that is installed
  manifest,  \* the entries of the records manifest, None without a file
  stamp,     \* the generated_at of that file
  active,    \* the ACTIVE file
  gens,      \* the generation directories
  made,      \* the ones that have been created
  pc,        \* the next step of the run
  rebuild,   \* --rebuild was given
  key,       \* OPENAI_API_KEY is set for this run
  plan,      \* the manifest the run read when it began
  gen,       \* the generation the run writes
  prior,     \* the record states read when it began
  todo,      \* entries still to process
  gone,      \* records still to remove
  cur,       \* the record being written or removed
  doomed,    \* chunk ids remove_record read before its transaction
  old,       \* the chunk ids write_record returned, to delete at the end
  failed     \* records this run could not ingest

corpusVars == <<pipeline, manifest, stamp>>
storeVars  == <<active, gens, made>>
runVars    == <<pc, rebuild, key, plan, gen, prior, todo, gone, cur, doomed, old,
                failed>>
vars       == <<corpusVars, storeVars, runVars>>

NoStates == [r \in Records |-> NoRow]

Labels == {"idle", "records", "upserted", "pending", "tombstoned", "derive",
           "activate", "record", "retire", "done"}

BeforeActivation == {"records", "upserted", "pending", "tombstoned", "derive", "activate"}

TypeOK ==
  /\ pipeline \in Pipelines
  /\ manifest \in Manifests \union {None}
  /\ stamp \in Stamps
  /\ active \in made \union {None}
  /\ made \subseteq GenIds
  /\ gens \in [GenIds -> Generation]
  /\ pc \in Labels
  /\ rebuild \in BOOLEAN /\ key \in BOOLEAN
  /\ plan \in Entries
  /\ gen \in made \union {None}
  /\ prior \in [Records -> Row]
  /\ todo \subseteq Records /\ gone \subseteq Records /\ failed \subseteq Records
  /\ cur \in Records \union {None}
  /\ doomed \subseteq Chunk /\ old \subseteq Chunk

Quiet ==
  /\ pc = "idle" /\ rebuild = FALSE /\ key = FALSE /\ plan = NoEntries /\ gen = None
  /\ prior = NoStates /\ todo = {} /\ gone = {} /\ cur = None
  /\ doomed = {} /\ old = {} /\ failed = {}

Init ==
  /\ pipeline \in Pipelines
  /\ manifest \in Manifests \union {None}
  /\ stamp = 0
  /\ active = None
  /\ gens = [g \in GenIds |-> EmptyGeneration(pipeline)]
  /\ made = {}
  /\ Quiet

-----------------------------------------------------------------------------
\* Around the run.

\* adapt rewrites the manifest, with a new generated_at and so new bytes, or
\* the file is lost; no lock is taken.
PublishManifest(m) ==
  /\ stamp < MaxStamp
  /\ manifest' = m
  /\ stamp' = stamp + 1
  /\ UNCHANGED <<pipeline, storeVars, runVars>>

\* A new release of the program, with other chunking or embedding settings.
Upgrade(p) ==
  /\ pc \in {"idle", "done"}
  /\ pipeline' = p
  /\ UNCHANGED <<manifest, stamp, storeVars, runVars>>

\* The run ends without a result to keep: an error exit, an exception or a
\* kill.  What it wrote stays; a later run reads only the store.
EndRun ==
  /\ pc' = "idle" /\ rebuild' = FALSE /\ key' = FALSE /\ plan' = NoEntries
  /\ gen' = None /\ prior' = NoStates /\ todo' = {} /\ gone' = {} /\ cur' = None
  /\ doomed' = {} /\ old' = {} /\ failed' = {}

Crash == pc \notin {"idle", "done"} /\ EndRun /\ UNCHANGED <<corpusVars, storeVars>>

-----------------------------------------------------------------------------
\* The run.

\* Mutant: compares the wanted version, whatever became of it.
UnchangedByDesired(entries, states, r) == states[r].desired = entries[r]

Unchanged(entries, states, r) ==
  states[r].st = "current" /\ states[r].active = entries[r]

Listed(entries) == {r \in Records : entries[r] # None}

\* Mutant: asks for a key only when a fingerprint changed.
PlanNeedsProviderByFingerprint(entries, states) ==
  \E r \in Listed(entries) : states[r].active # entries[r]

\* The plan's own copy of the test that _ingest_entry makes (Unchanged).
PlanNeedsProvider(entries, states) ==
  \E r \in Listed(entries) :
    ~(states[r].st = "current" /\ states[r].active = entries[r])

\* Mutant: removes current records only, and not what a killed run had marked.
BeginForgettingMarked(states, rb, k) ==
  /\ pc \in {"idle", "done"}
  /\ manifest # None
  /\ PlanNeedsProvider(manifest, states) => k
  /\ pc' = "records" /\ rebuild' = rb /\ key' = k /\ plan' = manifest /\ prior' = states
  /\ todo' = Listed(manifest)
  /\ gone' = {r \in Records \ Listed(manifest) : states[r].st = "current"}
  /\ cur' = None /\ doomed' = {} /\ old' = {} /\ failed' = {}
  /\ UNCHANGED <<corpusVars, active>>

\* A run that passes its checks: the API key is asked for only when the plan
\* embeds something, and before the store is touched.
Begin(states, rb, k) ==
  /\ pc \in {"idle", "done"}
  /\ manifest # None
  /\ PlanNeedsProvider(manifest, states) => k
  /\ pc' = "records" /\ rebuild' = rb /\ key' = k /\ plan' = manifest /\ prior' = states
  /\ todo' = Listed(manifest)
  /\ gone' = {r \in Records \ Listed(manifest) : states[r].st \notin {"absent", "removed"}}
  /\ cur' = None /\ doomed' = {} /\ old' = {} /\ failed' = {}
  /\ UNCHANGED <<corpusVars, active>>

\* Mutant: no comparison of signatures.
BeginResumeUnchecked(k) ==
  /\ active # None
  /\ Begin(gens[active].ledger, FALSE, k)
  /\ gen' = active
  /\ UNCHANGED <<gens, made>>

\* A normal run continues the active generation, if its signature is ours.
BeginResume(k) ==
  /\ active # None
  /\ gens[active].sig = pipeline
  /\ Begin(gens[active].ledger, FALSE, k)
  /\ gen' = active
  /\ UNCHANGED <<gens, made>>

\* Mutant: a rebuild that starts from a copy of the active generation.
BeginFreshCopy(rb, k) ==
  /\ rb \/ active = None
  /\ Begin(NoStates, rb, k)
  /\ \E g \in GenIds \ made :
       /\ gen' = g
       /\ made' = made \union {g}
       /\ gens' = [gens EXCEPT ![g] = IF active = None THEN EmptyGeneration(pipeline)
                                                      ELSE gens[active]]

\* Mutant: a rebuild that plans from the states of the active generation.
BeginFreshPlanned(rb, k) ==
  /\ rb \/ active = None
  /\ Begin(IF active = None THEN NoStates ELSE gens[active].ledger, rb, k)
  /\ \E g \in GenIds \ made :
       /\ gen' = g
       /\ made' = made \union {g}
       /\ gens' = [gens EXCEPT ![g] = EmptyGeneration(pipeline)]

\* --rebuild, or a first run, stages a generation of its own.  (So does a run
\* that finds the generation.json of the active one unreadable; the program
\* renames that file into place before any ACTIVE names the generation.)
BeginFresh(rb, k) ==
  /\ rb \/ active = None
  /\ Begin(NoStates, rb, k)
  /\ \E g \in GenIds \ made :
       /\ gen' = g
       /\ made' = made \union {g}
       /\ gens' = [gens EXCEPT ![g] = EmptyGeneration(pipeline)]

Write(s) == gens' = [gens EXCEPT ![gen] = s]

\* _unchanged_entry, when the record still validates.
SkipUnchanged(r) ==
  /\ pc = "records" /\ r \in todo
  /\ Unchanged(plan, prior, r)
  /\ todo' = todo \ {r}
  /\ UNCHANGED <<corpusVars, storeVars, pc, rebuild, key, plan, gen, prior, gone, cur,
                 doomed, old, failed>>

\* The record file is unreadable, its digests or provenance do not hold, it
\* cannot be chunked, or the provider failed: all depend on files and services
\* outside the store, so any entry may fail.  For an unchanged entry the active
\* fingerprint passed on is the entry's own, which is the prior one.
FailEntry(r) ==
  /\ pc = "records" /\ r \in todo
  /\ Write(MarkFailed(gens[gen], r, plan[r], prior[r].active))
  /\ todo' = todo \ {r}
  /\ failed' = failed \union {r}
  /\ UNCHANGED <<corpusVars, active, made, pc, rebuild, key, plan, gen, prior, gone,
                 cur, doomed, old>>

\* An added or changed entry was embedded: its vectors go first.
UpsertRecord(r) ==
  /\ pc = "records" /\ r \in todo
  /\ ~Unchanged(plan, prior, r)
  /\ Write(UpsertVectors(gens[gen], r, plan[r]))
  /\ old' = old \union ChunksOf(gens[gen], r)
  /\ cur' = r
  /\ pc' = "upserted"
  /\ UNCHANGED <<corpusVars, active, made, rebuild, key, plan, gen, prior, todo, gone,
                 doomed, failed>>

\* Mutant: old vectors go with the commit.
CommitRecordRetiring ==
  /\ pc = "upserted"
  /\ Write(DeleteVectors(WriteRows(gens[gen], cur, plan[cur]),
                         {c \in old : c[1] = cur /\ c[2] # plan[cur]}))
  /\ todo' = todo \ {cur}
  /\ cur' = None
  /\ pc' = "records"
  /\ UNCHANGED <<corpusVars, active, made, rebuild, key, plan, gen, prior, gone, doomed,
                 old, failed>>

CommitRecord ==
  /\ pc = "upserted"
  /\ Write(WriteRows(gens[gen], cur, plan[cur]))
  /\ todo' = todo \ {cur}
  /\ cur' = None
  /\ pc' = "records"
  /\ UNCHANGED <<corpusVars, active, made, rebuild, key, plan, gen, prior, gone, doomed,
                 old, failed>>

\* A record the manifest no longer lists, after the entries.
MarkPending(r) ==
  /\ pc = "records" /\ todo = {} /\ r \in gone
  /\ Write(MarkPendingRemoval(gens[gen], r))
  /\ cur' = r
  /\ pc' = "pending"
  /\ UNCHANGED <<corpusVars, active, made, rebuild, key, plan, gen, prior, todo, gone,
                 doomed, old, failed>>

RemoveContent ==
  /\ pc = "pending"
  /\ doomed' = ChunksOf(gens[gen], cur)
  /\ Write(Tombstone(gens[gen], cur, prior[cur].active))
  /\ pc' = "tombstoned"
  /\ UNCHANGED <<corpusVars, active, made, rebuild, key, plan, gen, prior, todo, gone,
                 cur, old, failed>>

\* delete_vectors swallows its errors: the vectors go, or they stay.
DeleteOrSkip(ids) ==
  \/ Write(DeleteVectors(gens[gen], ids))
  \/ UNCHANGED gens

PurgeRemoved ==
  /\ pc = "tombstoned"
  /\ DeleteOrSkip(doomed)
  /\ gone' = gone \ {cur}
  /\ cur' = None
  /\ doomed' = {}
  /\ pc' = "records"
  /\ UNCHANGED <<corpusVars, active, made, rebuild, key, plan, gen, prior, todo, old,
                 failed>>

CleanupOrphans ==
  /\ pc = "records" /\ todo = {} /\ gone = {}
  /\ DeleteOrSkip(Orphans(gens[gen]))
  /\ pc' = "derive"
  /\ UNCHANGED <<corpusVars, active, made, rebuild, key, plan, gen, prior, todo, gone,
                 cur, doomed, old, failed>>

\* Mutant: ACTIVE is renamed before the generation is verified.
DeriveLinksAndSwitch ==
  /\ pc = "derive"
  /\ ~HasCycle(SupersessionEdges(gens[gen]))
  /\ Write(DeriveSupersessions(gens[gen]))
  /\ active' = gen
  /\ pc' = "activate"
  /\ UNCHANGED <<corpusVars, made, rebuild, key, plan, gen, prior, todo, gone, cur,
                 doomed, old, failed>>

DeriveLinks ==
  /\ pc = "derive"
  /\ ~HasCycle(SupersessionEdges(gens[gen]))
  /\ Write(DeriveSupersessions(gens[gen]))
  /\ pc' = "activate"
  /\ UNCHANGED <<corpusVars, active, made, rebuild, key, plan, gen, prior, todo, gone,
                 cur, doomed, old, failed>>

\* activate's digest update is read by nothing; the rename of ACTIVE counts.
Activate ==
  /\ pc = "activate"
  /\ Parity(gens[gen])
  /\ active' = gen
  /\ pc' = "record"
  /\ UNCHANGED <<corpusVars, gens, made, rebuild, key, plan, gen, prior, todo, gone, cur,
                 doomed, old, failed>>

\* A supersession cycle or a parity problem fails the run, before ACTIVE; a
\* manifest that has gone fails it after.
Refuse ==
  /\ \/ pc = "derive" /\ HasCycle(SupersessionEdges(gens[gen]))
     \/ pc = "activate" /\ ~Parity(gens[gen])
     \/ pc = "record" /\ manifest = None
  /\ EndRun
  /\ UNCHANGED <<corpusVars, storeVars>>

\* Mutant: the semantic digest of the file that is there now as well.
RecordLatestManifest ==
  /\ pc = "record"
  /\ manifest # None
  /\ Write(SetManifestMetadata(gens[gen], manifest, <<manifest, stamp>>))
  /\ pc' = "retire"
  /\ UNCHANGED <<corpusVars, active, made, rebuild, key, plan, gen, prior, todo, gone,
                 cur, doomed, old, failed>>

\* The semantic digest of the manifest read at the start, the raw digest of
\* the file that is there now.
RecordManifest ==
  /\ pc = "record"
  /\ manifest # None
  /\ Write(SetManifestMetadata(gens[gen], plan, <<manifest, stamp>>))
  /\ pc' = "retire"
  /\ UNCHANGED <<corpusVars, active, made, rebuild, key, plan, gen, prior, todo, gone,
                 cur, doomed, old, failed>>

\* Old vectors last, one record's list at a time.
RetireOldVectors(r) ==
  /\ pc = "retire"
  /\ LET ids == {c \in old : c[1] = r} IN
       /\ ids # {}
       /\ DeleteOrSkip(ids)
       /\ old' = old \ ids
  /\ UNCHANGED <<corpusVars, active, made, pc, rebuild, key, plan, gen, prior, todo,
                 gone, cur, doomed, failed>>

Finish ==
  /\ pc = "retire" /\ old = {}
  /\ pc' = "done"
  /\ prior' = NoStates
  /\ UNCHANGED <<corpusVars, storeVars, rebuild, key, plan, gen, todo, gone, cur, doomed,
                 old, failed>>

RunStep ==
  \/ \E r \in Records :
       \/ SkipUnchanged(r) \/ FailEntry(r) \/ UpsertRecord(r)
       \/ MarkPending(r) \/ RetireOldVectors(r)
  \/ CommitRecord
  \/ RemoveContent \/ PurgeRemoved
  \/ CleanupOrphans \/ DeriveLinks \/ Activate \/ Refuse \/ RecordManifest \/ Finish

Next ==
  \/ \E m \in Manifests \union {None} : PublishManifest(m)
  \/ \E p \in Pipelines : Upgrade(p)
  \/ \E k \in BOOLEAN : BeginResume(k) \/ \E rb \in BOOLEAN : BeginFresh(rb, k)
  \/ RunStep
  \/ Crash

Spec == Init /\ [][Next]_vars

-----------------------------------------------------------------------------
(* What the store's tables and files say together. *)

\* One record of one generation.  A snapshot exists for a current record, and
\* until its removal commits; it is the version the ledger calls active, and
\* that version's chunk rows are there.  A tombstone has no content left.
RecordConsistent(s, r) ==
  /\ s.ledger[r].st = "current" => s.snap[r] # None
  /\ s.snap[r] # None =>
       /\ s.ledger[r].st \in {"current", "pending_removal"}
       /\ s.ledger[r].active = s.snap[r] /\ s.ledger[r].desired = s.snap[r]
       /\ <<r, s.snap[r]>> \in s.chunks
  /\ s.ledger[r].st \in {"absent", "removed"} => ChunksOf(s, r) = {}

\* Every generation ever made, finished or left behind by a crash, agrees with
\* itself: what query serves for a record is what the ledger says is active,
\* and nothing of a removed record can be served.
StoreConsistent ==
  \A g \in made, r \in Records : RecordConsistent(gens[g], r)

\* ACTIVE moves only to a generation that is complete: a vector behind every
\* chunk row, the supersession links of its own snapshots, and every record of
\* the plan current at its version or recorded as failed.
SwitchesToComplete ==
  [][active' # active =>
       LET s == gens'[active'] IN
       /\ Parity(s)
       /\ s.links = SupersessionEdges(s)
       /\ \A r \in Records :
            \/ s.snap[r] = plan[r]
            \/ r \in failed /\ s.ledger[r].st = "failed"]_vars

\* A rebuild works beside the generation being served: until it has verified
\* its own, no step of it, and no death of it, changes the active one.
RebuildWorksAside ==
  [][rebuild /\ pc \in BeforeActivation /\ active # None
       => /\ gens'[active] = gens[active]
          /\ active' # active => pc = "activate"]_vars

\* Chunks of two pipelines never meet in one generation: whatever is upgraded
\* between runs or left behind by a crash, only a program with the signature
\* of a generation writes to it.
PipelinesNeverMix ==
  [][\A g \in made : gens'[g] # gens[g] => gens[g].sig = pipeline]_vars

\* Old vectors last: as long as the run has not switched ACTIVE, no step takes
\* away a vector some chunk row still needs, in any generation.
OldVectorsLast ==
  [][\A g \in made : (Parity(gens[g]) /\ pc # "retire") => Parity(gens'[g])]_vars

\* A run that reports success has made the store the manifest it read: the
\* snapshots, the tombstones and the disclosed successors are exactly its own.
CompletedMatchesPlan ==
  pc = "done" /\ failed = {} =>
    LET s == gens[active] IN
    /\ s.snap = plan
    /\ \A r \in Records \ Listed(plan) : s.ledger[r].st \in {"absent", "removed"}
    /\ \A p, q \in Records :
         q \in Notices(s, p) <=> plan[q] # None /\ SupersedesOf[q][plan[q]] = p

\* A finished rebuild holds its plan and nothing else, rows and vectors alike.
RebuildIsExact ==
  pc = "done" /\ rebuild =>
    LET s == gens[active] IN
    /\ s.chunks = {c \in Chunk : plan[c[1]] = c[2] /\ c[1] \notin failed}
    /\ s.vecs = s.chunks

\* Freshness after a run is honest about the run's own failures and about a
\* manifest that adapt replaced while the run was on: current exactly when
\* nothing failed and the manifest is still the one that was ingested.
FreshnessHonest ==
  pc = "done" =>
    (Freshness(gens[active], manifest) = "current" <=> failed = {} /\ manifest = plan)

\* The plan's question and the loop's agree: a run that was let through
\* without an API key never reaches an embedding call.
KeylessNeverEmbeds == pc = "upserted" => key

-----------------------------------------------------------------------------
(* What the documents say of the store; the code does otherwise. *)

\* A successful ingest leaves an index that query accepts: every active
\* SQLite chunk has its Chroma vector.
CompletedIsQueryable == pc = "done" /\ failed = {} => Parity(gens[active])

\* A failed update keeps its prior version: its snapshot is present.
FailedKeepsPrior ==
  \A g \in made, r \in Records :
    gens[g].ledger[r].st = "failed" /\ gens[g].ledger[r].active # None
      => gens[g].snap[r] = gens[g].ledger[r].active

\* Only a complete generation may replace ACTIVE: a generation with a failed
\* record never takes over from one that is being served.
OnlyCompleteReplaces == [][active # None /\ active' # active => failed = {}]_vars
=============================================================================
