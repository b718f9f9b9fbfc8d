--------------------------- MODULE QueryRunProofs ---------------------------
(***************************************************************************)
(* What an ingest run and a query guarantee, for every set of records,     *)
(* fingerprints, pipelines, generations and manifests.  Whatever           *)
(* interrupts an ingest, the store agrees with itself, and a run that gets *)
(* to its end has made it the manifest that the run read; to its end or to *)
(* its failure it does come, nearer with every step.  While a query        *)
(* asks no ingest runs, so the store it reads stands still, and the two    *)
(* digests it compares tell it whether the manifest did as well.           *)
(***************************************************************************)
EXTENDS QueryRun, FoldTheorems

-----------------------------------------------------------------------------
(* The ingest run. *)

\* What the run's own variables say at each step.
RunShape ==
  /\ pc # "idle" => gen \in made
  /\ pc \notin {"idle", "done"} => gens[gen].sig = pipeline
  /\ todo \subseteq Listed(plan)
  /\ gone \subseteq Records \ Listed(plan)
  /\ pc = "upserted" => /\ cur \in todo /\ <<cur, plan[cur]>> \in gens[gen].vecs
                        /\ ~Unchanged(plan, prior, cur)
  /\ pc \in {"pending", "tombstoned"} => cur \in gone /\ todo = {}
  /\ pc = "tombstoned" => /\ doomed \intersect gens[gen].chunks = {}
                          /\ gens[gen].ledger[cur].st = "removed"
  /\ pc \in {"derive", "activate", "record", "retire", "done"} => todo = {} /\ gone = {}
  /\ pc \in {"record", "retire", "done"} => active = gen
  /\ rebuild /\ pc \in BeforeActivation => gen # active
  /\ ~key => \A r \in todo : Unchanged(plan, prior, r)

\* How far the run has got with the generation it writes: what is still to do
\* is as it was when the run began, what is done is as the plan wants it.
Settled(s, r) ==
  IF r \in failed THEN s.ledger[r].st = "failed"
  ELSE IF plan[r] # None THEN s.snap[r] = plan[r] /\ s.ledger[r].st = "current"
  ELSE s.ledger[r].st \in {"absent", "removed"}

Progress ==
  pc # "idle" =>
    /\ \A r \in todo : gens[gen].ledger[r] = prior[r]
    /\ \A r \in Records \ (todo \union gone) : Settled(gens[gen], r)
    /\ failed \subseteq Listed(plan) \ todo
    /\ pc \in {"activate", "record", "retire", "done"} =>
         gens[gen].links = SupersessionEdges(gens[gen])
    /\ pc \in {"retire", "done"} => gens[gen].semantic = plan

IInv == TypeOK /\ StoreConsistent /\ RunShape /\ Progress

-----------------------------------------------------------------------------
(* The writer's operators, one generation at a time. *)

LEMMA EmptyType ==
  ASSUME NEW sig \in Pipelines
  PROVE  /\ EmptyGeneration(sig) \in Generation
         /\ \A r \in Records : RecordConsistent(EmptyGeneration(sig), r)
<1>1. NoRow \in Row
  BY DEF NoRow, Row, RecordStates
<1>2. EmptyGeneration(sig) \in Generation
  BY <1>1 DEF EmptyGeneration, Generation, NoEntries
<1>3. ASSUME NEW r \in Records PROVE RecordConsistent(EmptyGeneration(sig), r)
  BY DEF EmptyGeneration, NoRow, NoEntries, RecordConsistent, ChunksOf
<1>4. QED BY <1>2, <1>3

LEMMA UpsertType ==
  ASSUME NEW s \in Generation, NEW r \in Records, NEW v \in Fps
  PROVE  UpsertVectors(s, r, v) \in Generation
  BY DEF UpsertVectors, Generation, Chunk

LEMMA RowsType ==
  ASSUME NEW s \in Generation, NEW r \in Records, NEW v \in Fps
  PROVE  WriteRows(s, r, v) \in Generation
<1>1. [st |-> "current", desired |-> v, active |-> v] \in Row
  BY DEF Row, RecordStates
<1>2. <<r, v>> \in Chunk
  BY DEF Chunk
<1>3. s.chunks \union {<<r, v>>} \in SUBSET Chunk
  BY <1>2 DEF Generation
<1>4. [s.ledger EXCEPT ![r] = [st |-> "current", desired |-> v, active |-> v]]
        \in [Records -> Row]
  BY <1>1 DEF Generation
<1>5. [s.snap EXCEPT ![r] = v] \in [Records -> Fps \union {None}]
  BY DEF Generation
<1>6. QED BY <1>3, <1>4, <1>5 DEF WriteRows, Generation

LEMMA FailedType ==
  ASSUME NEW s \in Generation, NEW r \in Records, NEW v \in Fps,
         NEW a \in Fps \union {None}
  PROVE  MarkFailed(s, r, v, a) \in Generation
  BY DEF MarkFailed, Generation, Row, RecordStates

LEMMA PendingType ==
  ASSUME NEW s \in Generation, NEW r \in Records
  PROVE  MarkPendingRemoval(s, r) \in Generation
<1>1. [s.ledger[r] EXCEPT !.st = "pending_removal"] \in Row
  BY DEF Generation, Row, RecordStates
<1>2. [s.ledger EXCEPT ![r].st = "pending_removal"] \in [Records -> Row]
  BY <1>1 DEF Generation
<1>3. QED BY <1>2 DEF MarkPendingRemoval, Generation

LEMMA TombstoneType ==
  ASSUME NEW s \in Generation, NEW r \in Records, NEW a \in Fps \union {None}
  PROVE  Tombstone(s, r, a) \in Generation
<1>1. [st |-> "removed", desired |-> a, active |-> None] \in Row
  BY DEF Row, RecordStates
<1>2. QED BY <1>1 DEF Tombstone, Generation, ChunksOf

LEMMA DeleteType ==
  ASSUME NEW s \in Generation, NEW ids
  PROVE  DeleteVectors(s, ids) \in Generation
  BY DEF DeleteVectors, Generation

LEMMA MetadataType ==
  ASSUME NEW s \in Generation, NEW e \in Entries, NEW d \in RawDigests
  PROVE  SetManifestMetadata(s, e, d) \in Generation
  BY DEF SetManifestMetadata, Generation

LEMMA LinksType ==
  ASSUME NEW s \in Generation
  PROVE  DeriveSupersessions(s) \in Generation
  BY DEF DeriveSupersessions, Generation, SupersessionEdges

\* What an operator leaves alone stays consistent.
LEMMA SameContent ==
  ASSUME NEW s, NEW u, NEW r, RecordConsistent(s, r),
         u.ledger[r] = s.ledger[r], u.snap[r] = s.snap[r],
         ChunksOf(u, r) = ChunksOf(s, r)
  PROVE  RecordConsistent(u, r)
<1>1. \A v : <<r, v>> \in s.chunks <=> <<r, v>> \in u.chunks
  BY DEF ChunksOf
<1>2. QED BY <1>1 DEF RecordConsistent

LEMMA RowsConsistent ==
  ASSUME NEW s \in Generation, \A q \in Records : RecordConsistent(s, q),
         NEW r \in Records, NEW v \in Fps
  PROVE  \A q \in Records : RecordConsistent(WriteRows(s, r, v), q)
<1> DEFINE u == WriteRows(s, r, v)
<1>1. /\ u.ledger = [s.ledger EXCEPT ![r] = [st |-> "current", desired |-> v, active |-> v]]
      /\ u.snap = [s.snap EXCEPT ![r] = v]
      /\ u.chunks = s.chunks \union {<<r, v>>}
  BY DEF WriteRows, Generation
<1>2. RecordConsistent(u, r)
  BY <1>1, NoneAssumption DEF RecordConsistent, Generation
<1>3. ASSUME NEW q \in Records, q # r PROVE RecordConsistent(u, q)
  <2>1. ChunksOf(u, q) = ChunksOf(s, q)
    BY <1>1, <1>3 DEF ChunksOf
  <2>2. u.ledger[q] = s.ledger[q] /\ u.snap[q] = s.snap[q]
    BY <1>1, <1>3 DEF Generation
  <2>3. QED BY <2>1, <2>2, SameContent
<1>4. QED BY <1>2, <1>3

LEMMA FailedConsistent ==
  ASSUME NEW s \in Generation, \A q \in Records : RecordConsistent(s, q),
         NEW r \in Records, NEW v \in Fps, NEW a \in Fps \union {None}
  PROVE  \A q \in Records : RecordConsistent(MarkFailed(s, r, v, a), q)
<1> DEFINE u == MarkFailed(s, r, v, a)
<1>1. /\ u.ledger = [s.ledger EXCEPT ![r] = [st |-> "failed", desired |-> v, active |-> a]]
      /\ u.snap = [s.snap EXCEPT ![r] = None]
      /\ u.chunks = s.chunks
  BY DEF MarkFailed, Generation
<1>2. RecordConsistent(u, r)
  BY <1>1 DEF RecordConsistent, Generation
<1>3. ASSUME NEW q \in Records, q # r PROVE RecordConsistent(u, q)
  <2>1. u.ledger[q] = s.ledger[q] /\ u.snap[q] = s.snap[q] /\ ChunksOf(u, q) = ChunksOf(s, q)
    BY <1>1, <1>3 DEF Generation, ChunksOf
  <2>2. QED BY <2>1, SameContent
<1>4. QED BY <1>2, <1>3

LEMMA PendingConsistent ==
  ASSUME NEW s \in Generation, \A q \in Records : RecordConsistent(s, q),
         NEW r \in Records
  PROVE  \A q \in Records : RecordConsistent(MarkPendingRemoval(s, r), q)
<1> DEFINE u == MarkPendingRemoval(s, r)
<1>1. /\ u.ledger = [s.ledger EXCEPT ![r].st = "pending_removal"]
      /\ u.snap = s.snap
      /\ u.chunks = s.chunks
  BY DEF MarkPendingRemoval, Generation
<1>2. RecordConsistent(u, r)
  BY <1>1 DEF RecordConsistent, Generation, Row
<1>3. ASSUME NEW q \in Records, q # r PROVE RecordConsistent(u, q)
  <2>1. u.ledger[q] = s.ledger[q] /\ u.snap[q] = s.snap[q] /\ ChunksOf(u, q) = ChunksOf(s, q)
    BY <1>1, <1>3 DEF Generation, ChunksOf
  <2>2. QED BY <2>1, SameContent
<1>4. QED BY <1>2, <1>3

LEMMA TombstoneConsistent ==
  ASSUME NEW s \in Generation, \A q \in Records : RecordConsistent(s, q),
         NEW r \in Records, NEW a \in Fps \union {None}
  PROVE  \A q \in Records : RecordConsistent(Tombstone(s, r, a), q)
<1> DEFINE u == Tombstone(s, r, a)
<1>1. /\ u.ledger = [s.ledger EXCEPT ![r] = [st |-> "removed", desired |-> a, active |-> None]]
      /\ u.snap = [s.snap EXCEPT ![r] = None]
      /\ u.chunks = s.chunks \ ChunksOf(s, r)
  BY DEF Tombstone, Generation
<1>2. ChunksOf(u, r) = {}
  BY <1>1 DEF ChunksOf
<1>3. RecordConsistent(u, r)
  BY <1>1, <1>2 DEF RecordConsistent, Generation
<1>4. ASSUME NEW q \in Records, q # r PROVE RecordConsistent(u, q)
  <2>1. u.ledger[q] = s.ledger[q] /\ u.snap[q] = s.snap[q]
    BY <1>1, <1>4 DEF Generation
  <2>2. ChunksOf(u, q) = ChunksOf(s, q)
    BY <1>1, <1>4 DEF ChunksOf
  <2>3. QED BY <2>1, <2>2, SameContent
<1>5. QED BY <1>3, <1>4

Kept(s, u) ==
  /\ u \in Generation
  /\ u.ledger = s.ledger /\ u.snap = s.snap /\ u.chunks = s.chunks /\ u.sig = s.sig

\* The other four operators touch no ledger row, snapshot or chunk row.
LEMMA IndexOnly ==
  ASSUME NEW s \in Generation, NEW u,
         \/ \E r \in Records, v \in Fps : u = UpsertVectors(s, r, v)
         \/ \E ids : u = DeleteVectors(s, ids)
         \/ \E e \in Entries, d \in RawDigests : u = SetManifestMetadata(s, e, d)
         \/ u = DeriveSupersessions(s)
  PROVE  Kept(s, u)
<1>1. ASSUME NEW r \in Records, NEW v \in Fps, u = UpsertVectors(s, r, v) PROVE Kept(s, u)
  BY <1>1, UpsertType DEF UpsertVectors, Generation, Kept
<1>2. ASSUME NEW ids, u = DeleteVectors(s, ids) PROVE Kept(s, u)
  BY <1>2, DeleteType DEF DeleteVectors, Generation, Kept
<1>3. ASSUME NEW e \in Entries, NEW d \in RawDigests, u = SetManifestMetadata(s, e, d)
      PROVE  Kept(s, u)
  BY <1>3, MetadataType DEF SetManifestMetadata, Generation, Kept
<1>4. ASSUME u = DeriveSupersessions(s) PROVE Kept(s, u)
  BY <1>4, LinksType DEF DeriveSupersessions, Generation, Kept
<1>5. QED BY <1>1, <1>2, <1>3, <1>4

-----------------------------------------------------------------------------
(* One step of the run writes one generation. *)

LEMMA WriteGens ==
  ASSUME TypeOK, gen \in made, NEW s \in Generation, Write(s)
  PROVE  /\ gens' \in [GenIds -> Generation]
         /\ gens'[gen] = s
         /\ \A g \in made : g # gen => gens'[g] = gens[g]
  BY DEF TypeOK, Write

LEMMA WriteConsistent ==
  ASSUME TypeOK, StoreConsistent, gen \in made, made' = made,
         NEW s \in Generation, Write(s),
         \A r \in Records : RecordConsistent(s, r)
  PROVE  StoreConsistent'
<1>1. /\ gens'[gen] = s
      /\ \A g \in made : g # gen => gens'[g] = gens[g]
  BY WriteGens
<1>2. ASSUME NEW g \in made, NEW r \in Records
      PROVE  RecordConsistent(gens'[g], r)
  BY <1>1 DEF StoreConsistent
<1>3. QED BY <1>2 DEF StoreConsistent, RecordConsistent, ChunksOf

-----------------------------------------------------------------------------
(* The invariant, action by action. *)

USE DEF Labels, BeforeActivation

LEMMA InitIInv == Init => IInv
<1> SUFFICES ASSUME Init PROVE IInv
    OBVIOUS
<1>1. TypeOK
  <2>1. NoRow \in Row
    BY DEF NoRow, Row, RecordStates
  <2>2. NoStates \in [Records -> Row] /\ NoEntries \in Entries
    BY <2>1 DEF NoStates, NoEntries, Entries
  <2>3. gens \in [GenIds -> Generation]
    BY EmptyType DEF Init
  <2>4. stamp \in Stamps
    BY MaxStampAssumption DEF Init, Stamps
  <2>5. QED BY <2>2, <2>3, <2>4 DEF Init, Quiet, TypeOK
<1>2. StoreConsistent
  BY DEF Init, StoreConsistent
<1>3. RunShape /\ Progress
  BY DEF Init, Quiet, RunShape, Progress
<1>4. QED BY <1>1, <1>2, <1>3 DEF IInv

\* However a run ends, the store it leaves is the store the invariant is about.
LEMMA EndRunIInv ==
  ASSUME IInv, EndRun, UNCHANGED <<corpusVars, storeVars>>
  PROVE  IInv'
<1> USE DEF IInv, EndRun, corpusVars, storeVars
<1>1. TypeOK'
  <2>1. NoRow \in Row
    BY DEF NoRow, Row, RecordStates
  <2>2. NoStates \in [Records -> Row] /\ NoEntries \in Entries
    BY <2>1 DEF NoStates, NoEntries, Entries
  <2>3. QED BY <2>2 DEF TypeOK
<1>2. StoreConsistent'
  BY DEF StoreConsistent
<1>3. RunShape' /\ Progress'
  BY DEF RunShape, Progress
<1>4. QED BY <1>1, <1>2, <1>3

LEMMA CorpusIInv ==
  ASSUME IInv, UNCHANGED <<storeVars, runVars>>,
         manifest' \in Manifests \union {None}, stamp' \in Stamps, pipeline' \in Pipelines,
         pc \notin {"idle", "done"} => pipeline' = pipeline
  PROVE  IInv'
<1> USE DEF IInv, storeVars, runVars
<1>1. TypeOK'
  BY DEF TypeOK
<1>2. StoreConsistent'
  BY DEF StoreConsistent
<1>3. RunShape'
  BY DEF RunShape
<1>4. Progress'
  BY DEF Progress, Settled
<1>5. QED BY <1>1, <1>2, <1>3, <1>4

LEMMA BeginResumeIInv ==
  ASSUME IInv, NEW k \in BOOLEAN, BeginResume(k)
  PROVE  IInv'
<1> USE DEF IInv, BeginResume, Begin, corpusVars
<1>0. manifest \in Entries /\ active \in made /\ active \in GenIds
  BY ManifestsAssumption DEF TypeOK
<1>1. gens[active] \in Generation /\ gens[active].ledger \in [Records -> Row]
  BY <1>0 DEF TypeOK, Generation
<1>2. TypeOK'
  BY <1>0, <1>1 DEF TypeOK, Listed
<1>3. StoreConsistent'
  BY DEF StoreConsistent
<1>4. RunShape'
  BY <1>0 DEF RunShape, TypeOK, Listed, PlanNeedsProvider, Unchanged
<1>5. ASSUME NEW r \in Records \ (todo' \union gone') PROVE Settled(gens[active], r)'
  <2>1. gens[active].ledger[r].st \in {"absent", "removed"}
    BY <1>5
  <2>2. plan'[r] = None /\ r \notin failed'
    BY <1>5 DEF Listed
  <2>3. QED BY <2>1, <2>2 DEF Settled
<1>6. Progress'
  BY <1>0, <1>5 DEF Progress, TypeOK
<1>7. QED BY <1>2, <1>3, <1>4, <1>6

LEMMA BeginFreshIInv ==
  ASSUME IInv, NEW rb \in BOOLEAN, NEW k \in BOOLEAN, BeginFresh(rb, k)
  PROVE  IInv'
<1> USE DEF IInv, BeginFresh, Begin, corpusVars
<1>0. manifest \in Entries
  BY ManifestsAssumption DEF TypeOK
<1> PICK g \in GenIds \ made :
       /\ gen' = g
       /\ made' = made \union {g}
       /\ gens' = [gens EXCEPT ![g] = EmptyGeneration(pipeline)]
    OBVIOUS
<1>1. /\ EmptyGeneration(pipeline) \in Generation
      /\ \A r \in Records : RecordConsistent(EmptyGeneration(pipeline), r)
  BY EmptyType DEF TypeOK
<1>2. /\ gens' \in [GenIds -> Generation]
      /\ gens'[g] = EmptyGeneration(pipeline)
      /\ \A h \in made : gens'[h] = gens[h]
  BY <1>1 DEF TypeOK
<1>3. NoStates \in [Records -> Row] /\ \A r \in Records : NoStates[r] = NoRow
  BY DEF NoStates, NoRow, Row, RecordStates
<1>4. TypeOK'
  BY <1>0, <1>2, <1>3 DEF TypeOK, Listed
<1>5. StoreConsistent'
  <2>1. ASSUME NEW h \in made', NEW r \in Records PROVE RecordConsistent(gens'[h], r)
    BY <2>1, <1>1, <1>2 DEF StoreConsistent
  <2>2. QED BY <2>1 DEF StoreConsistent, RecordConsistent, ChunksOf
<1>6. RunShape'
  BY <1>0, <1>2, <1>3, GenIdsAssumption
     DEF RunShape, TypeOK, Listed, PlanNeedsProvider, Unchanged, EmptyGeneration
<1>7. ASSUME NEW r \in Records PROVE gens'[g].ledger[r] = NoRow
  BY <1>2 DEF EmptyGeneration
<1>8. gone' = {} /\ failed' = {}
  BY <1>3 DEF NoRow
<1>9. ASSUME NEW r \in Records \ (todo' \union gone') PROVE Settled(gens[gen], r)'
  <2>1. plan'[r] = None /\ r \notin failed'
    BY <1>9, <1>8 DEF Listed
  <2>2. gens'[g].ledger[r].st = "absent"
    BY <1>7 DEF NoRow
  <2>3. QED BY <2>1, <2>2 DEF Settled
<1>10. Progress'
  BY <1>3, <1>7, <1>8, <1>9 DEF Progress, Listed
<1>11. QED BY <1>4, <1>5, <1>6, <1>10

\* What every step of a run may count on.
LEMMA Running ==
  ASSUME IInv, pc # "idle"
  PROVE  /\ gen \in made /\ gen \in GenIds
         /\ gens[gen] \in Generation
         /\ \A r \in Records : RecordConsistent(gens[gen], r)
         /\ \A r \in Records : r \in todo => plan[r] \in Fps
         /\ todo \subseteq Records /\ gone \subseteq Records
         /\ prior \in [Records -> Row]
  BY DEF IInv, TypeOK, StoreConsistent, RunShape, Listed, Entries

LEMMA SkipUnchangedIInv ==
  ASSUME IInv, NEW r \in Records, SkipUnchanged(r)
  PROVE  IInv'
<1> USE DEF IInv, SkipUnchanged, corpusVars, storeVars
<1>1. TypeOK' /\ StoreConsistent' /\ RunShape'
  BY DEF TypeOK, StoreConsistent, RunShape
<1>2. Settled(gens[gen], r)'
  <2>1. gens[gen].ledger[r].st = "current" /\ gens[gen].ledger[r].active = plan[r]
    BY DEF Progress, Unchanged
  <2>2. gens[gen].snap[r] = plan[r]
    BY <2>1, Running DEF RecordConsistent
  <2>3. plan[r] # None /\ r \notin failed
    BY Running, NoneAssumption DEF Progress
  <2>4. QED BY <2>1, <2>2, <2>3 DEF Settled
<1>3. Progress'
  BY <1>2 DEF Progress, Settled
<1>4. QED BY <1>1, <1>3

LEMMA FailEntryIInv ==
  ASSUME IInv, NEW r \in Records, FailEntry(r)
  PROVE  IInv'
<1> DEFINE s == gens[gen]
           u == MarkFailed(s, r, plan[r], prior[r].active)
<1> USE DEF IInv, FailEntry, corpusVars
<1>1. gen \in made /\ s \in Generation /\ plan[r] \in Fps /\ prior[r].active \in Fps \union {None}
  BY Running DEF Row
<1>2. u \in Generation /\ \A q \in Records : RecordConsistent(u, q)
  BY <1>1, Running, FailedType, FailedConsistent
<1>3. /\ gens' \in [GenIds -> Generation] /\ gens'[gen] = u
      /\ \A g \in made : g # gen => gens'[g] = gens[g]
  BY <1>1, <1>2, WriteGens
<1>4. TypeOK'
  BY <1>3 DEF TypeOK
<1>5. StoreConsistent'
  BY <1>1, <1>2, WriteConsistent
<1>6. /\ u.ledger[r].st = "failed" /\ u.sig = s.sig
      /\ \A q \in Records \ {r} : u.ledger[q] = s.ledger[q] /\ u.snap[q] = s.snap[q]
  BY <1>1 DEF MarkFailed, Generation
<1>7. RunShape'
  BY <1>1, <1>3, <1>6 DEF RunShape
<1>8. Progress'
  <2>1. ASSUME NEW q \in Records \ (todo' \union gone') PROVE Settled(gens[gen], q)'
    BY <1>3, <1>6, <2>1 DEF Progress, Settled
  <2>2. \A q \in todo' : gens'[gen].ledger[q] = prior[q]
    BY <1>3, <1>6, Running DEF Progress
  <2>3. failed' \subseteq Listed(plan) \ todo'
    BY DEF Progress, RunShape
  <2>4. QED BY <2>1, <2>2, <2>3 DEF Progress
<1>9. QED BY <1>4, <1>5, <1>7, <1>8

LEMMA UpsertRecordIInv ==
  ASSUME IInv, NEW r \in Records, UpsertRecord(r)
  PROVE  IInv'
<1> DEFINE s == gens[gen]
           u == UpsertVectors(s, r, plan[r])
<1> USE DEF IInv, UpsertRecord, corpusVars
<1>1. gen \in made /\ s \in Generation /\ plan[r] \in Fps
  BY Running
<1>2. Kept(s, u)
  BY <1>1, IndexOnly
<1>3. /\ gens' \in [GenIds -> Generation] /\ gens'[gen] = u
      /\ \A g \in made : g # gen => gens'[g] = gens[g]
  BY <1>1, <1>2, WriteGens DEF Kept
<1>4. TypeOK'
  BY <1>1, <1>3 DEF TypeOK, ChunksOf, Generation
<1>5. StoreConsistent'
  BY <1>1, <1>2, Running, SameContent, WriteConsistent DEF Kept, ChunksOf
<1>6. <<r, plan[r]>> \in u.vecs
  BY <1>1 DEF UpsertVectors, Generation
<1>7. RunShape'
  BY <1>1, <1>2, <1>3, <1>6 DEF RunShape, Kept
<1>8. Progress'
  BY <1>2, <1>3 DEF Progress, Settled, Kept
<1>9. QED BY <1>4, <1>5, <1>7, <1>8

LEMMA CommitRecordIInv ==
  ASSUME IInv, CommitRecord
  PROVE  IInv'
<1> DEFINE s == gens[gen]
           u == WriteRows(s, cur, plan[cur])
<1> USE DEF IInv, CommitRecord, corpusVars
<1>0. cur \in todo /\ cur \in Records
  BY Running DEF RunShape
<1>1. gen \in made /\ s \in Generation /\ plan[cur] \in Fps
  BY <1>0, Running
<1>2. u \in Generation /\ \A q \in Records : RecordConsistent(u, q)
  BY <1>0, <1>1, Running, RowsType, RowsConsistent
<1>3. /\ gens' \in [GenIds -> Generation] /\ gens'[gen] = u
      /\ \A g \in made : g # gen => gens'[g] = gens[g]
  BY <1>1, <1>2, WriteGens
<1>4. TypeOK'
  BY <1>3 DEF TypeOK
<1>5. StoreConsistent'
  BY <1>1, <1>2, WriteConsistent
<1>6. /\ u.snap[cur] = plan[cur] /\ u.ledger[cur].st = "current" /\ u.sig = s.sig
      /\ \A q \in Records \ {cur} : u.ledger[q] = s.ledger[q] /\ u.snap[q] = s.snap[q]
  BY <1>0, <1>1 DEF WriteRows, Generation
<1>7. RunShape'
  BY <1>1, <1>3, <1>6 DEF RunShape
<1>8. Progress'
  <2>1. ASSUME NEW q \in Records \ (todo' \union gone') PROVE Settled(gens[gen], q)'
    <3>1. CASE q = cur
      BY <1>0, <1>1, <1>3, <1>6, <3>1, NoneAssumption DEF Progress, Settled
    <3>2. CASE q # cur
      BY <1>3, <1>6, <2>1, <3>2 DEF Progress, Settled
    <3>3. QED BY <3>1, <3>2
  <2>2. \A q \in todo' : gens'[gen].ledger[q] = prior[q]
    BY <1>3, <1>6, Running DEF Progress
  <2>3. failed' \subseteq Listed(plan) \ todo'
    BY DEF Progress
  <2>4. QED BY <2>1, <2>2, <2>3 DEF Progress
<1>9. QED BY <1>4, <1>5, <1>7, <1>8

LEMMA MarkPendingIInv ==
  ASSUME IInv, NEW r \in Records, MarkPending(r)
  PROVE  IInv'
<1> DEFINE s == gens[gen]
           u == MarkPendingRemoval(s, r)
<1> USE DEF IInv, MarkPending, corpusVars
<1>1. gen \in made /\ s \in Generation
  BY Running
<1>2. u \in Generation /\ \A q \in Records : RecordConsistent(u, q)
  BY <1>1, Running, PendingType, PendingConsistent
<1>3. /\ gens' \in [GenIds -> Generation] /\ gens'[gen] = u
      /\ \A g \in made : g # gen => gens'[g] = gens[g]
  BY <1>1, <1>2, WriteGens
<1>4. TypeOK'
  BY <1>3 DEF TypeOK
<1>5. StoreConsistent'
  BY <1>1, <1>2, WriteConsistent
<1>6. /\ u.sig = s.sig
      /\ \A q \in Records \ {r} : u.ledger[q] = s.ledger[q] /\ u.snap[q] = s.snap[q]
  BY <1>1 DEF MarkPendingRemoval, Generation
<1>7. RunShape'
  BY <1>1, <1>3, <1>6 DEF RunShape
<1>8. Progress'
  <2>1. ASSUME NEW q \in Records \ (todo' \union gone') PROVE Settled(gens[gen], q)'
    BY <1>3, <1>6, <2>1 DEF Progress, Settled
  <2>2. QED BY <1>3, <2>1 DEF Progress
<1>9. QED BY <1>4, <1>5, <1>7, <1>8

LEMMA RemoveContentIInv ==
  ASSUME IInv, RemoveContent
  PROVE  IInv'
<1> DEFINE s == gens[gen]
           u == Tombstone(s, cur, prior[cur].active)
<1> USE DEF IInv, RemoveContent, corpusVars
<1>0. cur \in gone /\ cur \in Records /\ todo = {}
  BY Running DEF RunShape
<1>1. gen \in made /\ s \in Generation /\ prior[cur].active \in Fps \union {None}
  BY <1>0, Running DEF Row
<1>2. u \in Generation /\ \A q \in Records : RecordConsistent(u, q)
  BY <1>0, <1>1, Running, TombstoneType, TombstoneConsistent
<1>3. /\ gens' \in [GenIds -> Generation] /\ gens'[gen] = u
      /\ \A g \in made : g # gen => gens'[g] = gens[g]
  BY <1>1, <1>2, WriteGens
<1>4. TypeOK'
  BY <1>1, <1>3 DEF TypeOK, ChunksOf, Generation
<1>5. StoreConsistent'
  BY <1>1, <1>2, WriteConsistent
<1>6. /\ u.sig = s.sig /\ u.ledger[cur].st = "removed"
      /\ u.chunks = s.chunks \ ChunksOf(s, cur)
      /\ \A q \in Records \ {cur} : u.ledger[q] = s.ledger[q] /\ u.snap[q] = s.snap[q]
  BY <1>0, <1>1 DEF Tombstone, Generation
<1>7. RunShape'
  BY <1>0, <1>1, <1>3, <1>6 DEF RunShape
<1>8. Progress'
  <2>1. ASSUME NEW q \in Records \ (todo' \union gone') PROVE Settled(gens[gen], q)'
    BY <1>0, <1>3, <1>6, <2>1 DEF Progress, Settled
  <2>2. QED BY <1>0, <1>3, <2>1 DEF Progress
<1>9. QED BY <1>4, <1>5, <1>7, <1>8

\* A step that writes nothing but the index, or nothing: the generation keeps
\* its rows, and the run's own variables move on.
LEMMA KeptStep ==
  ASSUME IInv, pc # "idle", NEW u, Kept(gens[gen], u), Write(u), made' = made
  PROVE  /\ gens' \in [GenIds -> Generation] /\ gens'[gen] = u
         /\ StoreConsistent'
<1>1. gen \in made /\ gens[gen] \in Generation /\ TypeOK
  BY Running DEF IInv
<1>2. \A r \in Records : RecordConsistent(u, r)
  BY Running, SameContent DEF Kept, ChunksOf
<1>3. QED BY <1>1, <1>2, WriteGens, WriteConsistent DEF IInv, Kept

LEMMA DeleteOrSkipKept ==
  ASSUME IInv, pc # "idle", NEW ids, DeleteOrSkip(ids), made' = made
  PROVE  /\ gens' \in [GenIds -> Generation]
         /\ Kept(gens[gen], gens'[gen])
         /\ gens'[gen].links = gens[gen].links
         /\ gens'[gen].semantic = gens[gen].semantic
         /\ StoreConsistent'
<1>0. gens[gen] \in Generation
  BY Running
<1>1. CASE Write(DeleteVectors(gens[gen], ids))
  <2>1. Kept(gens[gen], DeleteVectors(gens[gen], ids))
    BY <1>0, IndexOnly
  <2>2. /\ gens' \in [GenIds -> Generation]
        /\ gens'[gen] = DeleteVectors(gens[gen], ids)
        /\ StoreConsistent'
    BY <1>1, <2>1, KeptStep
  <2>3. QED BY <1>0, <2>1, <2>2 DEF DeleteVectors, Generation
<1>2. CASE UNCHANGED gens
  BY <1>0, <1>2 DEF Kept, IInv, StoreConsistent, TypeOK
<1>3. QED BY <1>1, <1>2 DEF DeleteOrSkip

LEMMA PurgeRemovedIInv ==
  ASSUME IInv, PurgeRemoved
  PROVE  IInv'
<1> USE DEF IInv, PurgeRemoved, corpusVars
<1>0. cur \in gone /\ cur \in Records /\ todo = {} /\ gens[gen].ledger[cur].st = "removed"
      /\ gen \in made
  BY Running DEF RunShape
<1>1. /\ gens' \in [GenIds -> Generation] /\ Kept(gens[gen], gens'[gen])
      /\ StoreConsistent'
  BY DeleteOrSkipKept
<1>2. TypeOK'
  BY <1>1 DEF TypeOK
<1>3. RunShape'
  BY <1>0, <1>1 DEF RunShape, Kept
<1>4. plan[cur] = None /\ cur \notin failed
  BY <1>0 DEF RunShape, Progress, Listed
<1>5. ASSUME NEW q \in Records \ (todo' \union gone') PROVE Settled(gens[gen], q)'
  BY <1>0, <1>1, <1>4, <1>5 DEF Progress, Settled, Kept
<1>6. Progress'
  BY <1>0, <1>1, <1>5 DEF Progress
<1>7. QED BY <1>1, <1>2, <1>3, <1>6

LEMMA CleanupOrphansIInv ==
  ASSUME IInv, CleanupOrphans
  PROVE  IInv'
<1> USE DEF IInv, CleanupOrphans, corpusVars
<1>1. /\ gens' \in [GenIds -> Generation] /\ Kept(gens[gen], gens'[gen])
      /\ StoreConsistent'
  BY DeleteOrSkipKept
<1>2. TypeOK'
  BY <1>1 DEF TypeOK
<1>3. RunShape'
  BY <1>1 DEF RunShape, Kept
<1>4. Progress'
  BY <1>1 DEF Progress, Settled, Kept
<1>5. QED BY <1>1, <1>2, <1>3, <1>4

LEMMA DeriveLinksIInv ==
  ASSUME IInv, DeriveLinks
  PROVE  IInv'
<1> DEFINE s == gens[gen]
           u == DeriveSupersessions(s)
<1> USE DEF IInv, DeriveLinks, corpusVars
<1>0. s \in Generation
  BY Running
<1>1. Kept(s, u)
  BY <1>0, IndexOnly
<1>2. gens' \in [GenIds -> Generation] /\ gens'[gen] = u /\ StoreConsistent'
  BY <1>1, KeptStep
<1>3. TypeOK'
  BY <1>2 DEF TypeOK
<1>4. RunShape'
  BY <1>1, <1>2 DEF RunShape, Kept
<1>5. u.links = SupersessionEdges(u)
  BY <1>0 DEF DeriveSupersessions, SupersessionEdges, Generation
<1>6. Progress'
  BY <1>1, <1>2, <1>5 DEF Progress, Settled, Kept, SupersessionEdges
<1>7. QED BY <1>2, <1>3, <1>4, <1>6

LEMMA ActivateIInv ==
  ASSUME IInv, Activate
  PROVE  IInv'
<1> USE DEF IInv, Activate, corpusVars
<1>1. TypeOK' /\ StoreConsistent' /\ RunShape'
  BY DEF TypeOK, StoreConsistent, RunShape
<1>2. Progress'
  BY DEF Progress, Settled
<1>3. QED BY <1>1, <1>2

LEMMA RecordManifestIInv ==
  ASSUME IInv, RecordManifest
  PROVE  IInv'
<1> DEFINE s == gens[gen]
           u == SetManifestMetadata(s, plan, <<manifest, stamp>>)
<1> USE DEF IInv, RecordManifest, corpusVars
<1>0. s \in Generation /\ plan \in Entries /\ <<manifest, stamp>> \in RawDigests
  BY Running, ManifestsAssumption DEF TypeOK, RawDigests
<1>1. Kept(s, u)
  BY <1>0, IndexOnly
<1>2. gens' \in [GenIds -> Generation] /\ gens'[gen] = u /\ StoreConsistent'
  BY <1>1, KeptStep
<1>3. TypeOK'
  BY <1>2 DEF TypeOK
<1>4. RunShape'
  BY <1>1, <1>2 DEF RunShape, Kept
<1>5. u.links = s.links /\ u.semantic = plan
  BY <1>0 DEF SetManifestMetadata, Generation
<1>6. Progress'
  BY <1>1, <1>2, <1>5 DEF Progress, Settled, Kept, SupersessionEdges
<1>7. QED BY <1>2, <1>3, <1>4, <1>6

LEMMA RetireOldVectorsIInv ==
  ASSUME IInv, NEW r \in Records, RetireOldVectors(r)
  PROVE  IInv'
<1> DEFINE ids == {c \in old : c[1] = r}
<1> USE DEF IInv, RetireOldVectors, corpusVars
<1>1. /\ gens' \in [GenIds -> Generation] /\ Kept(gens[gen], gens'[gen])
      /\ gens'[gen].links = gens[gen].links
      /\ gens'[gen].semantic = gens[gen].semantic
      /\ StoreConsistent'
  <2>1. DeleteOrSkip(ids) /\ made' = made /\ pc # "idle"
    OBVIOUS
  <2>2. QED BY <2>1, DeleteOrSkipKept
<1>2. TypeOK'
  BY <1>1 DEF TypeOK
<1>3. RunShape'
  BY <1>1 DEF RunShape, Kept
<1>4. Progress'
  BY <1>1 DEF Progress, Settled, Kept, SupersessionEdges
<1>5. QED BY <1>1, <1>2, <1>3, <1>4

LEMMA FinishIInv ==
  ASSUME IInv, Finish
  PROVE  IInv'
<1> USE DEF IInv, Finish, corpusVars, storeVars
<1>1. NoStates \in [Records -> Row]
  BY DEF NoStates, NoRow, Row, RecordStates
<1>2. TypeOK'
  BY <1>1 DEF TypeOK
<1>3. StoreConsistent' /\ RunShape'
  BY DEF StoreConsistent, RunShape
<1>4. Progress'
  BY DEF Progress, Settled, RunShape
<1>5. QED BY <1>2, <1>3, <1>4

LEMMA RunStepIInv == ASSUME IInv, RunStep PROVE IInv'
  BY SkipUnchangedIInv, FailEntryIInv, UpsertRecordIInv, CommitRecordIInv, MarkPendingIInv,
     RemoveContentIInv, PurgeRemovedIInv, CleanupOrphansIInv, DeriveLinksIInv, ActivateIInv,
     RecordManifestIInv, RetireOldVectorsIInv, FinishIInv, EndRunIInv
     DEF RunStep, Refuse

LEMMA StepIInv == IInv /\ [Next]_vars => IInv'
<1> SUFFICES ASSUME IInv, [Next]_vars PROVE IInv'
    OBVIOUS
<1>1. ASSUME NEW m \in Manifests \union {None}, PublishManifest(m) PROVE IInv'
  <2>1. stamp + 1 \in Stamps
    BY <1>1, MaxStampAssumption DEF PublishManifest, IInv, TypeOK, Stamps
  <2>2. QED BY <1>1, <2>1, CorpusIInv DEF PublishManifest, IInv, TypeOK
<1>2. ASSUME NEW p \in Pipelines, Upgrade(p) PROVE IInv'
  BY <1>2, CorpusIInv DEF Upgrade, IInv, TypeOK
<1>3. CASE \E k \in BOOLEAN : BeginResume(k) \/ \E rb \in BOOLEAN : BeginFresh(rb, k)
  BY <1>3, BeginResumeIInv, BeginFreshIInv
<1>4. CASE RunStep
  BY <1>4, RunStepIInv
<1>5. CASE Crash
  BY <1>5, EndRunIInv DEF Crash
<1>6. CASE UNCHANGED vars
  BY <1>6, CorpusIInv DEF vars, corpusVars, IInv, TypeOK
<1>7. QED BY <1>1, <1>2, <1>3, <1>4, <1>5, <1>6 DEF Next

\* The invariant holds in every reachable state of ingest.
THEOREM IngestInvariant == Spec => []IInv
  BY InitIInv, StepIInv, PTL DEF Spec

\* Every variable keeps its type.
THEOREM IngestTypes == Spec => []TypeOK
<1>1. IInv => TypeOK BY DEF IInv
<1>2. QED BY <1>1, IngestInvariant, PTL

\* Ledger, snapshots and chunk rows of every generation agree, whatever run
\* was cut off where.
THEOREM StoreAlwaysConsistent == Spec => []StoreConsistent
<1>1. IInv => StoreConsistent BY DEF IInv
<1>2. QED BY <1>1, IngestInvariant, PTL

-----------------------------------------------------------------------------
(* What a finished run has achieved. *)

LEMMA Finished ==
  ASSUME IInv, pc = "done"
  PROVE  /\ active = gen /\ gens[active] \in Generation
         /\ gens[active].semantic = plan
         /\ gens[active].links = SupersessionEdges(gens[active])
         /\ failed \subseteq Records
         /\ \A r \in Records : RecordConsistent(gens[active], r) /\ Settled(gens[active], r)
  BY Running DEF IInv, RunShape, Progress, TypeOK

\* A run without a failed record made the snapshots, tombstones and notices of
\* the store those of the manifest it read.
THEOREM CompletionIsTruthful == Spec => []CompletedMatchesPlan
<1>1. ASSUME IInv, pc = "done", failed = {}
      PROVE  LET s == gens[active] IN
             /\ s.snap = plan
             /\ \A r \in Records \ Listed(plan) : s.ledger[r].st \in {"absent", "removed"}
             /\ \A p, q \in Records :
                  q \in Notices(s, p) <=> plan[q] # None /\ SupersedesOf[q][plan[q]] = p
  <2> DEFINE s == gens[active]
  <2>1. ASSUME NEW r \in Records
        PROVE  /\ plan[r] # None => s.snap[r] = plan[r]
               /\ plan[r] = None => s.ledger[r].st \in {"absent", "removed"} /\ s.snap[r] = None
    BY <1>1, Finished DEF Settled, RecordConsistent
  <2>2. s.snap = plan
    BY <1>1, <2>1, Finished DEF IInv, TypeOK, Entries, Generation
  <2>3. ASSUME NEW p \in Records, NEW q \in Records
        PROVE  q \in Notices(s, p) <=> plan[q] # None /\ SupersedesOf[q][plan[q]] = p
    BY <1>1, <2>2, Finished DEF Notices, SupersessionEdges
  <2>4. QED BY <2>1, <2>2, <2>3 DEF Listed
<1>2. IInv => CompletedMatchesPlan
  BY <1>1 DEF CompletedMatchesPlan
<1>3. QED BY <1>2, IngestInvariant, PTL

\* After a run the store calls itself current exactly when nothing failed and
\* the manifest on disk is the one that was ingested.
THEOREM FreshnessIsHonest == Spec => []FreshnessHonest
<1>1. ASSUME IInv, pc = "done"
      PROVE  Freshness(gens[active], manifest) = "current" <=> failed = {} /\ manifest = plan
  <2> DEFINE s == gens[active]
  <2>1. HasFailedRecords(s) <=> failed # {}
    <3>1. ASSUME NEW r \in Records, r \in failed PROVE s.ledger[r].st = "failed"
      BY <1>1, <3>1, Finished DEF Settled
    <3>2. ASSUME NEW r \in Records, r \notin failed PROVE s.ledger[r].st # "failed"
      BY <1>1, <3>2, Finished DEF Settled, RecordConsistent
    <3>3. QED BY <1>1, <3>1, <3>2, Finished DEF HasFailedRecords
  <2>2. plan # None
    BY <1>1, NoneAssumption DEF IInv, TypeOK
  <2>3. QED BY <1>1, <2>1, <2>2, Finished DEF Freshness
<1>2. IInv => FreshnessHonest
  BY <1>1 DEF FreshnessHonest
<1>3. QED BY <1>2, IngestInvariant, PTL

\* A run without a key embeds nothing.
THEOREM KeylessRunsEmbedNothing == Spec => []KeylessNeverEmbeds
<1>1. IInv => KeylessNeverEmbeds
  BY DEF IInv, RunShape, KeylessNeverEmbeds
<1>2. QED BY <1>1, IngestInvariant, PTL

-----------------------------------------------------------------------------
(* What no step may do. *)

\* The generation that a step may change, and when.
LEMMA StepWrites ==
  ASSUME IInv, [Next]_vars, NEW g \in made, gens'[g] # gens[g]
  PROVE  pc \notin {"idle", "done"} /\ g = gen
<1>1. gens \in [GenIds -> Generation] /\ made \subseteq GenIds
  BY DEF IInv, TypeOK
<1>2. ASSUME NEW s, Write(s) PROVE g = gen
  BY <1>1, <1>2 DEF Write
<1>3. ASSUME NEW ids, DeleteOrSkip(ids) PROVE g = gen
  BY <1>2, <1>3 DEF DeleteOrSkip
<1>4. CASE \E rb, k \in BOOLEAN : BeginFresh(rb, k)
  BY <1>1, <1>4 DEF BeginFresh
<1>5. CASE RunStep
  <2>1. ASSUME NEW r \in Records,
               \/ SkipUnchanged(r) \/ FailEntry(r) \/ UpsertRecord(r)
               \/ MarkPending(r) \/ RetireOldVectors(r)
        PROVE  pc \notin {"idle", "done"} /\ g = gen
    BY <2>1, <1>2, <1>3 DEF SkipUnchanged, FailEntry, UpsertRecord, MarkPending,
                            RetireOldVectors, storeVars
  <2>2. CASE CommitRecord \/ RemoveContent \/ PurgeRemoved \/ CleanupOrphans
    BY <2>2, <1>2, <1>3 DEF CommitRecord, RemoveContent, PurgeRemoved, CleanupOrphans
  <2>3. CASE DeriveLinks \/ Activate \/ Refuse \/ RecordManifest \/ Finish
    BY <2>3, <1>2 DEF DeriveLinks, Activate, Refuse, RecordManifest, Finish, storeVars
  <2>4. QED BY <1>5, <2>1, <2>2, <2>3 DEF RunStep
<1>6. CASE \/ \E m \in Manifests \union {None} : PublishManifest(m)
           \/ \E p \in Pipelines : Upgrade(p)
           \/ \E k \in BOOLEAN : BeginResume(k)
           \/ Crash
           \/ UNCHANGED vars
  BY <1>6 DEF PublishManifest, Upgrade, BeginResume, Crash, storeVars, vars
<1>7. QED BY <1>4, <1>5, <1>6 DEF Next

\* Only a program with a generation's signature ever writes to it.
THEOREM PipelinesStayApart == Spec => PipelinesNeverMix
<1>1. ASSUME IInv, [Next]_vars
      PROVE  \A g \in made : gens'[g] # gens[g] => gens[g].sig = pipeline
  BY <1>1, StepWrites DEF IInv, RunShape
<1>2. IInv /\ [Next]_vars
        => [\A g \in made : gens'[g] # gens[g] => gens[g].sig = pipeline]_vars
  BY <1>1
<1>3. QED BY <1>2, IngestInvariant, PTL DEF Spec, PipelinesNeverMix

\* A rebuild leaves the generation being served alone until it switches.
THEOREM RebuildsWorkAside == Spec => RebuildWorksAside
<1>1. ASSUME IInv, [Next]_vars, rebuild, pc \in BeforeActivation, active # None
      PROVE  gens'[active] = gens[active] /\ (active' # active => pc = "activate")
  <2>1. active \in made /\ gen # active
    BY <1>1 DEF IInv, TypeOK, RunShape
  <2>2. gens'[active] = gens[active]
    BY <1>1, <2>1, StepWrites
  <2>3. active' # active => pc = "activate"
    BY <1>1 DEF Next, RunStep, PublishManifest, Upgrade, BeginResume, BeginFresh, Begin,
         SkipUnchanged, FailEntry, UpsertRecord, CommitRecord, MarkPending, RemoveContent,
         PurgeRemoved, CleanupOrphans, DeriveLinks, Activate, Refuse, RecordManifest,
         RetireOldVectors, Finish, Crash, vars, storeVars
  <2>4. QED BY <2>2, <2>3
<1>2. IInv /\ [Next]_vars
        => [rebuild /\ pc \in BeforeActivation /\ active # None
            => /\ gens'[active] = gens[active]
               /\ active' # active => pc = "activate"]_vars
  BY <1>1
<1>3. QED BY <1>2, IngestInvariant, PTL DEF Spec, RebuildWorksAside

LEMMA StepSwitches ==
  ASSUME [Next]_vars, active' # active
  PROVE  Activate
  BY DEF Next, RunStep, PublishManifest, Upgrade, BeginResume, BeginFresh, Begin,
         SkipUnchanged, FailEntry, UpsertRecord, CommitRecord, MarkPending, RemoveContent,
         PurgeRemoved, CleanupOrphans, DeriveLinks, Refuse, RecordManifest,
         RetireOldVectors, Finish, Crash, vars, storeVars

\* ACTIVE moves only to a generation that holds its plan, failures aside.
THEOREM SwitchesAreComplete == Spec => SwitchesToComplete
<1>1. ASSUME IInv, [Next]_vars, active' # active
      PROVE  LET s == gens'[active'] IN
             /\ Parity(s)
             /\ s.links = SupersessionEdges(s)
             /\ \A r \in Records :
                  \/ s.snap[r] = plan[r]
                  \/ r \in failed /\ s.ledger[r].st = "failed"
  <2> DEFINE s == gens[gen]
  <2>1. Activate /\ gens' = gens /\ active' = gen /\ pc = "activate"
    BY <1>1, StepSwitches DEF Activate
  <2>2. Parity(s) /\ s.links = SupersessionEdges(s)
    BY <1>1, <2>1 DEF Activate, IInv, Progress
  <2>3. ASSUME NEW r \in Records
        PROVE  s.snap[r] = plan[r] \/ (r \in failed /\ s.ledger[r].st = "failed")
    <3>1. Settled(s, r) /\ RecordConsistent(s, r)
      BY <1>1, <2>1, Running DEF IInv, RunShape, Progress
    <3>2. QED BY <3>1 DEF Settled, RecordConsistent
  <2>4. QED BY <2>1, <2>2, <2>3
<1>2. IInv /\ [Next]_vars
        => [active' # active =>
              LET s == gens'[active'] IN
              /\ Parity(s)
              /\ s.links = SupersessionEdges(s)
              /\ \A r \in Records :
                   \/ s.snap[r] = plan[r]
                   \/ r \in failed /\ s.ledger[r].st = "failed"]_vars
  BY <1>1
<1>3. QED BY <1>2, IngestInvariant, PTL DEF Spec, SwitchesToComplete

\* Which operators keep a vector behind every chunk row.
LEMMA ParityKept ==
  ASSUME NEW s \in Generation, Parity(s), NEW r, NEW v, NEW a
  PROVE  /\ Parity(UpsertVectors(s, r, v))
         /\ <<r, v>> \in s.vecs => Parity(WriteRows(s, r, v))
         /\ Parity(MarkFailed(s, r, v, a))
         /\ Parity(MarkPendingRemoval(s, r))
         /\ Parity(Tombstone(s, r, a))
         /\ Parity(DeriveSupersessions(s))
         /\ Parity(SetManifestMetadata(s, v, a))
<1> USE DEF Parity, Generation
<1>1. Parity(UpsertVectors(s, r, v))
  BY DEF UpsertVectors
<1>2. <<r, v>> \in s.vecs => Parity(WriteRows(s, r, v))
  BY DEF WriteRows
<1>3. Parity(MarkFailed(s, r, v, a))
  BY DEF MarkFailed
<1>4. Parity(MarkPendingRemoval(s, r))
  BY DEF MarkPendingRemoval
<1>5. Parity(Tombstone(s, r, a))
  BY DEF Tombstone
<1>6. Parity(DeriveSupersessions(s))
  BY DEF DeriveSupersessions
<1>7. Parity(SetManifestMetadata(s, v, a))
  BY DEF SetManifestMetadata
<1>8. QED BY <1>1, <1>2, <1>3, <1>4, <1>5, <1>6, <1>7

LEMMA ParityAfterDelete ==
  ASSUME IInv, pc # "idle", Parity(gens[gen]), NEW ids,
         ids \intersect gens[gen].chunks = {}, DeleteOrSkip(ids)
  PROVE  Parity(gens'[gen])
<1>1. gens[gen] \in Generation /\ gen \in GenIds /\ gens \in [GenIds -> Generation]
  BY Running DEF IInv, TypeOK
<1>2. CASE Write(DeleteVectors(gens[gen], ids))
  <2>1. gens'[gen] = DeleteVectors(gens[gen], ids)
    BY <1>1, <1>2 DEF Write
  <2>2. QED BY <1>1, <2>1 DEF DeleteVectors, Generation, Parity
<1>3. CASE UNCHANGED gens
  BY <1>3
<1>4. QED BY <1>2, <1>3 DEF DeleteOrSkip

\* Until the run has switched ACTIVE no vector goes that a chunk row needs.
THEOREM OldVectorsGoLast == Spec => OldVectorsLast
<1>1. ASSUME IInv, [Next]_vars, NEW g \in made, Parity(gens[g]), pc # "retire"
      PROVE  Parity(gens'[g])
  <2> DEFINE s == gens[gen]
  <2> SUFFICES ASSUME gens'[g] # gens[g] PROVE Parity(gens'[g])
      BY <1>1
  <2>1. pc \notin {"idle", "done"} /\ g = gen
    BY <1>1, StepWrites
  <2>2. s \in Generation /\ gens \in [GenIds -> Generation] /\ gen \in GenIds
    BY <1>1, <2>1, Running DEF IInv, TypeOK
  <2>3. ASSUME NEW u, Write(u), Parity(u) PROVE Parity(gens'[gen])
    BY <2>2, <2>3 DEF Write
  <2>4. ASSUME NEW r \in Records, FailEntry(r) PROVE Parity(gens'[gen])
    BY <1>1, <2>1, <2>2, <2>3, <2>4, ParityKept DEF FailEntry
  <2>5. ASSUME NEW r \in Records, UpsertRecord(r) PROVE Parity(gens'[gen])
    BY <1>1, <2>1, <2>2, <2>3, <2>5, ParityKept DEF UpsertRecord
  <2>6. ASSUME NEW r \in Records, MarkPending(r) PROVE Parity(gens'[gen])
    BY <1>1, <2>1, <2>2, <2>3, <2>6, ParityKept DEF MarkPending
  <2>7. CASE CommitRecord
    <3>1. <<cur, plan[cur]>> \in s.vecs
      BY <1>1, <2>7 DEF CommitRecord, IInv, RunShape
    <3>2. QED BY <1>1, <2>1, <2>2, <2>3, <2>7, <3>1, ParityKept DEF CommitRecord
  <2>8. CASE RemoveContent
    BY <1>1, <2>1, <2>2, <2>3, <2>8, ParityKept DEF RemoveContent
  <2>9. CASE PurgeRemoved
    <3>1. doomed \intersect gens[gen].chunks = {}
      BY <1>1, <2>9 DEF PurgeRemoved, IInv, RunShape
    <3>2. QED BY <1>1, <2>1, <2>9, <3>1, ParityAfterDelete DEF PurgeRemoved
  <2>10. CASE CleanupOrphans
    <3>1. Orphans(s) \intersect s.chunks = {}
      BY DEF Orphans
    <3>2. QED BY <1>1, <2>1, <2>10, <3>1, ParityAfterDelete DEF CleanupOrphans
  <2>11. CASE DeriveLinks
    BY <1>1, <2>1, <2>2, <2>3, <2>11, ParityKept DEF DeriveLinks
  <2>12. CASE RecordManifest
    BY <1>1, <2>1, <2>2, <2>3, <2>12, ParityKept DEF RecordManifest
  <2>13. QED
    BY <1>1, <2>1, <2>4, <2>5, <2>6, <2>7, <2>8, <2>9, <2>10, <2>11, <2>12
       DEF Next, RunStep, PublishManifest, Upgrade, BeginResume, BeginFresh, Begin,
           SkipUnchanged, Activate, Refuse, RetireOldVectors, Finish, Crash, vars, storeVars
<1>2. IInv /\ [Next]_vars
        => [\A g \in made : (Parity(gens[g]) /\ pc # "retire") => Parity(gens'[g])]_vars
  BY <1>1
<1>3. QED BY <1>2, IngestInvariant, PTL DEF Spec, OldVectorsLast

-----------------------------------------------------------------------------
(* A rebuild starts from nothing, so it ends with its plan and nothing else. *)

Written == {c \in Chunk : plan[c[1]] = c[2] /\ c[1] \notin todo \union failed}

RebuildShape ==
  rebuild /\ pc # "idle" =>
    /\ \A r \in Records : ~Unchanged(plan, prior, r) \/ r \notin todo
    /\ gone = {} /\ old = {}
    /\ gens[gen].chunks = Written
    /\ gens[gen].vecs = Written \union (IF pc = "upserted" THEN {<<cur, plan[cur]>>} ELSE {})

LEMMA RebuildBegins ==
  ASSUME IInv, NEW rb \in BOOLEAN, NEW k \in BOOLEAN, BeginFresh(rb, k)
  PROVE  RebuildShape'
<1> PICK g \in GenIds \ made : gen' = g /\ gens' = [gens EXCEPT ![g] = EmptyGeneration(pipeline)]
    BY DEF BeginFresh
<1>1. gens'[gen'].chunks = {} /\ gens'[gen'].vecs = {}
  BY DEF IInv, TypeOK, EmptyGeneration
<1>2. /\ pc' = "records" /\ old' = {} /\ failed' = {}
      /\ plan' = manifest /\ todo' = Listed(plan') /\ plan' \in Entries
      /\ \A r \in Records : prior'[r].st = "absent"
      /\ gone' = {r \in Records \ todo' : prior'[r].st \notin {"absent", "removed"}}
  BY ManifestsAssumption DEF BeginFresh, Begin, IInv, TypeOK, NoStates, NoRow
<1>3. Written' = {}
  BY <1>2, NoneAssumption DEF Written, Chunk, Listed
<1>4. QED BY <1>1, <1>2, <1>3 DEF RebuildShape, Unchanged

LEMMA RebuildSteps == IInv /\ RebuildShape /\ [Next]_vars => RebuildShape'
<1> SUFFICES ASSUME IInv, RebuildShape, [Next]_vars, rebuild', pc' # "idle"
             PROVE  RebuildShape'
    BY DEF RebuildShape
<1> DEFINE s == gens[gen]
<1>1. CASE \E rb, k \in BOOLEAN : BeginFresh(rb, k)
  BY <1>1, RebuildBegins
<1>2. CASE \E k \in BOOLEAN : BeginResume(k)
  BY <1>2 DEF BeginResume, Begin
<1>3. CASE \/ \E m \in Manifests \union {None} : PublishManifest(m)
           \/ \E p \in Pipelines : Upgrade(p)
           \/ UNCHANGED vars
  BY <1>3 DEF PublishManifest, Upgrade, vars, storeVars, runVars, RebuildShape, Written
<1>4. CASE Crash \/ Refuse
  BY <1>4 DEF Crash, Refuse, EndRun
<1>5. CASE RunStep /\ ~Refuse
  <2>0. /\ rebuild /\ pc # "idle" /\ s \in Generation /\ gen \in GenIds
        /\ gens \in [GenIds -> Generation]
        /\ gone = {} /\ old = {} /\ s.chunks = Written
        /\ pc # "upserted" => s.vecs = Written
    BY <1>5, Running DEF RunStep, SkipUnchanged, FailEntry, UpsertRecord, MarkPending,
         RetireOldVectors, CommitRecord, RemoveContent, PurgeRemoved, CleanupOrphans,
         DeriveLinks, Activate, RecordManifest, Finish, IInv, TypeOK, RebuildShape
  <2>1. ASSUME NEW u, Write(u) PROVE gens'[gen] = u
    BY <2>0, <2>1 DEF Write
  <2>2. ASSUME NEW r \in Records, SkipUnchanged(r) PROVE RebuildShape'
    BY <2>0, <2>2 DEF SkipUnchanged, RebuildShape
  <2>3. ASSUME NEW r \in Records, FailEntry(r) PROVE RebuildShape'
    <3>1. gens'[gen].chunks = s.chunks /\ gens'[gen].vecs = s.vecs
      BY <2>0, <2>1, <2>3 DEF FailEntry, MarkFailed, Generation
    <3>2. Written' = Written
      BY <2>3 DEF FailEntry, Written
    <3>3. QED BY <2>0, <2>3, <3>1, <3>2 DEF FailEntry, RebuildShape
  <2>4. ASSUME NEW r \in Records, UpsertRecord(r) PROVE RebuildShape'
    <3>1. gens'[gen].chunks = s.chunks /\ gens'[gen].vecs = s.vecs \union {<<r, plan[r]>>}
      BY <2>0, <2>1, <2>4 DEF UpsertRecord, UpsertVectors, Generation
    <3>2. ChunksOf(s, r) = {} /\ Written' = Written
      BY <2>0, <2>4 DEF UpsertRecord, ChunksOf, Written
    <3>3. QED BY <2>0, <2>4, <3>1, <3>2 DEF UpsertRecord, RebuildShape
  <2>5. CASE CommitRecord
    <3>1. /\ gens'[gen].chunks = s.chunks \union {<<cur, plan[cur]>>}
          /\ gens'[gen].vecs = s.vecs
      BY <2>0, <2>1, <2>5 DEF CommitRecord, WriteRows, Generation
    <3>2. cur \in todo /\ cur \in Records /\ plan[cur] \in Fps /\ cur \notin failed
      BY <2>5, Running DEF CommitRecord, IInv, RunShape, Progress
    <3>3. Written' = Written \union {<<cur, plan[cur]>>}
      BY <2>5, <3>2 DEF CommitRecord, Written, Chunk
    <3>4. s.vecs = Written \union {<<cur, plan[cur]>>}
      BY <2>0, <2>5 DEF CommitRecord, RebuildShape
    <3>5. QED BY <2>0, <2>5, <3>1, <3>3, <3>4 DEF CommitRecord, RebuildShape
  <2>6. CASE CleanupOrphans
    <3>1. gens'[gen].chunks = s.chunks /\ gens'[gen].vecs = s.vecs
      BY <2>0, <2>1, <2>6 DEF CleanupOrphans, DeleteOrSkip, DeleteVectors, Orphans, Generation
    <3>2. QED BY <2>0, <2>6, <3>1 DEF CleanupOrphans, RebuildShape, Written
  <2>7. CASE DeriveLinks
    <3>1. gens'[gen].chunks = s.chunks /\ gens'[gen].vecs = s.vecs
      BY <2>0, <2>1, <2>7 DEF DeriveLinks, DeriveSupersessions, Generation
    <3>2. QED BY <2>0, <2>7, <3>1 DEF DeriveLinks, RebuildShape, Written
  <2>8. CASE RecordManifest
    <3>1. gens'[gen].chunks = s.chunks /\ gens'[gen].vecs = s.vecs
      BY <2>0, <2>1, <2>8 DEF RecordManifest, SetManifestMetadata, Generation
    <3>2. QED BY <2>0, <2>8, <3>1 DEF RecordManifest, RebuildShape, Written
  <2>9. CASE Activate
    BY <2>0, <2>9 DEF Activate, RebuildShape, Written
  <2>10. CASE Finish
    <3>1. todo = {}
      BY <2>10 DEF Finish, IInv, RunShape
    <3>2. QED BY <2>0, <2>10, <3>1 DEF Finish, storeVars, RebuildShape, Written
  <2>11. ASSUME NEW r \in Records, MarkPending(r) \/ RetireOldVectors(r) PROVE FALSE
    BY <2>0, <2>11 DEF MarkPending, RetireOldVectors
  <2>12. ~RemoveContent /\ ~PurgeRemoved
    BY <2>0 DEF RemoveContent, PurgeRemoved, IInv, RunShape
  <2>13. QED BY <1>5, <2>2, <2>3, <2>4, <2>5, <2>6, <2>7, <2>8, <2>9, <2>10, <2>11, <2>12
             DEF RunStep
<1>6. QED BY <1>1, <1>2, <1>3, <1>4, <1>5 DEF Next

\* A finished rebuild holds the chunks of its plan, less the failures, and a
\* vector for each and for nothing else.
THEOREM RebuildsAreExact == Spec => []RebuildIsExact
<1>1. Init => RebuildShape
  BY DEF Init, Quiet, RebuildShape
<1>2. ASSUME IInv, RebuildShape, pc = "done", rebuild
      PROVE  LET s == gens[active] IN
             /\ s.chunks = {c \in Chunk : plan[c[1]] = c[2] /\ c[1] \notin failed}
             /\ s.vecs = s.chunks
  <2>1. todo = {} /\ active = gen
    BY <1>2 DEF IInv, RunShape
  <2>2. QED BY <1>2, <2>1 DEF RebuildShape, Written
<1>3. IInv /\ RebuildShape => RebuildIsExact
  BY <1>2 DEF RebuildIsExact
<1>4. QED BY <1>1, RebuildSteps, <1>3, IngestInvariant, PTL DEF Spec

-----------------------------------------------------------------------------
(* A run comes to its end.  What is left of it, from its stages down to the *)
(* steps for one record, is less after every step.                          *)

\* The stages left; the entries and the removals are worked off in one.
StagesLeft ==
  CASE pc \in {"records", "upserted", "pending", "tombstoned"} -> 5
    [] pc = "derive" -> 4 [] pc = "activate" -> 3 [] pc = "record" -> 2
    [] pc = "retire" -> 1 [] OTHER -> 0

\* The steps left of the record at hand.
TurnsLeft ==
  CASE pc = "records" -> 2 [] pc \in {"upserted", "pending"} -> 1 [] OTHER -> 0

\* The records with a list of old chunks to delete.
Retiring == {r \in Records : \E c \in old : c[1] = r}

Left == <<StagesLeft, Cardinality(todo), Cardinality(gone), TurnsLeft, Cardinality(Retiring)>>

\* What a step of a run does to it.
Descends == pc \notin {"idle", "done"} => <<Left', Left>> \in Less(5)

\* The least that a step takes away.
Nearer ==
  \/ StagesLeft' < StagesLeft
  \/ /\ UNCHANGED <<StagesLeft, gone>>
     /\ \E r \in todo : todo' = todo \ {r}
  \/ /\ UNCHANGED <<StagesLeft, todo>>
     /\ \E r \in gone : gone' = gone \ {r}
  \/ UNCHANGED <<StagesLeft, todo, gone>> /\ TurnsLeft' < TurnsLeft
  \/ /\ UNCHANGED <<StagesLeft, todo, gone, TurnsLeft>>
     /\ \E r \in Retiring : Retiring' = Retiring \ {r}

LEMMA LeftIsNatural ==
  ASSUME IsFiniteSet(Records), TypeOK
  PROVE  /\ IsFiniteSet(todo) /\ IsFiniteSet(gone) /\ IsFiniteSet(Retiring)
         /\ Left \in [1..5 -> Nat]
<1>1. todo \subseteq Records /\ gone \subseteq Records /\ Retiring \subseteq Records
  BY DEF TypeOK, Retiring
<1>2. IsFiniteSet(todo) /\ IsFiniteSet(gone) /\ IsFiniteSet(Retiring)
  BY <1>1, FS_Subset
<1>3. Cardinality(todo) \in Nat /\ Cardinality(gone) \in Nat /\ Cardinality(Retiring) \in Nat
  BY <1>2, FS_CardinalityType
<1>4. StagesLeft \in Nat /\ TurnsLeft \in Nat
  BY DEF StagesLeft, TurnsLeft
<1>5. ASSUME NEW a \in Nat, NEW b \in Nat, NEW c \in Nat, NEW d \in Nat, NEW e \in Nat
      PROVE  <<a, b, c, d, e>> \in [1..5 -> Nat]
  <2> DEFINE t == <<a, b, c, d, e>>
  <2>1. 1..5 = {1, 2, 3, 4, 5}
    OBVIOUS
  <2>2. DOMAIN t = 1..5 /\ t = [i \in 1..5 |-> t[i]]
    OBVIOUS
  <2>3. t[1] \in Nat /\ t[2] \in Nat /\ t[3] \in Nat /\ t[4] \in Nat /\ t[5] \in Nat
    OBVIOUS
  <2> HIDE DEF t
  <2>4. \A i \in 1..5 : t[i] \in Nat
    BY <2>1, <2>3
  <2>5. t \in [1..5 -> Nat]
    BY <2>2, <2>4
  <2> QED BY <2>5 DEF t
<1> QED BY <1>2, <1>3, <1>4, <1>5 DEF Left

LEMMA NearerIsLess ==
  ASSUME IsFiniteSet(Records), TypeOK, Left' \in [1..5 -> Nat], Nearer
  PROVE  <<Left', Left>> \in Less(5)
<1>1. /\ Left \in [1..5 -> Nat]
      /\ IsFiniteSet(todo) /\ IsFiniteSet(gone) /\ IsFiniteSet(Retiring)
  BY LeftIsNatural
<1>2. /\ Left[1] = StagesLeft /\ Left[2] = Cardinality(todo) /\ Left[3] = Cardinality(gone)
      /\ Left[4] = TurnsLeft /\ Left[5] = Cardinality(Retiring)
  BY DEF Left
<1>3. /\ Left'[1] = StagesLeft' /\ Left'[2] = Cardinality(todo') /\ Left'[3] = Cardinality(gone')
      /\ Left'[4] = TurnsLeft' /\ Left'[5] = Cardinality(Retiring')
  BY DEF Left
<1>4. ASSUME NEW T, IsFiniteSet(T), NEW r \in T
      PROVE  Cardinality(T \ {r}) < Cardinality(T)
  <2>1. /\ Cardinality(T \ {r}) = Cardinality(T) - 1
        /\ Cardinality(T) \in Nat
    BY <1>4, FS_RemoveElement, FS_CardinalityType
  <2> DEFINE n == Cardinality(T)
             m == Cardinality(T \ {r})
  <2>2. m = n - 1 /\ n \in Nat
    BY <2>1
  <2> HIDE DEF n, m
  <2>3. m < n
    BY <2>2
  <2> QED BY <2>3 DEF n, m
<1>5. \E j \in 1..5 : Left'[j] < Left[j] /\ \A i \in 1..(j - 1) : Left'[i] = Left[i]
  <2>1. CASE StagesLeft' < StagesLeft
    <3>1. 1..(1 - 1) = {} /\ 1 \in 1..5
      OBVIOUS
    <3> QED BY <1>2, <1>3, <2>1, <3>1
  <2>2. CASE /\ UNCHANGED <<StagesLeft, gone>>
             /\ \E r \in todo : todo' = todo \ {r}
    <3>1. Cardinality(todo') < Cardinality(todo)
      BY <1>1, <1>4, <2>2
    <3>2. 1..(2 - 1) = {1} /\ 2 \in 1..5
      OBVIOUS
    <3>3. Left'[1] = Left[1] /\ Left'[2] < Left[2]
      BY <1>2, <1>3, <2>2, <3>1
    <3> QED BY <3>2, <3>3
  <2>3. CASE /\ UNCHANGED <<StagesLeft, todo>>
             /\ \E r \in gone : gone' = gone \ {r}
    <3>1. Cardinality(gone') < Cardinality(gone)
      BY <1>1, <1>4, <2>3
    <3>2. 1..(3 - 1) = {1, 2} /\ 3 \in 1..5
      OBVIOUS
    <3>3. Left'[1] = Left[1] /\ Left'[2] = Left[2] /\ Left'[3] < Left[3]
      BY <1>2, <1>3, <2>3, <3>1
    <3> QED BY <3>2, <3>3
  <2>4. CASE UNCHANGED <<StagesLeft, todo, gone>> /\ TurnsLeft' < TurnsLeft
    <3>1. 1..(4 - 1) = {1, 2, 3} /\ 4 \in 1..5
      OBVIOUS
    <3>2. /\ Left'[1] = Left[1] /\ Left'[2] = Left[2] /\ Left'[3] = Left[3]
          /\ Left'[4] < Left[4]
      BY <1>2, <1>3, <2>4
    <3> QED BY <3>1, <3>2
  <2>5. CASE /\ UNCHANGED <<StagesLeft, todo, gone, TurnsLeft>>
             /\ \E r \in Retiring : Retiring' = Retiring \ {r}
    <3>1. Cardinality(Retiring') < Cardinality(Retiring)
      BY <1>1, <1>4, <2>5
    <3>2. 1..(5 - 1) = {1, 2, 3, 4} /\ 5 \in 1..5
      OBVIOUS
    <3>3. /\ Left'[1] = Left[1] /\ Left'[2] = Left[2] /\ Left'[3] = Left[3]
          /\ Left'[4] = Left[4] /\ Left'[5] < Left[5]
      BY <1>2, <1>3, <2>5, <3>1
    <3> QED BY <3>2, <3>3
  <2> HIDE DEF Left
  <2> QED BY <2>1, <2>2, <2>3, <2>4, <2>5 DEF Nearer
<1> HIDE DEF Left
<1> QED BY <1>1, <1>5, LessAtOnePlace

\* Every step of a run is nearer its end; so is its death.
LEMMA StepsAreNearer ==
  ASSUME IInv, pc \notin {"idle", "done"}, Next, runVars' # runVars
  PROVE  Nearer
<1>1. ASSUME NEW r \in Records, SkipUnchanged(r) \/ FailEntry(r) PROVE Nearer
  BY <1>1 DEF SkipUnchanged, FailEntry, Nearer, StagesLeft
<1>2. ASSUME NEW r \in Records, UpsertRecord(r) \/ MarkPending(r) PROVE Nearer
  BY <1>2 DEF UpsertRecord, MarkPending, Nearer, StagesLeft, TurnsLeft
<1>3. CASE CommitRecord
  <2>1. cur \in todo
    BY <1>3 DEF CommitRecord, IInv, RunShape
  <2> QED BY <1>3, <2>1 DEF CommitRecord, Nearer, StagesLeft
<1>4. CASE RemoveContent
  BY <1>4 DEF RemoveContent, Nearer, StagesLeft, TurnsLeft
<1>5. CASE PurgeRemoved
  <2>1. cur \in gone
    BY <1>5 DEF PurgeRemoved, IInv, RunShape
  <2> QED BY <1>5, <2>1 DEF PurgeRemoved, Nearer, StagesLeft
<1>6. CASE CleanupOrphans \/ DeriveLinks \/ Activate \/ RecordManifest \/ Finish
  BY <1>6 DEF CleanupOrphans, DeriveLinks, Activate, RecordManifest, Finish, Nearer, StagesLeft
<1>7. ASSUME NEW r \in Records, RetireOldVectors(r) PROVE Nearer
  <2>1. /\ {c \in old : c[1] = r} # {} /\ old' = old \ {c \in old : c[1] = r}
        /\ UNCHANGED <<pc, todo, gone>>
    BY <1>7 DEF RetireOldVectors
  <2>2. r \in Retiring
    BY <2>1 DEF Retiring
  <2>3. Retiring' = Retiring \ {r}
    BY <2>1 DEF Retiring
  <2> QED BY <2>1, <2>2, <2>3 DEF Nearer, StagesLeft, TurnsLeft
<1>8. CASE Refuse \/ Crash
  <2>1. pc' = "idle"
    BY <1>8 DEF Refuse, Crash, EndRun
  <2>2. pc \in Labels
    BY DEF IInv, TypeOK
  <2> QED BY <2>1, <2>2 DEF Nearer, StagesLeft, Labels
<1>9. ~(\E m \in Manifests \union {None} : PublishManifest(m))
  BY DEF PublishManifest
<1>10. /\ ~(\E p \in Pipelines : Upgrade(p))
       /\ ~(\E k \in BOOLEAN : BeginResume(k) \/ \E rb \in BOOLEAN : BeginFresh(rb, k))
  BY DEF Upgrade, BeginResume, BeginFresh, Begin
<1> QED BY <1>1, <1>2, <1>3, <1>4, <1>5, <1>6, <1>7, <1>8, <1>9, <1>10 DEF Next, RunStep

\* Every step of an ingest that runs, the step that ends it and the crash that
\* cuts it off included, leaves less to be done than there was, whatever adapt
\* publishes meanwhile, and there is no infinite descent: no run goes round its
\* entries, its removals and its old vectors for ever.
THEOREM IngestAdvances ==
  ASSUME IsFiniteSet(Records)
  PROVE  /\ IsWellFoundedOn(Less(5), [1..5 -> Nat])
         /\ Spec => [](Left \in [1..5 -> Nat]) /\ [][Descends]_runVars
<1>1. IsWellFoundedOn(Less(5), [1..5 -> Nat])
  BY LessIsWellFounded
<1>2. IInv => TypeOK
  BY DEF IInv
<1>3. IInv => Left \in [1..5 -> Nat]
  BY LeftIsNatural DEF IInv
<1>4. IInv /\ TypeOK /\ (Left \in [1..5 -> Nat])' /\ [Next]_vars => [Descends]_runVars
  <2> SUFFICES ASSUME IInv, TypeOK, (Left \in [1..5 -> Nat])', [Next]_vars, runVars' # runVars,
                      pc \notin {"idle", "done"}
               PROVE  <<Left', Left>> \in Less(5)
    BY DEF Descends
  <2>1. Next
    BY DEF vars, runVars
  <2>2. Nearer
    BY <2>1, StepsAreNearer
  <2> QED BY <2>2, NearerIsLess
<1>5. Spec => [](Left \in [1..5 -> Nat]) /\ [][Descends]_runVars
  BY <1>2, <1>3, <1>4, IngestInvariant, PTL DEF Spec
<1> QED BY <1>1, <1>5

-----------------------------------------------------------------------------
(* A query beside the ingests. *)

\* The two digests of a generation are set together, from a manifest file that
\* is there or was there before.
DigestsOK(s, now) ==
  /\ s.semantic # None => s.raw # None
  /\ s.raw # None => s.raw \in RawDigests /\ s.raw[2] <= now

Digests == \A g \in GenIds : DigestsOK(gens[g], stamp)

\* What a query that asks knows, besides what it has read.
AskShape ==
  /\ Asking =>
       /\ pc \in {"idle", "done"}
       /\ outcome = "none"
       /\ began <= stamp
       /\ active # None /\ gens[active].raw # None => gens[active].raw[2] <= began
  /\ qpc \in {"idle", "check", "retrieve"} => accepted = {} /\ notices = {}
  /\ qpc \in {"retrieve", "verify", "cite", "recheck"} =>
       /\ ~Unusable
       /\ ~allow => /\ fresh = "current"
                    /\ gens[active].semantic # None
                    /\ ~HasFailedRecords(gens[active])
                    /\ stamp = began => manifest = gens[active].semantic

QInv == QueryTypeOK /\ Digests /\ AskShape /\ ReadsStayTrue

-----------------------------------------------------------------------------
(* Ingest steps. *)

LEMMA SystemStepIsIngestStep == SystemNext => [Next]_vars
  BY DEF SystemNext, IngestStep, QueryStep, Ask, RefuseStore, RefuseStale, CheckFreshness,
         NothingToRetrieve, Retrieve, Verify, Uncovered, Cite, FailQuery, Answer,
         RefuseChanged, End, Next

THEOREM SystemIngestInvariant == SystemSpec => []IInv
<1>1. SystemInit => IInv
  BY InitIInv DEF SystemInit
<1>2. IInv /\ [SystemNext]_systemVars => IInv'
  BY SystemStepIsIngestStep, StepIInv DEF systemVars
<1>3. QED BY <1>1, <1>2, PTL DEF SystemSpec

\* Only SetManifestMetadata touches the digests.
LEMMA SameDigests ==
  ASSUME NEW s \in Generation, NEW r, NEW v, NEW a, NEW u,
         \/ u = UpsertVectors(s, r, v) \/ u = WriteRows(s, r, v)
         \/ u = MarkFailed(s, r, v, a) \/ u = MarkPendingRemoval(s, r)
         \/ u = Tombstone(s, r, a) \/ u = DeleteVectors(s, a)
         \/ u = DeriveSupersessions(s)
  PROVE  u.semantic = s.semantic /\ u.raw = s.raw
  BY DEF Generation, UpsertVectors, WriteRows, MarkFailed, MarkPendingRemoval, Tombstone,
         DeleteVectors, DeriveSupersessions

LEMMA DigestsStep == IInv /\ Digests /\ [Next]_vars => Digests'
<1> SUFFICES ASSUME IInv, Digests, [Next]_vars, NEW g \in GenIds
             PROVE  DigestsOK(gens'[g], stamp')
    BY DEF Digests
<1>0. gens \in [GenIds -> Generation] /\ stamp \in Nat /\ stamp' \in Nat /\ stamp <= stamp'
  <2>1. TypeOK /\ TypeOK'
    BY StepIInv DEF IInv
  <2>2. gens \in [GenIds -> Generation] /\ stamp \in Nat /\ stamp' \in Nat
    BY <2>1, MaxStampAssumption DEF TypeOK, Stamps
  <2>3. stamp' = stamp \/ stamp' = stamp + 1
    BY DEF Next, PublishManifest, Upgrade, BeginResume, BeginFresh, Begin, RunStep, Crash,
         SkipUnchanged, FailEntry, UpsertRecord, MarkPending, RetireOldVectors, CommitRecord,
         RemoveContent, PurgeRemoved, CleanupOrphans, DeriveLinks, Activate, Refuse,
         RecordManifest, Finish, corpusVars, vars
  <2>4. QED BY <2>2, <2>3
<1>1. ASSUME gens'[g].semantic = gens[g].semantic, gens'[g].raw = gens[g].raw
      PROVE  DigestsOK(gens'[g], stamp')
  <2>1. gens[g].raw # None => gens[g].raw \in RawDigests /\ gens[g].raw[2] \in Nat
    BY MaxStampAssumption DEF Digests, DigestsOK, RawDigests, Stamps
  <2>2. QED BY <1>0, <1>1, <2>1 DEF Digests, DigestsOK
<1>2. ASSUME NEW u, Write(u), u.semantic = gens[gen].semantic, u.raw = gens[gen].raw
      PROVE  gens'[g].semantic = gens[g].semantic /\ gens'[g].raw = gens[g].raw
  BY <1>0, <1>2 DEF Write
<1>3. ASSUME NEW ids, DeleteOrSkip(ids), gens[gen] \in Generation
      PROVE  gens'[g].semantic = gens[g].semantic /\ gens'[g].raw = gens[g].raw
  <2>1. CASE Write(DeleteVectors(gens[gen], ids))
    BY <1>2, <1>3, <2>1, SameDigests
  <2>2. QED BY <1>3, <2>1 DEF DeleteOrSkip
<1>4. CASE RunStep
  <2>0. pc # "idle"
    BY <1>4 DEF RunStep, SkipUnchanged, FailEntry, UpsertRecord, MarkPending,
         RetireOldVectors, CommitRecord, RemoveContent, PurgeRemoved, CleanupOrphans,
         DeriveLinks, Activate, Refuse, RecordManifest, Finish
  <2>1. gens[gen] \in Generation /\ gen \in GenIds
    BY <2>0, Running
  <2>2. ASSUME NEW r \in Records, FailEntry(r) \/ UpsertRecord(r) \/ MarkPending(r)
        PROVE  gens'[g].semantic = gens[g].semantic /\ gens'[g].raw = gens[g].raw
    BY <1>2, <2>1, <2>2, SameDigests DEF FailEntry, UpsertRecord, MarkPending
  <2>3. CASE CommitRecord \/ RemoveContent \/ DeriveLinks
    <3>1. gens'[g].semantic = gens[g].semantic /\ gens'[g].raw = gens[g].raw
      BY <1>2, <2>1, <2>3, SameDigests DEF CommitRecord, RemoveContent, DeriveLinks
    <3>2. QED BY <1>1, <3>1
  <2>4. CASE PurgeRemoved \/ CleanupOrphans \/ \E r \in Records : RetireOldVectors(r)
    <3>1. gens'[g].semantic = gens[g].semantic /\ gens'[g].raw = gens[g].raw
      BY <1>3, <2>1, <2>4 DEF PurgeRemoved, CleanupOrphans, RetireOldVectors
    <3>2. QED BY <1>1, <3>1
  <2>5. CASE RecordManifest
    <3>1. /\ stamp' = stamp /\ <<manifest, stamp>> \in RawDigests
          /\ <<manifest, stamp>> # None
      BY <2>5, ManifestsAssumption, NoneAssumption
         DEF RecordManifest, corpusVars, IInv, TypeOK, RawDigests
    <3>2. CASE g = gen
      <4>1. gens'[g].raw = <<manifest, stamp>>
        BY <1>0, <2>1, <2>5, <3>2 DEF RecordManifest, Write, SetManifestMetadata, Generation
      <4>2. QED BY <1>0, <3>1, <4>1 DEF DigestsOK
    <3>3. CASE g # gen
      BY <1>0, <1>1, <2>1, <2>5, <3>3 DEF RecordManifest, Write
    <3>4. QED BY <3>2, <3>3
  <2>6. CASE Activate \/ Refuse \/ Finish \/ \E r \in Records : SkipUnchanged(r)
    BY <1>1, <2>6 DEF Activate, Refuse, Finish, SkipUnchanged, storeVars
  <2>7. QED BY <1>1, <1>4, <2>2, <2>3, <2>4, <2>5, <2>6 DEF RunStep
<1>5. CASE \E rb, k \in BOOLEAN : BeginFresh(rb, k)
  <2>1. PICK h \in GenIds : gens' = [gens EXCEPT ![h] = EmptyGeneration(pipeline)]
    BY <1>5 DEF BeginFresh
  <2>2. CASE g = h
    BY <1>0, <2>1, <2>2 DEF EmptyGeneration, DigestsOK
  <2>3. CASE g # h
    BY <1>0, <1>1, <2>1, <2>3
  <2>4. QED BY <2>2, <2>3
<1>6. CASE \/ Crash \/ UNCHANGED vars
           \/ \E k \in BOOLEAN : BeginResume(k)
           \/ \E m \in Manifests \union {None} : PublishManifest(m)
           \/ \E p \in Pipelines : Upgrade(p)
  BY <1>1, <1>6 DEF Crash, BeginResume, PublishManifest, Upgrade, vars, storeVars
<1>7. QED BY <1>4, <1>5, <1>6 DEF Next

-----------------------------------------------------------------------------
(* Query steps. *)

\* The lock, as a query has it: no ingest runs beside one that asks, and only
\* adapt moves anything at all.
LEMMA Undisturbed ==
  ASSUME TypeOK, AskShape, SystemNext, Asking
  PROVE  \/ UNCHANGED vars /\ QueryStep
         \/ /\ UNCHANGED <<pipeline, storeVars, runVars, queryVars>>
            /\ stamp' = stamp + 1
<1>1. ASSUME IngestStep PROVE FALSE
  <2>1. ~Lock!AcquireExclusive("ingest")
    BY DEF Lock!AcquireExclusive
  <2>2. pc \in {"idle", "done"}
    BY DEF AskShape
  <2>3. ~RunStep /\ ~Crash
    BY <2>2 DEF RunStep, Crash, SkipUnchanged, FailEntry, UpsertRecord, MarkPending,
         RetireOldVectors, CommitRecord, RemoveContent, PurgeRemoved, CleanupOrphans,
         DeriveLinks, Activate, Refuse, RecordManifest, Finish
  <2>4. QED BY <1>1, <2>1, <2>3 DEF IngestStep
<1>2. ASSUME NEW a \in BOOLEAN, Ask(a) PROVE FALSE
  BY <1>2 DEF Ask, Asking
<1>3. QueryStep => UNCHANGED vars
  BY DEF QueryStep, RefuseStore, RefuseStale, CheckFreshness, NothingToRetrieve, Retrieve,
         Verify, Uncovered, Cite, FailQuery, Answer, RefuseChanged, End
<1>4. ASSUME NEW m, PublishManifest(m), UNCHANGED queryVars
      PROVE  UNCHANGED <<pipeline, storeVars, runVars, queryVars>> /\ stamp' = stamp + 1
  BY <1>4 DEF PublishManifest
<1>5. QED BY <1>1, <1>2, <1>3, <1>4 DEF SystemNext

LEMMA EndQuery ==
  ASSUME QInv, NEW result \in Outcomes, End(result)
  PROVE  QueryTypeOK' /\ AskShape' /\ ReadsStayTrue'
<1>1. 0 \in Stamps
  BY MaxStampAssumption DEF Stamps
<1>2. QueryTypeOK'
  BY <1>1 DEF End, QueryTypeOK
<1>3. AskShape' /\ ReadsStayTrue'
  BY DEF End, AskShape, ReadsStayTrue, Asking
<1>4. QED BY <1>2, <1>3

\* The steps that go on with a query, one by one.
LEMMA QueryStepQInv ==
  ASSUME TypeOK, QInv, Asking, QueryStep, UNCHANGED vars
  PROVE  QueryTypeOK' /\ AskShape' /\ ReadsStayTrue'
<1> USE DEF QInv, vars, corpusVars, storeVars, runVars, Asking
<1>1. ASSUME NEW result \in Outcomes, End(result)
      PROVE  QueryTypeOK' /\ AskShape' /\ ReadsStayTrue'
  BY <1>1, EndQuery
<1>2. CASE CheckFreshness
  <2>1. ~allow => /\ Freshness(gens[active], manifest) = "current"
                  /\ gens[active].semantic # None /\ gens[active].semantic = manifest
                  /\ ~HasFailedRecords(gens[active])
    BY <1>2 DEF CheckFreshness, Freshness
  <2>2. QueryTypeOK'
    BY <1>2 DEF CheckFreshness, QueryTypeOK, Freshness
  <2>3. AskShape' /\ ReadsStayTrue'
    BY <1>2, <2>1 DEF CheckFreshness, AskShape, ReadsStayTrue, Unusable, HasFailedRecords
  <2>4. QED BY <2>2, <2>3
<1>3. ASSUME NEW S \in SUBSET Chunk, Retrieve(S)
      PROVE  QueryTypeOK' /\ AskShape' /\ ReadsStayTrue'
  <2>1. QueryTypeOK'
    BY <1>3 DEF Retrieve, QueryTypeOK, AskShape
  <2>2. AskShape'
    BY <1>3 DEF Retrieve, AskShape, Unusable, HasFailedRecords
  <2>3. S \subseteq gens[active].vecs
    BY <1>3 DEF Retrieve, ActiveChunks, Parity
  <2>4. \A e \in notices' : e[2] \in Notices(gens[active], e[1])
    BY <1>3 DEF Retrieve
  <2>5. ReadsStayTrue'
    BY <1>3, <2>3, <2>4 DEF Retrieve, AskShape, ReadsStayTrue, Unusable, ActiveChunks, Notices
  <2>6. QED BY <2>1, <2>2, <2>5
<1>4. ASSUME NEW C \in SUBSET Chunk, Verify(C)
      PROVE  QueryTypeOK' /\ AskShape' /\ ReadsStayTrue'
  BY <1>4 DEF Verify, QueryTypeOK, AskShape, ReadsStayTrue, Unusable, HasFailedRecords,
       ActiveChunks, Notices
<1>5. CASE Cite
  <2>1. marked' \subseteq Records
    BY <1>5 DEF Cite, QueryTypeOK, Chunk
  <2>2. QueryTypeOK'
    BY <1>5, <2>1 DEF Cite, QueryTypeOK
  <2>3. AskShape' /\ ReadsStayTrue'
    BY <1>5 DEF Cite, AskShape, ReadsStayTrue, Unusable, HasFailedRecords, ActiveChunks, Notices
  <2>4. QED BY <2>2, <2>3
<1>6. CASE \/ RefuseStore \/ RefuseStale \/ NothingToRetrieve \/ Uncovered
           \/ FailQuery \/ Answer \/ RefuseChanged
  BY <1>1, <1>6 DEF RefuseStore, RefuseStale, NothingToRetrieve, Uncovered, FailQuery,
       Answer, RefuseChanged, Outcomes
<1>7. QED BY <1>2, <1>3, <1>4, <1>5, <1>6 DEF QueryStep

LEMMA SystemStepQInv == IInv /\ QInv /\ [SystemNext]_systemVars => QInv'
<1> SUFFICES ASSUME IInv, QInv, [SystemNext]_systemVars
             PROVE  QInv'
    OBVIOUS
<1>0. TypeOK /\ TypeOK' /\ stamp \in Nat /\ stamp' \in Nat
  <2>1. IInv'
    BY SystemStepIsIngestStep, StepIInv DEF systemVars
  <2>2. QED BY <2>1, MaxStampAssumption DEF IInv, TypeOK, Stamps
<1>1. Digests'
  BY SystemStepIsIngestStep, DigestsStep DEF QInv, systemVars
<1>2. CASE UNCHANGED systemVars
  BY <1>1, <1>2 DEF systemVars, queryVars, vars, corpusVars, storeVars, runVars, QInv,
       QueryTypeOK, AskShape, ReadsStayTrue, Asking, Unusable, HasFailedRecords,
       ActiveChunks, Notices
<1>3. CASE SystemNext /\ Asking
  <2>1. CASE UNCHANGED vars /\ QueryStep
    BY <1>0, <1>1, <1>3, <2>1, QueryStepQInv DEF QInv
  <2>2. CASE /\ UNCHANGED <<pipeline, storeVars, runVars, queryVars>>
             /\ stamp' = stamp + 1
    <3>1. QueryTypeOK'
      BY <2>2 DEF queryVars, QInv, QueryTypeOK
    <3>2. began \in Nat /\ began <= stamp
      BY <1>3, MaxStampAssumption DEF QInv, QueryTypeOK, AskShape, Stamps
    <3>3. began <= stamp' /\ stamp' # began
      BY <1>0, <2>2, <3>2
    <3>4. AskShape'
      BY <2>2, <3>3 DEF queryVars, storeVars, runVars, QInv, AskShape, Asking, Unusable,
           HasFailedRecords
    <3>5. ReadsStayTrue'
      BY <2>2 DEF queryVars, storeVars, runVars, QInv, ReadsStayTrue, Unusable,
           ActiveChunks, Notices
    <3>6. QED BY <1>1, <3>1, <3>4, <3>5 DEF QInv
  <2>3. QED BY <1>0, <1>3, <2>1, <2>2, Undisturbed DEF QInv
<1>4. CASE SystemNext /\ ~Asking
  <2>1. ASSUME NEW a \in BOOLEAN, Ask(a) PROVE QInv'
    <3>1. QueryTypeOK'
      BY <1>0, <2>1 DEF Ask, QueryTypeOK, TypeOK, Outcomes
    <3>2. pc \in {"idle", "done"}
      BY <2>1 DEF Ask, Lock!AcquireShared, Ingesting
    <3>3. ASSUME active # None, gens[active].raw # None PROVE gens[active].raw[2] <= stamp
      BY <1>0, <3>3 DEF TypeOK, QInv, Digests, DigestsOK
    <3>4. AskShape' /\ ReadsStayTrue'
      BY <1>0, <2>1, <3>2, <3>3 DEF Ask, AskShape, ReadsStayTrue, Asking, vars, corpusVars,
           storeVars, runVars
    <3>5. QED BY <1>1, <3>1, <3>4 DEF QInv
  <2>2. CASE UNCHANGED queryVars
    BY <1>1, <1>4, <2>2 DEF queryVars, QInv, QueryTypeOK, AskShape, ReadsStayTrue, Asking
  <2>3. ~QueryStep
    BY <1>4 DEF QueryStep, RefuseStore, RefuseStale, CheckFreshness, NothingToRetrieve,
         Retrieve, Verify, Uncovered, Cite, FailQuery, Answer, RefuseChanged, Asking
  <2>4. QED BY <1>4, <2>1, <2>2, <2>3 DEF SystemNext, IngestStep
<1>5. QED BY <1>2, <1>3, <1>4

LEMMA AnswerAnswers ==
  ASSUME TypeOK, QInv, SystemNext, Answering
  PROVE  Answer
<1>1. Asking /\ outcome' = "answered" /\ outcome \in Outcomes
  BY DEF Answering, QInv, QueryTypeOK
<1>2. QueryStep \/ UNCHANGED queryVars
  BY <1>1, Undisturbed DEF QInv
<1>3. ASSUME UNCHANGED queryVars PROVE FALSE
  BY <1>1, <1>3 DEF queryVars, QInv, AskShape
<1>4. QED
  BY <1>1, <1>2, <1>3
     DEF QueryStep, RefuseStore, RefuseStale, CheckFreshness, NothingToRetrieve, Retrieve,
         Verify, Uncovered, Cite, FailQuery, RefuseChanged, End, QInv, AskShape

\* The whole of what query relies on, beside any ingests, crashes and adapts.
THEOREM QueryInvariant == SystemSpec => [](IInv /\ QInv)
<1>1. SystemInit => QInv
  <2> SUFFICES ASSUME SystemInit PROVE QInv
      OBVIOUS
  <2>0. 0 \in Stamps
    BY MaxStampAssumption DEF Stamps
  <2>1. QueryTypeOK
    BY <2>0 DEF SystemInit, QueryTypeOK, Outcomes
  <2>2. Digests
    BY DEF SystemInit, Init, EmptyGeneration, Digests, DigestsOK
  <2>3. AskShape /\ ReadsStayTrue
    BY DEF SystemInit, AskShape, ReadsStayTrue, Asking
  <2>4. QED BY <2>1, <2>2, <2>3 DEF QInv
<1>2. QED BY <1>1, SystemStepQInv, SystemIngestInvariant, PTL DEF SystemSpec

\* Type correctness of a query.
THEOREM QueryTypes == SystemSpec => []QueryTypeOK
<1>1. IInv /\ QInv => QueryTypeOK
  BY DEF QInv
<1>2. QED BY <1>1, QueryInvariant, PTL

\* What query_index read under the shared lock is what the store still holds
\* when it renders its answer.
THEOREM QueryReadsStayTrue == SystemSpec => []ReadsStayTrue
<1>1. IInv /\ QInv => ReadsStayTrue
  BY DEF QInv
<1>2. QED BY <1>1, QueryInvariant, PTL

\* active_chunks gives a query nothing that the last finished run did not list
\* or could not ingest, and beside it only what a killed run had begun to remove.
THEOREM QueryEvidenceIsServed == SystemSpec => []EvidenceIsServed
<1>1. ASSUME IInv, QInv, Asking, NEW c \in accepted
      PROVE  \/ /\ gens[active].ledger[c[1]].st = "current"
                /\ pc = "done" => c[1] \in Listed(plan) \ failed
             \/ /\ gens[active].ledger[c[1]].st = "pending_removal"
                /\ pc = "idle"
  <2>1. qpc \in {"verify", "cite", "recheck"}
    BY <1>1 DEF QInv, AskShape, QueryTypeOK
  <2>2. active \in made /\ c \in ActiveChunks(gens[active]) /\ c[1] \in Records
    BY <1>1, <2>1 DEF QInv, ReadsStayTrue, Unusable, IInv, TypeOK, QueryTypeOK, Chunk
  <2>3. RecordConsistent(gens[active], c[1])
    BY <1>1, <2>2 DEF IInv, StoreConsistent
  <2>4. gens[active].ledger[c[1]].st \in {"current", "pending_removal"}
    BY <2>2, <2>3 DEF ActiveChunks, RecordConsistent
  <2>5. CASE pc = "done"
    <3>1. Settled(gens[active], c[1])
      BY <1>1, <2>2, <2>5 DEF IInv, RunShape, Progress
    <3>2. QED BY <2>2, <2>4, <2>5, <3>1 DEF Settled, Listed
  <2>6. CASE pc = "idle"
    BY <2>4, <2>6
  <2>7. QED BY <1>1, <2>5, <2>6 DEF QInv, AskShape
<1>2. IInv /\ QInv => EvidenceIsServed
  BY <1>1 DEF EvidenceIsServed
<1>3. QED BY <1>2, SystemIngestInvariant, QueryInvariant, PTL

\* The recheck of query_index, together with its first look at the manifest,
\* lets a default answer out only if nothing moved in between.
THEOREM QueryAnswersStandStill == SystemSpec => DefaultAnswersStandStill
<1>1. ASSUME IInv, QInv, SystemNext, Answering, ~allow
      PROVE  /\ stamp = began /\ fresh = "current"
             /\ manifest = gens[active].semantic
             /\ ~HasFailedRecords(gens[active])
  <2>1. Answer
    BY <1>1, AnswerAnswers DEF IInv
  <2>2. /\ fresh = "current" /\ gens[active].semantic # None
        /\ ~HasFailedRecords(gens[active])
        /\ stamp = began => manifest = gens[active].semantic
        /\ active # None
    BY <1>1, <2>1 DEF Answer, QInv, AskShape, ReadsStayTrue, Unusable
  <2>3. gens[active].raw # None /\ gens[active].raw = <<manifest, stamp>>
    BY <1>1, <2>1, <2>2 DEF Answer, RawChanged, IInv, TypeOK, QInv, Digests, DigestsOK
  <2>4. stamp <= began /\ began <= stamp
    BY <1>1, <2>2, <2>3 DEF Answering, QInv, AskShape
  <2>5. stamp \in Nat /\ began \in Nat
    BY <1>1, MaxStampAssumption DEF IInv, TypeOK, QInv, QueryTypeOK, Stamps
  <2>6. stamp = began
    BY <2>4, <2>5
  <2>7. QED BY <2>2, <2>6
<1>2. IInv /\ QInv /\ [SystemNext]_systemVars
        => [Answering /\ ~allow =>
              /\ stamp = began /\ fresh = "current"
              /\ manifest = gens[active].semantic
              /\ ~HasFailedRecords(gens[active])]_systemVars
  BY <1>1
<1>3. QED BY <1>2, QueryInvariant, PTL DEF SystemSpec, DefaultAnswersStandStill
=============================================================================
