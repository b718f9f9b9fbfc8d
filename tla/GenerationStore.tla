--------------------------- MODULE GenerationStore ---------------------------
(***************************************************************************)
(* One index generation: the SQLite database and the Chroma collection     *)
(* behind SqliteChromaIndexWriter, as a record and one operator per        *)
(* method.  A record version is a fingerprint.  Its chunks are written in  *)
(* one transaction and its vectors in one upsert, so a version is one unit *)
(* of each, <<record, fingerprint>>: the chunk ids of two versions are     *)
(* disjoint, and those of one version are the same at every ingest.        *)
(***************************************************************************)
EXTENDS FiniteSets, Naturals

CONSTANTS
  Records,       \* the record ids
  Fps,           \* the fingerprints a record can have
  Pipelines,     \* the pipeline signatures the program has had
  MaxStamp,      \* how often the manifest is rewritten; bounds the runs
  None,          \* SQL NULL, and a missing row
  SupersedesOf   \* the record that version v of record r supersedes, or None

ASSUME MaxStampAssumption == MaxStamp \in Nat

ASSUME SupersedesAssumption ==
  SupersedesOf \in [Records -> [Fps -> Records \union {None}]]

\* generated_at: later manifest files have later ones.
Stamps == 0 .. MaxStamp

Chunk == Records \X Fps

RecordStates == {"absent", "current", "failed", "pending_removal", "removed"}

\* A record_state row; "absent" is a record without one.
Row == [st : RecordStates, desired : Fps \union {None}, active : Fps \union {None}]

NoRow == [st |-> "absent", desired |-> None, active |-> None]

\* The entries of a manifest: each listed record's fingerprint.
Entries == [Records -> Fps \union {None}]

NoEntries == [r \in Records |-> None]

\* The bytes of a manifest file: its entries, and when they were generated.
RawDigests == Entries \X Stamps

ASSUME NoneAssumption ==
  /\ None \notin Records \union Fps \union Pipelines
  /\ None \notin Entries \union RawDigests

Generation ==
  [sig      : Pipelines,
   ledger   : [Records -> Row],                  \* record_state
   snap     : [Records -> Fps \union {None}],    \* record_snapshot
   chunks   : SUBSET Chunk,                      \* chunk
   vecs     : SUBSET Chunk,                      \* the Chroma collection
   links    : SUBSET (Records \X Records),       \* supersession_link
   semantic : Entries \union {None},             \* index_metadata
   raw      : RawDigests \union {None}]

EmptyGeneration(sig) ==
  [sig |-> sig, ledger |-> [r \in Records |-> NoRow], snap |-> NoEntries,
   chunks |-> {}, vecs |-> {}, links |-> {}, semantic |-> None, raw |-> None]

ChunksOf(s, r) == {c \in s.chunks : c[1] = r}

-----------------------------------------------------------------------------
\* The writer (infrastructure/index_store.py).

\* write_record, first half: new vectors before any row names them.
UpsertVectors(s, r, v) == [s EXCEPT !.vecs = @ \union {<<r, v>>}]

\* write_record, second half: one transaction.  Chunk rows of other versions
\* of the record are left where they are.
WriteRows(s, r, v) ==
  [s EXCEPT !.ledger[r] = [st |-> "current", desired |-> v, active |-> v],
            !.snap[r]   = v,
            !.chunks    = @ \union {<<r, v>>}]

\* INSERT OR REPLACE drops the old record_state row first, and the foreign key
\* takes the record's snapshot with it; the chunk table has no such key.
MarkFailed(s, r, v, prior) ==
  [s EXCEPT !.ledger[r] = [st |-> "failed", desired |-> v, active |-> prior],
            !.snap[r]   = None]

\* A plain UPDATE: nothing cascades.
MarkPendingRemoval(s, r) == [s EXCEPT !.ledger[r].st = "pending_removal"]

\* Mutant: a tombstone that forgets the chunk rows.
TombstoneRowOnly(s, r, prior) ==
  [s EXCEPT !.snap[r]   = None,
            !.ledger[r] = [st |-> "removed", desired |-> prior, active |-> None]]

\* remove_record's transaction: the content goes, a tombstone stays.
Tombstone(s, r, prior) ==
  [s EXCEPT !.chunks    = @ \ ChunksOf(s, r),
            !.snap[r]   = None,
            !.ledger[r] = [st |-> "removed", desired |-> prior, active |-> None]]

DeleteVectors(s, ids) == [s EXCEPT !.vecs = @ \ ids]

Orphans(s) == s.vecs \ s.chunks

\* Mutant: the two digests swapped.
SetManifestMetadataSwapped(s, entries, raw) ==
  [s EXCEPT !.semantic = raw, !.raw = entries]

SetManifestMetadata(s, entries, raw) ==
  [s EXCEPT !.semantic = entries, !.raw = raw]

\* <<predecessor, successor>> for every snapshot that supersedes something.
SupersessionEdges(s) ==
  {e \in Records \X Records :
     /\ s.snap[e[2]] # None
     /\ SupersedesOf[e[2]][s.snap[e[2]]] = e[1]}

\* A self link, or a set of records each of which has a successor in the set.
HasCycle(edges) ==
  \E S \in SUBSET Records :
    S # {} /\ \A n \in S : \E m \in S : <<n, m>> \in edges

DeriveSupersessions(s) == [s EXCEPT !.links = SupersessionEdges(s)]

-----------------------------------------------------------------------------
\* The reader (infrastructure/index_reader.py) and query's freshness.

\* parity_problems and activate's check: every chunk row has its vector.
Parity(s) == s.chunks \subseteq s.vecs

\* Mutant: no join with record_snapshot.
ActiveChunksUnjoined(s) == s.chunks

\* The rows a query retrieves from: every chunk of a record with a snapshot.
ActiveChunks(s) == {c \in s.chunks : s.snap[c[1]] # None}

HasFailedRecords(s) == \E r \in Records : s.ledger[r].st = "failed"

\* The successors disclosed beside a retrieved record p.
Notices(s, p) == {q \in Records : <<p, q>> \in s.links /\ s.snap[q] # None}

\* manifest is None when there is no file.
Freshness(s, manifest) ==
  IF s.semantic = None \/ manifest = None THEN "unknown"
  ELSE IF s.semantic = manifest /\ ~HasFailedRecords(s) THEN "current"
  ELSE "drift"
=============================================================================
