# Verification of decision-memory

`decision-memory` is a command line program over a directory of *decision
records*. `adapt` derives records and a manifest from a corpus of
specifications, `ingest` indexes the records into a store made of SQLite
databases and Chroma collections, and `query` answers a question from the store
with citations, asking a language model to write the sentences and checking
them itself. These modules model that program from its source
(`src/src/decision_memory`); its specification
(`src/docs/specs/0007-core-cited-query/index.md`, "the document" below) is what
the violated properties quote.

Nothing in the program runs for long. What makes it hard is that every command
is a separate process that may be killed anywhere, that one logical change
crosses two stores which share no transaction, that `adapt` takes no lock, and
that a later run has only what the earlier one left. Inside a query and an
ingest it is that a provider may fail or say anything at every call, and that
what it said is used by position, index and count many steps later. Two
commands judge others, the conformance engine an adapter and the evaluation a
query, and are worth as much as their verdicts are true.

## Inventory

| Part | State it keeps | Operations | How it meets the others | What makes it correct |
|---|---|---|---|---|
| Store lock (`index_lock.py`, the lock half of `sqlite_store.py`) | the lock file with one guard row, the SQLite locks on it | bootstrap, BEGIN / BEGIN EXCLUSIVE, SELECT, COMMIT | wraps a whole ingest or a whole query | one ingest or many queries; no waiting; a death frees it; bootstrap ends in a usable file |
| Index writer (`index_store.py`, `chroma_store.py`) | per generation: ledger, snapshots, chunks, vectors, links, digests | open, write, fail, pend, remove, clean, derive, activate, set digests | called by ingest, one transaction or Chroma call at a time | tables agree at every commit; vectors before rows; old vectors last |
| Store files (`store.py`) | `FORMAT`, `ACTIVE`, generation directories | atomic rename of `ACTIVE` | written by ingest, read by both | `ACTIVE` names a complete generation of one pipeline |
| Ingest (`ingest.py`) | nothing of its own between runs | plan, entry loop, removals, clean-up, activation | reads manifest and record files, writes the store | success means the store is the manifest; failures stay visible |
| Index reader (`index_reader.py`) | none | parity, active chunks, search, freshness inputs, notices | called by query | what it returns is what the ledger serves |
| Query (`query.py`) | none | freshness, filters, rankings, fusion, diversity, generation, verification, coverage, citations, recheck | shared lock; manifest read three times; provider calls | no answer from a store or manifest that moved; every sentence supported by what it cites |
| Adapt (`adapter.py`) | record files, the manifest | fingerprint, parse, decide, write files, write manifest | no lock; runs beside everything, its own kind included | the manifest describes the files; an entry is of one version of its source; a deleted file is restored |
| Provider calls (`openai_*.py`) | attempts and tries of one operation | request, retry, schema repair, failure | called by ingest and query | bounded requests, however failures alternate |
| Chunking, pipeline (`chunking.py`, `pipeline.py`) | none | sentences, packing, overlap, limits, signature | called by ingest | no text lost, order kept |
| Batches (`_embed_in_batches` of `ingest.py`) | the open batch, the vectors so far | take, send, count | called per record | each chunk its vector; caps kept; the dry run's count is the cost |
| Retrieval (`filters.py`, part of `query.py`) | none | filter, rank, fuse, select, allocate citations | called by query | deterministic, capped, in order; every citation resolves |
| Answer verification (`verification.py`, `openai_generation.py`, part of `query.py`) | the sentences judged so far | containment, division and its retry, entailment, coverage | called by query | no unsupported claim is emitted, no supported sentence is dropped |
| Evaluation (`evaluation.py`, `evaluation_runner.py`) | traces of deviating runs, the report's rows | prepare, run, judge, record, re-ingest a copy, report | runs adapt, ingest and queries itself | rows and exit code are true; each deviation can be read |
| Conformance engine (`conformance.py`, `conformance_fixtures.py`) | workspaces, the case's fingerprints, the report | open, call, probe, corrupt, finish | calls an adapter under test in copies | it fails exactly the adapters that misbehave; no workspace is lost |
| Validation, doctor, adapter loading, manifests of cases | none | one-shot passes over files | own commands | stateless rules |

Hard behaviours: interleavings of three kinds of command around one lock file
and one manifest; a crash between any two transactions; a Chroma deletion whose
failure is swallowed; plans made from states that the same run then changes;
SQLite's `INSERT OR REPLACE` together with a cascading foreign key; the same
manifest published twice, which has the same entries and different bytes; a
source read twice by one run; retries within a schema repair within a retried
division; counters, baselines and first failures that must be dropped between
one fixture or case and the next.

## Modules

| Module | Models | Instance and configurations |
|---|---|---|
| `RWLock` | what the lock promises | used by `StoreLock` and `QueryRun` |
| `StoreLock` | `store_lock`, `open_lock_database`, `create_lock_schema`, statement by statement | `StoreLock.cfg`, `StoreLockBootstrap.cfg` |
| `GenerationStore` | one generation: a record, and an operator for each writer and reader method | used by `IngestRun` |
| `IngestRun` | `_run_ingest` over all generations, `ACTIVE`, the manifest, upgrades and crashes | `MCIngestRun` with `IngestRun.cfg`, `IngestRebuild.cfg`, `IngestQueryable.cfg` |
| `QueryRun` | `query_index` beside the whole of `IngestRun`, with the lock as `RWLock` | `MCQueryRun` with `QueryRun.cfg` |
| `AdaptRun` | `adapt_corpus` in several processes beside edits, deletions and kills | `AdaptRun.cfg`, `AdaptRepair.cfg` |
| `ProviderCall` | `run_with_retries` under the schema repair of a stage: one operation at the provider | used by `AnswerRun` and `EmbedRun` |
| `Retrieval` | filters, rankings, fusion, selection, as operators, and what a fair selection is | used by `AnswerRun` |
| `Verification` | containment and the tests of a division, as operators, and what a division is | used by `AnswerRun` |
| `AnswerPromise` | what a query promises whoever asks | refined by `AnswerRun` |
| `AnswerRun` | `query_index` from its filters to its result, with the provider | see `Evaluation` |
| `Evaluation` | the oracles of the battery over `AnswerRun`'s result | `MCAnswerRun` with `AnswerRun.cfg` |
| `Chunking` | `chunk_record` as operators over tokens | used by `EmbedRun` |
| `EmbedRun` | the entries of an ingest down to their batches and calls | `MCEmbedRun` with `EmbedRun.cfg` |
| `EvaluationRun` | the evaluate command, one invocation after another | `MCEvaluationRun` with `EvaluationRun.cfg` |
| `ConformanceRun` | the conformance engine over its fixtures, with an arbitrary adapter | `MCConformanceRun` with `ConformanceRun.cfg` |
| `FoldTheorems` | lemmas on folds over sequences, on ordering a finite set and on descending tuples of naturals, for `AnswerRunProofs`, `EmbedRunProofs` and `QueryRunProofs` | checked with tlapm |
| `StoreLockProofs`, `QueryRunProofs` (with ingest), `AdaptRunProofs`, `AnswerRunProofs` (with the oracles), `EmbedRunProofs`, `EvaluationRunProofs`, `ConformanceRunProofs` | theorems | checked with tlapm |

The store's protocol (`StoreLock`, `IngestRun`, `QueryRun`) and what is computed
from it (`AnswerRun`, `EmbedRun`) are separate state machines over the same
code: in the first a version of a record is one element and the choice of
evidence and sentences is the environment's, in the second the store is a
constant, which the shared lock makes it (`ReadsStayTrue`).

Six more configurations state something that a document says and the code does
not do; each is checked by hand and ends in a violation (see Findings):

```
tlc -workers 2 -config IngestFailedPrior.cfg MCIngestRun
tlc -workers 2 -config IngestReplace.cfg MCIngestRun
tlc -workers 2 -config QueryVersions.cfg MCQueryRun
tlc -workers 2 -config QueryRecheck.cfg MCQueryRun
tlc -workers 2 -config QueryPendingRemoval.cfg MCQueryRun
tlc -workers 2 -config ConformanceRaises.cfg MCConformanceRun
```

`PROJECT.json` maps every definition to its lines. A definition whose comment
begins with "Mutant" is not part of the model: it is the named definition with
a plausible bug in it, and shows that some property notices.

### How state corresponds to the code

* A **version** of a record is its fingerprint. Its chunks are written by one
  transaction and its vectors by one upsert, so one element `<<record,
  fingerprint>>` of `chunks` and one of `vecs` stand for them; chunk ids are a
  function of generation, record and version, so versions never share one. A
  record always has a chunk, because its validated `context` is not empty.
* A **ledger row** (`record_state`) is its state with the desired and active
  fingerprints, a **snapshot** is the version it holds. `MarkFailed` clears the
  snapshot because `INSERT OR REPLACE` deletes the old row first and
  `record_snapshot` cascades, while `chunk` has no such key. Tags, field sources
  and evidence rows follow the snapshot and are left out.
* The **manifest** is the function from record to listed fingerprint; that is
  its semantic digest. `<<manifest, stamp>>` is its raw digest: `stamp` is
  `generated_at`, new at every rewrite. No manifest and an unreadable one are
  both `None`, as they are to every reader.
* A **run** is its program counter and locals. Each action is one transaction,
  Chroma call or rename together with the computation before it; reads that no
  other command can disturb under the exclusive lock join the write they lead
  to. `Crash` stands for a kill, an exception and an error exit alike: all leave
  the store as it is and forget the locals.
* `FailEntry` is open to every entry: whether a record file is readable, whether
  its digest and provenance hold and whether the provider answers are not facts
  of the store.
* A **query** reads only. `Retrieve` of `QueryRun` accepts any non-empty set of
  active chunks and `Verify` cites any of those, which covers whatever the
  filters, rankings, model and verification choose.
* An **adapt** process is its program counter, the previous fingerprints it
  loaded, and what it decided per record. A source is its content, which is also
  its fingerprint and the digest of the record made from it; a file is that
  digest or `Torn` between its truncation and its filling. `disturbed` is a
  history of the three things the code does not guard against: a kill while
  writing, another run beside it, an edit between a run's two reads.
* A **provider operation** is its try and its attempt; `sent` is a history. Every
  failure may come at every request: retryable, final, malformed content, or a
  response that the stage's validator refuses. A valid response is any element
  of a small set that passes the validator as modelled.
* In **`AnswerRun`** a text is a sequence of normalised words, a sentence its text
  and the chunks it cites, a division a sequence of texts. Scores and distances
  are small numbers, chosen per query, so every order and every tie of the
  rankings occurs; the fused score is compared as a fraction of integers. The
  loop over the draft is `Len(fates)`, the loop over claims `Len(found)`.
* An **oracle** sees what `_satisfies` sees: the state of the result, its coverage
  rows, and the records and paths of its citations, disclosures included.
* In **`Chunking`** a text is a sequence of paragraphs of tokens. White space is
  not modelled, so a join is `\o`; the tokens of a join are taken to be those of
  its parts. The pieces under construction are those closed and the open one, as
  in the three loops of the code.
* An **evaluate** invocation is its place, the fixture and run it is at, the
  fixture's counters and the rows so far. `log` is a history of what each run
  really was, `deviated` one of the runs that missed their expectation; the
  traces directory is a set of files by directory, name and run, and outlives
  invocations. What a query does and what an oracle says is a choice here.
* A **conformance** workspace is open, removed, preserved or left, with whether a
  check failed in it and whether the adapter wrote into it. Every call may raise,
  return something of a wrong type, or return something right or wrong, and may
  write into any open copy; `bad` is a history of any of it. Sources found are
  away, right, without one of their files, or outside the copy.

## What the runs check

| Run | Configuration | What it shows | Distinct states |
|---|---|---|---|
| `lock` | 3 commands, any modes, deaths anywhere | the statements implement `RWLock` (refinement); no block on a half-made file; the file is never undone; every attempt ends | 8 thousand |
| `ingest` | 2 records, 2 versions, 2 pipelines, 1 generation, 3 manifests, 2 rewrites | the tables agree at every step; success means the store is the plan; freshness is honest; keys are asked for when needed; pipelines never mix; old vectors last | 2.6 million |
| `rebuild` | as above, 2 generations, 1 pipeline, 2 manifests, 1 rewrite | a rebuild works aside, switches to a complete generation, and is exact | 2.8 million (up to symmetry) |
| `query` | 2 records, 2 versions, 3 manifests (an update and a removal), 2 rewrites, late supersession, 1 pipeline | reads stay true; evidence is what the last finished run listed and ingested, and after a kill what it had begun to remove; default answers stand still | 2.1 million |
| `adapt` | 1 record, 2 versions, 2 processes, 2 edits or deletions | undisturbed runs leave files and manifest in agreement and restore deleted files; an entry is of one version; runs end | 404 thousand |
| `conformance` | 2 cases, 2 sources, 2 files, 2 fingerprints | the verdict is true; workspaces end; probes use their own case's fingerprint; the engine ends | 70 thousand |
| `answer` | 4 chunks of 2 records, limits 3, 2 and 1, 7 drafts, 7 divisions, 2 facets, 2 attempts, 2 tries, 10 oracles | requests are bounded; selection is fair; each sentence has the fate it earned; answers cover the question; citations resolve; oracles tell the truth; the query implements `AnswerPromise` and ends | 13 thousand |
| `embed` | 8 tokens cut into values and paragraphs in every way, target 3, caps of 2 chunks and 6 tokens | no text is lost; calls are those of the dry run; each chunk has its vector | 41 thousand |
| `evaluate` | 3 batteries of 1 or 2 fixtures, 2 runs each, 2 invocations, 3 results | rows and exit code are true; deviations keep their traces; the battery ends | 885 thousand |
| `lock_bootstrap` | 2 commands, no deaths | finding 1 | stops at the violation |
| `ingest_queryable` | as `ingest`, 1 pipeline | finding 2 | stops at the violation |
| `adapt_repair` | 1 process | finding 3 | stops at the violation |

Bounds and why they are enough.

* *ingest, rebuild, query.* Records interact only through supersession links,
  activation and parity, all of which two records exercise: a link, a cycle of
  two (in the manifests of `ingest`), one record failing or removed while the other is
  current. Two versions give an update and a revert; with the manifests chosen a
  record can be added, changed, reverted, removed and listed again (in `query` too,
  where a removal withdraws a supersession that queries disclose), and
  `MaxStamp` = 2 lets this happen in three successive manifests or twice under
  one run. One generation is all that incremental runs see; two are the least a
  rebuild needs, and generation ids are interchangeable (`SYMMETRY`). Two
  pipelines make a mismatch. One query at a time is enough because queries change
  nothing. No counter but `stamp` is bounded; the number of runs, crashes and
  queries is not.
* *adapt.* Records are decided and written one by one and share only the
  manifest, which is written at once, so one record beside two processes shows
  every overlap; the theorems hold for any number of both. `MaxEdits` = 2 allows
  an edit and its revert, or an edit and a deletion. Runs and kills are not
  bounded.
* *conformance.* Two cases are the least in which something may be left over from
  one to the next. Only one of the two sources requires a file, so that a
  corrupted copy affects one and must leave the other as it was.
* *answer.* The limits are below what four chunks need, so that candidates are cut,
  the breadth pass passes a record over and the depth pass returns to it. The
  drafts have a sentence verbatim, one with two citations, one with the same
  twice, two sentences that share a chunk, and none; among the divisions there
  are complete, incomplete, additive and repeating ones, and too many claims; the coverages
  include too few rows, rows out of order and rows covered by nothing. Two
  attempts and two tries are the least that can multiply.
* *embed.* Eight tokens under a target of three give an oversize paragraph with
  sentences, one with an oversize sentence, an open piece before and after each,
  and overlaps that a sentence ends. The caps are small enough that each closes
  batches; unlike the real ones (50 000 tokens against a limit of 8191 for one
  input) the token cap lies near one input's size, so a batch of one above it
  does not occur in the program and is allowed for here.
* *evaluate.* Two fixtures and two runs show anything carried from one to the next,
  two invocations a directory that is used again.

Fairness. `AttemptEnds`: weak fairness of each live command's next statement,
which the operating system's scheduler gives, since no statement blocks for good
(a busy database is an error; the first pragma may wait the driver's five
seconds, which is a step taken later). `RunsEnd`, `EngineEnds`, `QueryEnds` and
`EvaluationEnds`: weak fairness of the program's own next step (`RunStep` of each
process, `Step`, `AnswerNext`, `EvaluationStep`); each is a sequential program
whose calls return or raise (the provider's client has a time limit, an adapter
under test is assumed to return). Edits, deletions, kills and an adapter's writes
have no fairness; a killed run has ended. There is no liveness for the ingest
and the query of `QueryRun`, whose loops shrink a finite set.

Deadlock is checked in every run but three, which model one run of something that
ends: `conformance`, `answer` and `evaluate` stop when the report or result is
there (`EngineEnds`, `QueryEnds` and `EvaluationEnds` say that it is there).

## Findings

The first three are runs that must fail, each of one property that a document or
comment states.

1. **`BootstrapCompletes`** (`index_lock.py:44`). Two first commands collide while
   one has created the lock file and not yet its guard row; both give up, and
   because the file now exists no command bootstraps it again. The store can
   never be locked. The same happens to one command that is killed there.
2. **`CompletedIsQueryable`** (`ingest.py:231`). An update deletes the vectors of
   the replaced version and leaves its rows in `chunk`; parity is checked over
   all rows, so after a successful update every query fails until `--rebuild`. A
   retry of a failed record at an unchanged fingerprint goes one further: it
   deletes the vectors it has just written. `src/docs/session-notes.md:18` met the
   symptom ("`store.parity` failing at `fetched 239, expected 288`"), and the
   docstring of `stable_sort_key` (`query.py:128`) the cause.
3. **`AloneRepairs`** (`adapter.py:339`). `adapt` calls a spec unchanged if the
   manifest lists its fingerprint and a file of its name exists. A run killed
   between that file and the manifest, followed by a revert of the source, leaves
   a file that the manifest does not describe and that no later run rewrites,
   while every ingest refuses it. The comment at `adapter.py:342` sees the
   neighbouring case ("the manifest alone cannot say a record is current"), and
   `src/docs/session-notes.md:18` reports the state itself: "`adapt` reported both
   records `unchanged` while `ingest` kept rejecting their digests".

Violated as well, by the configurations to run by hand:

4. **`FailedKeepsPrior`** (`index_store.py:323`, `IngestFailedPrior.cfg`). A failed
   update cascades its snapshot away; `--allow-stale` cannot serve the prior
   version, which `ingest.py:388` says is kept.
5. **`OnlyCompleteReplaces`** (`ingest.py:216`, `IngestReplace.cfg`). A rebuild with
   failed records replaces the active generation; the document (line 234) says it
   must not.
6. **`CitesActiveVersions`** (`index_reader.py:114`, `QueryVersions.cfg`). If the
   deletion of old vectors fails or the process dies before it, the replaced
   version's rows and vectors are both there, and a default query of an index it
   calls current may cite them. `active_fingerprint` then marks the record
   `stale_version` or not by whichever row SQLite returns first.
7. **`RefusedOnlyIfChanged`** (`query.py:884`, `QueryRecheck.cfg`). The recheck
   compares with the bytes the last ingest stored and not those at the query's
   start. After `adapt` reruns on an unchanged corpus every default query spends
   its provider calls and then fails as "changed during query".
8. **`PendingNeverServed`** (`index_reader.py:110`, `QueryPendingRemoval.cfg`). The
   document says of AC-7 (line 27) that "removal intent becomes ineligible before
   vector deletion, so a failed removal can never serve old content", and its table
   of states (line 179) "never" of `pending_removal`; the docstring of
   `mark_pending_removal` says the same. `active_chunks` joins `record_snapshot` and
   does not look at the state, so that after a run killed between the two
   transactions of a removal (`ingest.py:191`) the record is still evidence: with
   `--allow-stale`, or by default once `adapt` has put back the manifest that lists
   it. `EvidenceIsServed` is what does hold: it is so only until the next run
   finishes, which removes the record, ingests it anew or records that it failed.
9. **`NeverRaises`** (`conformance.py:1170`, `ConformanceRaises.cfg`). The probe maps
   a discovered root into the copy by `relative_to` before its `try`: an adapter
   that reports a root outside the corpus, which an earlier check has already
   failed, ends the run in an exception, without a report and without clean-up.
   The engine's specification (`src/docs/specs/0006-adapter-conformance-test-adapter/index.md:28`)
   says that any `Exception` is reported as a failed check.

Seen while reading, and modelled as the code has it unless an item says otherwise:

* `_split_sentences` ends a sentence before its terminator, which then begins the
  next one; an overlap is often just a full stop.
* An empty or unparsable response of a generation stage is a final failure; only
  a JSON object that the validator refuses gets the repair request
  (`_structured_call`, whose docstring says otherwise).
* The order behind a tie is `stable_sort_key`; the docstrings of `_lexical_stage`
  and `_fusion_stage` still say the chunk id.
* `abstention_cause` reads the cause from the reasons in the coverage rows, one of
  which the model may itself have written word for word.
* The recheck of the manifest (`query.py:881`) comes after the return of an
  abstention at `query.py:845`, which is therefore not rechecked.
* A disclosure of a supersession cites the successor and so counts as a citation of
  a record that a fixture requires. `OraclesTellTruth` allows for it.
* Two fixture ids that differ only in characters a file name may not have share
  their traces. `EvaluationRun` assumes that they do not occur (`SafeIdsDiffer`).
* The sentences of an oversize paragraph are joined with a blank before the next
  one's terminator (`chunking.py:165`), though the module's docstring says that text
  is not otherwise rewritten. White space is not modelled; `ChunksKeepText` is about
  the tokens.
* `deterministic_containment` (`verification.py:42`) looks for a substring of
  characters, so a sentence may begin or end inside a word of the chunk ("able to"
  in "unable to"). `ContainedIn` compares words; what is verbatim in the model is
  so in the code, and the code takes a little more without asking for entailment.
* `_client` (`openai_common.py:49`) leaves the client's own retries on. A request of
  `ProviderCall` is one call of the SDK, which may send it more than once:
  `RequestsBounded` bounds the calls, and the HTTP requests only as a multiple.
* `embed_texts` and `_embed_in_batches` check neither how many vectors come back nor
  for which input; `EmbedRun` takes the provider to return one for each input in
  their order, as its documentation has it, and `VectorsMatchInputs` rests on it.
* A traces directory that is given explicitly keeps the files of earlier
  invocations; `DeviationsKept` promises a directory of one's own more than one
  that is shared.
* The fate `no_available_citations` cannot occur, since `validate_draft` lets no
  sentence cite anything but the evidence (`OneFate`).

## Theorems

All hold for every value of the constants that satisfies the named assumptions.
Most only type the constants and keep `None` apart from what it stands beside.
Those that say more: `RetrievalAssumption` (`StableKey` is injective:
record, fingerprint, value path and ordinal tell chunks apart; the limits are
positive constants of `query.py`), `AnswerAssumption` (what a provider returns
is a sequence, and every chunk has a source, since ingest refuses
`missing_provenance`; scores and distances are naturals, of which only the order
counts), `OracleAssumption` (a cause is expected of an abstention only, and an
abstention names no record and no path, as `QueryOracle` and the loader of a
battery demand), `EvaluationAssumption` (a battery is not empty and its ids
differ, as `load_battery` demands) and `SafeIdsDiffer` (so do the file names made
of them).

**Folds.** Chunking, fusion, selection, the tests of a division and the allocation
of citations are loops over sequences, written with `FoldLeft`. Its definition
recurs over sets of positions, and the library's induction over it takes an
operator. `FoldTheorems` gets by without: `LeastNumber` (a non-empty set of
naturals has a least one, from the theorems on well-founded relations) shows, in
`PrefixInduction`, that a set of naturals with 0 and with the successor of each
member below a bound holds all up to it. `FoldHasValue` and `FoldOnPrefixes` give the
results of a fold on the prefixes of its sequence; each proof about a loop then names the set of positions at
which its invariant holds of that sequence and shows that it is all of them. The
step needs only what one turn of the loop does.

* **Lock** (`StoreLockProofs`). The inductive invariant `IInv` says which lock
  each program point holds, that an exclusive holder is alone, and that a block
  is entered only on a guarded file. Mutual exclusion is not inductive without
  the first part: the step into a block tests the other commands' locks and not
  their program points. `LockImplementsRWLock` maps each statement to an acquire,
  a release or a stutter of `RWLock`; `NeverReset` follows from the statements
  alone.
* **Ingest** (`QueryRunProofs`). `IInv` joins `TypeOK`, `StoreConsistent`,
  `RunShape` (what each program point knows of its locals) and `Progress` (what
  has been done so far: records outside `todo` and `gone` are at their planned
  state or failed, those inside are still at `prior`). `CompletedMatchesPlan` is
  not inductive alone: it needs to know, at every record of the loop, that
  nothing already settled is touched again, which is what `Progress` carries.
  The state and action properties that runs `ingest` and `rebuild` check follow from it.
  `RebuildIsExact` rests on a second invariant, `RebuildShape`: a rebuild's
  generation never has a row or vector that its plan did not put there.
* **Query** (`QueryRunProofs`). `QInv` says that while a query asks no ingest is
  on its way (each of the two acquisitions excludes the other), so that nothing
  but adapt moves and nothing it read can change: `ReadsStayTrue`, and
  `EvidenceIsServed` with the ingest invariant, which every step of the
  composition keeps: what a finished run settled is still so, since no ingest has
  begun since. `DefaultAnswersStandStill` needs three more facts: the two
  digests of a generation are set together, the raw one is of a file no newer
  than the query's start, and as long as the stamp is the one of the start the
  manifest is the one that was compared. The raw digest then equals the file's
  only if nothing was rewritten, although it is not a digest of the start.

* **Adapt** (`AdaptRunProofs`). `AdaptInv` has three parts beside the types. A
  record between its two reads still has the content of its fingerprint, unless a
  race was noted (`OneVersion`); the locals fit the program counter (`Control`);
  and while nothing was disturbed one run is alone, works from the manifest on
  disk, and each file either is what its entry says or is still to be written
  (`Undisturbed`, with `Owes`). `QuietRunsDescribe` is the case in which no run
  owes anything. It is not inductive alone: half way through its writes a run has
  left files that only its own entries describe.
* **Conformance** (`ConformanceRunProofs`). `EngineInv` says which workspaces are
  open at each place, so that no write into one is forgotten (`OpenAtPlace`);
  that what is not a failed check yet is a write into a workspace still open
  (`Truth`, `Pending`); how workspaces ended (`Fates`); and that every probe still
  to come has a baseline of its own case (`Probing`). The verdict is `Truth` when
  nothing is open.
* **Answer** (`AnswerRunProofs`). `CallsAreBounded` rests on what has been sent
  being at most the attempts of all earlier tries and of this one. For
  `FatesAreEarned` the invariant adds that a sentence under division stands in no
  chunk, that the verdict asked for is that of the next claim, and that the
  claims divide their sentence; that the tests of a division accept only what
  divides (`ValidDivides`) is one induction over the tokens of a claim: what the
  scan uses and adds only grows, so a claim additive at its last token was so all
  along. `AnswersCover` needs that the accepted rows name every facet by position
  and that nothing they speak of changes between coverage and answer.
  `SelectionIsFairAlways` joins three inductions: the fused score is compared
  without division, and a chunk ahead in both rankings has the greater one
  (`FusedGreater`); ordering a finite set by the number of those ahead puts it in
  that order (`RankedOrder`); and the two passes take the candidates up to a cap
  in order, then the deferred ones, until the limit (`SelectIsFair`). The
  invariant carries the fairness of the evidence through the steps at which both
  rankings still stand.
  `CitationsResolveAlways` shows of the nested loops over sentences, chunks and
  sources that a citation is listed at its first use (`AllocationResolves`), and
  that draft, fates and evidence do not move from the allocation to the answer.
  `PromiseIsKept`, the refinement of `AnswerPromise`, maps each of the steps to
  `Gather`, `Answer`, `GiveUp` or a stutter: that an answer cites something, and
  only evidence, comes from the citations resolving and from every chunk's having
  a source. `OraclesAreRight` adds what an abstention leaves behind for the
  oracle. Every step is considered for each part, twenty-seven in all.
* **Progress** (`AnswerRunProofs`, `QueryRunProofs`). `QueryAdvances` and
  `IngestAdvances` are what can be proved of termination without fairness: a tuple
  `Left` of naturals, the stages before their loops and these before what is inside
  them, is smaller after every step in the order `Less` of `FoldTheorems`, in which
  nothing descends for ever. For a query it counts stages, sentences, rounds of
  division, verdicts, tries and attempts, so the retries of a failed request,
  inside those of a response that does not validate, inside the loops over claims and
  sentences come to an end whatever the provider answers. For an ingest it counts stages, entries,
  removals, the steps of one record and the records with old vectors, and assumes
  that the records are finitely many, as those of a manifest are; adapt may replace
  the manifest at any moment. That some step is taken, until there is none to take,
  is fairness and stays with TLC.
* **Embedding** (`EmbedRunProofs`). `VectorsAreOfTheirChunks`: at every step what is
  embedded, what is in the batch and what is left are the plan, in this order; the
  rest is associativity of concatenation. `ChunksKeepAllText` follows the three loops
  of `chunk_record`, over sentences, oversize paragraphs and paragraphs: the pieces
  closed and the open one, less their overlaps, are the text so far. For
  `SpendIsAsPreviewed` the calls made, with those that the dry run's loop counts
  from the open batch over the inputs left, are what it counts from the start;
  the two loops close batches at the same inputs.
* **Evaluation** (`EvaluationRunProofs`). `LoopInv` ties the counters of a fixture to
  the history of its runs, `PlaceInv` the place to position and exit code,
  `CopyInv` says what each step of the re-ingest has made of the copy (so that the
  comparison of chunk ids tells whether the edit changed the record), and
  `DeviationInv` that a counted deviation lies before the position, from which it
  follows that no later trace has its name.

TLC checked each property before it was proved. Left to TLC:

* liveness: `AttemptEnds`, `RunsEnd`, `EngineEnds`, `QueryEnds`, `EvaluationEnds` (the provers know
  neither fairness nor `ENABLED`). Of `QueryEnds` the half that needs neither is
  `QueryAdvances`.

Every other property that a passing run checks is a theorem.

The findings are violated and so not theorems.

## Not modelled

* SQLite and Chroma below a transaction or call: a commit happens or not. File
  renames are atomic.
* Store files below `ACTIVE`: `FORMAT`, `generation.json` and half-created
  generation directories. A query that cannot read one ends in a failure, and an
  ingest that cannot open the database in an exception, `Crash` here. Not so an
  ingest that cannot read `generation.json`: it sees no signature and no states
  and, without `--rebuild` or a word, starts a fresh generation
  (`index_store.py:85`). No step of the program leaves the file so, as it is
  renamed into place before `ACTIVE` can name its generation; the model has no
  damage to files from outside, and `BeginFresh` has no such case.
* Source resolution, rendering, trace contents, the reasons listed beside a
  freshness state.
* Scores and distances, stems and word lists, tokens: inputs of the models, which
  take any. Prompts, schemas and the texts of attempts are left out.
* The search of `_validate_supersession_edges`: `HasCycle` states what it finds.
* The parts listed `not_modelled` in `PROJECT.json`: the record parser and its text
  rules, the manifests of cases and batteries, the doctor's scan, the built-in
  adapter and the loading of adapters read files once and keep nothing; there is
  no order of steps that could go wrong, and their rules are text.

## Plan

What was planned is built, but for three things that could follow:

1. `Supersession`: the depth-first search of `_validate_supersession_edges` as a
   recursive operator against `HasCycle`.
2. `QueryRun`'s `Retrieve` and `Verify` refined by `AnswerRun` in one composition; the
   two are separate because their product is out of TLC's reach and the shared
   lock makes the store a constant for the query.
3. Descending measures, as `QueryAdvances` has one, for the adapt run, the
   conformance engine, the evaluation and the re-ingest inside it.
