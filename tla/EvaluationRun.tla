---------------------------- MODULE EvaluationRun ----------------------------
(***************************************************************************)
(* The evaluate command (cli.py, application/evaluation.py and             *)
(* infrastructure/evaluation_runner.py): adapt and ingest the corpus, run  *)
(* every query fixture a number of times and the re-ingest fixture once,   *)
(* keep the trace of each run that misses its expectation, report a row    *)
(* per fixture.  Invocations follow each other and may be killed; what     *)
(* they leave is the traces.  What a query does and what an oracle says of *)
(* it are Evaluation's subject: here a result is any of Results, and       *)
(* Satisfies tells whether it is what the fixture expects.                 *)
(***************************************************************************)
EXTENDS Integers, Sequences, FiniteSets

CONSTANTS
  Batteries,        \* the fixtures of an invocation: [fixtures, manifest]
  Results,          \* of a query: [state, facets, covered]
  Satisfies(_, _, _),  \* a fixture, a result and the proposed records
  SafeId(_),        \* the file name made of a fixture's id
  Records, Paths,
  RecordDirs,       \* what a records directory may hold
  Stores,           \* what the store may hold: record -> value paths
  Specs,            \* the versions of the re-ingested specification
  Edited(_),        \* the version with the probe appended
  Derived(_),       \* the fingerprint adapt gives it, None: not that record
  MaxRuns, MaxSessions, None

Fixtures ==
  [id : STRING, kind : {"query", "reingest"}, required : SUBSET Records,
   prefixes : SUBSET Paths, proposed : BOOLEAN, classified : BOOLEAN]

\* What the detail of a run may be.
Whys == {"met", "missed", "retrieval", "facet_extraction", "coverage_directness", "query_state"}

\* load_battery refuses an empty battery and a repeated id; EVALUATION_FIXTURES
\* is neither.
ASSUME EvaluationAssumption ==
  /\ MaxRuns \in Nat /\ MaxSessions \in Nat
  /\ None \notin Nat \union Whys
  /\ Batteries \subseteq [fixtures : Seq(Fixtures), manifest : BOOLEAN]
  /\ \A b \in Batteries :
       /\ b.fixtures # <<>>
       /\ \A j, k \in DOMAIN b.fixtures : b.fixtures[j].id = b.fixtures[k].id => j = k
  /\ \A d \in RecordDirs : d \subseteq [id : Records \union {None}, proposed : BOOLEAN]
                           /\ IsFiniteSet(d)
  /\ Stores \subseteq UNION {[rs -> SUBSET Paths] : rs \in SUBSET Records}

\* record_deviation replaces what a file name may not hold by "_"; that no two
\* ids of a battery become one is up to who names the fixtures.
ASSUME SafeIdsDiffer ==
  \A b \in Batteries : \A j, k \in DOMAIN b.fixtures :
    SafeId(b.fixtures[j].id) = SafeId(b.fixtures[k].id) => j = k

VARIABLES
  pc,        \* the point the command has reached, "idle" between commands
  session,   \* the number of the invocation
  battery,   \* its fixtures
  runs,      \* how often each query runs
  dir,       \* its traces directory: its own number, 0 one that was given
  proposed,  \* the proposed records, listed once
  at, run,   \* the position of the fixture and the run to come
  met,       \* the runs of it that met the oracle
  single,    \* what the last run was
  first,     \* what the first failing run was, None before it
  pending,   \* the result of a deviating run that is to be written
  copy,      \* the workspace of the re-ingest fixture
  checks,    \* the rows of the report
  failed,    \* how many of them failed
  exit,      \* the exit code, None while running and for a killed command
  traces,    \* the trace files, of all invocations
  log,       \* history: position -> what its runs really were
  deviated   \* history: the deviating runs that were counted

commandVars == <<session, battery, runs, dir>>
loopVars == <<at, run, met, single, first, pending>>
reportVars == <<checks, failed, log>>
evaluationVars ==
  <<pc, commandVars, proposed, loopVars, copy, reportVars, exit, traces, deviated>>

NoProposed == [ids |-> {}, unparsed |-> 0]

NoCopy == [original |-> None, spec |-> None, record |-> None, index |-> {}, before |-> {}]

Init ==
  /\ pc = "idle" /\ session = 0 /\ runs = 1 /\ dir = 0 /\ exit = None
  /\ battery \in Batteries
  /\ proposed = NoProposed
  /\ at = 1 /\ run = 1 /\ met = 0 /\ single = None /\ first = None /\ pending = None
  /\ copy = NoCopy /\ checks = <<>> /\ failed = 0
  /\ traces = {} /\ log = <<>> /\ deviated = {}

Fixture == battery.fixtures[at]

End(code) == pc' = "idle" /\ exit' = code

\* The command line is accepted: the battery, --runs, and --traces or a new
\* directory named by the time, which no other invocation has.
Evaluate ==
  /\ pc = "idle" /\ session < MaxSessions
  /\ session' = session + 1
  /\ battery' \in Batteries
  /\ runs' \in 1..MaxRuns
  /\ dir' \in {0, session'}
  /\ pc' = "adapt" /\ exit' = None
  /\ at' = 1 /\ run' = 1 /\ met' = 0 /\ single' = None /\ first' = None /\ pending' = None
  /\ copy' = NoCopy /\ checks' = <<>> /\ failed' = 0 /\ log' = <<>>
  /\ proposed' = NoProposed
  /\ UNCHANGED <<traces, deviated>>

AdaptCorpus ==
  /\ pc = "adapt" /\ pc' = "ingest"
  /\ UNCHANGED <<commandVars, proposed, loopVars, copy, reportVars, exit, traces, deviated>>

IngestCorpus ==
  /\ pc = "ingest" /\ pc' = "check"
  /\ UNCHANGED <<commandVars, proposed, loopVars, copy, reportVars, exit, traces, deviated>>

\* A failed adapt, a failed or partial ingest, a locked store: its exit code.
PreparationFails ==
  /\ pc \in {"adapt", "ingest"}
  /\ \E code \in {1, 3} : End(code)
  /\ UNCHANGED <<commandVars, proposed, loopVars, copy, reportVars, traces, deviated>>

\* unsatisfiable_oracles, of one fixture; carried gives the value paths of each
\* record in the store, as record_value_paths reads it, without the lock.
Unsatisfiable(f, carried) ==
  LET scope == f.required \intersect DOMAIN carried
  IN /\ f.kind = "query"
     /\ \/ f.required # scope
        \/ scope # {} /\ \E p \in f.prefixes : \A r \in scope : p \notin carried[r]

\* Only a manifest battery is checked against the store.
CheckOracles ==
  /\ pc = "check"
  /\ \E carried \in Stores :
       IF /\ battery.manifest
          /\ \E k \in DOMAIN battery.fixtures : Unsatisfiable(battery.fixtures[k], carried)
         THEN End(2)
         ELSE pc' = "list" /\ UNCHANGED exit
  /\ UNCHANGED <<commandVars, proposed, loopVars, copy, reportVars, traces, deviated>>

\* proposed_record_ids over the records directory, which with --records holds
\* whatever else was there; a file that does not parse has no id.
ProposedRecords(files) ==
  [ids |-> {f.id : f \in {x \in files : x.proposed /\ x.id # None}},
   unparsed |-> Cardinality({x \in files : x.id = None})]

NeedsProposedRecords == \E k \in DOMAIN battery.fixtures : battery.fixtures[k].proposed

ListProposed ==
  /\ pc = "list" /\ pc' = "fixture"
  /\ proposed' \in IF NeedsProposedRecords
                     THEN {ProposedRecords(files) : files \in RecordDirs} ELSE {NoProposed}
  /\ UNCHANGED <<commandVars, loopVars, copy, reportVars, exit, traces, deviated>>

-----------------------------------------------------------------------------
(* A query fixture. *)

Querying == pc = "fixture" /\ at <= Len(battery.fixtures) /\ Fixture.kind = "query"

\* classify_query4_failure: facets are TRUE where they ask for a reason.
Stage(result) ==
  LET decisions == {i \in DOMAIN result.facets : ~result.facets[i]}
      covers(i) == i \in result.covered
      earliest(i) == \A j \in decisions : i <= j
  IN IF result.state = "failed" THEN "missed"
     ELSE IF decisions \in {{}, DOMAIN result.facets} THEN "facet_extraction"
     ELSE IF \E i \in decisions : earliest(i) /\ covers(i) THEN "coverage_directness"
     ELSE IF result.state = "answered" THEN "query_state"
     ELSE "missed"

Missed(result) == IF Fixture.classified THEN Stage(result) ELSE "missed"

\* The end of a run: it is counted, and the first failing detail is kept.
Count(why) ==
  /\ met' = IF why = "met" THEN met + 1 ELSE met
  /\ first' = IF why # "met" /\ first = None THEN why ELSE first
  /\ single' = why
  /\ run' = run + 1
  /\ log' = IF run = 1 THEN Append(log, <<why>>) ELSE [log EXCEPT ![at] = Append(@, why)]
  /\ UNCHANGED <<at, checks, failed>>

RunQuery ==
  /\ Querying /\ run <= runs
  /\ \E result \in Results :
       IF Satisfies(Fixture, result, proposed)
         THEN Count("met") /\ UNCHANGED <<pc, pending>>
         ELSE /\ pc' = "deviates" /\ pending' = result
              /\ UNCHANGED <<at, run, met, single, first, reportVars>>
  /\ UNCHANGED <<commandVars, proposed, copy, exit, traces, deviated>>

\* Mutant: the file is named for its fixture only.
RecordDeviationByFixture ==
  /\ pc = "deviates" /\ pc' = "fixture"
  /\ LET name == SafeId(Fixture.id)
         file == [dir |-> dir, name |-> name, run |-> run, result |-> pending]
     IN /\ traces' = {t \in traces : ~(t.dir = dir /\ t.name = name)} \union {file}
        /\ deviated' = deviated \union {[session |-> session, at |-> at, file |-> file]}
  /\ Count(Missed(pending))
  /\ pending' = None
  /\ UNCHANGED <<commandVars, proposed, copy, exit>>

\* record_deviation: the file may be an older invocation's if --traces was given.
RecordDeviation ==
  /\ pc = "deviates" /\ pc' = "fixture"
  /\ LET name == SafeId(Fixture.id)
         file == [dir |-> dir, name |-> name, run |-> run, result |-> pending]
     IN /\ traces' = {t \in traces : ~(t.dir = dir /\ t.name = name /\ t.run = run)} \union {file}
        /\ deviated' = deviated \union {[session |-> session, at |-> at, file |-> file]}
  /\ Count(Missed(pending))
  /\ pending' = None
  /\ UNCHANGED <<commandVars, proposed, copy, exit>>

\* RetrievalFailure: no result to keep, and the run failed.
RetrievalFails ==
  /\ Querying /\ run <= runs
  /\ Count("retrieval")
  /\ UNCHANGED <<pc, pending, commandVars, proposed, copy, exit, traces, deviated>>

\* LockError leaves run_evaluation: no report.
StoreLocked ==
  /\ Querying /\ run <= runs
  /\ End(1)
  /\ UNCHANGED <<commandVars, proposed, loopVars, copy, reportVars, traces, deviated>>

\* The row joins the report and the next fixture's turn comes.
AddCheck(row) ==
  /\ checks' = Append(checks, row)
  /\ failed' = IF row.status THEN failed ELSE failed + 1
  /\ at' = at + 1 /\ run' = 1 /\ met' = 0 /\ single' = None /\ first' = None
  /\ UNCHANGED pending

\* Mutant: the count of the last fixture stays.
CloseFixtureKeeping ==
  /\ Querying /\ run > runs
  /\ checks' = Append(checks, [status |-> met >= runs, runs |-> runs,
               detail |-> IF runs = 1 THEN single ELSE IF first = None THEN "met" ELSE first])
  /\ failed' = IF met >= runs THEN failed ELSE failed + 1
  /\ at' = at + 1 /\ run' = 1 /\ single' = None /\ first' = None
  /\ UNCHANGED <<met, pending, pc, commandVars, proposed, copy, log, exit, traces, deviated>>

CloseFixture ==
  /\ Querying /\ run > runs
  /\ AddCheck([status |-> met = runs, runs |-> runs,
               detail |-> IF runs = 1 THEN single ELSE IF first = None THEN "met" ELSE first])
  /\ UNCHANGED <<pc, commandVars, proposed, copy, log, exit, traces, deviated>>

-----------------------------------------------------------------------------
(* The re-ingest fixture, on a copy of the specification and a store of its own. *)

Reingesting(step) ==
  /\ pc = step
  /\ UNCHANGED <<commandVars, proposed, exit, traces, deviated>>

Advance(step) == pc' = step /\ UNCHANGED <<loopVars, reportVars>>

\* What the edit really did to the record.
Effect ==
  LET old == Derived(copy.original)
      new == Derived(Edited(copy.original))
  IN IF None \notin {old, new} /\ old # new THEN "met" ELSE "missed"

\* The evidence: whether the chunks changed, beside what really happened.
Evidence(changed, effect) ==
  /\ pc' = "fixture" /\ copy' = NoCopy
  /\ AddCheck([status |-> changed, runs |-> 1, detail |-> IF changed THEN "met" ELSE "missed"])
  /\ log' = Append(log, <<effect>>)

NoSuchFile ==
  /\ Reingesting("fixture")
  /\ at <= Len(battery.fixtures) /\ Fixture.kind = "reingest"
  /\ Evidence(FALSE, "missed")

CopySpec ==
  /\ Reingesting("fixture")
  /\ at <= Len(battery.fixtures) /\ Fixture.kind = "reingest"
  /\ \E s \in Specs : copy' = [NoCopy EXCEPT !.original = s, !.spec = s]
  /\ Advance("copied")

AdaptCopy ==
  \/ /\ Reingesting("copied") /\ Advance("adapted")
     /\ copy' = [copy EXCEPT !.record = Derived(copy.spec)]
  \/ /\ Reingesting("edited") /\ Advance("readapted")
     /\ copy' = [copy EXCEPT !.record = Derived(copy.spec)]

\* A rebuild, whose chunk rows are those of the manifest (RebuildIsExact of
\* IngestRun).
IngestCopy ==
  /\ Reingesting("adapted") /\ Advance("ingested")
  /\ copy' = [copy EXCEPT !.index = {copy.record} \ {None}]

\* The chunks are listed and the probe is appended.
EditCopy ==
  /\ Reingesting("ingested") /\ Advance("edited")
  /\ copy' = [copy EXCEPT !.before = copy.index, !.spec = Edited(copy.spec)]

\* Incremental: the rows of a replaced version stay (finding CompletedIsQueryable
\* of IngestRun), those of a record that is gone do not.
ReingestCopy ==
  /\ Reingesting("readapted") /\ Advance("reingested")
  /\ copy' = [copy EXCEPT !.index = IF copy.record = None THEN {} ELSE @ \union {copy.record}]

\* Mutant: a failed step is tried again from the start.
CopyFailsAndRetries ==
  /\ \E step \in {"copied", "adapted", "edited", "readapted"} : Reingesting(step)
  /\ Advance("fixture") /\ copy' = NoCopy

\* Any of the four steps may end with an exit code: the fixture fails.
CopyFails ==
  /\ \E step \in {"copied", "adapted", "edited", "readapted"} : Reingesting(step)
  /\ Evidence(FALSE, "missed")

ChunksChanged(before, after) == before # {} /\ after # {} /\ before # after

CompareChunks ==
  /\ Reingesting("reingested")
  /\ Evidence(ChunksChanged(copy.before, copy.index), Effect)

-----------------------------------------------------------------------------
Report ==
  /\ pc = "fixture" /\ at > Len(battery.fixtures)
  /\ End(IF failed > 0 THEN 1 ELSE 0)
  /\ UNCHANGED <<commandVars, proposed, loopVars, copy, reportVars, traces, deviated>>

\* The process is killed or a trace cannot be written; temporary directories
\* are left or removed, nobody reads them.
Kill ==
  /\ pc # "idle"
  /\ End(None)
  /\ UNCHANGED <<commandVars, proposed, loopVars, copy, reportVars, traces, deviated>>

PrepareStep == AdaptCorpus \/ IngestCorpus \/ PreparationFails \/ CheckOracles \/ ListProposed

QueryFixtureStep ==
  RunQuery \/ RecordDeviation \/ RetrievalFails \/ StoreLocked \/ CloseFixture

ReingestStep ==
  NoSuchFile \/ CopySpec \/ AdaptCopy \/ IngestCopy \/ EditCopy \/ ReingestCopy \/ CopyFails \/ CompareChunks

EvaluationStep == PrepareStep \/ QueryFixtureStep \/ ReingestStep \/ Report

Next == Evaluate \/ EvaluationStep \/ Kill

Spec == Init /\ [][Next]_evaluationVars /\ WF_evaluationVars(EvaluationStep)

-----------------------------------------------------------------------------
(* What correctness means. *)

\* A row of the report says what happened (evaluation.py, _run_query_fixture):
\* PASS only if every run of the fixture was made and met its oracle, and for
\* FAIL the detail of the first run that did not; the re-ingest row passes
\* exactly if the edit changed the record.
RowIsTrue(k) ==
  LET failing == {n \in DOMAIN log[k] : log[k][n] # "met"}
  IN /\ Len(log[k]) = checks[k].runs
     /\ checks[k].status <=> failing = {}
     /\ failing # {} =>
          \E n \in failing : checks[k].detail = log[k][n] /\ \A m \in failing : n <= m

\* The report tells the truth and so does the exit code: 0 means that every
\* fixture has a row and no run of any failed; a complete report with another
\* code has a failing row.
ReportIsTrue ==
  /\ \A k \in DOMAIN checks : RowIsTrue(k)
  /\ exit = 0 => /\ Len(checks) = Len(battery.fixtures)
                 /\ \A k \in DOMAIN checks : checks[k].status
  /\ exit \in Nat \ {0} /\ Len(checks) = Len(battery.fixtures) =>
       \E k \in DOMAIN checks : ~checks[k].status

\* Every deviating run that was counted can be read afterwards, whatever
\* follows: also when the command is killed, and for good in a directory of its
\* own; and a trace is always that of a deviating run (cli.py,
\* _resolve_traces_dir; evaluation_runner.py, record_deviation).
DeviationsKept ==
  /\ \A d \in deviated : d.file.dir # 0 \/ d.session = session => d.file \in traces
  /\ \A t \in traces : \E d \in deviated : d.file = t
  /\ \A t, u \in traces : t.dir = u.dir /\ t.name = u.name /\ t.run = u.run => t = u

\* The battery ends, however many runs fail to retrieve.
EvaluationEnds == pc # "idle" ~> pc = "idle"
=============================================================================
