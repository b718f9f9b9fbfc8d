--------------------------- MODULE ConformanceRun ---------------------------
(***************************************************************************)
(* The adapter conformance engine (application/conformance.py) over its    *)
(* fixture port (infrastructure/conformance_fixtures.py).  For each case   *)
(* the engine copies the corpus into a workspace, calls the adapter under  *)
(* test in a fixed order, opens one more workspace at a time for           *)
(* fingerprint probes and corrupted copies, and ends every workspace by a  *)
(* snapshot and a clean-up or a preservation.                              *)
(*                                                                         *)
(* The adapter is the environment: each call raises, returns the wrong     *)
(* type, or returns something right or wrong, and between calls' start and *)
(* end it may write into a copy.  Every fixture operation may fail.        *)
(* A fingerprint is a value of Fingerprints; every other result is         *)
(* reduced to whether it is what the case expects.                         *)
(***************************************************************************)
EXTENDS FiniteSets, Naturals

CONSTANTS Sources,        \* the ids a case expects
          Files,          \* corpus files
          Contributing,   \* the contributing files expected of each source
          Required,       \* its required files
          Fingerprints,   \* values of fingerprint()
          Cases,          \* number of cases in the manifest
          None            \* no fingerprint, no source, no file

ASSUME ConformanceAssumption ==
  /\ Contributing \in [Sources -> SUBSET Files]
  /\ Required \in [Sources -> SUBSET Files]
  /\ Cases \in Nat
  /\ None \notin Fingerprints \union Sources \union Files

VARIABLES
  pc,         \* the engine's place
  case,       \* the case being run
  todo,       \* what the place still has to go through
  found,      \* where discovery put each expected source
  baseline,   \* self._baseline
  ws,         \* the workspaces of the case
  failed,     \* a check failed (collector.failed > 0)
  bad,        \* history: the adapter or the fixtures misbehaved
  agreed      \* history: what both calls on each source of this case agreed on

engineVars == <<pc, case, todo, found, baseline, ws, failed, bad, agreed>>

\* A spec may be away, right, without one of its files, or, itself or one of
\* its files, outside the corpus.
Spots == {"absent", "inside", "missing", "outside"}

Variants == {"fingerprint_probe", "empty", "invalid_utf8"}

Places == {"contract", "open", "discover", "sources", "confidence", "probes", "probe",
           "corruptions", "corrupted", "end probe", "end corrupted", "end", "done", "raised"}

\* The places at which a call of the adapter is under way.
Calling == {"discover", "sources", "confidence", "probe", "corrupted"}

\* A job of the generated workspace: a source's probe, or a corrupted file.
Jobs == [variant : Variants, source : Sources \union {None}, target : Files \union {None}]

Workspaces == {"original", "generated"}

Closed == [state |-> "none", failed |-> FALSE, edited |-> FALSE,
           job |-> [variant |-> "empty", source |-> None, target |-> None]]

Opened(job) == [Closed EXCEPT !.state = "open", !.job = job]

Unknown == [s \in Sources |-> None]

EngineTypeOK ==
  /\ pc \in Places
  /\ case \in 1..(Cases + 1)
  /\ todo \subseteq Jobs
  /\ found \in [Sources -> Spots]
  /\ baseline \in [Sources -> Fingerprints \union {None}]
  /\ ws \in [Workspaces -> [state : {"none", "open", "removed", "preserved", "left"},
                            failed : BOOLEAN, edited : BOOLEAN, job : Jobs]]
  /\ failed \in BOOLEAN
  /\ bad \in BOOLEAN
  /\ agreed \in [Sources -> Fingerprints \union {None}]

Init ==
  /\ pc = "contract"
  /\ case = 1
  /\ todo = {}
  /\ found = [s \in Sources |-> "absent"]
  /\ baseline = Unknown
  /\ ws = [w \in Workspaces |-> Closed]
  /\ failed = FALSE
  /\ bad = FALSE
  /\ agreed = Unknown

\* A check fails in a workspace's session iff c.
Check(w, c) ==
  /\ ws' = [ws EXCEPT ![w].failed = @ \/ c]
  /\ failed' = (failed \/ c)

\* What the world did is wrong iff c.
Note(c) == bad' = (bad \/ c)

-----------------------------------------------------------------------------
(* Contract and cases.                                                     *)

\* Metadata or a signature is wrong: no case runs.
ContractChecks(ok) ==
  /\ pc = "contract"
  /\ pc' = IF ok THEN "open" ELSE "done"
  /\ failed' = (failed \/ ~ok)
  /\ Note(~ok)
  /\ UNCHANGED <<case, todo, found, baseline, ws, agreed>>

MoreCases == case <= Cases

\* Mutant: the baselines of the previous case are kept.
OpenCaseKeeping ==
  /\ pc = "open"
  /\ MoreCases
  /\ pc' = "discover"
  /\ ws' = [w \in Workspaces |-> IF w = "original" THEN Opened(Closed.job) ELSE Closed]
  /\ agreed' = Unknown
  /\ UNCHANGED <<case, todo, found, baseline, failed, bad>>

OpenCase ==
  /\ pc = "open"
  /\ MoreCases
  /\ pc' = "discover"
  /\ ws' = [w \in Workspaces |-> IF w = "original" THEN Opened(Closed.job) ELSE Closed]
  /\ baseline' = Unknown
  /\ agreed' = Unknown
  /\ UNCHANGED <<case, todo, found, failed, bad>>

\* open_case failed; a root that survives is preserved, or that fails too.
OpenCaseFails ==
  /\ pc = "open"
  /\ MoreCases
  /\ case' = case + 1
  /\ failed' = TRUE
  /\ Note(TRUE)
  /\ UNCHANGED <<pc, todo, found, baseline, ws, agreed>>

CasesDone ==
  /\ pc = "open"
  /\ ~MoreCases
  /\ pc' = "done"
  /\ UNCHANGED <<case, todo, found, baseline, ws, failed, bad, agreed>>

-----------------------------------------------------------------------------
(* The calls on the original workspace.                                    *)

\* discover raised, returned another type, or reports a corpus error.
DiscoverUnusable ==
  /\ pc = "discover"
  /\ pc' = "end"
  /\ Check("original", TRUE)
  /\ Note(TRUE)
  /\ UNCHANGED <<case, todo, found, baseline, agreed>>

\* The result is compared with the case, its paths with the root, and the
\* call repeated; the run goes on whatever the three say.
Discover(f, exact, repeats) ==
  LET astray == \E s \in Sources : f[s] \in {"missing", "outside"}
  IN /\ pc = "discover"
     /\ exact => \A s \in Sources : f[s] \in {"inside", "missing"}
     /\ found' = f
     /\ Check("original", ~exact \/ astray \/ ~repeats)
     /\ Note(~exact \/ astray \/ ~repeats)
     /\ pc' = "sources"
     /\ todo' = [variant : {"empty"}, source : {s \in Sources : f[s] # "absent"},
                 target : {None}]
     /\ UNCHANGED <<case, baseline, agreed>>

\* Direct and repeated fingerprint (d, None when it raised or changed), then
\* parse twice (p its fingerprint, None when it raised or changed), compared
\* with the expectation.  A fingerprint that parse confirms is the baseline.
CheckSource(j, d, p, exact) ==
  LET s  == j.source
      ok == d # None /\ p = d
  IN /\ pc = "sources"
     /\ j \in todo
     /\ todo' = todo \ {j}
     /\ baseline' = IF ok THEN [baseline EXCEPT ![s] = d] ELSE baseline
     /\ agreed' = [agreed EXCEPT ![s] = IF ok THEN d ELSE None]
     /\ Check("original", d = None \/ p = None \/ ~exact \/ p # d)
     /\ Note(~(ok /\ exact))
     /\ UNCHANGED <<pc, case, found>>

SourcesDone ==
  /\ pc = "sources"
  /\ todo = {}
  /\ pc' = "confidence"
  /\ UNCHANGED <<case, todo, found, baseline, ws, failed, bad, agreed>>

\* A case of the drift categories parses its subject once more.
CheckConfidence(graceful) ==
  /\ pc = "confidence"
  /\ Check("original", ~graceful)
  /\ Note(~graceful)
  /\ pc' = "probes"
  /\ todo' = {j \in [variant : {"fingerprint_probe"}, source : Sources, target : Files] :
                 /\ found[j.source] # "absent"
                 /\ baseline[j.source] # None
                 /\ j.target \in Contributing[j.source]}
  /\ UNCHANGED <<case, found, baseline, agreed>>

-----------------------------------------------------------------------------
(* Generated workspaces.                                                   *)

Corruptions == [variant : {"empty", "invalid_utf8"}, source : {None},
                target : UNION {Required[s] : s \in Sources}]

ProbesDone ==
  /\ pc = "probes"
  /\ todo = {}
  /\ pc' = "corruptions"
  /\ todo' = Corruptions
  /\ UNCHANGED <<case, found, baseline, ws, failed, bad, agreed>>

CorruptionsDone ==
  /\ pc = "corruptions"
  /\ todo = {}
  /\ pc' = "end"
  /\ UNCHANGED <<case, todo, found, baseline, ws, failed, bad, agreed>>

\* Mutant: a job stays on the list while its workspace is in use.
PrepareKeeping(j) ==
  /\ pc \in {"probes", "corruptions"}
  /\ j \in todo
  /\ ws' = [ws EXCEPT !["generated"] = Opened(j)]
  /\ pc' = IF pc = "probes" THEN "probe" ELSE "corrupted"
  /\ UNCHANGED <<case, todo, found, baseline, failed, bad, agreed>>

Prepare(j) ==
  /\ pc \in {"probes", "corruptions"}
  /\ j \in todo
  /\ todo' = todo \ {j}
  /\ ws' = [ws EXCEPT !["generated"] = Opened(j)]
  /\ pc' = IF pc = "probes" THEN "probe" ELSE "corrupted"
  /\ UNCHANGED <<case, found, baseline, failed, bad, agreed>>

\* open_variant failed; the next job goes on.
PrepareFails(j) ==
  /\ pc \in {"probes", "corruptions"}
  /\ j \in todo
  /\ todo' = todo \ {j}
  /\ failed' = TRUE
  /\ Note(TRUE)
  /\ UNCHANGED <<pc, case, found, baseline, ws, agreed>>

Probed == ws["generated"].job.source

\* The spec is moved into the probe's root and fingerprinted; v is None when
\* the call raised or returned another type.
Probe(v) ==
  /\ pc = "probe"
  /\ found[Probed] # "outside"
  /\ Check("generated", v = None \/ v = baseline[Probed])
  /\ Note(v = None \/ v = agreed[Probed])
  /\ pc' = "end probe"
  /\ UNCHANGED <<case, todo, found, baseline, agreed>>

\* relative_to raises for a spec outside the original's root, before the try
\* of the call: nothing catches it.
ProbeEscapes ==
  /\ pc = "probe"
  /\ found[Probed] = "outside"
  /\ pc' = "raised"
  /\ UNCHANGED <<case, todo, found, baseline, ws, failed, bad, agreed>>

\* discover on a corrupted copy raised, returned another type, or reports a
\* corpus error.
DiscoverCorruptedUnusable ==
  /\ pc = "corrupted"
  /\ Check("generated", TRUE)
  /\ Note(TRUE)
  /\ pc' = "end corrupted"
  /\ UNCHANGED <<case, todo, found, baseline, agreed>>

\* What each source does on the corrupted copy: it is gone, parse fails, it is
\* right (unsure if affected, as expected if not), or wrong.
Answers == [Sources -> {"gone", "fails", "right", "wrong"}]

Affected(s) == ws["generated"].job.target \in Contributing[s]

\* Only an affected source may be gone.
Problem(s, a) == a[s] = "wrong" \/ (a[s] = "gone" /\ ~Affected(s))

\* Mutant: a failed parse only ends the loop.
CheckCorruptedOmitting(a, inside) ==
  /\ pc = "corrupted"
  /\ Check("generated",
           \/ ~inside
           \/ (\E s \in Sources : Problem(s, a)) /\ \A s \in Sources : a[s] # "fails")
  /\ Note(~inside \/ \E s \in Sources : a[s] = "fails" \/ Problem(s, a))
  /\ pc' = "end corrupted"
  /\ UNCHANGED <<case, todo, found, baseline, agreed>>

\* A parse that fails is a failed check and ends the loop; the problems of the
\* others are one failed check at its end.
CheckCorrupted(a, inside) ==
  /\ pc = "corrupted"
  /\ Check("generated",
           \/ ~inside
           \/ \E s \in Sources : a[s] = "fails"
           \/ \E s \in Sources : Problem(s, a))
  /\ Note(~inside \/ \E s \in Sources : a[s] = "fails" \/ Problem(s, a))
  /\ pc' = "end corrupted"
  /\ UNCHANGED <<case, todo, found, baseline, agreed>>

-----------------------------------------------------------------------------
(* The end of a workspace.                                                 *)

Ending == IF pc = "end" THEN "original" ELSE "generated"

\* Mutant: what the calls saw decides alone.
MustPreserveByCalls(snapshot) == ws[Ending].failed

\* The session has a failed check after the snapshot was compared.
MustPreserve(snapshot) == ws[Ending].failed \/ ~snapshot \/ ws[Ending].edited

\* snapshot and released tell whether the snapshot, and the clean-up or the
\* preservation, succeeded.
Finish(snapshot, released) ==
  LET keep == MustPreserve(snapshot)
  IN /\ pc \in {"end", "end probe", "end corrupted"}
     /\ ws' = [ws EXCEPT ![Ending].failed = @ \/ keep,
                         ![Ending].state = IF ~released THEN "left"
                                           ELSE IF keep THEN "preserved" ELSE "removed"]
     /\ failed' = (failed \/ keep \/ ~released)
     /\ Note(~snapshot \/ ~released)
     /\ pc' = IF pc = "end" THEN "open"
              ELSE IF pc = "end probe" THEN "probes" ELSE "corruptions"
     /\ case' = IF pc = "end" THEN case + 1 ELSE case
     /\ UNCHANGED <<todo, found, baseline, agreed>>

-----------------------------------------------------------------------------
\* A call writes into a copy that is there, its own or the original's.
AdapterEdits(w) ==
  /\ pc \in Calling
  /\ ws[w].state = "open"
  /\ ~ws[w].edited
  /\ ws' = [ws EXCEPT ![w].edited = TRUE]
  /\ Note(TRUE)
  /\ UNCHANGED <<pc, case, todo, found, baseline, failed, agreed>>

Step ==
  \/ \E ok \in BOOLEAN : ContractChecks(ok)
  \/ OpenCase \/ OpenCaseFails \/ CasesDone
  \/ DiscoverUnusable
  \/ \E f \in [Sources -> Spots], exact, repeats \in BOOLEAN :
        Discover(f, exact, repeats)
  \/ \E j \in todo, d, p \in Fingerprints \union {None}, exact \in BOOLEAN :
        CheckSource(j, d, p, exact)
  \/ SourcesDone
  \/ \E graceful \in BOOLEAN : CheckConfidence(graceful)
  \/ \E j \in todo : Prepare(j) \/ PrepareFails(j)
  \/ \E v \in Fingerprints \union {None} : Probe(v)
  \/ ProbeEscapes \/ ProbesDone \/ CorruptionsDone
  \/ DiscoverCorruptedUnusable
  \/ \E a \in Answers, inside \in BOOLEAN : CheckCorrupted(a, inside)
  \/ \E snapshot, released \in BOOLEAN : Finish(snapshot, released)

Next == Step \/ \E w \in Workspaces : AdapterEdits(w)

Spec == Init /\ [][Next]_engineVars /\ WF_engineVars(Step)

-----------------------------------------------------------------------------
(* What correctness means.                                                 *)

\* The exit code is the truth: a run that reports has a failed check exactly
\* when the adapter or a fixture misbehaved at any time, writes into any copy
\* during any call included (AC-9, AC-14, AC-16).
VerdictIsTrue == (pc = "done") => (failed <=> bad)

\* Every workspace ends once, before the next one of its kind and before the
\* report: removed only if nothing failed in it and nothing was written into
\* it, preserved only if something did; what could be neither is reported.
WorkspacesEnd ==
  \A w \in Workspaces :
    /\ (pc \in {"open", "done"}) => ws[w].state # "open"
    /\ (pc \in {"probes", "corruptions", "end"}) => ws["generated"].state # "open"
    /\ ws[w].state = "removed" => ~ws[w].failed /\ ~ws[w].edited
    /\ ws[w].state = "preserved" => ws[w].failed
    /\ (ws[w].state = "left" \/ ws[w].failed) => failed

\* A probe is compared with the fingerprint that the two calls of its own case
\* agreed on, never with one of an earlier case.
ProbesUseOwnBaseline ==
  \A s \in Sources : baseline[s] # None => baseline[s] = agreed[s]

\* The engine ends: no failure makes it repeat or wait.
EngineEnds == <>(pc \in {"done", "raised"})

\* Nothing the adapter does escapes as an exception: later cases still run.
NeverRaises == pc # "raised"
=============================================================================
