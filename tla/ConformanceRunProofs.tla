------------------------- MODULE ConformanceRunProofs -----------------------
(***************************************************************************)
(* The safety properties of the conformance engine, for any sources,       *)
(* files, fingerprints and number of cases.                                *)
(*                                                                         *)
(* The verdict needs three facts together: which workspaces are open at    *)
(* which place, so that no edit is forgotten; that a misbehaviour not yet  *)
(* a failed check is an edit of a workspace that is still open; and that a *)
(* probe's baseline is the fingerprint its own case agreed on.             *)
(***************************************************************************)
EXTENDS ConformanceRun, TLAPS

\* The places at which the generated workspace is in use.
Generating == {"probe", "corrupted", "end probe", "end corrupted"}

\* The workspaces that are open at each place.
OpenAtPlace ==
  /\ ws["original"].state = "open" <=> pc \notin {"contract", "open", "done"}
  /\ pc \in Generating => ws["generated"].state = "open"
  /\ pc \notin Generating \union {"raised"} => ws["generated"].state # "open"

\* How a workspace ended, and whose failures are whose.
Fates ==
  \A w \in Workspaces :
    /\ ws[w].state = "removed" => ~ws[w].failed /\ ~ws[w].edited
    /\ ws[w].state = "preserved" => ws[w].failed
    /\ (ws[w].state = "left" \/ ws[w].failed) => failed

\* The sources left to check have no baseline yet; every probe has one.
Probing ==
  /\ pc = "discover" => baseline = Unknown
  /\ pc = "sources" =>
       /\ todo \subseteq [variant : {"empty"}, source : Sources, target : {None}]
       /\ \A j \in todo : baseline[j.source] = None
  /\ pc \in {"probes", "probe", "end probe"} =>
       \A j \in todo : j.source \in Sources /\ baseline[j.source] # None
  /\ pc = "probe" => Probed \in Sources /\ baseline[Probed] # None

\* A misbehaviour that is not a failed check yet is an edit still to be found.
Pending == \E w \in Workspaces : ws[w].state = "open" /\ ws[w].edited

Truth ==
  /\ failed => bad
  /\ \A w \in Workspaces : ws[w].edited => bad
  /\ bad => failed \/ Pending

\* While a case runs there is one.
CaseOpen == pc \notin {"contract", "open", "done"} => case <= Cases

EngineInv ==
  /\ CaseOpen
  /\ EngineTypeOK
  /\ OpenAtPlace
  /\ Fates
  /\ Probing
  /\ ProbesUseOwnBaseline
  /\ Truth

\* The placeholder of a workspace that is not there is well typed, and so is a
\* workspace that was just opened.
LEMMA WorkspaceTypes ==
  /\ Closed \in [state : {"none", "open", "removed", "preserved", "left"},
                 failed : BOOLEAN, edited : BOOLEAN, job : Jobs]
  /\ \A j \in Jobs :
       Opened(j) \in [state : {"none", "open", "removed", "preserved", "left"},
                      failed : BOOLEAN, edited : BOOLEAN, job : Jobs]
  /\ Closed.job \in Jobs
BY DEF Closed, Opened, Jobs, Variants


\* Every step keeps the types.
LEMMA EngineTypesStep ==
  ASSUME EngineTypeOK, CaseOpen, Probing, [Next]_engineVars PROVE EngineTypeOK'
<1>1. ASSUME NEW ok \in BOOLEAN, ContractChecks(ok) PROVE EngineTypeOK'
  BY <1>1, ConformanceAssumption DEF ContractChecks, Note, EngineTypeOK, Places, Workspaces, Spots
<1>2. ASSUME OpenCase PROVE EngineTypeOK'
  <2>1. ws' \in [Workspaces -> [state : {"none", "open", "removed", "preserved", "left"},
                                failed : BOOLEAN, edited : BOOLEAN, job : Jobs]]
    BY <1>2, WorkspaceTypes DEF OpenCase
  <2>2. QED
    BY <1>2, <2>1 DEF OpenCase, EngineTypeOK, Places, Unknown
<1>3. ASSUME OpenCaseFails PROVE EngineTypeOK'
  BY <1>3, ConformanceAssumption DEF OpenCaseFails, MoreCases, Note, EngineTypeOK, Places, Workspaces, Spots
<1>4. ASSUME CasesDone PROVE EngineTypeOK'
  BY <1>4, ConformanceAssumption DEF CasesDone, MoreCases, EngineTypeOK, Places, Workspaces, Spots
<1>5. ASSUME DiscoverUnusable PROVE EngineTypeOK'
  BY <1>5, ConformanceAssumption DEF DiscoverUnusable, Check, Note, EngineTypeOK, Places, Workspaces, Spots
<1>6. ASSUME NEW f \in [Sources -> Spots], NEW exact \in BOOLEAN, NEW repeats \in BOOLEAN,
             Discover(f, exact, repeats) PROVE EngineTypeOK'
  <2>1. todo' \subseteq Jobs
    BY <1>6 DEF Discover, Jobs, Variants
  <2>2. QED
    BY <1>6, <2>1 DEF Discover, Check, Note, EngineTypeOK, Places, Workspaces
<1>7. ASSUME NEW j \in todo, NEW d \in Fingerprints \union {None}, NEW p \in Fingerprints \union {None},
             NEW exact \in BOOLEAN, CheckSource(j, d, p, exact) PROVE EngineTypeOK'
  BY <1>7, ConformanceAssumption DEF CheckSource, Check, Note, EngineTypeOK, Places, Workspaces, Spots
<1>8. ASSUME SourcesDone PROVE EngineTypeOK'
  BY <1>8, ConformanceAssumption DEF SourcesDone, EngineTypeOK, Places, Workspaces, Spots
<1>9. ASSUME NEW graceful \in BOOLEAN, CheckConfidence(graceful) PROVE EngineTypeOK'
  <2>1. todo' \subseteq Jobs
    BY <1>9 DEF CheckConfidence, Jobs, Variants
  <2>2. QED
    BY <1>9, <2>1 DEF CheckConfidence, Check, Note, EngineTypeOK, Places, Workspaces
<1>10. ASSUME ProbesDone PROVE EngineTypeOK'
  <2>1. Corruptions \subseteq Jobs
    BY ConformanceAssumption DEF Corruptions, Jobs, Variants
  <2>2. QED
    BY <1>10, <2>1 DEF ProbesDone, EngineTypeOK, Places
<1>11. ASSUME CorruptionsDone PROVE EngineTypeOK'
  BY <1>11, ConformanceAssumption DEF CorruptionsDone, EngineTypeOK, Places, Workspaces, Spots
<1>12. ASSUME NEW j \in todo, Prepare(j) PROVE EngineTypeOK'
  <2>1. Opened(j) \in [state : {"none", "open", "removed", "preserved", "left"},
                       failed : BOOLEAN, edited : BOOLEAN, job : Jobs]
    BY WorkspaceTypes DEF EngineTypeOK
  <2>2. QED
    BY <1>12, <2>1 DEF Prepare, EngineTypeOK, Places, Workspaces
<1>13. ASSUME NEW j \in todo, PrepareFails(j) PROVE EngineTypeOK'
  BY <1>13, ConformanceAssumption DEF PrepareFails, Note, EngineTypeOK, Places, Workspaces, Spots
<1>14. ASSUME NEW v \in Fingerprints \union {None}, Probe(v) PROVE EngineTypeOK'
  BY <1>14, ConformanceAssumption DEF Probe, Check, Note, Probed, EngineTypeOK, Places, Workspaces, Spots
<1>15. ASSUME ProbeEscapes PROVE EngineTypeOK'
  BY <1>15, ConformanceAssumption DEF ProbeEscapes, EngineTypeOK, Places, Workspaces, Spots
<1>16. ASSUME DiscoverCorruptedUnusable PROVE EngineTypeOK'
  BY <1>16, ConformanceAssumption DEF DiscoverCorruptedUnusable, Check, Note, EngineTypeOK, Places, Workspaces, Spots
<1>17. ASSUME NEW a \in Answers, NEW inside \in BOOLEAN, CheckCorrupted(a, inside) PROVE EngineTypeOK'
  BY <1>17, ConformanceAssumption DEF CheckCorrupted, Check, Note, EngineTypeOK, Places, Workspaces, Spots
<1>18. ASSUME NEW snapshot \in BOOLEAN, NEW released \in BOOLEAN, Finish(snapshot, released) PROVE EngineTypeOK'
  <2>1. Ending \in Workspaces
    BY DEF Ending, Workspaces
  <2>2. case' \in 1..(Cases + 1)
    <3>1. case' = IF pc = "end" THEN case + 1 ELSE case
      BY <1>18 DEF Finish
    <3>2. case \in 1..(Cases + 1) /\ (pc = "end" => case <= Cases)
      BY DEF EngineTypeOK, CaseOpen
    <3>3. QED
      BY <3>1, <3>2, ConformanceAssumption
  <2>3. ws' \in [Workspaces -> [state : {"none", "open", "removed", "preserved", "left"},
                                failed : BOOLEAN, edited : BOOLEAN, job : Jobs]]
    <3>1. \A x \in BOOLEAN, y \in {"left", "preserved", "removed"} :
            [ws[Ending] EXCEPT !.failed = x, !.state = y]
              \in [state : {"none", "open", "removed", "preserved", "left"},
                   failed : BOOLEAN, edited : BOOLEAN, job : Jobs]
      BY <2>1 DEF EngineTypeOK
    <3>2. MustPreserve(snapshot) \in BOOLEAN
      BY <2>1 DEF MustPreserve, EngineTypeOK
    <3>3. ws' = [ws EXCEPT ![Ending] =
                   [ws[Ending] EXCEPT !.failed = ws[Ending].failed \/ MustPreserve(snapshot),
                                      !.state = IF ~released THEN "left"
                                                ELSE IF MustPreserve(snapshot) THEN "preserved"
                                                ELSE "removed"]]
      BY <1>18, <2>1 DEF Finish, EngineTypeOK
    <3>4. QED
      BY <2>1, <3>1, <3>2, <3>3 DEF EngineTypeOK
  <2>4. QED
    BY <1>18, <2>2, <2>3 DEF Finish, Note, MustPreserve, EngineTypeOK, Places
<1>19. ASSUME NEW w \in Workspaces, AdapterEdits(w) PROVE EngineTypeOK'
  BY <1>19, ConformanceAssumption DEF AdapterEdits, Note, EngineTypeOK, Places, Workspaces, Spots
<1>20. CASE UNCHANGED engineVars
  BY <1>20 DEF engineVars, EngineTypeOK, Places, Workspaces, Spots
<1>21. QED
  BY <1>1, <1>2, <1>3, <1>4, <1>5, <1>6, <1>7, <1>8, <1>9, <1>10, <1>11, <1>12, <1>13, <1>14, <1>15, <1>16, <1>17, <1>18, <1>19, <1>20 DEF Next, Step


\* Every step keeps the workspaces open that its place uses.
LEMMA OpenAtPlaceStep ==
  ASSUME EngineTypeOK, OpenAtPlace, [Next]_engineVars PROVE OpenAtPlace'
<1>1. ASSUME NEW ok \in BOOLEAN, ContractChecks(ok) PROVE OpenAtPlace'
  BY <1>1 DEF ContractChecks, Note, EngineTypeOK, Workspaces, OpenAtPlace, Generating
<1>2. ASSUME OpenCase PROVE OpenAtPlace'
  BY <1>2 DEF OpenCase, MoreCases, Opened, Closed, EngineTypeOK, Workspaces, OpenAtPlace, Generating
<1>3. ASSUME OpenCaseFails PROVE OpenAtPlace'
  BY <1>3 DEF OpenCaseFails, MoreCases, Note, EngineTypeOK, Workspaces, OpenAtPlace, Generating
<1>4. ASSUME CasesDone PROVE OpenAtPlace'
  BY <1>4 DEF CasesDone, MoreCases, EngineTypeOK, Workspaces, OpenAtPlace, Generating
<1>5. ASSUME DiscoverUnusable PROVE OpenAtPlace'
  BY <1>5 DEF DiscoverUnusable, Check, Note, EngineTypeOK, Workspaces, OpenAtPlace, Generating
<1>6. ASSUME NEW f \in [Sources -> Spots], NEW exact \in BOOLEAN, NEW repeats \in BOOLEAN,
             Discover(f, exact, repeats) PROVE OpenAtPlace'
  BY <1>6 DEF Discover, Check, Note, EngineTypeOK, Workspaces, OpenAtPlace, Generating
<1>7. ASSUME NEW j \in todo, NEW d \in Fingerprints \union {None}, NEW p \in Fingerprints \union {None},
             NEW exact \in BOOLEAN, CheckSource(j, d, p, exact) PROVE OpenAtPlace'
  BY <1>7 DEF CheckSource, Check, Note, EngineTypeOK, Workspaces, OpenAtPlace, Generating
<1>8. ASSUME SourcesDone PROVE OpenAtPlace'
  BY <1>8 DEF SourcesDone, EngineTypeOK, Workspaces, OpenAtPlace, Generating
<1>9. ASSUME NEW graceful \in BOOLEAN, CheckConfidence(graceful) PROVE OpenAtPlace'
  BY <1>9 DEF CheckConfidence, Check, Note, EngineTypeOK, Workspaces, OpenAtPlace, Generating
<1>10. ASSUME ProbesDone PROVE OpenAtPlace'
  BY <1>10 DEF ProbesDone, EngineTypeOK, Workspaces, OpenAtPlace, Generating
<1>11. ASSUME CorruptionsDone PROVE OpenAtPlace'
  BY <1>11 DEF CorruptionsDone, EngineTypeOK, Workspaces, OpenAtPlace, Generating
<1>12. ASSUME NEW j \in todo, Prepare(j) PROVE OpenAtPlace'
  BY <1>12 DEF Prepare, Opened, Closed, EngineTypeOK, Workspaces, OpenAtPlace, Generating
<1>13. ASSUME NEW j \in todo, PrepareFails(j) PROVE OpenAtPlace'
  BY <1>13 DEF PrepareFails, Note, EngineTypeOK, Workspaces, OpenAtPlace, Generating
<1>14. ASSUME NEW v \in Fingerprints \union {None}, Probe(v) PROVE OpenAtPlace'
  BY <1>14 DEF Probe, Check, Note, Probed, EngineTypeOK, Workspaces, OpenAtPlace, Generating
<1>15. ASSUME ProbeEscapes PROVE OpenAtPlace'
  BY <1>15 DEF ProbeEscapes, EngineTypeOK, Workspaces, OpenAtPlace, Generating
<1>16. ASSUME DiscoverCorruptedUnusable PROVE OpenAtPlace'
  BY <1>16 DEF DiscoverCorruptedUnusable, Check, Note, EngineTypeOK, Workspaces, OpenAtPlace, Generating
<1>17. ASSUME NEW a \in Answers, NEW inside \in BOOLEAN, CheckCorrupted(a, inside) PROVE OpenAtPlace'
  BY <1>17 DEF CheckCorrupted, Check, Note, EngineTypeOK, Workspaces, OpenAtPlace, Generating
<1>18. ASSUME NEW snapshot \in BOOLEAN, NEW released \in BOOLEAN, Finish(snapshot, released) PROVE OpenAtPlace'
  BY <1>18 DEF Finish, MustPreserve, Ending, Note, EngineTypeOK, Workspaces, OpenAtPlace, Generating
<1>19. ASSUME NEW w \in Workspaces, AdapterEdits(w) PROVE OpenAtPlace'
  BY <1>19 DEF AdapterEdits, Note, EngineTypeOK, Workspaces, OpenAtPlace, Generating
<1>20. CASE UNCHANGED engineVars
  BY <1>20 DEF engineVars, EngineTypeOK, Workspaces, OpenAtPlace, Generating
<1>21. QED
  BY <1>1, <1>2, <1>3, <1>4, <1>5, <1>6, <1>7, <1>8, <1>9, <1>10, <1>11, <1>12, <1>13, <1>14, <1>15, <1>16, <1>17, <1>18, <1>19, <1>20 DEF Next, Step


\* Every step stays within the cases.
LEMMA CaseStep ==
  ASSUME EngineTypeOK, CaseOpen, [Next]_engineVars PROVE CaseOpen'
<1>1. ASSUME NEW ok \in BOOLEAN, ContractChecks(ok) PROVE CaseOpen'
  BY <1>1, ConformanceAssumption DEF ContractChecks, Note, EngineTypeOK, CaseOpen
<1>2. ASSUME OpenCase PROVE CaseOpen'
  BY <1>2, ConformanceAssumption DEF OpenCase, MoreCases, Opened, Closed, EngineTypeOK, CaseOpen
<1>3. ASSUME OpenCaseFails PROVE CaseOpen'
  BY <1>3, ConformanceAssumption DEF OpenCaseFails, MoreCases, Note, EngineTypeOK, CaseOpen
<1>4. ASSUME CasesDone PROVE CaseOpen'
  BY <1>4, ConformanceAssumption DEF CasesDone, MoreCases, EngineTypeOK, CaseOpen
<1>5. ASSUME DiscoverUnusable PROVE CaseOpen'
  BY <1>5, ConformanceAssumption DEF DiscoverUnusable, Check, Note, EngineTypeOK, CaseOpen
<1>6. ASSUME NEW f \in [Sources -> Spots], NEW exact \in BOOLEAN, NEW repeats \in BOOLEAN,
             Discover(f, exact, repeats) PROVE CaseOpen'
  BY <1>6, ConformanceAssumption DEF Discover, Check, Note, EngineTypeOK, CaseOpen
<1>7. ASSUME NEW j \in todo, NEW d \in Fingerprints \union {None}, NEW p \in Fingerprints \union {None},
             NEW exact \in BOOLEAN, CheckSource(j, d, p, exact) PROVE CaseOpen'
  BY <1>7, ConformanceAssumption DEF CheckSource, Check, Note, EngineTypeOK, CaseOpen
<1>8. ASSUME SourcesDone PROVE CaseOpen'
  BY <1>8, ConformanceAssumption DEF SourcesDone, EngineTypeOK, CaseOpen
<1>9. ASSUME NEW graceful \in BOOLEAN, CheckConfidence(graceful) PROVE CaseOpen'
  BY <1>9, ConformanceAssumption DEF CheckConfidence, Check, Note, EngineTypeOK, CaseOpen
<1>10. ASSUME ProbesDone PROVE CaseOpen'
  BY <1>10, ConformanceAssumption DEF ProbesDone, EngineTypeOK, CaseOpen
<1>11. ASSUME CorruptionsDone PROVE CaseOpen'
  BY <1>11, ConformanceAssumption DEF CorruptionsDone, EngineTypeOK, CaseOpen
<1>12. ASSUME NEW j \in todo, Prepare(j) PROVE CaseOpen'
  BY <1>12, ConformanceAssumption DEF Prepare, Opened, Closed, EngineTypeOK, CaseOpen
<1>13. ASSUME NEW j \in todo, PrepareFails(j) PROVE CaseOpen'
  BY <1>13, ConformanceAssumption DEF PrepareFails, Note, EngineTypeOK, CaseOpen
<1>14. ASSUME NEW v \in Fingerprints \union {None}, Probe(v) PROVE CaseOpen'
  BY <1>14, ConformanceAssumption DEF Probe, Check, Note, Probed, EngineTypeOK, CaseOpen
<1>15. ASSUME ProbeEscapes PROVE CaseOpen'
  BY <1>15, ConformanceAssumption DEF ProbeEscapes, EngineTypeOK, CaseOpen
<1>16. ASSUME DiscoverCorruptedUnusable PROVE CaseOpen'
  BY <1>16, ConformanceAssumption DEF DiscoverCorruptedUnusable, Check, Note, EngineTypeOK, CaseOpen
<1>17. ASSUME NEW a \in Answers, NEW inside \in BOOLEAN, CheckCorrupted(a, inside) PROVE CaseOpen'
  BY <1>17, ConformanceAssumption DEF CheckCorrupted, Check, Note, EngineTypeOK, CaseOpen
<1>18. ASSUME NEW snapshot \in BOOLEAN, NEW released \in BOOLEAN, Finish(snapshot, released) PROVE CaseOpen'
  BY <1>18, ConformanceAssumption DEF Finish, MustPreserve, Ending, Note, EngineTypeOK, CaseOpen
<1>19. ASSUME NEW w \in Workspaces, AdapterEdits(w) PROVE CaseOpen'
  BY <1>19, ConformanceAssumption DEF AdapterEdits, Note, EngineTypeOK, CaseOpen
<1>20. CASE UNCHANGED engineVars
  BY <1>20 DEF engineVars, EngineTypeOK, CaseOpen
<1>21. QED
  BY <1>1, <1>2, <1>3, <1>4, <1>5, <1>6, <1>7, <1>8, <1>9, <1>10, <1>11, <1>12, <1>13, <1>14, <1>15, <1>16, <1>17, <1>18, <1>19, <1>20 DEF Next, Step


\* Every step ends a workspace as its session went.
LEMMA FatesStep ==
  ASSUME EngineTypeOK, OpenAtPlace, Fates, [Next]_engineVars PROVE Fates'
<1>1. ASSUME NEW ok \in BOOLEAN, ContractChecks(ok) PROVE Fates'
  BY <1>1 DEF ContractChecks, Note, EngineTypeOK, Workspaces, OpenAtPlace, Generating, Fates
<1>2. ASSUME OpenCase PROVE Fates'
  BY <1>2 DEF OpenCase, MoreCases, Opened, Closed, EngineTypeOK, Workspaces, OpenAtPlace, Generating, Fates
<1>3. ASSUME OpenCaseFails PROVE Fates'
  BY <1>3 DEF OpenCaseFails, MoreCases, Note, EngineTypeOK, Workspaces, OpenAtPlace, Generating, Fates
<1>4. ASSUME CasesDone PROVE Fates'
  BY <1>4 DEF CasesDone, MoreCases, EngineTypeOK, Workspaces, OpenAtPlace, Generating, Fates
<1>5. ASSUME DiscoverUnusable PROVE Fates'
  BY <1>5 DEF DiscoverUnusable, Check, Note, EngineTypeOK, Workspaces, OpenAtPlace, Generating, Fates
<1>6. ASSUME NEW f \in [Sources -> Spots], NEW exact \in BOOLEAN, NEW repeats \in BOOLEAN,
             Discover(f, exact, repeats) PROVE Fates'
  BY <1>6 DEF Discover, Check, Note, EngineTypeOK, Workspaces, OpenAtPlace, Generating, Fates
<1>7. ASSUME NEW j \in todo, NEW d \in Fingerprints \union {None}, NEW p \in Fingerprints \union {None},
             NEW exact \in BOOLEAN, CheckSource(j, d, p, exact) PROVE Fates'
  BY <1>7 DEF CheckSource, Check, Note, EngineTypeOK, Workspaces, OpenAtPlace, Generating, Fates
<1>8. ASSUME SourcesDone PROVE Fates'
  BY <1>8 DEF SourcesDone, EngineTypeOK, Workspaces, OpenAtPlace, Generating, Fates
<1>9. ASSUME NEW graceful \in BOOLEAN, CheckConfidence(graceful) PROVE Fates'
  BY <1>9 DEF CheckConfidence, Check, Note, EngineTypeOK, Workspaces, OpenAtPlace, Generating, Fates
<1>10. ASSUME ProbesDone PROVE Fates'
  BY <1>10 DEF ProbesDone, EngineTypeOK, Workspaces, OpenAtPlace, Generating, Fates
<1>11. ASSUME CorruptionsDone PROVE Fates'
  BY <1>11 DEF CorruptionsDone, EngineTypeOK, Workspaces, OpenAtPlace, Generating, Fates
<1>12. ASSUME NEW j \in todo, Prepare(j) PROVE Fates'
  BY <1>12 DEF Prepare, Opened, Closed, EngineTypeOK, Workspaces, OpenAtPlace, Generating, Fates
<1>13. ASSUME NEW j \in todo, PrepareFails(j) PROVE Fates'
  BY <1>13 DEF PrepareFails, Note, EngineTypeOK, Workspaces, OpenAtPlace, Generating, Fates
<1>14. ASSUME NEW v \in Fingerprints \union {None}, Probe(v) PROVE Fates'
  BY <1>14 DEF Probe, Check, Note, Probed, EngineTypeOK, Workspaces, OpenAtPlace, Generating, Fates
<1>15. ASSUME ProbeEscapes PROVE Fates'
  BY <1>15 DEF ProbeEscapes, EngineTypeOK, Workspaces, OpenAtPlace, Generating, Fates
<1>16. ASSUME DiscoverCorruptedUnusable PROVE Fates'
  BY <1>16 DEF DiscoverCorruptedUnusable, Check, Note, EngineTypeOK, Workspaces, OpenAtPlace, Generating, Fates
<1>17. ASSUME NEW a \in Answers, NEW inside \in BOOLEAN, CheckCorrupted(a, inside) PROVE Fates'
  BY <1>17 DEF CheckCorrupted, Check, Note, EngineTypeOK, Workspaces, OpenAtPlace, Generating, Fates
<1>18. ASSUME NEW snapshot \in BOOLEAN, NEW released \in BOOLEAN, Finish(snapshot, released) PROVE Fates'
  BY <1>18 DEF Finish, MustPreserve, Ending, Note, EngineTypeOK, Workspaces, OpenAtPlace, Generating, Fates
<1>19. ASSUME NEW w \in Workspaces, AdapterEdits(w) PROVE Fates'
  BY <1>19 DEF AdapterEdits, Note, EngineTypeOK, Workspaces, OpenAtPlace, Generating, Fates
<1>20. CASE UNCHANGED engineVars
  BY <1>20 DEF engineVars, EngineTypeOK, Workspaces, OpenAtPlace, Generating, Fates
<1>21. QED
  BY <1>1, <1>2, <1>3, <1>4, <1>5, <1>6, <1>7, <1>8, <1>9, <1>10, <1>11, <1>12, <1>13, <1>14, <1>15, <1>16, <1>17, <1>18, <1>19, <1>20 DEF Next, Step


\* Every step keeps probes to sources with a baseline.
LEMMA ProbingStep ==
  ASSUME EngineTypeOK, Probing, [Next]_engineVars PROVE Probing'
<1>1. ASSUME NEW ok \in BOOLEAN, ContractChecks(ok) PROVE Probing'
  BY <1>1 DEF ContractChecks, Note, EngineTypeOK, Workspaces, Probing, Probed, Unknown
<1>2. ASSUME OpenCase PROVE Probing'
  BY <1>2 DEF OpenCase, MoreCases, Opened, Closed, EngineTypeOK, Workspaces, Probing, Probed, Unknown
<1>3. ASSUME OpenCaseFails PROVE Probing'
  BY <1>3 DEF OpenCaseFails, MoreCases, Note, EngineTypeOK, Workspaces, Probing, Probed, Unknown
<1>4. ASSUME CasesDone PROVE Probing'
  BY <1>4 DEF CasesDone, MoreCases, EngineTypeOK, Workspaces, Probing, Probed, Unknown
<1>5. ASSUME DiscoverUnusable PROVE Probing'
  BY <1>5 DEF DiscoverUnusable, Check, Note, EngineTypeOK, Workspaces, Probing, Probed, Unknown
<1>6. ASSUME NEW f \in [Sources -> Spots], NEW exact \in BOOLEAN, NEW repeats \in BOOLEAN,
             Discover(f, exact, repeats) PROVE Probing'
  BY <1>6 DEF Discover, Check, Note, EngineTypeOK, Workspaces, Probing, Probed, Unknown
<1>7. ASSUME NEW j \in todo, NEW d \in Fingerprints \union {None}, NEW p \in Fingerprints \union {None},
             NEW exact \in BOOLEAN, CheckSource(j, d, p, exact) PROVE Probing'
  BY <1>7 DEF CheckSource, Check, Note, EngineTypeOK, Workspaces, Probing, Probed, Unknown
<1>8. ASSUME SourcesDone PROVE Probing'
  BY <1>8 DEF SourcesDone, EngineTypeOK, Workspaces, Probing, Probed, Unknown
<1>9. ASSUME NEW graceful \in BOOLEAN, CheckConfidence(graceful) PROVE Probing'
  BY <1>9 DEF CheckConfidence, Check, Note, EngineTypeOK, Workspaces, Probing, Probed, Unknown
<1>10. ASSUME ProbesDone PROVE Probing'
  BY <1>10 DEF ProbesDone, EngineTypeOK, Workspaces, Probing, Probed, Unknown
<1>11. ASSUME CorruptionsDone PROVE Probing'
  BY <1>11 DEF CorruptionsDone, EngineTypeOK, Workspaces, Probing, Probed, Unknown
<1>12. ASSUME NEW j \in todo, Prepare(j) PROVE Probing'
  BY <1>12 DEF Prepare, Opened, Closed, EngineTypeOK, Workspaces, Probing, Probed, Unknown
<1>13. ASSUME NEW j \in todo, PrepareFails(j) PROVE Probing'
  BY <1>13 DEF PrepareFails, Note, EngineTypeOK, Workspaces, Probing, Probed, Unknown
<1>14. ASSUME NEW v \in Fingerprints \union {None}, Probe(v) PROVE Probing'
  BY <1>14 DEF Probe, Check, Note, Probed, EngineTypeOK, Workspaces, Probing, Probed, Unknown
<1>15. ASSUME ProbeEscapes PROVE Probing'
  BY <1>15 DEF ProbeEscapes, EngineTypeOK, Workspaces, Probing, Probed, Unknown
<1>16. ASSUME DiscoverCorruptedUnusable PROVE Probing'
  BY <1>16 DEF DiscoverCorruptedUnusable, Check, Note, EngineTypeOK, Workspaces, Probing, Probed, Unknown
<1>17. ASSUME NEW a \in Answers, NEW inside \in BOOLEAN, CheckCorrupted(a, inside) PROVE Probing'
  BY <1>17 DEF CheckCorrupted, Check, Note, EngineTypeOK, Workspaces, Probing, Probed, Unknown
<1>18. ASSUME NEW snapshot \in BOOLEAN, NEW released \in BOOLEAN, Finish(snapshot, released) PROVE Probing'
  BY <1>18 DEF Finish, MustPreserve, Ending, Note, EngineTypeOK, Workspaces, Probing, Probed, Unknown
<1>19. ASSUME NEW w \in Workspaces, AdapterEdits(w) PROVE Probing'
  BY <1>19 DEF AdapterEdits, Note, EngineTypeOK, Workspaces, Probing, Probed, Unknown
<1>20. CASE UNCHANGED engineVars
  BY <1>20 DEF engineVars, EngineTypeOK, Workspaces, Probing, Probed, Unknown
<1>21. QED
  BY <1>1, <1>2, <1>3, <1>4, <1>5, <1>6, <1>7, <1>8, <1>9, <1>10, <1>11, <1>12, <1>13, <1>14, <1>15, <1>16, <1>17, <1>18, <1>19, <1>20 DEF Next, Step


\* Every step keeps baselines of this case.
LEMMA BaselineStep ==
  ASSUME EngineTypeOK, Probing, ProbesUseOwnBaseline, [Next]_engineVars PROVE ProbesUseOwnBaseline'
<1>1. ASSUME NEW ok \in BOOLEAN, ContractChecks(ok) PROVE ProbesUseOwnBaseline'
  BY <1>1 DEF ContractChecks, Note, EngineTypeOK, Probing, ProbesUseOwnBaseline, Unknown
<1>2. ASSUME OpenCase PROVE ProbesUseOwnBaseline'
  BY <1>2 DEF OpenCase, MoreCases, Opened, Closed, EngineTypeOK, Probing, ProbesUseOwnBaseline, Unknown
<1>3. ASSUME OpenCaseFails PROVE ProbesUseOwnBaseline'
  BY <1>3 DEF OpenCaseFails, MoreCases, Note, EngineTypeOK, Probing, ProbesUseOwnBaseline, Unknown
<1>4. ASSUME CasesDone PROVE ProbesUseOwnBaseline'
  BY <1>4 DEF CasesDone, MoreCases, EngineTypeOK, Probing, ProbesUseOwnBaseline, Unknown
<1>5. ASSUME DiscoverUnusable PROVE ProbesUseOwnBaseline'
  BY <1>5 DEF DiscoverUnusable, Check, Note, EngineTypeOK, Probing, ProbesUseOwnBaseline, Unknown
<1>6. ASSUME NEW f \in [Sources -> Spots], NEW exact \in BOOLEAN, NEW repeats \in BOOLEAN,
             Discover(f, exact, repeats) PROVE ProbesUseOwnBaseline'
  BY <1>6 DEF Discover, Check, Note, EngineTypeOK, Probing, ProbesUseOwnBaseline, Unknown
<1>7. ASSUME NEW j \in todo, NEW d \in Fingerprints \union {None}, NEW p \in Fingerprints \union {None},
             NEW exact \in BOOLEAN, CheckSource(j, d, p, exact) PROVE ProbesUseOwnBaseline'
  BY <1>7 DEF CheckSource, Check, Note, EngineTypeOK, Probing, ProbesUseOwnBaseline, Unknown
<1>8. ASSUME SourcesDone PROVE ProbesUseOwnBaseline'
  BY <1>8 DEF SourcesDone, EngineTypeOK, Probing, ProbesUseOwnBaseline, Unknown
<1>9. ASSUME NEW graceful \in BOOLEAN, CheckConfidence(graceful) PROVE ProbesUseOwnBaseline'
  BY <1>9 DEF CheckConfidence, Check, Note, EngineTypeOK, Probing, ProbesUseOwnBaseline, Unknown
<1>10. ASSUME ProbesDone PROVE ProbesUseOwnBaseline'
  BY <1>10 DEF ProbesDone, EngineTypeOK, Probing, ProbesUseOwnBaseline, Unknown
<1>11. ASSUME CorruptionsDone PROVE ProbesUseOwnBaseline'
  BY <1>11 DEF CorruptionsDone, EngineTypeOK, Probing, ProbesUseOwnBaseline, Unknown
<1>12. ASSUME NEW j \in todo, Prepare(j) PROVE ProbesUseOwnBaseline'
  BY <1>12 DEF Prepare, Opened, Closed, EngineTypeOK, Probing, ProbesUseOwnBaseline, Unknown
<1>13. ASSUME NEW j \in todo, PrepareFails(j) PROVE ProbesUseOwnBaseline'
  BY <1>13 DEF PrepareFails, Note, EngineTypeOK, Probing, ProbesUseOwnBaseline, Unknown
<1>14. ASSUME NEW v \in Fingerprints \union {None}, Probe(v) PROVE ProbesUseOwnBaseline'
  BY <1>14 DEF Probe, Check, Note, Probed, EngineTypeOK, Probing, ProbesUseOwnBaseline, Unknown
<1>15. ASSUME ProbeEscapes PROVE ProbesUseOwnBaseline'
  BY <1>15 DEF ProbeEscapes, EngineTypeOK, Probing, ProbesUseOwnBaseline, Unknown
<1>16. ASSUME DiscoverCorruptedUnusable PROVE ProbesUseOwnBaseline'
  BY <1>16 DEF DiscoverCorruptedUnusable, Check, Note, EngineTypeOK, Probing, ProbesUseOwnBaseline, Unknown
<1>17. ASSUME NEW a \in Answers, NEW inside \in BOOLEAN, CheckCorrupted(a, inside) PROVE ProbesUseOwnBaseline'
  BY <1>17 DEF CheckCorrupted, Check, Note, EngineTypeOK, Probing, ProbesUseOwnBaseline, Unknown
<1>18. ASSUME NEW snapshot \in BOOLEAN, NEW released \in BOOLEAN, Finish(snapshot, released) PROVE ProbesUseOwnBaseline'
  BY <1>18 DEF Finish, MustPreserve, Ending, Note, EngineTypeOK, Probing, ProbesUseOwnBaseline, Unknown
<1>19. ASSUME NEW w \in Workspaces, AdapterEdits(w) PROVE ProbesUseOwnBaseline'
  BY <1>19 DEF AdapterEdits, Note, EngineTypeOK, Probing, ProbesUseOwnBaseline, Unknown
<1>20. CASE UNCHANGED engineVars
  BY <1>20 DEF engineVars, EngineTypeOK, Probing, ProbesUseOwnBaseline, Unknown
<1>21. QED
  BY <1>1, <1>2, <1>3, <1>4, <1>5, <1>6, <1>7, <1>8, <1>9, <1>10, <1>11, <1>12, <1>13, <1>14, <1>15, <1>16, <1>17, <1>18, <1>19, <1>20 DEF Next, Step


\* Every step keeps the verdict true but for edits still to be found.
LEMMA TruthStep ==
  ASSUME EngineTypeOK, OpenAtPlace, Fates, Probing, ProbesUseOwnBaseline, Truth, [Next]_engineVars PROVE Truth'
<1>1. ASSUME NEW ok \in BOOLEAN, ContractChecks(ok) PROVE Truth'
  BY <1>1 DEF ContractChecks, Note, EngineTypeOK, Workspaces, OpenAtPlace, Generating, Fates, Truth, Pending, ProbesUseOwnBaseline
<1>2. ASSUME OpenCase PROVE Truth'
  BY <1>2 DEF OpenCase, MoreCases, Opened, Closed, EngineTypeOK, Workspaces, OpenAtPlace, Generating, Fates, Truth, Pending, ProbesUseOwnBaseline
<1>3. ASSUME OpenCaseFails PROVE Truth'
  BY <1>3 DEF OpenCaseFails, MoreCases, Note, EngineTypeOK, Workspaces, OpenAtPlace, Generating, Fates, Truth, Pending, ProbesUseOwnBaseline
<1>4. ASSUME CasesDone PROVE Truth'
  BY <1>4 DEF CasesDone, MoreCases, EngineTypeOK, Workspaces, OpenAtPlace, Generating, Fates, Truth, Pending, ProbesUseOwnBaseline
<1>5. ASSUME DiscoverUnusable PROVE Truth'
  BY <1>5 DEF DiscoverUnusable, Check, Note, EngineTypeOK, Workspaces, OpenAtPlace, Generating, Fates, Truth, Pending, ProbesUseOwnBaseline
<1>6. ASSUME NEW f \in [Sources -> Spots], NEW exact \in BOOLEAN, NEW repeats \in BOOLEAN,
             Discover(f, exact, repeats) PROVE Truth'
  BY <1>6 DEF Discover, Check, Note, EngineTypeOK, Workspaces, OpenAtPlace, Generating, Fates, Truth, Pending, ProbesUseOwnBaseline
<1>7. ASSUME NEW j \in todo, NEW d \in Fingerprints \union {None}, NEW p \in Fingerprints \union {None},
             NEW exact \in BOOLEAN, CheckSource(j, d, p, exact) PROVE Truth'
  BY <1>7 DEF CheckSource, Check, Note, EngineTypeOK, Workspaces, OpenAtPlace, Generating, Fates, Truth, Pending, ProbesUseOwnBaseline
<1>8. ASSUME SourcesDone PROVE Truth'
  BY <1>8 DEF SourcesDone, EngineTypeOK, Workspaces, OpenAtPlace, Generating, Fates, Truth, Pending, ProbesUseOwnBaseline
<1>9. ASSUME NEW graceful \in BOOLEAN, CheckConfidence(graceful) PROVE Truth'
  BY <1>9 DEF CheckConfidence, Check, Note, EngineTypeOK, Workspaces, OpenAtPlace, Generating, Fates, Truth, Pending, ProbesUseOwnBaseline
<1>10. ASSUME ProbesDone PROVE Truth'
  BY <1>10 DEF ProbesDone, EngineTypeOK, Workspaces, OpenAtPlace, Generating, Fates, Truth, Pending, ProbesUseOwnBaseline
<1>11. ASSUME CorruptionsDone PROVE Truth'
  BY <1>11 DEF CorruptionsDone, EngineTypeOK, Workspaces, OpenAtPlace, Generating, Fates, Truth, Pending, ProbesUseOwnBaseline
<1>12. ASSUME NEW j \in todo, Prepare(j) PROVE Truth'
  BY <1>12 DEF Prepare, Opened, Closed, EngineTypeOK, Workspaces, OpenAtPlace, Generating, Fates, Truth, Pending, ProbesUseOwnBaseline
<1>13. ASSUME NEW j \in todo, PrepareFails(j) PROVE Truth'
  BY <1>13 DEF PrepareFails, Note, EngineTypeOK, Workspaces, OpenAtPlace, Generating, Fates, Truth, Pending, ProbesUseOwnBaseline
<1>14. ASSUME NEW v \in Fingerprints \union {None}, Probe(v) PROVE Truth'
  <2>1. Probed \in Sources /\ baseline[Probed] = agreed[Probed] /\ ws["generated"].state = "open"
    BY <1>14 DEF Probe, Probing, ProbesUseOwnBaseline, OpenAtPlace, Generating
  <2>2. failed' => bad'
    BY <1>14, <2>1 DEF Probe, Check, Note, Truth
  <2>3. Pending => Pending'
    BY <1>14 DEF Probe, Check, Pending, Workspaces, EngineTypeOK
  <2>4. \A w \in Workspaces : ws'[w].edited => bad'
    BY <1>14 DEF Probe, Check, Note, Truth, EngineTypeOK, Workspaces
  <2>5. QED
    BY <1>14, <2>1, <2>2, <2>3, <2>4 DEF Probe, Check, Note, Truth
<1>15. ASSUME ProbeEscapes PROVE Truth'
  BY <1>15 DEF ProbeEscapes, EngineTypeOK, Workspaces, OpenAtPlace, Generating, Fates, Truth, Pending, ProbesUseOwnBaseline
<1>16. ASSUME DiscoverCorruptedUnusable PROVE Truth'
  BY <1>16 DEF DiscoverCorruptedUnusable, Check, Note, EngineTypeOK, Workspaces, OpenAtPlace, Generating, Fates, Truth, Pending, ProbesUseOwnBaseline
<1>17. ASSUME NEW a \in Answers, NEW inside \in BOOLEAN, CheckCorrupted(a, inside) PROVE Truth'
  BY <1>17 DEF CheckCorrupted, Check, Note, EngineTypeOK, Workspaces, OpenAtPlace, Generating, Fates, Truth, Pending, ProbesUseOwnBaseline
<1>18. ASSUME NEW snapshot \in BOOLEAN, NEW released \in BOOLEAN, Finish(snapshot, released) PROVE Truth'
  <2>1. Ending \in Workspaces
    BY DEF Ending, Workspaces
  <2>2. ws[Ending].failed => failed /\ bad
    BY <2>1 DEF Fates, Truth
  <2>3. ws[Ending].edited => bad \/ bad'
    BY <1>18, <2>1 DEF Truth
  <2>4. failed' => bad'
    BY <1>18, <2>2, <2>3 DEF Finish, MustPreserve, Note, Truth
  <2>5. Pending => Pending' \/ failed'
    BY <1>18, <2>1 DEF Finish, MustPreserve, Pending, EngineTypeOK
  <2>6. \A w \in Workspaces : ws'[w].edited => bad'
    BY <1>18, <2>1 DEF Finish, Note, Truth, EngineTypeOK
  <2>7. QED
    BY <1>18, <2>4, <2>5, <2>6 DEF Finish, Note, Truth, MustPreserve
<1>19. ASSUME NEW w \in Workspaces, AdapterEdits(w) PROVE Truth'
  BY <1>19 DEF AdapterEdits, Note, EngineTypeOK, Workspaces, OpenAtPlace, Generating, Fates, Truth, Pending, ProbesUseOwnBaseline
<1>20. CASE UNCHANGED engineVars
  BY <1>20 DEF engineVars, EngineTypeOK, Workspaces, OpenAtPlace, Generating, Fates, Truth, Pending, ProbesUseOwnBaseline
<1>21. QED
  BY <1>1, <1>2, <1>3, <1>4, <1>5, <1>6, <1>7, <1>8, <1>9, <1>10, <1>11, <1>12, <1>13, <1>14, <1>15, <1>16, <1>17, <1>18, <1>19, <1>20 DEF Next, Step


\* Every step keeps the whole invariant.
LEMMA EngineStep ==
  ASSUME EngineInv, [Next]_engineVars PROVE EngineInv'
BY EngineTypesStep, CaseStep, OpenAtPlaceStep, FatesStep, ProbingStep, BaselineStep, TruthStep DEF EngineInv

\* It holds at the start.
LEMMA EngineStart ==
  ASSUME Init PROVE EngineInv
<1>1. EngineTypeOK
  <2>1. 1 \in 1..(Cases + 1)
    BY ConformanceAssumption
  <2>2. QED
    BY <2>1, WorkspaceTypes DEF Init, EngineTypeOK, Places, Spots, Unknown
<1>2. OpenAtPlace /\ Fates /\ Probing /\ CaseOpen
  BY DEF Init, CaseOpen, OpenAtPlace, Fates, Probing, Workspaces, Closed, Generating
<1>3. ProbesUseOwnBaseline /\ Truth
  BY DEF Init, ProbesUseOwnBaseline, Truth, Unknown, Closed
<1>4. QED
  BY <1>1, <1>2, <1>3 DEF EngineInv

\* The strengthening is an invariant of the engine, whatever the adapter and
\* the fixtures do.
THEOREM EngineInvariant == Spec => []EngineInv
BY EngineStart, EngineStep, PTL DEF Spec

\* The variables keep their types.
THEOREM EngineTypes == Spec => []EngineTypeOK
<1>1. EngineInv => EngineTypeOK
  BY DEF EngineInv
<1>2. QED
  BY <1>1, EngineInvariant, PTL

\* The exit code is 1 exactly when something misbehaved.
THEOREM VerdictsAreTrue == Spec => []VerdictIsTrue
<1>1. EngineInv => VerdictIsTrue
  <2> SUFFICES ASSUME EngineInv, pc = "done"
               PROVE  failed <=> bad
    BY DEF VerdictIsTrue
  <2>1. ~Pending
    BY DEF EngineInv, OpenAtPlace, Generating, Pending, Workspaces
  <2>2. failed \in BOOLEAN /\ bad \in BOOLEAN
    BY DEF EngineInv, EngineTypeOK
  <2>3. QED
    BY <2>1, <2>2 DEF EngineInv, Truth
<1>2. QED
  BY <1>1, EngineInvariant, PTL

\* Every workspace ends once, as its session went.
THEOREM WorkspacesAllEnd == Spec => []WorkspacesEnd
<1>1. EngineInv => WorkspacesEnd
  BY DEF EngineInv, OpenAtPlace, Fates, Generating, Workspaces, WorkspacesEnd
<1>2. QED
  BY <1>1, EngineInvariant, PTL

\* A probe's baseline is of its own case.
THEOREM BaselinesAreOwn == Spec => []ProbesUseOwnBaseline
<1>1. EngineInv => ProbesUseOwnBaseline
  BY DEF EngineInv
<1>2. QED
  BY <1>1, EngineInvariant, PTL
=============================================================================
