--------------------------- MODULE AdaptRunProofs ---------------------------
(***************************************************************************)
(* The invariants of adapt, for any records, versions and runs.            *)
(*                                                                         *)
(* Between the first crash, overlap or race the argument is one of         *)
(* hand-over: the manifest describes the files when a run starts; while it *)
(* decides, every record it leaves alone is on disk as its new entry says, *)
(* and every other one has its write pending with that entry's digest;     *)
(* each write discharges one of them, so that the manifest published last  *)
(* describes the files again.                                              *)
(***************************************************************************)
EXTENDS AdaptRun, TLAPS

\* The manifest and the entries of every run carry, for each record, the
\* fingerprint of the content whose digest they carry; so does a record
\* between its two reads.
OneVersion ==
  "race" \notin disturbed =>
    /\ manifest # None => \A r \in Listed(manifest) : manifest[r].fp = manifest[r].digest
    /\ \A p \in Runs :
         /\ \A r \in Listed(run[p].entries) :
              run[p].entries[r].fp = run[p].entries[r].digest
         /\ run[p].pc = "parse" => source[run[p].cur] = run[p].fp

\* The locals that the program counter determines.
Control ==
  \A p \in Runs :
    /\ run[p].pc \in {"parse", "fill"} => run[p].cur \in Records
    /\ run[p].pc = "parse" => run[p].fp \in Versions
    /\ run[p].pc = "fill" => run[p].writes[run[p].cur] # None
    /\ run[p].pc = "publish" => run[p].writes = NothingListed

\* One run at a time, and what it still owes.
Owes(p) ==
  \A r \in Records :
    IF run[p].writes[r] # None
      THEN run[p].entries[r] # None /\ run[p].entries[r].digest = run[p].writes[r]
      ELSE run[p].entries[r] # None => files[r] = run[p].entries[r].digest

Undisturbed ==
  disturbed = {} =>
    /\ \A p, q \in Runs : Active(p) /\ Active(q) => p = q
    /\ \A p \in Runs : run[p].pc \in Deciding => run[p].prev = PreviousOf(manifest)
    /\ \A p \in Runs : Active(p) => Owes(p)
    /\ (\A p \in Runs : run[p].pc \notin Writing)
         => (manifest = None \/ Describes(manifest, files))

AdaptInv == AdaptTypeOK /\ OneVersion /\ Control /\ Undisturbed

\* What the previous manifest yields is a fingerprint or nothing.
LEMMA PreviousTypes ==
  ASSUME NEW m \in Manifests \union {None}
  PROVE  PreviousOf(m) \in Contents
BY DEF PreviousOf, Manifests, Entry, Contents


\* Every step keeps the types.
LEMMA TypesStep ==
  ASSUME AdaptTypeOK, Control, [Next]_adaptVars PROVE AdaptTypeOK'
<1>1. ASSUME NEW r \in Records, NEW v \in Versions \union {None}, Edit(r, v) PROVE AdaptTypeOK'
  <2>1. source' \in Contents
    BY <1>1 DEF Edit, AdaptTypeOK, Contents
  <2>2. edits' \in 0..MaxEdits /\ disturbed' \subseteq Disturbances
    BY <1>1, AdaptAssumption DEF Edit, AdaptTypeOK, Disturbances
  <2>3. QED
    BY <1>1, <2>1, <2>2 DEF Edit, AdaptTypeOK
<1>2. ASSUME NEW r \in Records, DeleteFile(r) PROVE AdaptTypeOK'
  <2>1. edits' \in 0..MaxEdits /\ disturbed' \subseteq Disturbances
    BY <1>2, AdaptAssumption DEF DeleteFile, AdaptTypeOK, Disturbances
  <2>2. QED
    BY <1>2, <2>1 DEF DeleteFile, AdaptTypeOK
<1>3. ASSUME NEW p \in Runs, NEW dry \in BOOLEAN, StartRun(p, dry) PROVE AdaptTypeOK'
  <2>1. PreviousOf(manifest) \in Contents
    BY PreviousTypes DEF AdaptTypeOK
  <2>2. NothingListed \in Contents /\ NothingListed \in Manifests
    BY DEF NothingListed, Contents, Manifests
  <2>3. [Idle EXCEPT !.pc = "next", !.dry = dry, !.prev = PreviousOf(manifest),
                     !.todo = {r \in Records : source[r] # None}] \in Locals
    BY <2>1, <2>2 DEF Idle, Locals, Deciding
  <2>4. disturbed' \subseteq Disturbances
    BY <1>3 DEF StartRun, AdaptTypeOK, Disturbances
  <2>5. QED
    BY <1>3, <2>3, <2>4 DEF StartRun, AdaptTypeOK
<1>4. ASSUME NEW p \in Runs, NEW r \in Records, Fingerprint(p, r) PROVE AdaptTypeOK'
  <2>1. source[r] \in Versions
    BY <1>4 DEF Fingerprint, AdaptTypeOK, Contents
  <2>2. [run[p] EXCEPT !.pc = "parse", !.cur = r, !.fp = source[r]] \in Locals
    BY <2>1 DEF AdaptTypeOK, Locals, Deciding
  <2>3. QED
    BY <1>4, <2>2 DEF Fingerprint, AdaptTypeOK
<1>5. ASSUME NEW p \in Runs, NEW r \in Records, FingerprintRaises(p, r) PROVE AdaptTypeOK'
  BY <1>5, AdaptAssumption DEF FingerprintRaises, DropSpec, AdaptTypeOK, Locals, Deciding, Writing, Disturbances, Contents
<1>6. ASSUME NEW p \in Runs, NEW r \in Records, OpenRecordFile(p, r) PROVE AdaptTypeOK'
  <2>1. files' \in [Records -> Versions \union {None, Torn}]
    BY <1>6 DEF OpenRecordFile, AdaptTypeOK
  <2>2. [run[p] EXCEPT !.pc = "fill", !.cur = r] \in Locals
    BY DEF AdaptTypeOK, Locals, Writing
  <2>3. QED
    BY <1>6, <2>1, <2>2 DEF OpenRecordFile, AdaptTypeOK
<1>7. ASSUME NEW p \in Runs, ParseValid(p) PROVE AdaptTypeOK'
  <2> DEFINE q == run[p]
             rec == q.cur
             v == source[rec]
             es == [q.entries EXCEPT ![rec] = [fp |-> q.fp, digest |-> v]]
             ws == [q.writes EXCEPT ![rec] = IF UnchangedSpec(p, rec) THEN None ELSE v]
  <2>1. q \in Locals
    BY DEF AdaptTypeOK
  <2>2. rec \in Records /\ v \in Versions /\ q.fp \in Versions
    BY <1>7 DEF ParseValid, AdaptTypeOK, Contents, Control
  <2>3. es \in Manifests
    BY <2>1, <2>2 DEF Locals, Manifests, Entry
  <2>4. ws \in Contents
    BY <2>1, <2>2 DEF Locals, Contents
  <2> HIDE DEF es, ws
  <2>5. [q EXCEPT !.pc = "next", !.cur = None, !.fp = None, !.todo = @ \ {rec},
                  !.entries = es, !.writes = ws] \in Locals
    BY <2>1, <2>3, <2>4 DEF Locals, Deciding
  <2>6. QED
    BY <1>7, <2>5 DEF ParseValid, AdaptTypeOK, es, ws
<1>8. ASSUME NEW p \in Runs, ParseFails(p) PROVE AdaptTypeOK'
  <2>1. [run[p] EXCEPT !.pc = "next", !.cur = None, !.fp = None, !.todo = @ \ {run[p].cur}]
          \in Locals
    BY DEF AdaptTypeOK, Locals, Deciding
  <2>2. QED
    BY <1>8, <2>1 DEF ParseFails, DropSpec, AdaptTypeOK
<1>9. ASSUME NEW p \in Runs, DecisionsDone(p) PROVE AdaptTypeOK'
  <2>1. Idle \in Locals
    BY DEF Idle, Locals, NothingListed, Contents, Manifests
  <2>2. [run[p] EXCEPT !.pc = "write", !.prev = NothingListed] \in Locals
    BY DEF AdaptTypeOK, Locals, Writing, NothingListed, Contents
  <2>3. QED
    BY <1>9, <2>1, <2>2 DEF DecisionsDone, AdaptTypeOK
<1>10. ASSUME NEW p \in Runs, FillRecordFile(p) PROVE AdaptTypeOK'
  <2>1. run[p] \in Locals /\ run[p].cur \in Records
    BY <1>10 DEF FillRecordFile, AdaptTypeOK, Control
  <2>2. run[p].writes[run[p].cur] \in Versions \union {None}
    BY <2>1 DEF Locals, Contents
  <2>3. files' \in [Records -> Versions \union {None, Torn}]
    BY <1>10, <2>1, <2>2 DEF FillRecordFile, AdaptTypeOK
  <2>4. [run[p].writes EXCEPT ![run[p].cur] = None] \in Contents
    BY <2>1 DEF Locals, Contents
  <2>5. [run[p] EXCEPT !.pc = "write", !.cur = None,
                       !.writes = [run[p].writes EXCEPT ![run[p].cur] = None]] \in Locals
    BY <2>1, <2>4 DEF Locals, Writing
  <2>6. QED
    BY <1>10, <2>3, <2>5 DEF FillRecordFile, AdaptTypeOK
<1>11. ASSUME NEW p \in Runs, OpenManifest(p) PROVE AdaptTypeOK'
  <2>1. [run[p] EXCEPT !.pc = "publish"] \in Locals
    BY DEF AdaptTypeOK, Locals, Writing
  <2>2. QED
    BY <1>11, <2>1 DEF OpenManifest, AdaptTypeOK
<1>12. ASSUME NEW p \in Runs, FillManifest(p) PROVE AdaptTypeOK'
  <2>1. Idle \in Locals /\ run[p].entries \in Manifests
    BY DEF Idle, Locals, NothingListed, Contents, Manifests, AdaptTypeOK
  <2>2. QED
    BY <1>12, <2>1 DEF FillManifest, AdaptTypeOK
<1>13. ASSUME NEW p \in Runs, Crash(p) PROVE AdaptTypeOK'
  <2>1. Idle \in Locals
    BY DEF Idle, Locals, NothingListed, Contents, Manifests
  <2>2. disturbed' \subseteq Disturbances
    BY <1>13 DEF Crash, AdaptTypeOK, Disturbances
  <2>3. QED
    BY <1>13, <2>1, <2>2 DEF Crash, AdaptTypeOK
<1>14. CASE UNCHANGED adaptVars
  BY <1>14 DEF adaptVars, AdaptTypeOK, Locals, Deciding, Writing, Disturbances, Contents
<1>15. QED
  BY <1>1, <1>2, <1>3, <1>4, <1>5, <1>6, <1>7, <1>8, <1>9, <1>10, <1>11, <1>12, <1>13, <1>14 DEF Next, RunStep


\* Every step keeps what the program counter determines.
LEMMA ControlStep ==
  ASSUME AdaptTypeOK, Control, [Next]_adaptVars PROVE Control'
<1>1. ASSUME NEW r \in Records, NEW v \in Versions \union {None}, Edit(r, v) PROVE Control'
  BY <1>1 DEF Edit, AdaptTypeOK, Locals, Contents, Control, NothingListed
<1>2. ASSUME NEW r \in Records, DeleteFile(r) PROVE Control'
  BY <1>2 DEF DeleteFile, AdaptTypeOK, Locals, Contents, Control, NothingListed
<1>3. ASSUME NEW p \in Runs, NEW dry \in BOOLEAN, StartRun(p, dry) PROVE Control'
  BY <1>3 DEF StartRun, Idle, AdaptTypeOK, Locals, Contents, Control, NothingListed
<1>4. ASSUME NEW p \in Runs, NEW r \in Records, Fingerprint(p, r) PROVE Control'
  BY <1>4 DEF Fingerprint, AdaptTypeOK, Locals, Contents, Control, NothingListed
<1>5. ASSUME NEW p \in Runs, NEW r \in Records, FingerprintRaises(p, r) PROVE Control'
  BY <1>5 DEF FingerprintRaises, DropSpec, AdaptTypeOK, Locals, Contents, Control, NothingListed
<1>6. ASSUME NEW p \in Runs, NEW r \in Records, OpenRecordFile(p, r) PROVE Control'
  BY <1>6 DEF OpenRecordFile, AdaptTypeOK, Locals, Contents, Control, NothingListed
<1>7. ASSUME NEW p \in Runs, ParseValid(p) PROVE Control'
  BY <1>7 DEF ParseValid, AdaptTypeOK, Locals, Contents, Control, NothingListed
<1>8. ASSUME NEW p \in Runs, ParseFails(p) PROVE Control'
  BY <1>8 DEF ParseFails, DropSpec, AdaptTypeOK, Locals, Contents, Control, NothingListed
<1>9. ASSUME NEW p \in Runs, DecisionsDone(p) PROVE Control'
  BY <1>9 DEF DecisionsDone, Idle, AdaptTypeOK, Locals, Contents, Control, NothingListed
<1>10. ASSUME NEW p \in Runs, FillRecordFile(p) PROVE Control'
  BY <1>10 DEF FillRecordFile, AdaptTypeOK, Locals, Contents, Control, NothingListed
<1>11. ASSUME NEW p \in Runs, OpenManifest(p) PROVE Control'
  BY <1>11 DEF OpenManifest, AdaptTypeOK, Locals, Contents, Control, NothingListed
<1>12. ASSUME NEW p \in Runs, FillManifest(p) PROVE Control'
  BY <1>12 DEF FillManifest, Idle, AdaptTypeOK, Locals, Contents, Control, NothingListed
<1>13. ASSUME NEW p \in Runs, Crash(p) PROVE Control'
  BY <1>13 DEF Crash, Idle, AdaptTypeOK, Locals, Contents, Control, NothingListed
<1>14. CASE UNCHANGED adaptVars
  BY <1>14 DEF adaptVars, AdaptTypeOK, Locals, Contents, Control, NothingListed
<1>15. QED
  BY <1>1, <1>2, <1>3, <1>4, <1>5, <1>6, <1>7, <1>8, <1>9, <1>10, <1>11, <1>12, <1>13, <1>14 DEF Next, RunStep


\* Every step keeps fingerprints beside the digests of their contents.
LEMMA OneVersionStep ==
  ASSUME AdaptTypeOK, Control, OneVersion, [Next]_adaptVars PROVE OneVersion'
<1>1. ASSUME NEW r \in Records, NEW v \in Versions \union {None}, Edit(r, v) PROVE OneVersion'
  BY <1>1 DEF Edit, AdaptTypeOK, Locals, OneVersion, Control, Listed
<1>2. ASSUME NEW r \in Records, DeleteFile(r) PROVE OneVersion'
  BY <1>2 DEF DeleteFile, AdaptTypeOK, Locals, OneVersion, Control, Listed
<1>3. ASSUME NEW p \in Runs, NEW dry \in BOOLEAN, StartRun(p, dry) PROVE OneVersion'
  <2>1. run' = [run EXCEPT ![p] = run'[p]] /\ run'[p].pc = "next" /\ Listed(run'[p].entries) = {}
    BY <1>3 DEF StartRun, AdaptTypeOK, Idle, NothingListed, Listed
  <2>2. QED
    BY <1>3, <2>1 DEF StartRun, OneVersion, AdaptTypeOK
<1>4. ASSUME NEW p \in Runs, NEW r \in Records, Fingerprint(p, r) PROVE OneVersion'
  BY <1>4 DEF Fingerprint, AdaptTypeOK, Locals, OneVersion, Control, Listed
<1>5. ASSUME NEW p \in Runs, NEW r \in Records, FingerprintRaises(p, r) PROVE OneVersion'
  BY <1>5 DEF FingerprintRaises, DropSpec, AdaptTypeOK, Locals, OneVersion, Control, Listed
<1>6. ASSUME NEW p \in Runs, NEW r \in Records, OpenRecordFile(p, r) PROVE OneVersion'
  BY <1>6 DEF OpenRecordFile, AdaptTypeOK, Locals, OneVersion, Control, Listed
<1>7. ASSUME NEW p \in Runs, ParseValid(p) PROVE OneVersion'
  <2> SUFFICES ASSUME "race" \notin disturbed'
               PROVE  OneVersion'
    BY DEF OneVersion
  <2>1. "race" \notin disturbed
    BY <1>7 DEF ParseValid
  <2>2. run[p].entries \in [Records -> Entry \union {None}]
    BY DEF AdaptTypeOK, Locals, Manifests
  <2>3. \A r \in Listed(run'[p].entries) : run'[p].entries[r].fp = run'[p].entries[r].digest
    BY <1>7, <2>1, <2>2 DEF ParseValid, OneVersion, Listed, AdaptTypeOK, Locals
  <2>4. \A q \in Runs : q # p => run'[q] = run[q]
    BY <1>7 DEF ParseValid, AdaptTypeOK
  <2>5. run'[p].pc = "next"
    BY <1>7 DEF ParseValid, AdaptTypeOK, Locals
  <2>6. UNCHANGED <<source, manifest>>
    BY <1>7 DEF ParseValid
  <2>7. ASSUME NEW q \in Runs
        PROVE  /\ \A r \in Listed(run'[q].entries) : run'[q].entries[r].fp = run'[q].entries[r].digest
               /\ run'[q].pc = "parse" => source'[run'[q].cur] = run'[q].fp
    <3>1. CASE q = p
      BY <2>3, <2>5, <3>1
    <3>2. CASE q # p
      BY <2>1, <2>4, <2>6, <3>2 DEF OneVersion
    <3>3. QED
      BY <3>1, <3>2
  <2>8. QED
    BY <2>1, <2>6, <2>7 DEF OneVersion, Listed
<1>8. ASSUME NEW p \in Runs, ParseFails(p) PROVE OneVersion'
  BY <1>8 DEF ParseFails, DropSpec, AdaptTypeOK, Locals, OneVersion, Control, Listed
<1>9. ASSUME NEW p \in Runs, DecisionsDone(p) PROVE OneVersion'
  <2>1. /\ run' = [run EXCEPT ![p] = run'[p]]
        /\ run'[p].pc # "parse"
        /\ Listed(run'[p].entries) = {} \/ run'[p].entries = run[p].entries
    BY <1>9 DEF DecisionsDone, AdaptTypeOK, Locals, Idle, NothingListed, Listed
  <2>2. QED
    BY <1>9, <2>1 DEF DecisionsDone, OneVersion, AdaptTypeOK
<1>10. ASSUME NEW p \in Runs, FillRecordFile(p) PROVE OneVersion'
  BY <1>10 DEF FillRecordFile, AdaptTypeOK, Locals, OneVersion, Control, Listed
<1>11. ASSUME NEW p \in Runs, OpenManifest(p) PROVE OneVersion'
  BY <1>11 DEF OpenManifest, AdaptTypeOK, Locals, OneVersion, Control, Listed
<1>12. ASSUME NEW p \in Runs, FillManifest(p) PROVE OneVersion'
  <2>1. run' = [run EXCEPT ![p] = run'[p]] /\ run'[p].pc = "idle" /\ Listed(run'[p].entries) = {}
    BY <1>12 DEF FillManifest, AdaptTypeOK, Idle, NothingListed, Listed
  <2>2. QED
    BY <1>12, <2>1 DEF FillManifest, OneVersion, AdaptTypeOK
<1>13. ASSUME NEW p \in Runs, Crash(p) PROVE OneVersion'
  <2>1. run' = [run EXCEPT ![p] = run'[p]] /\ run'[p].pc = "idle" /\ Listed(run'[p].entries) = {}
    BY <1>13 DEF Crash, AdaptTypeOK, Idle, NothingListed, Listed
  <2>2. QED
    BY <1>13, <2>1 DEF Crash, OneVersion, AdaptTypeOK
<1>14. CASE UNCHANGED adaptVars
  BY <1>14 DEF adaptVars, AdaptTypeOK, Locals, OneVersion, Control, Listed
<1>15. QED
  BY <1>1, <1>2, <1>3, <1>4, <1>5, <1>6, <1>7, <1>8, <1>9, <1>10, <1>11, <1>12, <1>13, <1>14 DEF Next, RunStep


\* Every step hands over what the manifest promises.
LEMMA UndisturbedStep ==
  ASSUME AdaptTypeOK, Control, OneVersion, Undisturbed, [Next]_adaptVars PROVE Undisturbed'
<1>1. ASSUME NEW r \in Records, NEW v \in Versions \union {None}, Edit(r, v) PROVE Undisturbed'
  BY <1>1 DEF Edit, AdaptTypeOK, Locals, Undisturbed, Owes, Active, Deciding, Writing
<1>2. ASSUME NEW r \in Records, DeleteFile(r) PROVE Undisturbed'
  <2> SUFFICES ASSUME disturbed' = {}
               PROVE  Undisturbed'
    BY DEF Undisturbed
  <2>1. disturbed = {} /\ (\A p \in Runs : ~Active(p)) /\ UNCHANGED <<run, manifest>>
    BY <1>2 DEF DeleteFile
  <2>2. manifest = None \/ Describes(manifest, files)
    BY <2>1 DEF Undisturbed, Active, Writing
  <2>3. manifest' = None \/ Describes(manifest', files')
    BY <1>2, <2>1, <2>2 DEF DeleteFile, Describes, AdaptTypeOK, Listed
  <2>4. QED
    BY <2>1, <2>3 DEF Undisturbed, Active, Deciding
<1>3. ASSUME NEW p \in Runs, NEW dry \in BOOLEAN, StartRun(p, dry) PROVE Undisturbed'
  <2> SUFFICES ASSUME disturbed' = {}
               PROVE  Undisturbed'
    BY DEF Undisturbed
  <2>1. disturbed = {} /\ (\A q \in Runs : ~Active(q)) /\ UNCHANGED <<files, manifest>>
    BY <1>3 DEF StartRun
  <2>2. /\ run' = [run EXCEPT ![p] = run'[p]] /\ run'[p].pc = "next"
        /\ run'[p].prev = PreviousOf(manifest)
        /\ \A r \in Records : run'[p].writes[r] = None /\ run'[p].entries[r] = None
    BY <1>3 DEF StartRun, AdaptTypeOK, Idle, NothingListed
  <2>3. \A q \in Runs : q # p => run'[q].pc = "idle"
    BY <2>1, <2>2 DEF Active, AdaptTypeOK
  <2>4. manifest = None \/ Describes(manifest, files)
    BY <2>1 DEF Undisturbed, Active, Writing
  <2>5. Owes(p)'
    BY <2>2 DEF Owes
  <2>6. \A q \in Runs : run'[q].pc \notin Writing
    BY <2>2, <2>3 DEF Writing
  <2>7. \A q \in Runs : run'[q].pc # "idle" => q = p
    BY <2>3
  <2>8. QED
    BY <2>1, <2>2, <2>4, <2>5, <2>6, <2>7 DEF Undisturbed, Active, Deciding
<1>4. ASSUME NEW p \in Runs, NEW r \in Records, Fingerprint(p, r) PROVE Undisturbed'
  BY <1>4 DEF Fingerprint, AdaptTypeOK, Locals, Undisturbed, Owes, Active, Deciding, Writing
<1>5. ASSUME NEW p \in Runs, NEW r \in Records, FingerprintRaises(p, r) PROVE Undisturbed'
  BY <1>5 DEF FingerprintRaises, DropSpec, AdaptTypeOK, Locals, Undisturbed, Owes, Active, Deciding, Writing
<1>6. ASSUME NEW p \in Runs, NEW r \in Records, OpenRecordFile(p, r) PROVE Undisturbed'
  BY <1>6 DEF OpenRecordFile, AdaptTypeOK, Locals, Undisturbed, Owes, Active, Deciding, Writing
<1>7. ASSUME NEW p \in Runs, ParseValid(p) PROVE Undisturbed'
  <2> SUFFICES ASSUME disturbed' = {}
               PROVE  Undisturbed'
    BY DEF Undisturbed
  <2> DEFINE rec == run[p].cur
  <2>1. disturbed = {} /\ UNCHANGED <<files, manifest>> /\ Active(p) /\ run[p].pc = "parse"
    BY <1>7 DEF ParseValid, Active
  <2>2. rec \in Records /\ source[rec] = run[p].fp /\ run[p].fp \in Versions
    BY <2>1 DEF Control, OneVersion
  <2>3. \A q \in Runs : q # p => run[q].pc = "idle" /\ run'[q] = run[q]
    BY <1>7, <2>1 DEF ParseValid, Undisturbed, Active, AdaptTypeOK
  <2>4. manifest = None \/ Describes(manifest, files)
    BY <2>1, <2>3 DEF Undisturbed, Writing
  <2>5. UnchangedSpec(p, rec) => files[rec] = run[p].fp
    <3> SUFFICES ASSUME UnchangedSpec(p, rec)
                 PROVE  files[rec] = run[p].fp
      OBVIOUS
    <3>1. PreviousOf(manifest)[rec] = run[p].fp /\ run[p].fp # None
      BY <2>1, <2>2, AdaptAssumption DEF UnchangedSpec, Undisturbed, Deciding
    <3>2. manifest # None /\ manifest[rec] # None /\ manifest[rec].fp = run[p].fp
      BY <2>2, <3>1 DEF PreviousOf
    <3>3. manifest[rec].digest = run[p].fp
      BY <2>1, <2>2, <3>2 DEF OneVersion, Listed
    <3>4. QED
      BY <2>2, <2>4, <3>2, <3>3 DEF Describes, Listed, UnchangedSpec
  <2>6. /\ run'[p].pc = "next" /\ run'[p].prev = run[p].prev
        /\ run'[p].entries = [run[p].entries EXCEPT ![rec] = [fp |-> run[p].fp, digest |-> source[rec]]]
        /\ run'[p].writes = [run[p].writes EXCEPT ![rec] = IF UnchangedSpec(p, rec) THEN None ELSE source[rec]]
    BY <1>7 DEF ParseValid, AdaptTypeOK, Locals
  <2>7. Owes(p)'
    <3> SUFFICES ASSUME NEW r \in Records
                 PROVE IF run'[p].writes[r] # None
                         THEN run'[p].entries[r] # None /\ run'[p].entries[r].digest = run'[p].writes[r]
                         ELSE run'[p].entries[r] # None => files'[r] = run'[p].entries[r].digest
      BY DEF Owes
    <3>1. run[p].entries \in [Records -> Entry \union {None}] /\ run[p].writes \in [Records -> Versions \union {None}]
      BY DEF AdaptTypeOK, Locals, Manifests, Contents
    <3>2. CASE r # rec
      <4>1. run'[p].writes[r] = run[p].writes[r] /\ run'[p].entries[r] = run[p].entries[r]
        BY <2>6, <3>1, <3>2
      <4>2. Owes(p)
        BY <2>1 DEF Undisturbed
      <4>3. QED
        BY <2>1, <4>1, <4>2 DEF Owes
    <3>3. CASE r = rec
      <4>1. /\ run'[p].entries[r] = [fp |-> run[p].fp, digest |-> source[rec]]
            /\ run'[p].writes[r] = IF UnchangedSpec(p, rec) THEN None ELSE source[rec]
        BY <2>6, <3>1, <3>3
      <4>2. [fp |-> run[p].fp, digest |-> source[rec]] # None
        BY <2>2, AdaptAssumption DEF ParseValid, Entry
      <4>3. QED
        BY <1>7, <2>1, <2>2, <2>5, <3>3, <4>1, <4>2 DEF ParseValid
    <3>4. QED
      BY <3>2, <3>3
  <2>8. QED
    BY <2>1, <2>3, <2>4, <2>6, <2>7 DEF Undisturbed, Active, Deciding, Writing
<1>8. ASSUME NEW p \in Runs, ParseFails(p) PROVE Undisturbed'
  BY <1>8 DEF ParseFails, DropSpec, AdaptTypeOK, Locals, Undisturbed, Owes, Active, Deciding, Writing
<1>9. ASSUME NEW p \in Runs, DecisionsDone(p) PROVE Undisturbed'
  BY <1>9 DEF DecisionsDone, Idle, AdaptTypeOK, Locals, Undisturbed, Owes, Active, Deciding, Writing
<1>10. ASSUME NEW p \in Runs, FillRecordFile(p) PROVE Undisturbed'
  <2> SUFFICES ASSUME disturbed' = {}
               PROVE  Undisturbed'
    BY DEF Undisturbed
  <2> DEFINE rec == run[p].cur
  <2>1. disturbed = {} /\ UNCHANGED manifest /\ Active(p) /\ rec \in Records
    BY <1>10 DEF FillRecordFile, Active, Control
  <2>2. \A q \in Runs : q # p => run[q].pc = "idle" /\ run'[q] = run[q]
    BY <1>10, <2>1 DEF FillRecordFile, Undisturbed, Active, AdaptTypeOK
  <2>3. /\ run'[p].pc = "write" /\ run'[p].entries = run[p].entries
        /\ run'[p].writes = [run[p].writes EXCEPT ![rec] = None]
        /\ files' = [files EXCEPT ![rec] = run[p].writes[rec]]
        /\ run[p].writes[rec] # None
    BY <1>10 DEF FillRecordFile, AdaptTypeOK, Locals, Control
  <2>4. Owes(p)
    BY <2>1 DEF Undisturbed
  <2>5. Owes(p)'
    BY <2>1, <2>3, <2>4 DEF Owes, AdaptTypeOK, Locals, Contents
  <2>6. QED
    BY <2>1, <2>2, <2>3, <2>5 DEF Undisturbed, Active, Deciding, Writing
<1>11. ASSUME NEW p \in Runs, OpenManifest(p) PROVE Undisturbed'
  BY <1>11 DEF OpenManifest, AdaptTypeOK, Locals, Undisturbed, Owes, Active, Deciding, Writing
<1>12. ASSUME NEW p \in Runs, FillManifest(p) PROVE Undisturbed'
  <2> SUFFICES ASSUME disturbed' = {}
               PROVE  Undisturbed'
    BY DEF Undisturbed
  <2>1. disturbed = {} /\ UNCHANGED files /\ Active(p) /\ run[p].writes = NothingListed
    BY <1>12 DEF FillManifest, Active, Control
  <2>2. \A q \in Runs : run'[q].pc = "idle"
    BY <1>12, <2>1 DEF FillManifest, Undisturbed, Active, AdaptTypeOK, Idle
  <2>3. Owes(p)
    BY <2>1 DEF Undisturbed
  <2>4. Describes(manifest', files')
    BY <1>12, <2>1, <2>3 DEF FillManifest, Owes, Describes, Listed, NothingListed
  <2>5. QED
    BY <2>2, <2>4 DEF Undisturbed, Active, Deciding
<1>13. ASSUME NEW p \in Runs, Crash(p) PROVE Undisturbed'
  BY <1>13 DEF Crash, Idle, AdaptTypeOK, Locals, Undisturbed, Owes, Active, Deciding, Writing
<1>14. CASE UNCHANGED adaptVars
  BY <1>14 DEF adaptVars, AdaptTypeOK, Locals, Undisturbed, Owes, Active, Deciding, Writing
<1>15. QED
  BY <1>1, <1>2, <1>3, <1>4, <1>5, <1>6, <1>7, <1>8, <1>9, <1>10, <1>11, <1>12, <1>13, <1>14 DEF Next, RunStep


\* Every step keeps the whole invariant.
LEMMA AdaptStep ==
  ASSUME AdaptInv, [Next]_adaptVars PROVE AdaptInv'
BY TypesStep, ControlStep, OneVersionStep, UndisturbedStep DEF AdaptInv

\* It holds at the start.
LEMMA AdaptStart ==
  ASSUME Init PROVE AdaptInv
<1>1. Idle \in Locals /\ NothingListed \in Contents
  BY DEF Idle, Locals, NothingListed, Contents, Manifests
<1>2. AdaptTypeOK
  BY <1>1, AdaptAssumption DEF Init, AdaptTypeOK, NothingListed, Disturbances
<1>3. OneVersion
  BY DEF Init, OneVersion, Idle, NothingListed, Listed
<1>4. Control /\ Undisturbed
  BY DEF Init, Control, Undisturbed, Idle, Active, Deciding
<1>5. QED
  BY <1>2, <1>3, <1>4 DEF AdaptInv

\* The strengthening is an invariant of any number of runs, crashes and edits.
THEOREM AdaptInvariant == Spec => []AdaptInv
BY AdaptStart, AdaptStep, PTL DEF Spec

\* The variables keep their types.
THEOREM AdaptTypes == Spec => []AdaptTypeOK
<1>1. AdaptInv => AdaptTypeOK
  BY DEF AdaptInv
<1>2. QED
  BY <1>1, AdaptInvariant, PTL

\* Undisturbed runs leave a manifest that describes the files.
THEOREM ManifestDescribesFiles == Spec => []QuietRunsDescribe
<1>1. AdaptInv => QuietRunsDescribe
  BY DEF AdaptInv, Undisturbed, QuietRunsDescribe
<1>2. QED
  BY <1>1, AdaptInvariant, PTL

\* Entries pair a fingerprint with the digest of the same version.
THEOREM EntriesAreOneVersion == Spec => []EntryIsOneVersion
<1>1. AdaptInv => EntryIsOneVersion
  BY DEF AdaptInv, OneVersion, EntryIsOneVersion
<1>2. QED
  BY <1>1, AdaptInvariant, PTL

\* A run that ends undisturbed leaves every listed record on disk.
THEOREM RunsRestore == Spec => RunRestores
<1>1. ASSUME AdaptInv, NEW p \in Runs, FillManifest(p), disturbed = {}
      PROVE  \A r \in Listed(manifest') : files'[r] = manifest'[r].digest
  <2>1. Owes(p) /\ run[p].writes = NothingListed
    BY <1>1 DEF AdaptInv, Undisturbed, Control, FillManifest, Active
  <2>2. QED
    BY <1>1, <2>1 DEF FillManifest, Owes, Listed, NothingListed
<1>2. AdaptInv /\ [Next]_adaptVars
        => [\A p \in Runs : (FillManifest(p) /\ disturbed = {})
              => \A r \in Listed(manifest') : files'[r] = manifest'[r].digest]_adaptVars
  BY <1>1
<1>3. QED
  BY <1>2, AdaptInvariant, PTL DEF Spec, RunRestores

=============================================================================
