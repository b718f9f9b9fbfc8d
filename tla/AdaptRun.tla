------------------------------ MODULE AdaptRun ------------------------------
(***************************************************************************)
(* adapt_corpus (application/adapter.py): derive record files and a        *)
(* manifest from the sources, rewriting only what changed.  The run takes  *)
(* no lock.  It fingerprints and parses each source in two reads, decides  *)
(* from the previous manifest and the existence of the file whether to     *)
(* write, then writes the files one by one and the manifest last, each by  *)
(* truncating and filling it.  Beside it the sources are edited, another   *)
(* adapt may run, and anything may be killed.                              *)
(***************************************************************************)
EXTENDS FiniteSets, Naturals

CONSTANTS Records,    \* record ids
          Versions,   \* contents of a source; also its fingerprint, and the
                      \* digest of the record derived from it
          Runs,       \* processes that run adapt
          MaxEdits,   \* bound on edits of sources and deletions of files
          None        \* no source, no file, no manifest, not listed

Entry == [fp : Versions, digest : Versions]

ASSUME AdaptAssumption ==
  /\ MaxEdits \in Nat
  /\ None \notin Versions \union Entry

VARIABLES
  source,     \* each record's source directory
  files,      \* each record's file in the output directory
  manifest,   \* manifest.json: absent or unreadable (None), or its entries
  run,        \* the locals of each adapt process
  edits,      \* edits so far
  disturbed   \* history: what has happened that adapt does not guard against

adaptVars == <<source, files, manifest, run, edits, disturbed>>

Torn == "torn"    \* a file that is truncated and not yet filled

Manifests == [Records -> Entry \union {None}]

\* What each record's source, or a fingerprint of it, may be.
Contents == [Records -> Versions \union {None}]

NothingListed == [r \in Records |-> None]

Disturbances == {"crash", "overlap", "race"}

Deciding == {"next", "parse"}

Writing == {"write", "fill", "publish"}

Idle == [pc |-> "idle", dry |-> FALSE, prev |-> NothingListed, todo |-> {},
         cur |-> None, fp |-> None, entries |-> NothingListed,
         writes |-> NothingListed]

Active(p) == run[p].pc # "idle"

Listed(m) == {r \in Records : m[r] # None}

Locals == [pc : {"idle"} \union Deciding \union Writing,
           dry : BOOLEAN,
           prev : Contents,
           todo : SUBSET Records,
           cur : Records \union {None},
           fp : Versions \union {None},
           entries : Manifests,
           writes : Contents]

AdaptTypeOK ==
  /\ source \in Contents
  /\ files \in [Records -> Versions \union {None, Torn}]
  /\ manifest \in Manifests \union {None}
  /\ run \in [Runs -> Locals]
  /\ edits \in 0..MaxEdits
  /\ disturbed \subseteq Disturbances

Init ==
  /\ source \in Contents
  /\ files = NothingListed
  /\ manifest = None
  /\ run = [p \in Runs |-> Idle]
  /\ edits = 0
  /\ disturbed = {}

-----------------------------------------------------------------------------
(* The surroundings: sources are edited, files are deleted by hand.        *)

\* An edit that falls between the two reads of the record is a race.
Edit(r, v) ==
  /\ edits < MaxEdits
  /\ source[r] # v
  /\ source' = [source EXCEPT ![r] = v]
  /\ edits' = edits + 1
  /\ disturbed' = IF \E p \in Runs : run[p].pc = "parse" /\ run[p].cur = r
                    THEN disturbed \union {"race"} ELSE disturbed
  /\ UNCHANGED <<files, manifest, run>>

DeleteFile(r) ==
  /\ edits < MaxEdits
  /\ files[r] # None
  /\ files' = [files EXCEPT ![r] = None]
  /\ edits' = edits + 1
  /\ disturbed' = IF \E p \in Runs : Active(p)
                    THEN disturbed \union {"race"} ELSE disturbed
  /\ UNCHANGED <<source, manifest, run>>

-----------------------------------------------------------------------------
(* One adapt run.                                                          *)

\* _load_previous_manifest: ids and fingerprints; nothing when unreadable.
PreviousOf(m) ==
  [r \in Records |-> IF m = None THEN None ELSE IF m[r] = None THEN None ELSE m[r].fp]

\* Discovery finds every source that exists.
StartRun(p, dry) ==
  /\ ~Active(p)
  /\ run' = [run EXCEPT ![p] = [Idle EXCEPT
                !.pc = "next", !.dry = dry, !.prev = PreviousOf(manifest),
                !.todo = {r \in Records : source[r] # None}]]
  /\ disturbed' = IF \E q \in Runs : Active(q)
                    THEN disturbed \union {"overlap"} ELSE disturbed
  /\ UNCHANGED <<source, files, manifest, edits>>

\* A spec whose adapter call raised, or whose record is invalid, is reported
\* failed and gets no entry.
DropSpec(p, r) ==
  run' = [run EXCEPT ![p].pc = "next", ![p].cur = None, ![p].fp = None,
                     ![p].todo = @ \ {r}]

Fingerprint(p, r) ==
  /\ run[p].pc = "next"
  /\ r \in run[p].todo
  /\ source[r] # None
  /\ run' = [run EXCEPT ![p].pc = "parse", ![p].cur = r, ![p].fp = source[r]]
  /\ UNCHANGED <<source, files, manifest, edits, disturbed>>

FingerprintRaises(p, r) ==
  /\ run[p].pc = "next"
  /\ r \in run[p].todo
  /\ DropSpec(p, r)
  /\ UNCHANGED <<source, files, manifest, edits, disturbed>>

\* Mutant: a listed record is taken for current whatever its fingerprint.
UnchangedByListing(p, r) ==
  /\ run[p].prev[r] # None
  /\ files[r] # None

\* Mutant: the manifest alone says that a record is current.
UnchangedByManifest(p, r) == run[p].prev[r] = run[p].fp

\* The record is current: same fingerprint as listed, and a file is there.
UnchangedSpec(p, r) ==
  /\ run[p].prev[r] = run[p].fp
  /\ files[r] # None

\* Mutant: the entry of a listed record keeps its old fingerprint.
ParseValidKeeping(p) ==
  LET r == run[p].cur
      v == source[r]
  IN /\ run[p].pc = "parse"
     /\ v # None
     /\ run' = [run EXCEPT
          ![p].pc = "next", ![p].cur = None, ![p].fp = None, ![p].todo = @ \ {r},
          ![p].entries[r] = [fp |-> IF run[p].prev[r] # None THEN run[p].prev[r]
                                    ELSE run[p].fp, digest |-> v],
          ![p].writes[r] = IF UnchangedSpec(p, r) THEN None ELSE v]
     /\ UNCHANGED <<source, files, manifest, edits, disturbed>>

ParseValid(p) ==
  LET r == run[p].cur
      v == source[r]
  IN /\ run[p].pc = "parse"
     /\ v # None
     /\ run' = [run EXCEPT
          ![p].pc = "next", ![p].cur = None, ![p].fp = None, ![p].todo = @ \ {r},
          ![p].entries[r] = [fp |-> run[p].fp, digest |-> v],
          ![p].writes[r] = IF UnchangedSpec(p, r) THEN None ELSE v]
     /\ UNCHANGED <<source, files, manifest, edits, disturbed>>

\* parse raised, or returned no record or an error violation.
ParseFails(p) ==
  /\ run[p].pc = "parse"
  /\ DropSpec(p, run[p].cur)
  /\ UNCHANGED <<source, files, manifest, edits, disturbed>>

DecisionsDone(p) ==
  /\ run[p].pc = "next"
  /\ run[p].todo = {}
  /\ run' = [run EXCEPT ![p] = IF run[p].dry THEN Idle
                                         ELSE [@ EXCEPT !.pc = "write", !.prev = NothingListed]]
  /\ UNCHANGED <<source, files, manifest, edits, disturbed>>

\* write_text opens the file for writing, which empties it, and then writes.
OpenRecordFile(p, r) ==
  /\ run[p].pc = "write"
  /\ run[p].writes[r] # None
  /\ files' = [files EXCEPT ![r] = Torn]
  /\ run' = [run EXCEPT ![p].pc = "fill", ![p].cur = r]
  /\ UNCHANGED <<source, manifest, edits, disturbed>>

\* Mutant: what was written stays in the list of writes.
FillRecordFileAgain(p) ==
  LET r == run[p].cur
  IN /\ run[p].pc = "fill"
     /\ files' = [files EXCEPT ![r] = run[p].writes[r]]
     /\ run' = [run EXCEPT ![p].pc = "write", ![p].cur = None]
     /\ UNCHANGED <<source, manifest, edits, disturbed>>

FillRecordFile(p) ==
  LET r == run[p].cur
  IN /\ run[p].pc = "fill"
     /\ files' = [files EXCEPT ![r] = run[p].writes[r]]
     /\ run' = [run EXCEPT ![p].pc = "write", ![p].cur = None, ![p].writes[r] = None]
     /\ UNCHANGED <<source, manifest, edits, disturbed>>

OpenManifest(p) ==
  /\ run[p].pc = "write"
  /\ run[p].writes = NothingListed
  /\ manifest' = None
  /\ run' = [run EXCEPT ![p].pc = "publish"]
  /\ UNCHANGED <<source, files, edits, disturbed>>

FillManifest(p) ==
  /\ run[p].pc = "publish"
  /\ manifest' = run[p].entries
  /\ run' = [run EXCEPT ![p] = Idle]
  /\ UNCHANGED <<source, files, edits, disturbed>>

\* A kill while deciding leaves nothing behind.
Crash(p) ==
  /\ Active(p)
  /\ run' = [run EXCEPT ![p] = Idle]
  /\ disturbed' = IF run[p].pc \in Writing THEN disturbed \union {"crash"} ELSE disturbed
  /\ UNCHANGED <<source, files, manifest, edits>>

RunStep(p) ==
  \/ \E r \in Records : Fingerprint(p, r) \/ FingerprintRaises(p, r) \/ OpenRecordFile(p, r)
  \/ ParseValid(p) \/ ParseFails(p) \/ DecisionsDone(p)
  \/ FillRecordFile(p) \/ OpenManifest(p) \/ FillManifest(p)

Next ==
  \/ \E r \in Records : (\E v \in Versions \union {None} : Edit(r, v)) \/ DeleteFile(r)
  \/ \E p \in Runs : (\E dry \in BOOLEAN : StartRun(p, dry)) \/ RunStep(p) \/ Crash(p)

Fairness == \A p \in Runs : WF_adaptVars(RunStep(p))

Spec == Init /\ [][Next]_adaptVars /\ Fairness

-----------------------------------------------------------------------------
(* What correctness means.                                                 *)

\* No listed record's file holds anything but what the manifest says; the
\* file may have been deleted.
Describes(m, fs) == \A r \in Listed(m) : fs[r] \in {m[r].digest, None}

\* The manifest describes the files whenever no run is writing, however the
\* sources were edited and files deleted between the runs, as long as no run
\* was killed while writing, no two overlapped, and no source changed between
\* its two reads.
QuietRunsDescribe ==
  (disturbed = {} /\ \A p \in Runs : run[p].pc \notin Writing)
    => (manifest = None \/ Describes(manifest, files))

\* A run that ends undisturbed leaves every listed record on disk as listed:
\* a deleted record file is restored, whatever its fingerprint.
RunRestores ==
  [][\A p \in Runs : (FillManifest(p) /\ disturbed = {})
       => \A r \in Listed(manifest') : files'[r] = manifest'[r].digest]_adaptVars

\* The fingerprint and the record digest of a listed record are of the same
\* version of its source, unless a source changed between its two reads.
EntryIsOneVersion ==
  ("race" \notin disturbed /\ manifest # None)
    => \A r \in Listed(manifest) : manifest[r].fp = manifest[r].digest

\* A run that started ends, or is killed.
RunsEnd == \A p \in Runs : Active(p) ~> ~Active(p)

\* Running adapt again repairs what a killed run left: a run that ends, with
\* none beside it and no source changed between its two reads, leaves every
\* listed record on disk as listed.
AloneRepairs ==
  [][\A p \in Runs : (FillManifest(p) /\ disturbed \subseteq {"crash"})
       => \A r \in Listed(manifest') : files'[r] = manifest'[r].digest]_adaptVars
=============================================================================
