--------------------------- MODULE MCEvaluationRun ---------------------------
EXTENDS EvaluationRun, TLC

CONSTANTS r1, r2, p1, s1, s2, s3, s4

F(id, kind) ==
  [id |-> id, kind |-> kind, required |-> {}, prefixes |-> {}, proposed |-> FALSE,
   classified |-> FALSE]

\* An abstaining fixture whose failures are classified with the re-ingest
\* fixture, one that wants every proposed record cited before one that wants a
\* record, and a manifest's fixture.
SomeBatteries ==
  LET why == [F("why", "query") EXCEPT !.classified = TRUE]
      provisional == [F("provisional", "query") EXCEPT !.proposed = TRUE]
      chosen == [F("chosen", "query") EXCEPT !.required = {r1}, !.prefixes = {p1}]
  IN {[fixtures |-> <<why, F("again", "reingest")>>, manifest |-> FALSE],
      [fixtures |-> <<provisional, chosen>>, manifest |-> FALSE],
      [fixtures |-> <<chosen>>, manifest |-> TRUE]}

Result(state, facets, covered) == [state |-> state, facets |-> facets, covered |-> covered]

SomeResults ==
  {Result("answered", <<FALSE, TRUE>>, {1, 2}), Result("abstained", <<FALSE, TRUE>>, {2}),
   Result("answered", <<TRUE>>, {1})}

Meets(f, result, known) ==
  IF f.classified THEN result = Result("abstained", <<FALSE, TRUE>>, {2})
  ELSE /\ result.state = "answered"
       /\ f.proposed => known.unparsed = 0 /\ known.ids # {}

Same(id) == id

SomeRecordDirs ==
  {{[id |-> r1, proposed |-> TRUE]},
   {[id |-> r1, proposed |-> TRUE], [id |-> None, proposed |-> FALSE]}}

\* The record required with the path, without it, and not at all.
SomeStores == {r1 :> {p1}, r1 :> {}, r2 :> {p1}}

\* An edit that reaches the record, one that does not, one that loses it.
Probe(s) == CASE s = s1 -> s2 [] s = s3 -> s4 [] OTHER -> s

Fingerprint(s) == CASE s = s1 -> 1 [] s = s2 -> 2 [] s = s3 -> 3 [] OTHER -> None
=============================================================================
