\* Every order of met, missed, unretrieved and locked runs of two query
\* fixtures, every end of the re-ingest, two invocations into one directory or
\* two.
SPECIFICATION Spec
CONSTANTS
  r1 = r1
  r2 = r2
  p1 = p1
  s1 = s1
  s2 = s2
  s3 = s3
  s4 = s4
  None = None
  Batteries <- SomeBatteries
  Results <- SomeResults
  Satisfies <- Meets
  SafeId <- Same
  Records = {r1, r2}
  Paths = {p1}
  RecordDirs <- SomeRecordDirs
  Stores <- SomeStores
  Specs = {s1, s2, s3}
  Edited <- Probe
  Derived <- Fingerprint
  MaxRuns = 2
  MaxSessions = 2
INVARIANTS ReportIsTrue DeviationsKept
PROPERTIES EvaluationEnds
\* The last invocation is followed by none.
CHECK_DEADLOCK FALSE
