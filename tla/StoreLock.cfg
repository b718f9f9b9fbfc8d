SPECIFICATION FairSpec
CONSTANTS
  Procs = {p1, p2, p3}
  MayCrash = TRUE
INVARIANTS
  TypeOK
  InsideMeansGuarded
PROPERTIES
  ImplementsRWLock
  NeverReset
  AttemptEnds
