CONSTANTS
  Records = {r1}
  Versions = {v1, v2}
  Runs = {p1, p2}
  MaxEdits = 2
  None = None
SPECIFICATION Spec
INVARIANTS QuietRunsDescribe EntryIsOneVersion
PROPERTIES RunRestores RunsEnd
