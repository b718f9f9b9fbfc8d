CONSTANTS
  Records = {r1}
  Versions = {v1, v2}
  Runs = {p1}
  MaxEdits = 2
  None = None
SPECIFICATION Spec
PROPERTIES AloneRepairs
