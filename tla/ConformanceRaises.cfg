SPECIFICATION Spec
CONSTANTS
  s1 = s1
  s2 = s2
  f1 = f1
  f2 = f2
  Sources = {s1, s2}
  Files = {f1, f2}
  Contributing <- OneFileEach
  Required <- FirstFileRequired
  Fingerprints = {g1, g2}
  Cases = 2
  None = None
INVARIANT NeverRaises
\* The engine stops when it has reported or raised.
CHECK_DEADLOCK FALSE
