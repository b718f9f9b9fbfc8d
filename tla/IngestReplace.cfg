SPECIFICATION Spec
CONSTANTS
  r1 = r1
  r2 = r2
  v1 = v1
  v2 = v2
  Records = {r1, r2}
  Fps = {v1, v2}
  Pipelines = {p1}
  MaxStamp = 1
  Manifests <- TwoManifests
  GenIds = {g1, g2}
  None = None
  SupersedesOf <- MutualSupersession
SYMMETRY Symmetry
PROPERTY OnlyCompleteReplaces
