SPECIFICATION Spec
CONSTANTS
  r1 = r1
  r2 = r2
  v1 = v1
  v2 = v2
  Records = {r1, r2}
  Fps = {v1, v2}
  Pipelines = {p1}
  MaxStamp = 2
  Manifests <- ThreeManifests
  GenIds = {g1}
  None = None
  SupersedesOf <- MutualSupersession
INVARIANT CompletedIsQueryable
