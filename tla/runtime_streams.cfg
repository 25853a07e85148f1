\* A depth and a colour stream whose packets are all well formed.
SPECIFICATION Spec
CONSTANTS
  Horizons = {}
  SharesPrior = TRUE
  s1 = s1
  s2 = s2
  StreamOrder <- TwoStreams
  Rgbd = {s1}
  Malformed = {}
  Things = {ball, box}
  Nothing = Nothing
  MaxObjects = 1
  GlobalEvery = 3
  FailureThreshold = 2
  MaxGroups = 2
  MaxTime = 1
  MaxVersions = 5
  MaxTokens = 0
  MaxDynamics = 0
INVARIANT EvidenceBelongs
PROPERTY Cadence
SYMMETRY ThingSymmetry
