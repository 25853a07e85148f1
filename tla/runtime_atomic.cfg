\* One depth stream, calls of up to two timestamp groups: is a rejected call undone?
SPECIFICATION RSpec
CONSTANTS
  Horizons = {}
  SharesPrior = TRUE
  s1 = s1
  StreamOrder <- OneStream
  Rgbd = {s1}
  Malformed = {}
  Things = {ball}
  Nothing = Nothing
  MaxObjects = 1
  GlobalEvery = 1
  FailureThreshold = 1
  MaxGroups = 2
  MaxTime = 2
  MaxVersions = 4
  MaxTokens = 1
  MaxDynamics = 1
PROPERTY RejectsAtomically
