\* Two RGB streams: prepared propagations, resets, detaches, changed dynamics and
\* packets that raise half way through a group.
SPECIFICATION Spec
CONSTANTS
  Horizons = {1}
  SharesPrior = TRUE
  s1 = s1
  s2 = s2
  StreamOrder <- TwoStreams
  Rgbd = {}
  Malformed = {s2}
  Things = {ball, box}
  Nothing = Nothing
  MaxObjects = 1
  GlobalEvery = 1
  FailureThreshold = 0
  MaxGroups = 1
  MaxTime = 1
  MaxVersions = 4
  MaxTokens = 1
  MaxDynamics = 1
INVARIANTS HypothesesBelong ElapsedCountedOnce EvidenceIsCurrent
PROPERTIES IsRegistry BeliefNeverForks PriorIsPredicted
SYMMETRY ThingSymmetry
