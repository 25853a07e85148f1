\* Two slots, one camera, three places in a row: identifiers over births, removals and
\* rebirths, and what counts as evidence for a birth.
SPECIFICATION HSpec
CONSTANTS
  MaxObjects = 2
  Sensors = {"camera"}
  MaxMissedSteps = 1
  MaxOccludedSteps = 1
  ObservedExistenceDelta = 0
  ExistenceDecay = 1
  OcclusionExistenceDecay = 1
  RemovalExistenceLogit = 0
  ObservedVisibilityDelta = 0
  MissedVisibilityDecay = 0
  DynamicsModel = "free_motion"
  FreeModeLogit = 2
  ContactModeLogit = 4
  MeasuresVisibility = FALSE
  Measured = {0}
  BirthConfirmations = 2
  BirthConfirmationDistance = 1
  Positions <- Line3
  MaxCandidates = 2
  LogitBound = 2
  IdBound = 3
INVARIANTS Identity EvidenceIsConsecutive
PROPERTIES IsRegistry
