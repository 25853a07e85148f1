\* configs/default.yaml's lifecycle in hundredths of a logit, the event model
\* for dynamics: twelve misses in plain view should end a track.
SPECIFICATION HSpec
CONSTANTS
  MaxObjects = 1
  Sensors = {"camera"}
  MaxMissedSteps = 12
  MaxOccludedSteps = 60
  ObservedExistenceDelta = 50
  ExistenceDecay = 35
  OcclusionExistenceDecay = 4
  RemovalExistenceLogit <- DefaultRemoval
  ObservedVisibilityDelta = 75
  MissedVisibilityDecay = 75
  DynamicsModel = "event"
  FreeModeLogit = 200
  ContactModeLogit = 400
  MeasuresVisibility = TRUE
  Measured = {300}
  BirthConfirmations = 1
  BirthConfirmationDistance = 1
  Positions = {0}
  MaxCandidates = 1
  LogitBound = 1200
  IdBound = 1
INVARIANT RetiredOnTime
