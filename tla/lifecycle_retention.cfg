\* One slot under the event model's mode rewriting, over wide logit ranges.
SPECIFICATION HFairSpec
CONSTANTS
  MaxObjects = 1
  Sensors = {"camera"}
  MaxMissedSteps = 3
  MaxOccludedSteps = 5
  ObservedExistenceDelta = 2
  ExistenceDecay = 2
  OcclusionExistenceDecay = 1
  RemovalExistenceLogit <- MinusTwo
  ObservedVisibilityDelta = 1
  MissedVisibilityDecay = 0
  DynamicsModel = "event"
  FreeModeLogit = 2
  ContactModeLogit = 4
  MeasuresVisibility = TRUE
  Measured <- DoubtfulOrPlain
  BirthConfirmations = 1
  BirthConfirmationDistance = 1
  Positions = {0}
  MaxCandidates = 1
  LogitBound = 8
  IdBound = 1
PROPERTIES NoPrematureRetirement EventuallyForgotten
