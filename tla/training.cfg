SPECIFICATION RunSpec
CONSTANTS
  Pids = {p1, p2}
  Nobody = nobody
  FirstPid = p1
  FirstTarget = 4
  Targets = {4, 6}
  EvalEvery = 2
  CheckpointEvery = 1
  Scores = {1, 2}
  MaxDeaths = 2
INVARIANTS
  PublishedIsValidated
  NoSelfPromotion
  CollapsedIsNotResumed
  RefusedOnlyAhead
PROPERTIES
  Contract
  IncumbentOnlyImproves
  ReferenceIsFixed
