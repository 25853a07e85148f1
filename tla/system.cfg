SPECIFICATION System
CONSTANTS
  Pids = {p1, p2}
  Nobody = nobody
  FirstPid = p1
  FirstTarget = 2
  Targets = {2, 4}
  Supervisors = {s1}
  Extension = 2
  Maximum = 4
  MaxKills = 1
  MaxMishaps = 1
  MaxDeaths = 1
  EvalEvery = 2
  CheckpointEvery = 1
  Scores = {1,2}
INVARIANTS
  VerdictIsBacked
PROPERTIES
  FirstLaunchLoads
  ComponentsHold
