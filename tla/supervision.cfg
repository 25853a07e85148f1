SPECIFICATION FairSpec
CONSTANTS
  Pids = {p1, p2}
  Nobody = nobody
  FirstPid = p1
  FirstTarget = 2
  Supervisors = {s1, s2}
  Extension = 2
  Maximum = 6
  MaxKills = 2
  MaxMishaps = 1
INVARIANTS
  NoOverlap
  RetriesAreForDeaths
  VerdictIsEarned
PROPERTIES
  OnlyUnfinishedLaunched
  StoppedIsFinal
  Settles
