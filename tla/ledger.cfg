\* Two processes that call the ledger with any permit, honest or forged.
SPECIFICATION Spec
CONSTANTS
  Processes = {p1, p2}
  NoOne = NoOne
  SplitCount = 2
  Purposes = {physical}
  None = None
  MaxFaults = 2
INVARIANTS AcknowledgedSurvives AlwaysLoads
PROPERTIES DurablyOnce
