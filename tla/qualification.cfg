\* Two processes; a campaign that may qualify at its second boundary, which is
\* also its cap; two splits of one population; one fault of any kind.
\* A campaign that ends without qualifying leaves nothing to be done.
CHECK_DEADLOCK FALSE
SPECIFICATION QFairSpec
CONSTANTS
  Processes = {p1, p2}
  NoOne = NoOne
  SplitCount = 2
  physical = physical
  Purposes = {physical}
  PopulationOrder <- Alone
  None = None
  MaxFaults = 1
  Interval = 1
  Minimum = 2
  Extension = 1
  Maximum = 2
INVARIANTS
  JournalFollowsCampaign
  ReviewedModelQualifies
  PopulationsDrawnOnce
  DrawnUnderDurableClaim
  CompletionHasResult
  PublicationNeverRefused
PROPERTIES InterruptionIsFinal SplitsSettle
