SPECIFICATION FairSpec
CONSTANTS
  s1 = s1
  s2 = s2
  s3 = s3
  None = None
  Source = {s1, s2, s3}
  place <- ThreePlaces
  NoCollector = {s3}
  Rotates = TRUE
  GroupBudget = 2
  SourceBudget = 1
  Cadence = 1
  Backoff = 1
  Period = 1
  MaxItems = 1
  MaxRetryAfter = 1
  MaxFaults = 1
  MaxCrashes = 1
  MaxManual = 1
  MaxEdits = 2
INVARIANT TypeOK
PROPERTIES
  TakesWholeBatches
  AttemptRespectsCooldown
  NobodyGoesTwice
  ReadyIsAttempted
