SPECIFICATION BusySpec
CONSTANTS
  Kinds = {"arxiv", "oai", "sec", "sse", "cninfo", "samr", "openreview", "volumes", "html", "feed"}
  None = None
  MaxPosts <- FewPosts
  MaxDay <- FewDays
  Shelves <- FewShelves
  PageSize = 1
  MaxPages = 2
  MaxItems = 3
  VolumeLimit = 2
  YearsBack = 0
  Lookback = 2
  Overlap = 1
  Lag = 1
  DetailLimit = 2
  Attempts = 2
  Budget = 2
  Waits = {1, 2}
  MaxSurprises = 1
INVARIANTS
  TypeOK
  LossIsReported
  RetryAfterIsKept
PROPERTIES
  DeferredRunsCommitNothing
  EverythingIsRead
  DetailsRotate
