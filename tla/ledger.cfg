SPECIFICATION FairSpec
CONSTANTS
  a = a
  b = b
  None = None
  Items = {a, b}
  Contents = 2
  Profiles <- PressPairs
  Strengths = {30}
  FirstStatuses = {"NEW_ENTITY"}
  DailyLimit = 1
  MaxChanges <- TwoAndOne
  MaxBackfills = 1
INVARIANTS
  TypeOK
  ArchiveStaysSilent
  UnconfirmedStaysPrivate
  RootSurvives
  OwnCardIsEmbedded
PROPERTIES
  VerificationNeverFalls
  PendingIsRecovered
  CardIsListed
