SPECIFICATION FairSpec
CONSTANTS
  a = a
  b = b
  None = None
  Items = {a, b}
  Contents = 2
  Profiles <- CompanyAndRegulator
  Strengths = {30}
  FirstStatuses = {"NEW_ENTITY"}
  DailyLimit = 1
  MaxChanges <- TwoAndNone
  MaxBackfills = 0
PROPERTY OutageEnds
