SPECIFICATION Spec
CONSTANTS
  a = a
  b = b
  None = None
  Items = {a, b}
  Contents = 2
  Profiles <- MediaPair
  Strengths = {30}
  FirstStatuses = {"NEW_ENTITY"}
  DailyLimit = 1
  MaxChanges <- OneAndOne
  MaxBackfills = 0
INVARIANT PendingIsWithheld
