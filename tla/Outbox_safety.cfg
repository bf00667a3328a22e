CONSTANTS
  Digest = digest
  Notice = notice
  None = None
  Key = {digest, notice}
  MaxVersion = 2
  MaxAttempts = 2
  MaxFaults = 2
  MaxCrashes = 1
  HookTypes = {"delivered", "bounced"}
  StartModes = {"shadow"}
  Switches <- RollOut
SPECIFICATION Spec
INVARIANTS
  TypeOK
  AtMostOneMail
  PostedIsClaimed
  ReviewDraftsAreNotMailed
  ReceiptsMatchContent
PROPERTIES
  ClaimedStaysClaimed
  KeepsPromise
