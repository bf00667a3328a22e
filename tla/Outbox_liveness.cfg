CONSTANTS
  Digest = digest
  Notice = notice
  None = None
  Key = {digest, notice}
  MaxVersion = 2
  MaxAttempts = 1
  MaxFaults = 1
  MaxCrashes = 1
  HookTypes = {"delivered"}
  StartModes = {"live"}
  Switches <- NoSwitch
SPECIFICATION FairSpec
INVARIANT ScheduledWillFire
PROPERTIES
  MailIsRecorded
  PendingIsHandled
