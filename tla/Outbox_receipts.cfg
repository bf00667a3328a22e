CONSTANTS
  Digest = digest
  Notice = notice
  None = None
  Key = {digest, notice}
  MaxVersion = 1
  MaxAttempts = 1
  MaxFaults = 0
  MaxCrashes = 0
  HookTypes = {"delivered"}
  StartModes = {"live"}
  Switches <- NoSwitch
SPECIFICATION Spec
INVARIANT RecordedReceiptsShow
