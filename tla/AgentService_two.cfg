SPECIFICATION FairSpec
CONSTANTS
  Runs = {r1, r2}
  CallIds = {c1}
  CallKinds = {"patch", "command"}
  SettingsChoices <- HostOnly
  MaxIterations = 1
  MaxToolCalls = 2
  MaxRepairAttempts = 1
  MaxCallsPerTurn = 1
  RollbackWhenLive = FALSE
INVARIANTS
  ControllerIffLive
  RecordIsTrue
  NothingLeftBehind
PROPERTIES
  StopTerminates
  LoopSettles
