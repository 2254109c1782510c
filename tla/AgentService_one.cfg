SPECIFICATION Spec
CONSTANTS
  Runs = {r1}
  CallIds = {c1, c2}
  CallKinds = {"read", "patch", "dynamic", "command"}
  SettingsChoices <- EverySetting
  MaxIterations = 2
  MaxToolCalls = 2
  MaxRepairAttempts = 1
  MaxCallsPerTurn = 2
  RollbackWhenLive = FALSE
INVARIANTS
  ConsentBeforeMutation
  ParkedIsAnswerable
PROPERTIES
  NoToolAfterStop
  ApprovalAnswersLoop
