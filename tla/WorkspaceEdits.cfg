SPECIFICATION Spec
CONSTANTS
  Paths = {a, b}
  a = a
  b = b
  e1 = e1
  e2 = e2
  Edits = {e1, e2}
  Patches <- TidyPatches
  SyncTargets <- StagedTargets
  InitialFiles <- OneFile
  Faults = {"write", "undo", "crash", "clear", "compensate"}
  UserEditsAt = {"idle"}
  MaxEdits = 1
  MaxCalls = 2
  MaxDamages = 1
INVARIANTS
  Recoverable
PROPERTIES
  AllOrNothing
  KeepsPromise
CHECK_DEADLOCK FALSE
