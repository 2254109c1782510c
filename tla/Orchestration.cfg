SPECIFICATION FairSpec
CONSTANTS
  Runs = {r1}
  OldRun = OldRun
  Ids = {n1, n2, n3}
  MaxReviews = 1
  MaxTouched = 1
  HumanChoices <- AllChoices
INVARIANTS
  DependenciesFirst
  StoreMirrorsScheduler
  NoOrphanNodes
PROPERTIES
  EndedPlanIsSettled
  RunsSettle
CHECK_DEADLOCK FALSE
