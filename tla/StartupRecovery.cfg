SPECIFICATION Spec
CONSTANTS
  Runs = {r1, r2}
  Processes = {p1, p2, p3}
  Pids = {pid1, pid2, pid3}
  NoPid = NoPid
  ReusePids = FALSE
  ContinueElsewhere = FALSE
SYMMETRY Symmetric
INVARIANTS
  MarkedOnce
  StartClosesAbandoned
PROPERTIES
  DrivenRunsAreSpared
CHECK_DEADLOCK FALSE
