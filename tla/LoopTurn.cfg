SPECIFICATION Spec
CONSTANTS
  Mode = "message"
  StablePrefix = 1
  LiveRounds = 2
  MaxCallsSoft = 2
  MaxCallsHard = 4
  RejectionLimit = 1
  Source = {s1, s2}
  Error = {e1, e2}
  None = None
CHECK_DEADLOCK FALSE
INVARIANTS TypeOK NothingPendingWhileAsking
PROPERTIES ContextWellFormed LatestRoundKept Terminates
