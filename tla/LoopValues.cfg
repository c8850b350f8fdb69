SPECIFICATION Spec
CONSTANTS
  Mode = "finding"
  StablePrefix = 1
  LiveRounds = 2
  MaxCallsSoft = 4
  MaxCallsHard = 4
  RejectionLimit = 1
  Source = {s1, s2}
  Error = {e1, e2}
  None = None
SYMMETRY MCSymmetry
INVARIANT OnlyLatestValues
CHECK_DEADLOCK FALSE
