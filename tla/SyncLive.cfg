SPECIFICATION FairSpec
CONSTANTS
  Kind = {"gmail", "calendar"}
  Event = {e1}
  Worker = {w1}
  None = None
  Pushes = TRUE
  MaxChanges = 2
  MaxConnects = 2
  WakeItems = 1
PROPERTIES PollCatchesUp
CHECK_DEADLOCK FALSE
