SPECIFICATION FairSpec
CONSTANTS
  Kind = {"gmail", "calendar"}
  Event = {e1}
  Worker = {w1}
  None = None
  Pushes = FALSE
  MaxChanges = 1
  MaxConnects = 1
  WakeItems = 1
PROPERTIES PollIsIndependentOfPush
CHECK_DEADLOCK FALSE
