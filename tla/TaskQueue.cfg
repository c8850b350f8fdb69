SPECIFICATION LiveSpec
CONSTANTS
  Recurring = {"expire_approvals"}
  Period = 1
  Interval <- MCInterval
  Key = {k1}
  NoKey = NoKey
  Delay = {0}
  MaxAttempts = 2
  BackoffCap = 1
  DreamInterval = 2
  MaxRequested = 2
  MaxLag = 1
INVARIANTS QueueSound
PROPERTIES RecurringNeverLost DreamsSpaced WorkProgresses
