SPECIFICATION Spec
CONSTANTS
  Kind = {"gmail", "calendar"}
  Event = {e1}
  Worker = {w1, w2}
  None = None
  Pushes = TRUE
  MaxChanges = 2
  MaxConnects = 1
  WakeItems = 1
SYMMETRY Symmetric
INVARIANTS CursorSound ToldOnce
PROPERTIES CursorAdvances
CHECK_DEADLOCK FALSE
