SPECIFICATION LiveSpec
CONSTANTS
  m1 = m1  m2 = m2  m3 = m3  c1 = c1  c2 = c2  c3 = c3  h1 = h1
  o1 = o1  o2 = o2  o3 = o3
  mail = mail  undo = undo  event = event  host = host  pr = pr
  run = run  memory = memory
  NoAttempt = NoAttempt
  NoWrite = NoWrite
  Attempt = {c1, c2}
  Write = {event}
  WriteOf <- MCWriteOf
  Kind <- MCKind
  Target <- MCTarget
  Digest <- MCDigest
  MaxTaskAttempts = 2
CHECK_DEADLOCK FALSE
PROPERTIES WritesSettle ImplementsLogicalWrite
