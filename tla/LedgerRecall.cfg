SPECIFICATION Spec
CONSTANTS
  mail = mail
  event = event
  draft = draft
  search = search
  recall = recall
  send = send
  Attempt = {mail, recall}
  Impact <- MCImpact
  Policy <- MCPolicy
  Inline <- MCInline
  Recalling <- MCRecalling
  MaxPrograms = 1
  MaxTaskAttempts = 2
CHECK_DEADLOCK FALSE
INVARIANTS ProgramsCommitWhole
