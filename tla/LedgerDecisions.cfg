SPECIFICATION Spec
CONSTANTS
  mail = mail
  event = event
  draft = draft
  search = search
  recall = recall
  send = send
  Attempt = {mail, event, recall}
  Impact <- MCImpact
  Policy <- MCPolicy
  Inline <- MCInline
  Recalling <- MCRecalling
  MaxPrograms = 2
  MaxTaskAttempts = 2
SYMMETRY MCSymmetry
CHECK_DEADLOCK FALSE
INVARIANTS TypeOK TablesAndLogAgree OneQuestion
PROPERTIES DecisionsStand
