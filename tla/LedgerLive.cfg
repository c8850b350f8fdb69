SPECIFICATION Spec
CONSTANTS
  mail = mail
  event = event
  draft = draft
  search = search
  recall = recall
  send = send
  Attempt = {draft, send, search}
  Impact <- MCImpact
  Policy <- MCPolicy
  Inline <- MCInline
  Recalling <- MCRecalling
  MaxPrograms = 1
  MaxTaskAttempts = 2
CHECK_DEADLOCK FALSE
INVARIANT SideEffectsAuthorized
PROPERTIES ApprovalSettles TurnEnds
