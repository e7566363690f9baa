CONSTANTS
  c1 = c1
  Conn = {c1}
  User <- MCUser
  NoUser = NoUser
  Mails <- MCMails
  Scripts <- DialogueScripts
  WholeSend = FALSE
  WholeRecv = FALSE
  Faults = {}
  MockMails <- MCMocks
  SentModulus = 2
SPECIFICATION Spec
INVARIANTS
  AbortNeedsWriteError
  InterestMatchesState
  OneReplyPending
  NothingLeftBehind
  EnvelopeComplete
PROPERTIES
  TakesTurns
CHECK_DEADLOCK FALSE
