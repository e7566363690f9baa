CONSTANTS
  c1 = c1
  c2 = c2
  Conn = {c1, c2}
  User <- MCUser
  NoUser = NoUser
  Mails <- MCMails
  Scripts <- PipelinedScripts
  WholeSend = TRUE
  WholeRecv = TRUE
  Faults = {}
  MockMails <- NoMocks
  SentModulus = 4
SPECIFICATION FairSpec
INVARIANTS
  DeliveredAsSent
PROPERTIES
  RegisteredWithReply
  InputConsumed
  SentMailStored
  CloseReleases
CHECK_DEADLOCK FALSE
