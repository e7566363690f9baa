CONSTANTS
  c1 = c1
  Conn = {c1}
  User <- MCUser
  NoUser = NoUser
  Mails <- MCMails
  Scripts <- FaultScripts
  WholeSend = FALSE
  WholeRecv = FALSE
  Faults = {}
  MockMails <- NoMocks
  SentModulus = 4
SPECIFICATION FairSpec
PROPERTY SentMailStored
CHECK_DEADLOCK FALSE
