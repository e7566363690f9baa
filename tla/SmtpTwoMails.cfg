CONSTANTS
  c1 = c1
  Conn = {c1}
  User <- MCUser
  NoUser = NoUser
  Mails <- MCMails
  Scripts <- TwoMailScripts
  WholeSend = TRUE
  WholeRecv = TRUE
  Faults = {}
  MockMails <- NoMocks
  SentModulus = 4
SPECIFICATION Spec
INVARIANT CopyIsOfThisMail
CHECK_DEADLOCK FALSE
