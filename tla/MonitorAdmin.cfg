CONSTANTS
  c1 = c1
  c2 = c2
  Conn = {c1, c2}
  User <- MCUser
  NoUser = NoUser
  Mails <- MCMails
  Scripts <- AdminScripts
  WholeSend = FALSE
  WholeRecv = TRUE
  Faults = {}
  MockMails <- MCMocks
  SentModulus = 2
  Queries <- CountQueries
SPECIFICATION MonitoredSpec
PROPERTIES
  ToldWasTrue
  AdminByPassword
  TransformByAdmin
SYMMETRY ConnSymmetry
CHECK_DEADLOCK FALSE
