CONSTANTS
  c1 = c1
  c2 = c2
  Conn = {c1, c2}
  User <- MCUser
  NoUser = NoUser
  Mails <- MCMails
  Scripts <- FaultScripts
  WholeSend = FALSE
  WholeRecv = FALSE
  Faults = {"calloc", "register", "send", "recv", "open", "write", "copy"}
  MockMails <- NoMocks
  SentModulus = 16
SPECIFICATION Spec
INVARIANTS
  IInv
  ArmedOutputHasSession
  ConnectionsCounted
SYMMETRY ConnSymmetry
CHECK_DEADLOCK FALSE
