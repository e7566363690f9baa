SPECIFICATION FairSpec
CONSTANTS
  ItemsMax = 5
  FdLimit = 6
  Passive = {0}
  Udp = {1}
  MaxRcpts = 1
  InitialItems = 5
INVARIANTS
  TableConsistent
  RegisteredIsOpen
  ArmedIsCurrent
  LogClosedFirst
PROPERTIES
  DeafOnlyWhenExhausted
  EveryReadyServed
  SigtermStops
CHECK_DEADLOCK FALSE
