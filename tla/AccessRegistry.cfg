SPECIFICATION Spec
CONSTANTS
  ana = ana
  beto = beto
  User = {ana, beto}
  Size = {1, 2}
  Room = 3
  Mocks = 1
  MaxMails = 3
  MaxTime = 3
  DayLength = 2
  FirstDay <- LeapDay
  DateArg <- DateArgs
SYMMETRY UserSymmetry
INVARIANTS
  ListsAgree
  ListingOfSender
  ListingOfDay
  OverrunNeedsFullDay
CHECK_DEADLOCK FALSE
