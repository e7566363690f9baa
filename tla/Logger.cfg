SPECIFICATION FairSpec
CONSTANTS
  MinSize = 3
  Granularity = 3
  MaxSize = 8
  PrintMax = 2
  Lines = {1, 3}
  Numbers = 9
INVARIANTS
  RoomForTerminator
  PendingContinuesFile
  PendingIsAwaited
PROPERTIES
  ShortLinesAreWhole
  GarbledOnlyAtClose
  Drained
CHECK_DEADLOCK FALSE
