SPECIFICATION Spec
CONSTANTS
  Byte = {7, 8, 9}
  Limit = 4
INVARIANTS
  IInv
PROPERTY
  ImplementsFifo
