SPECIFICATION Spec
CONSTANTS
  Elf = {a1, a2, a3, a4, a5}
  EvBase = 2
  Reserve = 2
  MaxBase = 12
  OwnCode = {1}
  None = None
SYMMETRY Symmetry
INVARIANTS
  TypeOK
  ListIsSequence
  StackRangesApart
PROPERTIES
  OnlyLateFailureOverlaps
CHECK_DEADLOCK FALSE
