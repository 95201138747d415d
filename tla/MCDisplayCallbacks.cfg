SPECIFICATION Spec
CONSTANTS
  MAX_DISPCBK = 3
  Callback = {f, g}
  Target <- MCTarget
  Update <- MCUpdate
  MaxDepth = 2
  None = None
SYMMETRY Symmetry
INVARIANTS
  TableAsPromised
  NoneMissed
  GetsItsShare
