SPECIFICATION Spec
CONSTANTS
  e1 = e1
  e2 = e2
  l1 = l1
  l2 = l2
  Elfs = {e1, e2}
  Libs = {l1, l2}
  Needs <- MCNeeds
  Image = {i1, i2, i3, i4}
  MaxLibraries = 4
  CountModulus = 8
  None = None
SYMMETRY Symmetry
INVARIANTS
  TypeOK
  TableSound
  NoDanglingLink
  RefsExact
  LinkedAsNeeded
PROPERTIES
  HeldSlotStable
  KeepsPromise
