SPECIFICATION Spec
CONSTANTS
  p1 = p1
  p2 = p2
  p3 = p3
  p4 = p4
  Program <- MCProgram
  Found <- MCFound
  MaxHandles = 6
  Missing = Missing
  Empty = Empty
INVARIANTS
  FileSound
  MarksAgree
  StartsOnce
