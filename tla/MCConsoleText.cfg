SPECIFICATION Spec
CONSTANTS
  StrLen = 3
  LineNum = 2
  LineModulus = 8
  Color = {7, 2}
  TextColor = 7
INVARIANTS
  TypeOK
  DrawnAsWritten
PROPERTIES
  FollowsTail
  StaysScrolled
  RingInStep
