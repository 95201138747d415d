SPECIFICATION Spec
CONSTANTS
  TargetSteps = 3
  Timer = {t1, t2, t3, t4}
  MaxPending = 2
  LateEvents = TRUE
  None = None
SYMMETRY Symmetry
INVARIANTS
  FadeIsDriven
PROPERTIES
  OnlyLoadStrands
