SPECIFICATION FairSpec
CONSTANTS
  TargetSteps = 9
  Timer = {t1, t2, t3}
  MaxPending = 3
  LateEvents = FALSE
  None = None
INVARIANTS
  TypeOK
  FadeIsDriven
  NoLostTimer
  StepFitsAction
PROPERTIES
  OnlyLoadStrands
  Settles
