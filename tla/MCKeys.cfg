SPECIFICATION FairSpec
CONSTANTS
  TargetSteps = 1
  Timer = {t1, t2}
  MaxPending = 1
  LateEvents = FALSE
  None = None
  up = up
  fast = fast
  Key <- MCKey
  Volume <- MCVolume
  FastKey = fast
  NoKey = NoKey
  TickModulus = 5
  RunPress = {1}
  TogglePress = {2}
  ReloadPress = {3}
INVARIANTS
  TicksAreOwn
  PressAndReleaseGoTogether
  ConsumesForConsole
PROPERTIES
  RestsUnlessHeld
