\* A keyboard and an unthrottled mouse, plugged in and out, refetched while keys are down.
SPECIFICATION OpenSpec
CONSTANTS
  key = key
  shift = shift
  Key = {key, shift}
  ModKey = {shift}
  Axis = {x}
  Position <- OneMove
  Screen = {}
  SockCap = 1
  Kbd = {kbd}
  Mouse = {mouse}
  Throttled = FALSE
  MaxEvents = 2
  MaxUInput = 0
  MaxMotion = 1
  MsgsFromCore <- BindOrChange
INVARIANTS
  InputTypeOK
  ModifiersArePhysical
  MotionConserved
CHECK_DEADLOCK FALSE
