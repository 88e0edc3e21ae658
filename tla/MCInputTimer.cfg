\* A SYN event in the round of an expired timer arms it again before it is read.
SPECIFICATION OpenSpec
CONSTANTS
  key = key
  shift = shift
  Key = {key}
  ModKey = {}
  Axis = {x}
  Position <- OneMove
  Screen = {}
  SockCap = 1
  Kbd = {}
  Mouse = {mouse}
  Throttled = TRUE
  MaxEvents = 2
  MaxUInput = 1
  MaxMotion = 1
  MsgsFromCore <- NoMessages
INVARIANT
  TimerIsReadable
CHECK_DEADLOCK FALSE
