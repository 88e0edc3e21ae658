\* Two throttled mice, plugged in and out, and a refetch: what they buffer is read and
\* what they move is sent in the end, once.
SPECIFICATION OpenFairSpec
CONSTANTS
  key = key
  shift = shift
  Key = {}
  ModKey = {}
  Axis = {x}
  Position <- MCPosition
  Screen = {}
  SockCap = 1
  Kbd = {}
  Mouse = {mouse, trackball}
  Throttled = TRUE
  MaxEvents = 2
  MaxUInput = 0
  MaxMotion = 2
  MsgsFromCore <- Changed
INVARIANTS
  MotionConserved
  AccumulatedWillBeSent
PROPERTY
  GrabbedDeviceIsServed
CHECK_DEADLOCK FALSE
