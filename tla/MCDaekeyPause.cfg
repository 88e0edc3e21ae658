\* Toggles, closures, refetches and keys in flight: the two processes agree on the
\* bindings, and a pause takes effect.  The key is none of the virtual keyboard's, whose
\* state no property of this run is about.
SPECIFICATION FairSpec
CONSTANTS
  key = key
  Key = {key}
  ModKey = {}
  Axis = {}
  Position <- MCPosition
  Screen = {one}
  SockCap = 2
  MaxUInput = 0
  Kbd = {kbd}
  Mouse = {}
  Throttled = FALSE
  MaxEvents = 2
  MaxMotion = 0
  MsgsFromCore <- NoMsgs
  Api = {api}
  Bindings <- PauseBindings
  ClosureMsgs <- NoMsgs
  CompUpdates = {"KeyboardsChanged", one}
  KeybindMsgs <- NoMsgs
  KbdKey = {}
  RelKey = {}
  AbsAxis = {}
  EmitOutcome = {TRUE}
  UInputMsgs <- NoMsgs
INVARIANTS
  OnlyBoundKeysSent
  PauseReachesInput
PROPERTIES
  ControlKeysStayBound
  PauseTakesEffect
  ImplementsPauseSwitch
  PausedStaysQuiet
CHECK_DEADLOCK FALSE
