\* A chord, a closure that taps under other modifiers, and a user who types meanwhile.
SPECIFICATION HeldSpec
CONSTANTS
  key = key
  shift = shift
  Key = {key, shift}
  ModKey = {shift}
  Axis = {}
  Position <- MCPosition
  Screen = {one}
  SockCap = 1
  MaxUInput = 0
  Kbd = {kbd}
  Mouse = {}
  Throttled = FALSE
  MaxEvents = 4
  MaxMotion = 0
  MsgsFromCore <- NoMsgs
  Api = {api}
  Bindings <- ChordBindings
  ClosureMsgs <- TapPlain
  CompUpdates = {}
  KeybindMsgs <- NoMsgs
  KbdKey = {key, shift}
  RelKey = {}
  AbsAxis = {}
  EmitOutcome = {TRUE}
  UInputMsgs <- NoMsgs
INVARIANTS
  TypeOK
  KeysFollowTheUser
CHECK_DEADLOCK FALSE
