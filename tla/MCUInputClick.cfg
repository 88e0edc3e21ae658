\* An Exact click does not change the modifiers.
SPECIFICATION UInputSpec
CONSTANTS
  key = key
  button = button
  shift = shift
  ctrl = ctrl
  x = x
  y = y
  Key = {key, button, shift, ctrl}
  ModKey = {shift, ctrl}
  Axis = {x, y}
  Position <- MCPosition
  Screen = {one, two}
  SockCap = 1
  MaxUInput = 0
  KbdKey = {key, shift, ctrl}
  RelKey = {button}
  AbsAxis = {x, y}
  EmitOutcome = {TRUE}
  UInputMsgs <- OrdinaryMsgs
INVARIANT
  ExactClick
