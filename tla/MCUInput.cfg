\* Everything the threads and ordinary closures send, emits that may fail.
SPECIFICATION UInputSpec
CONSTANTS
  key = key
  button = button
  shift = shift
  ctrl = ctrl
  x = x
  y = y
  Key = {key, button, shift, ctrl}
  ModKey = {shift, ctrl}
  Axis = {x, y}
  Position <- MCPosition
  Screen = {one, two}
  SockCap = 1
  MaxUInput = 0
  KbdKey = {key, shift, ctrl}
  RelKey = {button}
  AbsAxis = {x, y}
  EmitOutcome = {TRUE, FALSE}
  UInputMsgs <- OrdinaryMsgs
INVARIANTS
  UInputTypeOK
  ModifiersTracked
  ExactTap
PROPERTY
  TapLeavesTheRest
