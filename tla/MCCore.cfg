\* Two Api instances, every action and an unbound keybind.
SPECIFICATION CoreSpec
CONSTANTS
  run = run
  pause = pause
  start = start
  stop = stop
  exit = exit
  stray = stray
  Key = {run, pause, start, stop, exit, stray}
  ModKey = {}
  Axis = {}
  Position <- NoPosition
  Screen = {one}
  SockCap = 1
  MaxUInput = 0
  Api = {api1, api2}
  Bindings <- MCBindings
  ClosureMsgs <- MCClosureMsgs
  CompUpdates = {"KeyboardsChanged", "PointersChanged", one}
  KeybindMsgs <- MCKeybindMsgs
INVARIANTS
  CoreTypeOK
  ApisConserved
CHECK_DEADLOCK FALSE
