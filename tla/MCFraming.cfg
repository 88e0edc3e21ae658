\* Two senders and a socket that holds less than the longest message.
SPECIFICATION FrameFairSpec
CONSTANTS
  Sender = {event_loop, main}
  changed = changed
  bind = bind
  unbind = unbind
  Msg = {changed, bind, unbind}
  Size <- MCSize
  NoMsg = NoMsg
  ByteCap = 2
  MaxSends = 3
INVARIANTS
  FrameTypeOK
PROPERTIES
  ImplementsMailbox
  SendsReturn
CHECK_DEADLOCK FALSE
