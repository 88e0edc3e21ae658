---------------------------- MODULE DaekeyProofs ----------------------------
(***************************************************************************)
(* The whole program, for every configuration, every set of devices and    *)
(* every size of the sockets.  The core and the input thread agree on the  *)
(* bindings; pauses and keybinds implement PauseSwitch; every part's state *)
(* and every channel is of its type; what the parts promise on their own   *)
(* they keep in the whole; the keys of one keyboard arrive as the user     *)
(* holds them.                                                             *)
(***************************************************************************)
EXTENDS HeldKeys, CoreProofs, InputManagerProofs, UInputProofs, FunctionTheorems

(* The bindings the core may send. *)
Sendable == {DOMAIN Bindings, ControlBindings}

(* Reading s, with c in force, leads to b in force: b comes from the last      *)
(* change of s, or is c if s has none. *)
LeadsTo(s, c, b) ==
  \/ \E i \in DOMAIN s :
       /\ IsChange(s[i]) /\ b = s[i].bindings
       /\ \A j \in DOMAIN s : j > i => ~IsChange(s[j])
  \/ b = c /\ \A i \in DOMAIN s : ~IsChange(s[i])

(* Bindings in force were sent by the core, so were those on their way, and   *)
(* the keybinds on their way to the core come from bindings that were in      *)
(* force.                                                                     *)
BindingsInv ==
  /\ toInput \in Seq(MsgToInput)
  /\ toCore \in Seq(Keybind)
  /\ closures_unbound \in BOOLEAN
  /\ bindings \in Sendable \cup {{}}
  /\ \A i \in DOMAIN toInput : IsChange(toInput[i]) => toInput[i].bindings \in Sendable
  /\ OnlyBoundKeysSent
  /\ LeadsTo(toInput, bindings, BindingsFor(closures_unbound))
  /\ devs \subseteq Device
  /\ "socket" \in ready => toInput # <<>>

-----------------------------------------------------------------------------
(* Sequences. *)

LEMMA Appended ==
  ASSUME NEW S, NEW s \in Seq(S), NEW e \in S
  PROVE  /\ Append(s, e) \in Seq(S)
         /\ DOMAIN s = 1..Len(s) /\ Len(s) \in Nat
         /\ DOMAIN Append(s, e) = 1..(Len(s) + 1)
         /\ \A i \in 1..Len(s) : Append(s, e)[i] = s[i]
         /\ Append(s, e)[Len(s) + 1] = e
BY AppendProperties

LEMMA TailTaken ==
  ASSUME NEW S, NEW s \in Seq(S), s # <<>>
  PROVE  /\ Tail(s) \in Seq(S) /\ Head(s) \in S /\ Head(s) = s[1]
         /\ DOMAIN s = 1..Len(s) /\ Len(s) \in Nat \ {0}
         /\ DOMAIN Tail(s) = 1..(Len(s) - 1)
         /\ \A i \in 1..(Len(s) - 1) : Tail(s)[i] = s[i + 1]
BY HeadTailProperties

(* What the core sends is of the type of its messages. *)
LEMMA SendableIsTyped ==
  /\ \A b \in Sendable : b \subseteq DOMAIN Bindings /\ ChangeBindings(b) \in MsgToInput
  /\ \A c \in BOOLEAN : BindingsFor(c) \in Sendable
<1>1. DOMAIN Bindings \subseteq Keybind
  BY CoreAssumption
<1>2. \A b \in Sendable : b \subseteq DOMAIN Bindings
  BY DEF Sendable, ControlBindings
<1>3. \A b \in SUBSET Keybind : ChangeBindings(b) \in MsgToInput
  BY DEF ChangeBindings, MsgToInput
<1>4. \A c : BindingsFor(c) \in Sendable
  BY DEF BindingsFor, Sendable
<1> QED BY <1>1, <1>2, <1>3, <1>4

LEMMA LeadsToAppended ==
  ASSUME NEW s \in Seq(MsgToInput), NEW msg \in MsgToInput, NEW c, NEW b
  PROVE  /\ IsChange(msg) => LeadsTo(Append(s, msg), c, msg.bindings)
         /\ ~IsChange(msg) /\ LeadsTo(s, c, b) => LeadsTo(Append(s, msg), c, b)
<1> DEFINE t == Append(s, msg)
<1>0. /\ DOMAIN s = 1..Len(s) /\ Len(s) \in Nat
      /\ DOMAIN t = 1..(Len(s) + 1)
      /\ \A i \in 1..Len(s) : t[i] = s[i]
      /\ t[Len(s) + 1] = msg
  BY Appended
<1> HIDE DEF t
<1>1. ASSUME IsChange(msg) PROVE LeadsTo(t, c, msg.bindings)
  BY <1>0, <1>1 DEF LeadsTo
<1>2. ASSUME ~IsChange(msg), LeadsTo(s, c, b) PROVE LeadsTo(t, c, b)
  <2>1. CASE b = c /\ \A i \in DOMAIN s : ~IsChange(s[i])
    BY <1>0, <1>2, <2>1 DEF LeadsTo
  <2>2. ASSUME NEW i \in DOMAIN s, IsChange(s[i]), b = s[i].bindings,
               \A j \in DOMAIN s : j > i => ~IsChange(s[j])
        PROVE  LeadsTo(t, c, b)
    BY <1>0, <1>2, <2>2 DEF LeadsTo
  <2> QED BY <1>2, <2>1, <2>2 DEF LeadsTo
<1> QED BY <1>1, <1>2 DEF t

LEMMA LeadsToTail ==
  ASSUME NEW s \in Seq(MsgToInput), s # <<>>, NEW c, NEW b, LeadsTo(s, c, b)
  PROVE  LeadsTo(Tail(s), IF IsChange(Head(s)) THEN Head(s).bindings ELSE c, b)
<1> DEFINE t == Tail(s)
           d == IF IsChange(Head(s)) THEN Head(s).bindings ELSE c
<1>0. /\ DOMAIN s = 1..Len(s) /\ Len(s) \in Nat \ {0}
      /\ Head(s) = s[1] /\ DOMAIN t = 1..(Len(s) - 1)
      /\ \A i \in 1..(Len(s) - 1) : t[i] = s[i + 1]
  BY TailTaken
<1>1. CASE b = c /\ \A i \in DOMAIN s : ~IsChange(s[i])
  <2>1. b = d /\ \A i \in DOMAIN t : ~IsChange(t[i])
    BY <1>0, <1>1
  <2> QED BY <2>1 DEF LeadsTo
<1>2. ASSUME NEW i \in DOMAIN s, IsChange(s[i]), b = s[i].bindings,
             \A j \in DOMAIN s : j > i => ~IsChange(s[j])
      PROVE  LeadsTo(t, d, b)
  <2>1. CASE i = 1
    <3>1. b = d /\ \A j \in DOMAIN t : ~IsChange(t[j])
      BY <1>0, <1>2, <2>1
    <3> QED BY <3>1 DEF LeadsTo
  <2>2. CASE i # 1
    <3>1. /\ i - 1 \in DOMAIN t /\ t[i - 1] = s[i]
          /\ \A j \in DOMAIN t : j > i - 1 => ~IsChange(t[j])
      BY <1>0, <1>2, <2>2
    <3> QED BY <1>2, <3>1 DEF LeadsTo
  <2> QED BY <2>1, <2>2
<1> QED BY <1>1, <1>2 DEF LeadsTo

-----------------------------------------------------------------------------
LEMMA BindingsInvInit == Init => BindingsInv
<1> SUFFICES ASSUME Init PROVE BindingsInv
  OBVIOUS
<1> DEFINE msg == ChangeBindings(DOMAIN Bindings)
<1>1. /\ toInput = <<msg>> /\ toCore = <<>>
      /\ closures_unbound = FALSE /\ bindings = {} /\ devs = {} /\ ready = {}
  BY DEF Init, ChannelsInit, CoreInit, InputInit
<1>2. /\ msg \in MsgToInput /\ IsChange(msg) /\ msg.bindings = DOMAIN Bindings
  BY SendableIsTyped DEF Sendable, ChangeBindings, IsChange
<1>3. BindingsFor(closures_unbound) = DOMAIN Bindings
  BY <1>1 DEF BindingsFor
<1> HIDE DEF msg
<1>4. /\ toInput \in Seq(MsgToInput)
      /\ DOMAIN toInput = {1} /\ toInput[1] = msg
  BY <1>1, <1>2
<1>5. LeadsTo(toInput, bindings, BindingsFor(closures_unbound))
  BY <1>2, <1>3, <1>4 DEF LeadsTo
<1>6. toCore \in Seq(Keybind) /\ OnlyBoundKeysSent
  BY <1>1 DEF OnlyBoundKeysSent
<1>7. \A i \in DOMAIN toInput : IsChange(toInput[i]) => toInput[i].bindings \in Sendable
  BY <1>2, <1>4 DEF Sendable
<1>8. bindings \in Sendable \cup {{}}
  BY <1>1
<1> QED BY <1>1, <1>4, <1>5, <1>6, <1>7, <1>8 DEF BindingsInv

(* A keybind sent to the core is one of the bindings in force. *)
LEMMA KeySent ==
  ASSUME BindingsInv, NEW b \in Keybind, b \in bindings,
         toCore' = Append(toCore, b),
         UNCHANGED <<toInput, bindings, closures_unbound, devs, ready>>
  PROVE  BindingsInv'
<1>1. b \in DOMAIN Bindings
  BY SendableIsTyped DEF BindingsInv
<1>2. OnlyBoundKeysSent'
  BY <1>1, Appended DEF BindingsInv, OnlyBoundKeysSent
<1>3. toCore' \in Seq(Keybind)
  BY Appended DEF BindingsInv
<1> QED BY <1>2, <1>3 DEF BindingsInv

(* Reading from the input thread, whatever becomes of the keybind, leaves the *)
(* other keybinds on their way. *)
LEMMA KeyTaken ==
  ASSUME BindingsInv, Receive
  PROVE  OnlyBoundKeysSent' /\ toCore' \in Seq(Keybind)
BY TailTaken DEF BindingsInv, OnlyBoundKeysSent, Receive

(* A message that follows the others on its way to the input thread. *)
LEMMA MessageSent ==
  ASSUME BindingsInv, NEW msg \in MsgToInput, toInput' = Append(toInput, msg),
         OnlyBoundKeysSent' /\ toCore' \in Seq(Keybind), closures_unbound' \in BOOLEAN,
         UNCHANGED <<bindings, devs, ready>>,
         IF IsChange(msg) THEN msg.bindings = BindingsFor(closures_unbound')
                          ELSE UNCHANGED closures_unbound
  PROVE  BindingsInv'
<1>0. /\ toInput' \in Seq(MsgToInput) /\ toInput' # <<>>
      /\ DOMAIN toInput = 1..Len(toInput) /\ Len(toInput) \in Nat
      /\ DOMAIN toInput' = 1..(Len(toInput) + 1)
      /\ \A i \in 1..Len(toInput) : toInput'[i] = toInput[i]
      /\ toInput'[Len(toInput) + 1] = msg
  BY Appended DEF BindingsInv
<1>1. BindingsFor(closures_unbound') \in Sendable
  BY SendableIsTyped
<1>2. \A i \in DOMAIN toInput' : IsChange(toInput'[i]) => toInput'[i].bindings \in Sendable
  BY <1>0, <1>1 DEF BindingsInv
<1>3. LeadsTo(toInput', bindings', BindingsFor(closures_unbound'))
  BY LeadsToAppended DEF BindingsInv
<1> QED BY <1>0, <1>2, <1>3 DEF BindingsInv

(* The input thread reads its messages in order. *)
LEMMA MessageRead ==
  ASSUME BindingsInv, ReceiveFromCore, UNCHANGED closures_unbound
  PROVE  BindingsInv'
<1> DEFINE msg  == Head(toInput)
<1>0. /\ toInput # <<>> /\ toInput' = Tail(toInput) /\ UNCHANGED <<toCore, devs>>
      /\ "socket" \notin ready'
      /\ bindings' = IF IsChange(msg) THEN msg.bindings ELSE bindings
  BY DEF ReceiveFromCore, BindingsInv, IsChange
<1>1. /\ toInput' \in Seq(MsgToInput) /\ msg = toInput[1] /\ 1 \in DOMAIN toInput
      /\ \A i \in DOMAIN toInput' : i + 1 \in DOMAIN toInput /\ toInput'[i] = toInput[i + 1]
  BY <1>0, TailTaken DEF BindingsInv
<1>2. LeadsTo(toInput', bindings', BindingsFor(closures_unbound'))
  BY <1>0, LeadsToTail DEF BindingsInv
<1> HIDE DEF msg
<1>3. /\ bindings' \in Sendable \cup {{}}
      /\ \A i \in DOMAIN toInput' : IsChange(toInput'[i]) => toInput'[i].bindings \in Sendable
  BY <1>0, <1>1 DEF BindingsInv
<1> QED BY <1>0, <1>1, <1>2, <1>3 DEF BindingsInv, OnlyBoundKeysSent

-----------------------------------------------------------------------------
(* The steps, by process.                                                  *)

LEMMA InputThreadStep ==
  ASSUME BindingsInv, InputThread, UNCHANGED coreVars
  PROVE  BindingsInv'
<1> USE DEF BindingsInv, OnlyBoundKeysSent
<1>0. UNCHANGED closures_unbound
  BY DEF coreVars, eventLoop
<1>1. CASE StartFetch \/ FetchDone \/ DeviceError
  BY <1>0, <1>1 DEF StartFetch, FetchDone, DeviceError, fetching, round, channels
<1>2. CASE Poll
  <2>1. "socket" \in ready' => toInput # <<>>
    BY <1>2, InputAssumption DEF Poll, Readable
  <2> QED BY <1>0, <1>2, <2>1 DEF Poll, fetching, channels
<1>3. ASSUME NEW d \in Device, OpenDevice(d) \/ AsksKeys(d) \/ FetchEvents(d) PROVE BindingsInv'
  BY <1>0, <1>3, Asked DEF OpenDevice, FetchEvents, fetching, round, channels
<1>4. CASE KeyFromKbd \/ KeyFromMouse
  <2>1. UNCHANGED <<toInput, bindings, closures_unbound, devs, ready>>
    BY <1>0, <1>4 DEF KeyFromKbd, KeyFromMouse, HandleKey, fetching
  <2>2. \/ UNCHANGED toCore
        \/ \E b \in bindings : toCore' = Append(toCore, b)
    BY <1>4 DEF KeyFromKbd, KeyFromMouse, HandleKey, IsBound
  <2>3. \A b \in bindings : b \in Keybind
    BY SendableIsTyped, CoreAssumption
  <2>4. CASE UNCHANGED toCore
    BY <2>1, <2>4
  <2>5. ASSUME NEW b \in bindings, toCore' = Append(toCore, b) PROVE BindingsInv'
    BY <2>1, <2>3, <2>5, KeySent
  <2> QED BY <2>2, <2>4, <2>5
<1>5. CASE KbdSyn \/ MouseRel \/ MouseSyn
  BY <1>0, <1>5 DEF KbdSyn, MouseRel, MouseSyn, fetching, channels
<1>6. CASE ReceiveFromCore
  BY <1>0, <1>6, MessageRead
<1>7. CASE DrainAccumulated
  BY <1>0, <1>7 DEF DrainAccumulated, fetching
<1> QED BY <1>1, <1>2, <1>3, <1>4, <1>5, <1>6, <1>7 DEF InputThread, AsksKeys

LEMMA CoreStepInv ==
  ASSUME BindingsInv, CoreProcess \/ CoreAlone, UNCHANGED inputVars
  PROVE  BindingsInv'
<1>0. UNCHANGED <<bindings, devs, ready>>
  BY DEF inputVars, fetching, round
<1>1. CASE TogglePauseClosures
  <2> DEFINE msg == ChangeBindings(BindingsFor(closures_unbound'))
  <2>1. /\ toInput' = Append(toInput, msg) /\ Receive
        /\ closures_unbound' = ~closures_unbound
    BY <1>1 DEF TogglePauseClosures, Triggered
  <2>2. closures_unbound' \in BOOLEAN
    BY <2>1 DEF BindingsInv
  <2>3. msg \in MsgToInput /\ IsChange(msg) /\ msg.bindings = BindingsFor(closures_unbound')
    BY <2>2, SendableIsTyped DEF ChangeBindings, IsChange
  <2> HIDE DEF msg
  <2> QED BY <1>0, <2>1, <2>2, <2>3, KeyTaken, MessageSent
<1>2. CASE KeyHandled \/ ToggleFails
  <2>1. Receive /\ UNCHANGED <<closures_unbound, toInput>>
    BY <1>2 DEF KeyHandled, KeyNotBound, RunClosure, SkipClosure, MacroRecording, Exit, Triggered,
                ToggleFails, coreVars, eventLoop
  <2> QED BY <1>0, <2>1, KeyTaken DEF BindingsInv
<1>3. ASSUME NEW api \in Api, ClosureSends(api) \/ ClosureEnds(api) \/ ClosurePanics(api) PROVE BindingsInv'
  BY <1>0, <1>3 DEF ClosureSends, ClosureEnds, ClosurePanics, eventLoop, channels, BindingsInv, OnlyBoundKeysSent
<1>4. ASSUME NEW update \in CompUpdates, ForwardUpdate(update) PROVE BindingsInv'
  <2>1. UNCHANGED <<closures_unbound, toCore>>
    BY <1>4 DEF ForwardUpdate, eventLoop
  <2>2. CASE update \in Screen
    BY <1>0, <1>4, <2>1, <2>2 DEF ForwardUpdate, BindingsInv, OnlyBoundKeysSent
  <2>3. CASE update \notin Screen
    <3> DEFINE msg == [type |-> IF update = "PointersChanged" THEN update ELSE "KeyboardChanged"]
    <3>1. toInput' = Append(toInput, msg)
      BY <1>4, <2>3 DEF ForwardUpdate
    <3>2. msg \in MsgToInput /\ ~IsChange(msg)
      BY DEF MsgToInput, IsChange
    <3>3. closures_unbound' \in BOOLEAN /\ OnlyBoundKeysSent' /\ toCore' \in Seq(Keybind)
      BY <2>1 DEF BindingsInv, OnlyBoundKeysSent
    <3> HIDE DEF msg
    <3> QED BY <1>0, <2>1, <3>1, <3>2, <3>3, MessageSent
  <2> QED BY <2>2, <2>3
<1> QED BY <1>1, <1>2, <1>3, <1>4 DEF CoreProcess, CoreAlone, EventLoop

LEMMA BindingsInvStep == BindingsInv /\ [Next]_vars => BindingsInv'
<1> SUFFICES ASSUME BindingsInv, [Next]_vars PROVE BindingsInv'
  OBVIOUS
<1> DEFINE Seen == <<toInput, toCore, closures_unbound, bindings, devs, ready>>
<1>1. CASE UNCHANGED Seen
  BY <1>1 DEF BindingsInv, OnlyBoundKeysSent
<1>2. CASE InputStep
  BY <1>2, InputThreadStep DEF InputStep
<1>3. CASE CoreStep \/ CoreDrains
  BY <1>3, CoreStepInv DEF CoreStep, CoreDrains
<1>4. CASE HardwareStep \/ UInputStep \/ ForwardStep \/ PrivExits \/ CoreExits
  <2>1. HardwareStep => UNCHANGED Seen
    BY DEF HardwareStep, Typing, Hotplug, TimerExpires, fetching, round, channels, coreVars,
           eventLoop
  <2>2. UInputStep => UNCHANGED Seen
    BY DEF UInputStep, UInputThread, EmitKeyActions, EmitMouseActions, EmitKeyTap,
           EmitMouseClick, UpdateScreenSpace, TakeMsg, inputVars, fetching, round, coreVars,
           eventLoop
  <2>3. ForwardStep => UNCHANGED Seen
    BY DEF ForwardStep, Forwarders, UpdateForwards, WorkerForwards, inputVars, fetching, round,
           eventLoop
  <2>4. PrivExits \/ CoreExits => UNCHANGED Seen
    BY DEF PrivExits, CoreExits, inputVars, fetching, round, coreVars, eventLoop, channels
  <2> QED BY <1>1, <1>4, <2>1, <2>2, <2>3, <2>4
<1>5. CASE UNCHANGED vars
  <2>1. UNCHANGED Seen
    BY <1>5 DEF vars, inputVars, fetching, round, coreVars, eventLoop, channels
  <2> QED BY <1>1, <2>1
<1> QED BY <1>2, <1>3, <1>4, <1>5 DEF Next

(* Bindings are only ever replaced by some that the core may send. *)
LEMMA BindingsChange ==
  ASSUME BindingsInv, [Next]_vars
  PROVE  bindings' = bindings \/ bindings' \in Sendable
<1>1. CASE InputStep
  <2>1. CASE ReceiveFromCore
    <3>1. \/ UNCHANGED bindings
          \/ toInput # <<>> /\ IsChange(Head(toInput)) /\ bindings' = Head(toInput).bindings
      BY <2>1 DEF ReceiveFromCore, BindingsInv, IsChange
    <3>2. toInput # <<>> => 1 \in DOMAIN toInput /\ Head(toInput) = toInput[1]
      BY TailTaken DEF BindingsInv
    <3> QED BY <3>1, <3>2 DEF BindingsInv
  <2>2. CASE StartFetch \/ FetchDone \/ DeviceError \/ Poll
    BY <2>2 DEF StartFetch, FetchDone, DeviceError, Poll
  <2>3. ASSUME NEW d \in Device, OpenDevice(d) \/ AsksKeys(d) \/ FetchEvents(d)
        PROVE  UNCHANGED bindings
    BY <2>3, Asked DEF OpenDevice, FetchEvents
  <2>4. CASE KeyFromKbd \/ KeyFromMouse \/ KbdSyn \/ MouseRel \/ MouseSyn \/ DrainAccumulated
    BY <2>4 DEF KeyFromKbd, KeyFromMouse, HandleKey, KbdSyn, MouseRel, MouseSyn, DrainAccumulated
  <2> QED BY <1>1, <2>1, <2>2, <2>3, <2>4 DEF InputStep, InputThread, AsksKeys
<1>2. CASE HardwareStep
  BY <1>2 DEF HardwareStep, Typing, Hotplug, TimerExpires
<1>3. CASE \/ UInputStep \/ ForwardStep \/ CoreStep \/ CoreDrains \/ PrivExits \/ CoreExits
           \/ UNCHANGED vars
  BY <1>3 DEF UInputStep, ForwardStep, CoreStep, CoreDrains, PrivExits, CoreExits, vars, inputVars
<1> QED BY <1>1, <1>2, <1>3 DEF Next

LEMMA BindingsInvariant == Spec => []BindingsInv
BY BindingsInvInit, BindingsInvStep, PTL DEF Spec

-----------------------------------------------------------------------------
(* Whatever the configuration binds, however the user toggles and types and   *)
(* the compositor reports meanwhile, the event loop receives no keybind that  *)
(* is not bound: the branch that ends it is never taken.                      *)
THEOREM KeysReceivedAreBound == Spec => []OnlyBoundKeysSent
<1>1. BindingsInv => OnlyBoundKeysSent
  BY DEF BindingsInv
<1> QED BY <1>1, BindingsInvariant, PTL

(* The bindings in force, once all that is on its way has been read, are      *)
(* those of the pause state of the core.                                      *)
THEOREM PauseAlwaysReachesInput == Spec => []PauseReachesInput
<1>1. BindingsInv => PauseReachesInput
  BY DEF BindingsInv, PauseReachesInput, BindingsUnderWay, LeadsTo
<1> QED BY <1>1, BindingsInvariant, PTL

(* No step takes the keybinds that unpause and exit away from an input thread *)
(* that has been told of its bindings.                                        *)
THEOREM ControlKeysAreKept == Spec => ControlKeysStayBound
<1>1. BindingsInv /\ BindingsInv' /\ [Next]_vars
        => [bindings # {} => ControlBindings \subseteq bindings']_vars
  <2> SUFFICES ASSUME BindingsInv, BindingsInv', [Next]_vars, bindings # {}
               PROVE  ControlBindings \subseteq bindings'
    OBVIOUS
  <2>1. \A b \in Sendable : ControlBindings \subseteq b
    BY DEF Sendable, ControlBindings
  <2>2. bindings' = bindings \/ bindings' \in Sendable
    BY BindingsChange
  <2> QED BY <2>1, <2>2 DEF BindingsInv
<1> QED BY <1>1, BindingsInvariant, BindingsInvStep, PTL DEF Spec, ControlKeysStayBound

-----------------------------------------------------------------------------
(* Quiet while paused.                                                     *)

(* With nothing on its way, the bindings in force are the core's.             *)
LEMMA QuietBindings ==
  ASSUME BindingsInv, Quiet
  PROVE  bindings = ControlBindings
BY DEF BindingsInv, Quiet, LeadsTo, BindingsFor

(* What a step adds to what is on its way to the core, and to the input       *)
(* thread.                                                                    *)
LEMMA KeysOnTheirWay ==
  ASSUME BindingsInv, [Next]_vars, ~Receive
  PROVE  UNCHANGED toCore \/ \E b \in bindings : toCore' = Append(toCore, b)
<1>1. CASE InputStep
  <2>1. CASE KeyFromKbd \/ KeyFromMouse
    BY <2>1 DEF KeyFromKbd, KeyFromMouse, HandleKey, IsBound
  <2>2. CASE StartFetch \/ FetchDone \/ DeviceError \/ Poll
    BY <2>2 DEF StartFetch, FetchDone, DeviceError, Poll, channels
  <2>3. ASSUME NEW d \in Device, OpenDevice(d) \/ AsksKeys(d) \/ FetchEvents(d)
        PROVE  UNCHANGED toCore
    BY <2>3, Asked DEF OpenDevice, FetchEvents, channels
  <2>4. CASE KbdSyn \/ MouseRel \/ MouseSyn \/ ReceiveFromCore \/ DrainAccumulated
    BY <2>4 DEF KbdSyn, MouseRel, MouseSyn, ReceiveFromCore, DrainAccumulated, channels
  <2> QED BY <1>1, <2>1, <2>2, <2>3, <2>4 DEF InputStep, InputThread, AsksKeys
<1>2. CASE CoreStep \/ CoreDrains
  <2>1. ~EventLoop /\ ~KeyHandled /\ ~ToggleFails
    BY DEF EventLoop, KeyHandled, KeyNotBound, RunClosure, SkipClosure, TogglePauseClosures,
           ToggleFails, MacroRecording, Exit, Triggered
  <2>2. ASSUME NEW api \in Api, ClosureSends(api) \/ ClosureEnds(api) \/ ClosurePanics(api) PROVE UNCHANGED toCore
    BY <2>2 DEF ClosureSends, ClosureEnds, ClosurePanics, channels
  <2>3. ASSUME NEW update \in CompUpdates, ForwardUpdate(update) PROVE UNCHANGED toCore
    BY <2>3 DEF ForwardUpdate
  <2> QED BY <1>2, <2>1, <2>2, <2>3 DEF CoreStep, CoreProcess, CoreDrains, CoreAlone
<1>3. CASE HardwareStep \/ UInputStep \/ ForwardStep
  BY <1>3 DEF HardwareStep, Typing, Hotplug, TimerExpires, UInputStep, UInputThread,
              EmitKeyActions, EmitMouseActions, EmitKeyTap, EmitMouseClick, UpdateScreenSpace,
              TakeMsg, ForwardStep, Forwarders, UpdateForwards, WorkerForwards, channels
<1>4. CASE PrivExits \/ CoreExits \/ UNCHANGED vars
  BY <1>4 DEF PrivExits, CoreExits, vars, channels
<1> QED BY <1>1, <1>2, <1>3, <1>4 DEF Next

(* A change of the bindings comes from a toggle alone.                        *)
LEMMA ChangesOnTheirWay ==
  ASSUME BindingsInv, [Next]_vars
  PROVE  \/ UNCHANGED toInput
         \/ toInput # <<>> /\ toInput' = Tail(toInput)
         \/ \E msg \in MsgToInput : toInput' = Append(toInput, msg) /\ ~IsChange(msg)
         \/ CoreStep /\ TogglePauseClosures
<1>1. CASE InputStep
  <2>1. CASE ReceiveFromCore
    BY <2>1 DEF ReceiveFromCore, BindingsInv
  <2>2. CASE StartFetch \/ FetchDone \/ DeviceError \/ Poll
    BY <2>2 DEF StartFetch, FetchDone, DeviceError, Poll, channels
  <2>3. ASSUME NEW d \in Device, OpenDevice(d) \/ AsksKeys(d) \/ FetchEvents(d)
        PROVE  UNCHANGED toInput
    BY <2>3, Asked DEF OpenDevice, FetchEvents, channels
  <2>4. CASE KeyFromKbd \/ KeyFromMouse \/ KbdSyn \/ MouseRel \/ MouseSyn \/ DrainAccumulated
    BY <2>4 DEF KeyFromKbd, KeyFromMouse, HandleKey, KbdSyn, MouseRel, MouseSyn,
                DrainAccumulated, channels
  <2> QED BY <1>1, <2>1, <2>2, <2>3, <2>4 DEF InputStep, InputThread, AsksKeys
<1>2. CASE CoreStep \/ CoreDrains
  <2>1. CASE KeyHandled \/ ToggleFails
    BY <2>1 DEF KeyHandled, KeyNotBound, RunClosure, SkipClosure, MacroRecording, Exit, ToggleFails
  <2>2. ASSUME NEW api \in Api, ClosureSends(api) \/ ClosureEnds(api) \/ ClosurePanics(api) PROVE UNCHANGED toInput
    BY <2>2 DEF ClosureSends, ClosureEnds, ClosurePanics, channels
  <2>3. ASSUME NEW update \in CompUpdates, ForwardUpdate(update)
        PROVE  \/ UNCHANGED toInput
               \/ \E msg \in MsgToInput : toInput' = Append(toInput, msg) /\ ~IsChange(msg)
    <3> DEFINE msg == [type |-> IF update = "PointersChanged" THEN update ELSE "KeyboardChanged"]
    <3>1. msg \in MsgToInput /\ ~IsChange(msg)
      BY DEF MsgToInput, IsChange
    <3>2. UNCHANGED toInput \/ toInput' = Append(toInput, msg)
      BY <2>3 DEF ForwardUpdate
    <3> HIDE DEF msg
    <3> QED BY <3>1, <3>2
  <2> QED BY <1>2, <2>1, <2>2, <2>3 DEF CoreStep, CoreProcess, CoreDrains, CoreAlone, EventLoop
<1>3. CASE HardwareStep \/ UInputStep \/ ForwardStep
  BY <1>3 DEF HardwareStep, Typing, Hotplug, TimerExpires, UInputStep, UInputThread,
              EmitKeyActions, EmitMouseActions, EmitKeyTap, EmitMouseClick, UpdateScreenSpace,
              TakeMsg, ForwardStep, Forwarders, UpdateForwards, WorkerForwards, channels
<1>4. CASE PrivExits \/ CoreExits \/ UNCHANGED vars
  BY <1>4 DEF PrivExits, CoreExits, vars, channels
<1> QED BY <1>1, <1>2, <1>3, <1>4 DEF Next

(* Who starts a closure.                                                      *)
LEMMA ClosureStarts ==
  ASSUME [Next]_vars
  PROVE  running' \subseteq running \/ RunClosure
<1>1. CASE CoreStep \/ CoreDrains
  <2>1. CASE \/ KeyNotBound \/ SkipClosure \/ TogglePauseClosures \/ ToggleFails \/ MacroRecording
             \/ Exit
    BY <2>1 DEF KeyNotBound, SkipClosure, TogglePauseClosures, ToggleFails, MacroRecording, Exit,
                coreVars, pool
  <2>2. ASSUME NEW api \in Api, ClosureSends(api) \/ ClosureEnds(api) \/ ClosurePanics(api)
        PROVE  running' \subseteq running
    BY <2>2 DEF ClosureSends, ClosureEnds, ClosurePanics, pool
  <2>3. ASSUME NEW update \in CompUpdates, ForwardUpdate(update) PROVE running' \subseteq running
    BY <2>3 DEF ForwardUpdate, pool
  <2> QED BY <1>1, <2>1, <2>2, <2>3
          DEF CoreStep, CoreProcess, CoreDrains, CoreAlone, EventLoop, KeyHandled
<1>2. CASE InputStep \/ HardwareStep \/ UInputStep \/ ForwardStep
  BY <1>2 DEF InputStep, HardwareStep, UInputStep, ForwardStep, Forwarders, UpdateForwards,
              WorkerForwards, coreVars, pool
<1>3. CASE PrivExits \/ CoreExits \/ UNCHANGED vars
  BY <1>3 DEF PrivExits, CoreExits, vars, coreVars, pool
<1> QED BY <1>1, <1>2, <1>3 DEF Next

LEMMA QuietStep ==
  ASSUME BindingsInv, [Next]_vars, Quiet
  PROVE  (Quiet' \/ ~closures_unbound') /\ running' \subseteq running
<1>1. /\ bindings = ControlBindings
      /\ toCore \in Seq(Keybind) /\ toInput \in Seq(MsgToInput)
  BY QuietBindings DEF BindingsInv
<1>2. running' \subseteq running
  <2>1. RunClosure => Head(toCore) \in ControlBindings
    <3>1. RunClosure => toCore # <<>>
      BY DEF RunClosure, Triggered, Receive
    <3> QED BY <1>1, <3>1, TailTaken DEF Quiet
  <2>2. ~RunClosure
    BY <2>1 DEF RunClosure, Triggered, ControlBindings
  <2> QED BY <2>2, ClosureStarts
<1>3. \A i \in DOMAIN toCore' : toCore'[i] \in ControlBindings
  <2>1. CASE Receive
    BY <1>1, <2>1, TailTaken DEF Quiet, Receive
  <2>2. CASE UNCHANGED toCore
    BY <2>2 DEF Quiet
  <2>3. ASSUME NEW b \in bindings, toCore' = Append(toCore, b)
        PROVE  \A i \in DOMAIN toCore' : toCore'[i] \in ControlBindings
    <3>1. b \in Keybind
      BY <1>1, CoreAssumption DEF ControlBindings
    <3> QED BY <1>1, <2>3, <3>1, Appended DEF Quiet
  <2> QED BY <2>1, <2>2, <2>3, KeysOnTheirWay
<1>4. CASE UNCHANGED toInput \/ (toInput # <<>> /\ toInput' = Tail(toInput))
  <2>1. \A i \in DOMAIN toInput' : ~IsChange(toInput'[i])
    <3>1. CASE UNCHANGED toInput
      BY <3>1 DEF Quiet
    <3>2. CASE toInput # <<>> /\ toInput' = Tail(toInput)
      BY <1>1, <3>2, TailTaken DEF Quiet
    <3> QED BY <1>4, <3>1, <3>2
  <2> QED BY <1>2, <1>3, <2>1 DEF Quiet
<1>5. ASSUME NEW msg \in MsgToInput, toInput' = Append(toInput, msg), ~IsChange(msg)
      PROVE  Quiet' \/ ~closures_unbound'
  <2>1. \A i \in DOMAIN toInput' : ~IsChange(toInput'[i])
    BY <1>1, <1>5, Appended DEF Quiet
  <2> QED BY <1>3, <2>1 DEF Quiet
<1>6. CASE CoreStep /\ TogglePauseClosures
  BY <1>2, <1>6 DEF TogglePauseClosures, Quiet
<1> QED BY <1>2, <1>4, <1>5, <1>6, ChangesOnTheirWay

(* For any configuration and any interleaving of the two processes: once the  *)
(* input thread has caught up with a pause and the keys taken before have     *)
(* been acted on, no closure starts until the user unpauses.                  *)
THEOREM PauseIsQuiet == Spec => PausedStaysQuiet
<1>1. BindingsInv /\ [Next]_vars
        => [Quiet => (Quiet' \/ ~closures_unbound') /\ running' \subseteq running]_vars
  BY QuietStep
<1> QED BY <1>1, BindingsInvariant, PTL DEF Spec, PausedStaysQuiet

-----------------------------------------------------------------------------
(* How many changes of bindings follow the i-th message. *)
ChangesAfter(s, i) == {j \in DOMAIN s : j > i /\ IsChange(s[j])}
CountAfter(s, i)   == Cardinality(ChangesAfter(s, i))

(* The bindings on their way alternate and end with those of the core: the    *)
(* number that follow one tells which of the two it is.                       *)
Alternating(s, paused) ==
  \A i \in DOMAIN s :
    IsChange(s[i]) =>
      s[i].bindings = BindingsFor(IF CountAfter(s, i) % 2 = 0 THEN paused ELSE ~paused)

SwitchInv == BindingsInv /\ PoolInv /\ Alternating(toInput, closures_unbound)

-----------------------------------------------------------------------------
(* Counting changes. *)

LEMMA CountIsFinite ==
  ASSUME NEW s \in Seq(MsgToInput), NEW i
  PROVE  IsFiniteSet(ChangesAfter(s, i)) /\ CountAfter(s, i) \in Nat
<1>1. DOMAIN s = 1..Len(s) /\ Len(s) \in Nat
  BY LenProperties
<1>2. IsFiniteSet(1..Len(s)) /\ ChangesAfter(s, i) \in SUBSET (1..Len(s))
  BY <1>1, FS_Interval DEF ChangesAfter
<1>3. IsFiniteSet(ChangesAfter(s, i))
  BY <1>2, FS_Subset
<1> QED BY <1>3, FS_CardinalityType DEF CountAfter

LEMMA CountAppended ==
  ASSUME NEW s \in Seq(MsgToInput), NEW msg \in MsgToInput
  PROVE  /\ \A i \in 0..Len(s) :
              CountAfter(Append(s, msg), i)
                = IF IsChange(msg) THEN CountAfter(s, i) + 1 ELSE CountAfter(s, i)
         /\ CountAfter(Append(s, msg), Len(s) + 1) = 0
<1> DEFINE t == Append(s, msg)
           n == Len(s)
<1>0. /\ DOMAIN s = 1..n /\ n \in Nat /\ DOMAIN t = 1..(n + 1)
      /\ \A i \in 1..n : t[i] = s[i]
      /\ t[n + 1] = msg
  BY Appended
<1> HIDE DEF t, n
<1>1. ASSUME NEW i \in 0..n
      PROVE  CountAfter(t, i) = IF IsChange(msg) THEN CountAfter(s, i) + 1 ELSE CountAfter(s, i)
  <2>1. CASE IsChange(msg)
    <3>1. ChangesAfter(t, i) = ChangesAfter(s, i) \cup {n + 1} /\ n + 1 \notin ChangesAfter(s, i)
      BY <1>0, <2>1 DEF ChangesAfter
    <3> QED BY <2>1, <3>1, CountIsFinite, FS_AddElement DEF CountAfter
  <2>2. CASE ~IsChange(msg)
    <3>1. ChangesAfter(t, i) = ChangesAfter(s, i)
      BY <1>0, <2>2 DEF ChangesAfter
    <3> QED BY <2>2, <3>1 DEF CountAfter
  <2> QED BY <2>1, <2>2
<1>2. CountAfter(t, n + 1) = 0
  <2>1. ChangesAfter(t, n + 1) = {}
    BY <1>0 DEF ChangesAfter
  <2> QED BY <2>1, FS_EmptySet DEF CountAfter
<1> QED BY <1>1, <1>2 DEF t, n

LEMMA CountInTail ==
  ASSUME NEW s \in Seq(MsgToInput), s # <<>>, NEW i \in Nat
  PROVE  CountAfter(Tail(s), i) = CountAfter(s, i + 1)
<1> DEFINE t == Tail(s)
           S == ChangesAfter(t, i)
           T == ChangesAfter(s, i + 1)
           f == [j \in S |-> j + 1]
<1>0. /\ t \in Seq(MsgToInput)
      /\ DOMAIN s = 1..Len(s) /\ Len(s) \in Nat \ {0}
      /\ DOMAIN t = 1..(Len(s) - 1)
      /\ \A j \in 1..(Len(s) - 1) : t[j] = s[j + 1]
  BY TailTaken
<1> HIDE DEF t
<1>1. \A j \in S : j \in Nat /\ j + 1 \in T
  BY <1>0 DEF ChangesAfter
<1>2. \A k \in T : k - 1 \in S /\ k = (k - 1) + 1
  BY <1>0 DEF ChangesAfter
<1>3. IsFiniteSet(S)
  BY <1>0, CountIsFinite
<1> HIDE DEF S, T
<1>4. f \in Bijection(S, T)
  <2>1. f \in [S -> T]
    BY <1>1
  <2>2. \A a, b \in S : f[a] = f[b] => a = b
    BY <1>1
  <2>3. \A k \in T : \E j \in S : f[j] = k
    BY <1>2
  <2> QED BY <2>1, <2>2, <2>3, Fun_IsBij
<1>5. Cardinality(S) = Cardinality(T)
  BY <1>3, <1>4, FS_Bijection DEF ExistsBijection
<1> QED BY <1>5 DEF CountAfter, S, T, t

LEMMA CountOfHead ==
  ASSUME NEW s \in Seq(MsgToInput), s # <<>>
  PROVE  CountAfter(s, 0) = IF IsChange(Head(s)) THEN CountAfter(s, 1) + 1 ELSE CountAfter(s, 1)
<1>0. DOMAIN s = 1..Len(s) /\ Len(s) \in Nat \ {0} /\ Head(s) = s[1]
  BY TailTaken
<1>1. CASE IsChange(Head(s))
  <2>1. ChangesAfter(s, 0) = ChangesAfter(s, 1) \cup {1} /\ 1 \notin ChangesAfter(s, 1)
    BY <1>0, <1>1 DEF ChangesAfter
  <2> QED BY <1>1, <2>1, CountIsFinite, FS_AddElement DEF CountAfter
<1>2. CASE ~IsChange(Head(s))
  <2>1. \A j \in DOMAIN s : j > 0 /\ IsChange(s[j]) <=> j > 1 /\ IsChange(s[j])
    BY <1>0, <1>2
  <2>2. ChangesAfter(s, 0) = ChangesAfter(s, 1)
    BY <2>1 DEF ChangesAfter
  <2> QED BY <1>2, <2>2 DEF CountAfter
<1> QED BY <1>1, <1>2

LEMMA ChangesCounted ==
  ASSUME NEW s \in Seq(MsgToInput)
  PROVE  Cardinality({i \in DOMAIN s : IsChange(s[i])}) = CountAfter(s, 0)
<1>1. \A i \in DOMAIN s : i > 0
  BY LenProperties
<1>2. ChangesAfter(s, 0) = {i \in DOMAIN s : IsChange(s[i])}
  BY <1>1 DEF ChangesAfter
<1> QED BY <1>2 DEF CountAfter

LEMMA OddAndEven == \A n \in Nat : (n + 1) % 2 = 0 <=> ~(n % 2 = 0)
OBVIOUS

(* With one more toggle, what was the bindings of now is those of before.     *)
LEMMA AlternatingToggled ==
  ASSUME NEW s \in Seq(MsgToInput), NEW paused \in BOOLEAN, Alternating(s, paused),
         NEW msg \in MsgToInput, IsChange(msg), msg.bindings = BindingsFor(~paused)
  PROVE  Alternating(Append(s, msg), ~paused)
<1> DEFINE t == Append(s, msg)
           n == Len(s)
<1>0. /\ DOMAIN s = 1..n /\ n \in Nat /\ DOMAIN t = 1..(n + 1)
      /\ \A i \in 1..n : t[i] = s[i]
      /\ t[n + 1] = msg
  BY Appended
<1>1. /\ \A i \in 0..n : CountAfter(t, i) = CountAfter(s, i) + 1
      /\ CountAfter(t, n + 1) = 0
  BY CountAppended
<1> HIDE DEF t, n
<1>2. SUFFICES ASSUME NEW i \in DOMAIN t, IsChange(t[i])
               PROVE  t[i].bindings
                        = BindingsFor(IF CountAfter(t, i) % 2 = 0 THEN ~paused ELSE ~~paused)
  BY DEF Alternating, t
<1>3. CASE i = n + 1
  BY <1>0, <1>1, <1>3
<1>4. CASE i \in 1..n
  <2>1. CountAfter(t, i) = CountAfter(s, i) + 1 /\ CountAfter(s, i) \in Nat
    BY <1>0, <1>1, <1>4, CountIsFinite
  <2>2. CountAfter(t, i) % 2 = 0 <=> ~(CountAfter(s, i) % 2 = 0)
    BY <2>1, OddAndEven
  <2>3. t[i].bindings = BindingsFor(IF CountAfter(s, i) % 2 = 0 THEN paused ELSE ~paused)
    BY <1>0, <1>2, <1>4 DEF Alternating
  <2> QED BY <2>2, <2>3
<1> QED BY <1>0, <1>2, <1>3, <1>4

LEMMA AlternatingAppended ==
  ASSUME NEW s \in Seq(MsgToInput), NEW paused, Alternating(s, paused),
         NEW msg \in MsgToInput, ~IsChange(msg)
  PROVE  Alternating(Append(s, msg), paused)
<1> DEFINE t == Append(s, msg)
           n == Len(s)
<1>0. /\ DOMAIN s = 1..n /\ n \in Nat /\ DOMAIN t = 1..(n + 1)
      /\ \A i \in 1..n : t[i] = s[i]
      /\ t[n + 1] = msg
  BY Appended
<1>1. \A i \in 0..n : CountAfter(t, i) = CountAfter(s, i)
  BY CountAppended
<1> HIDE DEF t, n
<1>2. \A i \in DOMAIN t : IsChange(t[i]) => i \in 1..n
  BY <1>0
<1> QED BY <1>0, <1>1, <1>2 DEF Alternating, t

LEMMA AlternatingTail ==
  ASSUME NEW s \in Seq(MsgToInput), s # <<>>, NEW paused, Alternating(s, paused)
  PROVE  Alternating(Tail(s), paused)
<1>0. /\ DOMAIN s = 1..Len(s) /\ Len(s) \in Nat \ {0}
      /\ DOMAIN Tail(s) = 1..(Len(s) - 1)
      /\ \A i \in 1..(Len(s) - 1) : Tail(s)[i] = s[i + 1]
  BY TailTaken
<1>1. \A i \in Nat : CountAfter(Tail(s), i) = CountAfter(s, i + 1)
  BY CountInTail
<1>2. \A i \in DOMAIN Tail(s) : i \in Nat /\ i + 1 \in DOMAIN s
  BY <1>0
<1> QED BY <1>0, <1>1, <1>2 DEF Alternating

-----------------------------------------------------------------------------
(* The inductive invariant.                                                *)

LEMMA SwitchInvInit == Init => SwitchInv
<1> SUFFICES ASSUME Init PROVE SwitchInv
  OBVIOUS
<1> DEFINE msg == ChangeBindings(DOMAIN Bindings)
<1>1. toInput = <<msg>> /\ closures_unbound = FALSE
  BY DEF Init, ChannelsInit, CoreInit
<1>2. msg.bindings = BindingsFor(closures_unbound) /\ msg \in MsgToInput
  BY <1>1, SendableIsTyped DEF BindingsFor, ChangeBindings, Sendable
<1> HIDE DEF msg
<1>3. DOMAIN toInput = {1} /\ toInput[1] = msg /\ toInput \in Seq(MsgToInput)
  BY <1>1, <1>2
<1>4. CountAfter(toInput, 1) = 0
  <2>1. ChangesAfter(toInput, 1) = {}
    BY <1>3 DEF ChangesAfter
  <2> QED BY <2>1, FS_EmptySet DEF CountAfter
<1>5. Alternating(toInput, closures_unbound)
  BY <1>2, <1>3, <1>4 DEF Alternating
<1> QED BY <1>5, BindingsInvInit, PoolInvInit DEF SwitchInv, Init

LEMMA PoolInvKept ==
  ASSUME PoolInv, [Next]_vars
  PROVE  PoolInv'
<1>1. CASE CoreStep \/ ForwardStep \/ (CoreDrains /\ ~ToggleFails)
  BY <1>1, PoolInvStep
     DEF CoreStep, ForwardStep, CoreDrains, CoreAlone, CoreProcess, EventLoop, CoreSpecNext
<1>2. CASE UNCHANGED coreVars
  <2>1. UNCHANGED <<core, closures_unbound, api_instances, running, toWorker, toUpdate>>
    BY <1>2 DEF coreVars, eventLoop, pool, forwards
  <2>2. closures_unbound' \in BOOLEAN
    BY <2>1 DEF PoolInv, CoreTypeOK
  <2> QED BY <2>1, <2>2 DEF PoolInv, CoreTypeOK, ApisConserved
<1>3. CASE InputStep \/ HardwareStep \/ UInputStep \/ PrivExits \/ UNCHANGED vars
  BY <1>2, <1>3 DEF InputStep, HardwareStep, UInputStep, PrivExits, vars
<1>4. CASE CoreExits \/ ToggleFails
  <2>1. /\ UNCHANGED <<closures_unbound, api_instances, running, toWorker, toUpdate>>
        /\ core' \in {"stopped", "exited"}
    BY <1>4 DEF CoreExits, ToggleFails, pool, forwards
  <2>2. closures_unbound' \in BOOLEAN
    BY <2>1 DEF PoolInv, CoreTypeOK
  <2> QED BY <2>1, <2>2 DEF PoolInv, CoreTypeOK, ApisConserved
<1> QED BY <1>1, <1>3, <1>4 DEF Next

(* Only a toggle changes the pause state.                                     *)
LEMMA PauseStateKept ==
  ASSUME [Next]_vars
  PROVE  UNCHANGED closures_unbound \/ (CoreStep /\ TogglePauseClosures)
<1>1. CASE CoreStep \/ CoreDrains
  <2>1. CASE KeyHandled \/ ToggleFails
    BY <2>1 DEF KeyHandled, KeyNotBound, RunClosure, SkipClosure, MacroRecording, Exit, ToggleFails,
                coreVars, eventLoop
  <2>2. ASSUME NEW api \in Api, ClosureSends(api) \/ ClosureEnds(api) \/ ClosurePanics(api)
        PROVE  UNCHANGED closures_unbound
    BY <2>2 DEF ClosureSends, ClosureEnds, ClosurePanics, eventLoop
  <2>3. ASSUME NEW update \in CompUpdates, ForwardUpdate(update) PROVE UNCHANGED closures_unbound
    BY <2>3 DEF ForwardUpdate, eventLoop
  <2>4. (CoreStep /\ CoreProcess) \/ CoreAlone
    BY <1>1 DEF CoreStep, CoreDrains
  <2> QED BY <2>1, <2>2, <2>3, <2>4 DEF CoreProcess, CoreAlone, EventLoop
<1>2. CASE InputStep \/ HardwareStep \/ UInputStep \/ ForwardStep
  BY <1>2 DEF InputStep, HardwareStep, UInputStep, ForwardStep, Forwarders, UpdateForwards,
              WorkerForwards, coreVars, eventLoop
<1>3. CASE PrivExits \/ CoreExits \/ UNCHANGED vars
  BY <1>3 DEF PrivExits, CoreExits, vars, coreVars, eventLoop
<1> QED BY <1>1, <1>2, <1>3 DEF Next

(* The message a toggle sends.                                                *)
LEMMA ToggleSends ==
  ASSUME BindingsInv, TogglePauseClosures
  PROVE  \E msg \in MsgToInput :
           /\ IsChange(msg) /\ msg.bindings = BindingsFor(~closures_unbound)
           /\ toInput' = Append(toInput, msg)
           /\ closures_unbound' = ~closures_unbound
<1> DEFINE msg == ChangeBindings(BindingsFor(~closures_unbound))
<1>1. msg \in MsgToInput
  BY SendableIsTyped DEF BindingsInv
<1>2. IsChange(msg) /\ msg.bindings = BindingsFor(~closures_unbound)
  BY DEF ChangeBindings, IsChange
<1>3. toInput' = Append(toInput, msg) /\ closures_unbound' = ~closures_unbound
  BY DEF TogglePauseClosures
<1> HIDE DEF msg
<1> QED BY <1>1, <1>2, <1>3

LEMMA SwitchInvStep ==
  ASSUME SwitchInv, [Next]_vars
  PROVE  SwitchInv'
<1>1. BindingsInv' /\ PoolInv'
  BY BindingsInvStep, PoolInvKept DEF SwitchInv
<1>2. /\ toInput \in Seq(MsgToInput) /\ closures_unbound \in BOOLEAN
      /\ BindingsInv /\ Alternating(toInput, closures_unbound)
  BY DEF SwitchInv, BindingsInv
<1>3. CASE CoreStep /\ TogglePauseClosures
  <2>1. Alternating(toInput', closures_unbound')
    BY <1>2, <1>3, ToggleSends, AlternatingToggled
  <2> QED BY <1>1, <2>1 DEF SwitchInv, Alternating
<1>4. ASSUME UNCHANGED closures_unbound, ~(CoreStep /\ TogglePauseClosures) PROVE SwitchInv'
  <2>1. ASSUME toInput # <<>>, toInput' = Tail(toInput) PROVE Alternating(toInput', closures_unbound)
    BY <1>2, <2>1, AlternatingTail
  <2>2. ASSUME NEW msg \in MsgToInput, toInput' = Append(toInput, msg), ~IsChange(msg)
        PROVE  Alternating(toInput', closures_unbound)
    BY <1>2, <2>2, AlternatingAppended
  <2>3. ASSUME UNCHANGED toInput PROVE Alternating(toInput', closures_unbound)
    BY <1>2, <2>3
  <2>4. Alternating(toInput', closures_unbound)
    <3>1. \/ UNCHANGED toInput
          \/ toInput # <<>> /\ toInput' = Tail(toInput)
          \/ \E msg \in MsgToInput : toInput' = Append(toInput, msg) /\ ~IsChange(msg)
      BY <1>2, <1>4, ChangesOnTheirWay
    <3> QED BY <2>1, <2>2, <2>3, <3>1
  <2> QED BY <1>1, <1>4, <2>4 DEF SwitchInv, Alternating
<1> QED BY <1>3, <1>4, PauseStateKept

-----------------------------------------------------------------------------
(* The refinement.                                                         *)

LEMMA LateAppended ==
  ASSUME SwitchInv, NEW msg \in MsgToInput, toInput' = Append(toInput, msg)
  PROVE  /\ ChangesUnderWay \in Nat
         /\ ChangesUnderWay' = IF IsChange(msg) THEN ChangesUnderWay + 1 ELSE ChangesUnderWay
<1>1. toInput \in Seq(MsgToInput) /\ toInput' \in Seq(MsgToInput) /\ 0 \in 0..Len(toInput)
  BY Appended DEF SwitchInv, BindingsInv
<1>2. ChangesUnderWay = CountAfter(toInput, 0) /\ CountAfter(toInput, 0) \in Nat
  BY <1>1, ChangesCounted, CountIsFinite DEF ChangesUnderWay
<1>3. ChangesUnderWay' = CountAfter(toInput', 0)
  BY <1>1, ChangesCounted DEF ChangesUnderWay
<1> QED BY <1>1, <1>2, <1>3, CountAppended

(* What the input thread reads is what was to be in force after so many       *)
(* changes.                                                                   *)
LEMMA LateRead ==
  ASSUME SwitchInv, toInput # <<>>, toInput' = Tail(toInput)
  PROVE  /\ ChangesUnderWay \in Nat /\ ChangesUnderWay' \in Nat
         /\ ChangesUnderWay = IF IsChange(Head(toInput)) THEN ChangesUnderWay' + 1
                                                         ELSE ChangesUnderWay'
         /\ IsChange(Head(toInput)) =>
              Head(toInput).bindings
                = BindingsFor(IF ChangesUnderWay' % 2 = 0 THEN closures_unbound
                                                          ELSE ~closures_unbound)
<1>1. /\ toInput \in Seq(MsgToInput) /\ toInput' \in Seq(MsgToInput)
      /\ Head(toInput) = toInput[1] /\ 1 \in DOMAIN toInput
  BY TailTaken DEF SwitchInv, BindingsInv
<1>2. ChangesUnderWay = CountAfter(toInput, 0) /\ CountAfter(toInput, 0) \in Nat
  BY <1>1, ChangesCounted, CountIsFinite DEF ChangesUnderWay
<1>3. ChangesUnderWay' = CountAfter(toInput', 0) /\ CountAfter(toInput', 0) \in Nat
  BY <1>1, ChangesCounted, CountIsFinite DEF ChangesUnderWay
<1>4. CountAfter(toInput', 0) = CountAfter(toInput, 1)
  BY <1>1, CountInTail
<1>5. CountAfter(toInput, 0) = IF IsChange(Head(toInput)) THEN CountAfter(toInput, 1) + 1
                                                          ELSE CountAfter(toInput, 1)
  BY <1>1, CountOfHead
<1>6. Alternating(toInput, closures_unbound)
  BY DEF SwitchInv
<1>7. IsChange(Head(toInput)) =>
        Head(toInput).bindings
          = BindingsFor(IF CountAfter(toInput, 1) % 2 = 0 THEN closures_unbound
                                                          ELSE ~closures_unbound)
  BY <1>1, <1>6 DEF Alternating
<1> QED BY <1>2, <1>3, <1>4, <1>5, <1>7

LEMMA SameBindings == \A p \in BOOLEAN : Switch!BoundWhen(p) = BindingsFor(p)
BY DEF Switch!BoundWhen, BindingsFor, ControlBindings

Seen == <<closures_unbound, bindings, toInput, toCore, running, core>>

LEMMA UnseenStutters ==
  ASSUME UNCHANGED Seen
  PROVE  UNCHANGED Switch!vars
BY DEF Seen, Switch!vars, ChangesUnderWay

LEMMA InputMaps ==
  ASSUME SwitchInv, InputThread, UNCHANGED coreVars
  PROVE  [Switch!Next]_(Switch!vars)
<1>0. UNCHANGED <<closures_unbound, running, core>>
  BY DEF coreVars, eventLoop, pool
<1>1. CASE ReceiveFromCore
  <2>0. toInput # <<>> /\ toInput' = Tail(toInput) /\ UNCHANGED toCore
    BY <1>1 DEF ReceiveFromCore, SwitchInv, BindingsInv
  <2>1. CASE IsChange(Head(toInput))
    <3>1. bindings' = Head(toInput).bindings
      BY <1>1, <2>1 DEF ReceiveFromCore, IsChange
    <3>2. closures_unbound \in BOOLEAN
      BY DEF SwitchInv, BindingsInv
    <3>3. bindings' = Switch!BoundWhen(IF ChangesUnderWay' % 2 = 0 THEN closures_unbound
                                                                   ELSE ~closures_unbound)
      BY <2>0, <2>1, <3>1, <3>2, LateRead, SameBindings
    <3>4. ChangesUnderWay > 0 /\ ChangesUnderWay' = ChangesUnderWay - 1
      BY <2>0, <2>1, LateRead
    <3> QED BY <1>0, <2>0, <3>3, <3>4 DEF Switch!Next, Switch!CatchUp
  <2>2. CASE ~IsChange(Head(toInput))
    <3>1. UNCHANGED bindings
      BY <1>1, <2>2 DEF ReceiveFromCore, IsChange
    <3>2. UNCHANGED ChangesUnderWay
      BY <2>0, <2>2, LateRead
    <3> QED BY <1>0, <2>0, <3>1, <3>2 DEF Switch!vars
  <2> QED BY <2>1, <2>2
<1>2. CASE KeyFromKbd \/ KeyFromMouse
  <2>1. UNCHANGED <<toInput, bindings>>
    BY <1>2 DEF KeyFromKbd, KeyFromMouse, HandleKey
  <2>2. UNCHANGED toCore \/ \E b \in bindings : toCore' = Append(toCore, b)
    BY <1>2 DEF KeyFromKbd, KeyFromMouse, HandleKey, IsBound
  <2>3. UNCHANGED ChangesUnderWay
    BY <2>1 DEF ChangesUnderWay
  <2>4. CASE UNCHANGED toCore
    BY <1>0, <2>1, <2>3, <2>4 DEF Switch!vars
  <2>5. ASSUME NEW b \in bindings, toCore' = Append(toCore, b) PROVE Switch!Take
    BY <1>0, <2>1, <2>3, <2>5 DEF Switch!Take
  <2> QED BY <2>2, <2>4, <2>5 DEF Switch!Next
<1>3. CASE StartFetch \/ FetchDone \/ DeviceError \/ Poll
  BY <1>0, <1>3, UnseenStutters DEF StartFetch, FetchDone, DeviceError, Poll, channels, Seen
<1>4. ASSUME NEW d \in Device, OpenDevice(d) \/ AsksKeys(d) \/ FetchEvents(d)
      PROVE  UNCHANGED Switch!vars
  BY <1>0, <1>4, Asked, UnseenStutters DEF OpenDevice, FetchEvents, channels, Seen
<1>5. CASE KbdSyn \/ MouseRel \/ MouseSyn \/ DrainAccumulated
  BY <1>0, <1>5, UnseenStutters DEF KbdSyn, MouseRel, MouseSyn, DrainAccumulated, channels, Seen
<1> QED BY <1>1, <1>2, <1>3, <1>4, <1>5 DEF InputThread, AsksKeys

LEMMA CoreMaps ==
  ASSUME SwitchInv, CoreProcess \/ CoreAlone, UNCHANGED inputVars
  PROVE  [Switch!Next]_(Switch!vars)
<1>0. UNCHANGED bindings
  BY DEF inputVars
<1>1. /\ OnlyBoundKeysSent /\ toCore \in Seq(Keybind) /\ closures_unbound \in BOOLEAN
      /\ toInput \in Seq(MsgToInput)
  BY DEF SwitchInv, BindingsInv
<1>2. ASSUME NEW actions, Triggered(actions), core = "running" PROVE Switch!ActOn(actions)
  BY <1>2 DEF Triggered, Receive, Switch!ActOn
<1>3. CASE KeyNotBound
  BY <1>1, <1>3, TailTaken DEF KeyNotBound, Receive, OnlyBoundKeysSent
<1>4. CASE RunClosure
  <2>1. \E api \in Api \ running : running' = running \cup {api}
    <3> DEFINE top == Last(api_instances)
    <3>1. api_instances \in Seq(Api) /\ IsInjective(api_instances) /\ api_instances # <<>>
      BY <1>4 DEF RunClosure, SwitchInv, PoolInv, CoreTypeOK, ApisConserved
    <3>2. top \in Api /\ ToSet(api_instances) = ToSet(Front(api_instances)) \cup {top}
      BY <3>1, LastTaken
    <3>3. running' = running \cup {top}
      BY <1>4 DEF RunClosure
    <3>4. ToSet(api_instances) \cap running = {}
      BY DEF SwitchInv, PoolInv, ApisConserved
    <3> HIDE DEF top
    <3>5. top \notin running
      BY <3>2, <3>4
    <3> QED BY <3>2, <3>3, <3>5
  <2>3. UNCHANGED <<closures_unbound, core, toInput>> /\ UNCHANGED ChangesUnderWay
    BY <1>4 DEF RunClosure, eventLoop, ChangesUnderWay
  <2>4. Switch!ActOn({"Closure"})
    BY <1>2, <1>4 DEF RunClosure, Triggered, Receive
  <2> QED BY <1>0, <2>1, <2>3, <2>4 DEF Switch!Next, Switch!Start
<1>5. CASE SkipClosure
  <2>1. running = Api
    <3>1. api_instances = <<>>
      BY <1>5 DEF SkipClosure
    <3>2. ToSet(api_instances) = {}
      BY <3>1 DEF ToSet
    <3>3. ToSet(api_instances) \cup running = Api
      BY DEF SwitchInv, PoolInv, ApisConserved
    <3> QED BY <3>2, <3>3
  <2>2. UNCHANGED <<closures_unbound, core, toInput, running>> /\ UNCHANGED ChangesUnderWay
    BY <1>5 DEF SkipClosure, coreVars, eventLoop, pool, ChangesUnderWay
  <2>3. Switch!ActOn({"Closure"})
    BY <1>2, <1>5 DEF SkipClosure, Triggered, Receive
  <2> QED BY <1>0, <2>1, <2>2, <2>3 DEF Switch!Next, Switch!Skip
<1>6. CASE TogglePauseClosures
  <2>1. PICK msg \in MsgToInput : IsChange(msg) /\ toInput' = Append(toInput, msg)
    BY <1>6, ToggleSends DEF SwitchInv
  <2>2. ChangesUnderWay' = ChangesUnderWay + 1
    BY <2>1, LateAppended
  <2>3. UNCHANGED <<core, running>> /\ closures_unbound' = ~closures_unbound
    BY <1>6 DEF TogglePauseClosures, pool
  <2>4. Switch!ActOn({"TogglePauseClosures"})
    BY <1>2, <1>6 DEF TogglePauseClosures, Triggered, Receive
  <2> QED BY <1>0, <2>2, <2>3, <2>4 DEF Switch!Next, Switch!Toggle
<1>7. CASE MacroRecording \/ Exit \/ ToggleFails
  <2>1. UNCHANGED <<closures_unbound, toInput, running>> /\ UNCHANGED ChangesUnderWay
    BY <1>7 DEF MacroRecording, Exit, ToggleFails, pool, ChangesUnderWay
  <2>2. core = "running" /\ core' # "running"
    BY <1>7 DEF MacroRecording, Exit, ToggleFails, Triggered, Receive
  <2>3. Switch!ActOn({"Exit", "MacroRecordingStart", "MacroRecordingStop", "TogglePauseClosures"})
    BY <1>7 DEF MacroRecording, Exit, ToggleFails, Triggered, Receive, Switch!ActOn
  <2> QED BY <1>0, <2>1, <2>2, <2>3 DEF Switch!Next, Switch!Stop
<1>8. ASSUME NEW api \in Api, ClosureSends(api) PROVE UNCHANGED Switch!vars
  BY <1>0, <1>8, UnseenStutters DEF ClosureSends, channels, eventLoop, pool, Seen
<1>9. ASSUME NEW api \in Api, ClosureEnds(api) PROVE Switch!Next
  <2>1. UNCHANGED <<closures_unbound, core, toInput, toCore>> /\ UNCHANGED ChangesUnderWay
    BY <1>9 DEF ClosureEnds, eventLoop, channels, ChangesUnderWay
  <2>2. api \in running /\ running' = running \ {api}
    BY <1>9 DEF ClosureEnds
  <2> QED BY <1>0, <2>1, <2>2 DEF Switch!Next, Switch!Finish
<1>10. ASSUME NEW api \in Api, ClosurePanics(api) PROVE [Switch!Next]_(Switch!vars)
  <2>1. UNCHANGED <<closures_unbound, toInput, toCore, running>> /\ UNCHANGED ChangesUnderWay
    BY <1>10 DEF ClosurePanics, pool, channels, ChangesUnderWay
  <2>2. core' # "running"
    BY <1>10 DEF ClosurePanics
  <2>3. CASE core = "running"
    BY <1>0, <2>1, <2>2, <2>3 DEF Switch!Next, Switch!Stop
  <2>4. CASE core # "running"
    BY <1>0, <2>1, <2>2, <2>4 DEF Switch!vars
  <2> QED BY <2>3, <2>4
<1>11. ASSUME NEW update \in CompUpdates, ForwardUpdate(update) PROVE UNCHANGED Switch!vars
  <2> DEFINE msg == [type |-> IF update = "PointersChanged" THEN update ELSE "KeyboardChanged"]
  <2>1. msg \in MsgToInput /\ ~IsChange(msg)
    BY DEF MsgToInput, IsChange
  <2>2. UNCHANGED toInput \/ toInput' = Append(toInput, msg)
    BY <1>11 DEF ForwardUpdate
  <2> HIDE DEF msg
  <2>3. UNCHANGED ChangesUnderWay
    BY <2>1, <2>2, LateAppended DEF ChangesUnderWay
  <2>4. UNCHANGED <<closures_unbound, core, running, toCore>>
    BY <1>11 DEF ForwardUpdate, eventLoop, pool
  <2> QED BY <1>0, <2>3, <2>4 DEF Switch!vars
<1> QED BY <1>3, <1>4, <1>5, <1>6, <1>7, <1>8, <1>9, <1>10, <1>11
        DEF CoreProcess, CoreAlone, EventLoop, KeyHandled

LEMMA StepMaps ==
  ASSUME SwitchInv, [Next]_vars
  PROVE  [Switch!Next]_(Switch!vars)
<1>1. CASE InputStep
  BY <1>1, InputMaps DEF InputStep
<1>2. CASE CoreStep \/ CoreDrains
  BY <1>2, CoreMaps DEF CoreStep, CoreDrains
<1>3. CASE HardwareStep \/ UInputStep \/ ForwardStep \/ PrivExits \/ UNCHANGED vars
  <2>1. HardwareStep => UNCHANGED Seen
    BY DEF HardwareStep, Typing, Hotplug, TimerExpires, channels, coreVars, eventLoop, pool, Seen
  <2>2. UInputStep => UNCHANGED Seen
    BY DEF UInputStep, UInputThread, EmitKeyActions, EmitMouseActions, EmitKeyTap,
           EmitMouseClick, UpdateScreenSpace, TakeMsg, inputVars, coreVars, eventLoop, pool, Seen
  <2>3. ForwardStep => UNCHANGED Seen
    BY DEF ForwardStep, Forwarders, UpdateForwards, WorkerForwards, inputVars, eventLoop, pool,
           Seen
  <2>4. PrivExits \/ UNCHANGED vars => UNCHANGED Seen
    BY DEF PrivExits, vars, inputVars, coreVars, eventLoop, pool, channels, Seen
  <2> QED BY <1>3, <2>1, <2>2, <2>3, <2>4, UnseenStutters
<1>4. CASE CoreExits
  <2>1. UNCHANGED <<closures_unbound, bindings, toInput, toCore, running>>
        /\ UNCHANGED ChangesUnderWay /\ core' # "running"
    BY <1>4 DEF CoreExits, pool, inputVars, channels, ChangesUnderWay
  <2>2. CASE core = "running"
    BY <2>1, <2>2 DEF Switch!Next, Switch!Stop
  <2>3. CASE core # "running"
    BY <2>1, <2>3 DEF Switch!vars
  <2> QED BY <2>2, <2>3
<1> QED BY <1>1, <1>2, <1>3, <1>4 DEF Next

LEMMA InitMaps == Init => Switch!Init
<1> SUFFICES ASSUME Init PROVE Switch!Init
  OBVIOUS
<1> DEFINE msg == ChangeBindings(DOMAIN Bindings)
<1>1. toInput = <<msg>> /\ IsChange(msg)
  BY DEF Init, ChannelsInit, ChangeBindings, IsChange
<1> HIDE DEF msg
<1>2. {i \in DOMAIN toInput : IsChange(toInput[i])} = {1}
  BY <1>1
<1>3. ChangesUnderWay = 1
  BY <1>2, FS_Singleton DEF ChangesUnderWay
<1>4. closures_unbound = FALSE /\ bindings = {} /\ toCore = <<>> /\ running = {} /\ core = "running"
  BY DEF Init, CoreInit, InputInit, ChannelsInit
<1> QED BY <1>3, <1>4 DEF Switch!Init

(* For every configuration, every number of Apis and every size of the        *)
(* sockets: the two processes do to keybinds, bindings and closures only what *)
(* PauseSwitch allows.                                                        *)
THEOREM PauseSwitchIsImplemented == Spec => ImplementsPauseSwitch
<1>1. Spec => []SwitchInv
  BY SwitchInvInit, SwitchInvStep, PTL DEF Spec
<1>2. SwitchInv /\ [Next]_vars => [Switch!Next]_(Switch!vars)
  BY StepMaps
<1> QED BY <1>1, <1>2, InitMaps, PTL DEF Spec, Switch!Spec, ImplementsPauseSwitch

-----------------------------------------------------------------------------
(* The types of the whole.  Every part keeps its own state typed as long as   *)
(* the others keep the channels typed.                                        *)

TypesInv == InputTyped /\ PoolInv /\ UInputTypeOK

LEMMA InputKept ==
  ASSUME InputTyped, ChannelsTypeOK', toInput # <<>> => toInput' # <<>>, UNCHANGED inputVars
  PROVE  InputTyped'
BY DEF InputTyped, InputTypeOK, SocketReadable, inputVars, hardware, fetching, round, pending

LEMMA UInputKept ==
  ASSUME UInputTypeOK, ChannelsTypeOK', UNCHANGED uinputVars
  PROVE  UInputTypeOK'
BY DEF UInputTypeOK, uinputVars

(* The core and the forwarders send messages of the channels' types, and take *)
(* nothing of what is on its way to the input thread.                         *)
LEMMA CoreSendsTyped ==
  ASSUME CoreTypeOK, ChannelsTypeOK, CoreProcess \/ CoreAlone \/ Forwarders
  PROVE  ChannelsTypeOK' /\ (toInput # <<>> => toInput' # <<>>)
<1>1. toInput \in Seq(MsgToInput) /\ toCore \in Seq(Keybind) /\ toUInput \in Seq(MsgToUInput)
  BY DEF ChannelsTypeOK
<1>2. ASSUME Receive PROVE toCore' \in Seq(Keybind)
  BY <1>1, <1>2, HeadTailProperties DEF Receive
<1>3. CASE KeyHandled \/ ToggleFails
  <2>1. toCore' \in Seq(Keybind) /\ UNCHANGED <<toInput, toUInput>>
    BY <1>2, <1>3 DEF KeyHandled, KeyNotBound, RunClosure, SkipClosure, MacroRecording, Exit,
                      ToggleFails, Triggered
  <2> QED BY <1>1, <2>1 DEF ChannelsTypeOK
<1>4. CASE TogglePauseClosures
  <2> DEFINE msg == ChangeBindings(BindingsFor(~closures_unbound))
  <2>1. msg \in MsgToInput
    BY SendableIsTyped DEF CoreTypeOK
  <2>2. toInput' = Append(toInput, msg) /\ UNCHANGED toUInput /\ Receive
    BY <1>4 DEF TogglePauseClosures, Triggered
  <2> HIDE DEF msg
  <2>3. toInput' \in Seq(MsgToInput) /\ toInput' # <<>>
    BY <1>1, <2>1, <2>2, AppendProperties, EmptySeq
  <2> QED BY <1>1, <1>2, <2>2, <2>3 DEF ChannelsTypeOK
<1>5. ASSUME NEW api \in Api, ClosureSends(api) \/ ClosureEnds(api) \/ ClosurePanics(api)
      PROVE  UNCHANGED channels
  BY <1>5 DEF ClosureSends, ClosureEnds, ClosurePanics
<1>6. ASSUME NEW update \in CompUpdates, ForwardUpdate(update)
      PROVE  ChannelsTypeOK' /\ (toInput # <<>> => toInput' # <<>>)
  <2> DEFINE msg == [type |-> IF update = "PointersChanged" THEN update ELSE "KeyboardChanged"]
  <2>1. msg \in MsgToInput
    BY DEF MsgToInput
  <2> HIDE DEF msg
  <2>2. UNCHANGED <<toCore, toUInput>> /\ (toInput' = toInput \/ toInput' = Append(toInput, msg))
    BY <1>6 DEF ForwardUpdate, msg
  <2>3. Append(toInput, msg) \in Seq(MsgToInput) /\ Append(toInput, msg) # <<>>
    BY <1>1, <2>1, AppendProperties, EmptySeq
  <2> QED BY <1>1, <2>2, <2>3 DEF ChannelsTypeOK
<1>7. ASSUME NEW api \in Api, WorkerForwards(api)
      PROVE  ChannelsTypeOK' /\ UNCHANGED toInput
  <2>1. toWorker[api] \in Seq(MsgToUInput) /\ toWorker[api] # <<>>
    BY <1>7 DEF WorkerForwards, CoreTypeOK
  <2>2. Head(toWorker[api]) \in MsgToUInput
    BY <2>1, HeadTailProperties
  <2>3. Append(toUInput, Head(toWorker[api])) \in Seq(MsgToUInput)
    BY <1>1, <2>2, AppendProperties
  <2> QED BY <1>1, <1>7, <2>3 DEF WorkerForwards, ChannelsTypeOK
<1>8. CASE UpdateForwards
  <2>1. Head(toUpdate) \in MsgToUInput
    BY <1>8, HeadTailProperties DEF UpdateForwards, CoreTypeOK
  <2>2. Append(toUInput, Head(toUpdate)) \in Seq(MsgToUInput)
    BY <1>1, <2>1, AppendProperties
  <2> QED BY <1>1, <1>8, <2>2 DEF UpdateForwards, ChannelsTypeOK
<1>9. CASE UNCHANGED channels
  BY <1>1, <1>9 DEF channels, ChannelsTypeOK
<1> QED BY <1>3, <1>4, <1>5, <1>6, <1>7, <1>8, <1>9
        DEF CoreProcess, CoreAlone, EventLoop, Forwarders, UpdateForwards

LEMMA TypesInit == Init => TypesInv
<1> SUFFICES ASSUME Init PROVE TypesInv
  OBVIOUS
<1>1. ChannelsTypeOK
  <2>1. ChangeBindings(DOMAIN Bindings) \in MsgToInput
    BY SendableIsTyped DEF Sendable
  <2> QED BY <2>1 DEF Init, ChannelsInit, ChannelsTypeOK
<1>2. InputTyped
  BY <1>1, InputInitTyped DEF Init
<1>3. PoolInv
  BY PoolInvInit DEF Init
<1>4. UInputTypeOK
  BY <1>1, UInputInitTyped DEF Init
<1> QED BY <1>2, <1>3, <1>4 DEF TypesInv

LEMMA TypesStep == TypesInv /\ [Next]_vars => TypesInv'
<1> SUFFICES ASSUME TypesInv, [Next]_vars PROVE TypesInv'
  OBVIOUS
<1>0. InputTyped /\ PoolInv /\ UInputTypeOK /\ CoreTypeOK /\ ChannelsTypeOK
  BY DEF TypesInv, PoolInv, UInputTypeOK
<1>1. PoolInv'
  BY <1>0, PoolInvKept
<1>2. CASE InputStep \/ HardwareStep
  <2>1. InputNext /\ UNCHANGED uinputVars
    BY <1>2 DEF InputStep, HardwareStep, InputNext
  <2>2. InputTyped'
    BY <1>0, <2>1, InputStepTyped
  <2>3. ChannelsTypeOK'
    BY <2>2 DEF InputTyped, InputTypeOK
  <2> QED BY <1>0, <1>1, <2>1, <2>2, <2>3, UInputKept DEF TypesInv
<1>3. CASE UInputStep
  <2>1. UInputTypeOK' /\ UNCHANGED inputVars
    BY <1>0, <1>3, UInputThreadType DEF UInputStep
  <2>2. UNCHANGED toInput
    BY <1>3 DEF UInputStep, UInputThread, EmitKeyActions, EmitMouseActions, EmitKeyTap,
                EmitMouseClick, UpdateScreenSpace, TakeMsg
  <2>3. ChannelsTypeOK'
    BY <2>1 DEF UInputTypeOK
  <2> QED BY <1>0, <1>1, <2>1, <2>2, <2>3, InputKept DEF TypesInv
<1>4. CASE CoreStep \/ CoreDrains \/ ForwardStep
  <2>1. (CoreProcess \/ CoreAlone \/ Forwarders) /\ UNCHANGED <<inputVars, uinputVars>>
    BY <1>4 DEF CoreStep, CoreDrains, ForwardStep
  <2>2. ChannelsTypeOK' /\ (toInput # <<>> => toInput' # <<>>)
    BY <1>0, <2>1, CoreSendsTyped
  <2> QED BY <1>0, <1>1, <2>1, <2>2, InputKept, UInputKept DEF TypesInv
<1>5. CASE PrivExits
  <2>1. InputTyped'
    BY <1>0, <1>5 DEF PrivExits, InputTyped, InputTypeOK, ChannelsTypeOK, SocketReadable,
                      hardware, fetching, round, pending, channels
  <2>2. UNCHANGED <<uinputVars, channels>>
    BY <1>5 DEF PrivExits
  <2>3. ChannelsTypeOK'
    BY <1>0, <2>2 DEF channels, ChannelsTypeOK
  <2> QED BY <1>0, <1>1, <2>1, <2>2, <2>3, UInputKept DEF TypesInv
<1>6. CASE CoreExits \/ UNCHANGED vars
  <2>1. UNCHANGED <<inputVars, uinputVars, channels>>
    BY <1>6 DEF CoreExits, vars
  <2>2. ChannelsTypeOK' /\ UNCHANGED toInput
    BY <1>0, <2>1 DEF channels, ChannelsTypeOK
  <2> QED BY <1>0, <1>1, <2>1, <2>2, InputKept, UInputKept DEF TypesInv
<1> QED BY <1>2, <1>3, <1>4, <1>5, <1>6 DEF Next

(* Whatever the threads, the user, the closures and the compositor do, in     *)
(* whatever order, no channel ever carries what its reader does not expect    *)
(* and every part's state is of its type.                                     *)
THEOREM DaekeyIsTyped == Spec => []TypeOK
<1>1. TypesInv => TypeOK
  BY DEF TypesInv, TypeOK, InputTyped, PoolInv
<1> QED BY <1>1, TypesInit, TypesStep, PTL DEF Spec

-----------------------------------------------------------------------------
(* What each part promises on its own it keeps in the whole: no thread, no    *)
(* forwarder and no end of a process breaks what another one relies on.       *)

PromisesInv ==
  /\ TypesInv /\ ModifiersInv /\ ModifiersTracked /\ ExactTap
  /\ MotionConserved /\ AccumulatedWillBeSent

LEMMA PromisesInit == Init => PromisesInv
<1> SUFFICES ASSUME Init PROVE PromisesInv
  OBVIOUS
<1>1. InputInit /\ UInputInit
  BY DEF Init
<1>2. ExactTap
  BY <1>1 DEF UInputInit, ExactTap, ExactOn, NoTap
<1>3. AccumulatedWillBeSent
  BY <1>1 DEF InputInit, AccumulatedWillBeSent
<1> QED BY <1>1, <1>2, <1>3, TypesInit, ModifiersAtFirst, MotionAtFirst, TrackedAtFirst DEF PromisesInv

LEMMA PromisesStep == PromisesInv /\ [Next]_vars => PromisesInv'
<1> SUFFICES ASSUME PromisesInv, [Next]_vars PROVE PromisesInv'
  OBVIOUS
<1>0. /\ TypesInv /\ ModifiersInv /\ ModifiersTracked /\ ExactTap
      /\ MotionConserved /\ AccumulatedWillBeSent /\ InputTypeOK /\ TrackedInv
  BY DEF PromisesInv, TypesInv, InputTyped, TrackedInv
<1>1. TypesInv'
  BY <1>0, TypesStep
<1>2. ModifiersInv' /\ MotionConserved' /\ AccumulatedWillBeSent'
  <2>1. CASE InputNext
    BY <1>0, <2>1, ModifiersStep, MotionStep, AsideTimedStep
  <2>2. CASE UNCHANGED inputVars
    BY <1>0, <2>2, ModifiersUntouched, MotionUntouched, AsideTimedStep
       DEF inputVars, hardware, round, pending
  <2>3. CASE PrivExits
    <3>1. ModifiersInv'
      BY <1>0, <2>3 DEF PrivExits, hardware, fetching, round, ModifiersInv, EventsTyped,
                        NoStrayEvents, ModifiersAgree, BatchOf
    <3>2. AccumulatedWillBeSent'
      BY <1>0, <2>3, AsideTimedStep DEF PrivExits
    <3> QED BY <1>0, <2>3, <3>1, <3>2, MotionUntouched DEF PrivExits, hardware, round, pending
  <2> QED BY <2>1, <2>2, <2>3
          DEF Next, InputStep, HardwareStep, InputNext, UInputStep, ForwardStep, CoreStep,
              CoreDrains, CoreExits, vars
<1>3. ModifiersTracked' /\ ExactTap'
  <2>1. CASE UInputThread
    BY <1>0, <2>1, ModifiersTrackedStep, ExactTapStep DEF TrackedInv
  <2>2. CASE UNCHANGED uinputVars
    BY <1>0, <2>2 DEF ModifiersTracked, ExactTap, ExactOn, uinputVars
  <2> QED BY <2>1, <2>2
          DEF Next, InputStep, HardwareStep, UInputStep, ForwardStep, CoreStep, PrivExits,
              CoreDrains, CoreExits, vars
<1> QED BY <1>1, <1>2, <1>3 DEF PromisesInv

(* In the composed system, with threads, closures, hotplug and the ends of    *)
(* either process in any order: no motion is lost, invented or left without a *)
(* timer, the modifiers of a device are those the user holds on it, the       *)
(* modifiers of the virtual keyboard are those booked, Exact taps are exact,  *)
(* no Api is lost or shared.                                                  *)
THEOREM PromisesAreKept ==
  Spec => [](/\ MotionConserved /\ AccumulatedWillBeSent /\ ModifiersArePhysical
             /\ ModifiersTracked /\ ExactTap /\ ApisConserved)
<1>1. PromisesInv
        => /\ MotionConserved /\ AccumulatedWillBeSent /\ ModifiersArePhysical
           /\ ModifiersTracked /\ ExactTap /\ ApisConserved
  BY AgreedIsPhysical DEF PromisesInv, TypesInv, PoolInv
<1> QED BY <1>1, PromisesInit, PromisesStep, PTL DEF Spec

(* Whatever order the messages of closures, of the input thread and of the    *)
(* main thread reach the uinput thread in: a tap or a click leaves every other *)
(* key as it found it.                                                        *)
THEOREM TapsOfClosuresLeaveTheRest == Spec => TapLeavesTheRest
<1>1. PromisesInv
        => [(EmitKeyTap \/ EmitMouseClick) /\ ~failed'
              => \A dev \in VirtualDevice :
                   down'[dev] \ ({Head(toUInput).key} \cup loose)
                     = down[dev] \ ({Head(toUInput).key} \cup loose)]_UInputSpecVars
  BY TapLeaves DEF PromisesInv, TypesInv, TrackedInv
<1>2. Spec => []PromisesInv
  BY PromisesInit, PromisesStep, PTL DEF Spec
<1> QED BY <1>1, <1>2, PTL DEF TapLeavesTheRest

-----------------------------------------------------------------------------
(* Keys follow the user.                                                   *)

(* Whether a sequence leaves something on that was on or off before, h: the   *)
(* last element that decides, one of D, says so, being or not being one of U. *)
LastSays(s, D, U, h) ==
  \/ \E i \in DOMAIN s : s[i] \in U /\ \A j \in DOMAIN s : j > i => s[j] \notin D
  \/ h /\ \A i \in DOMAIN s : s[i] \notin D

(* The events, actions and messages that decide whether k is down, and those  *)
(* that put it down. *)
KeyEvents(k)  == {e \in Event : Decisive(e, k)}
DownEvents(k) == {e \in KeyEvents(k) : e.value = 1}

KeyActions(k)  == {a \in KeyAction : Changes(a, k)}
DownActions(k) == {a \in KeyActions(k) : a.state = "Pressed"}

PutDownBy(actions, k, h) == LastSays(actions, KeyActions(k), DownActions(k), h)

KeyMsgs(k) ==
  {m \in MsgToUInput :
     m.type = "SendKeyActions" /\ \E i \in DOMAIN m.actions : m.actions[i] \in KeyActions(k)}
DownMsgs(k) == {m \in KeyMsgs(k) : PutDownBy(m.actions, k, FALSE)}

(* Whether k, down or up as h says, is down when the messages have arrived,   *)
(* then the actions pushed, the events of the batch and those in the buffer.  *)
DownInTheEnd(buffer, events, actions, msgs, k, h) ==
  LET sent    == LastSays(msgs, KeyMsgs(k), DownMsgs(k), h)
      pushed  == PutDownBy(actions, k, sent)
      handled == LastSays(events, KeyEvents(k), DownEvents(k), pushed)
  IN  LastSays(buffer, KeyEvents(k), DownEvents(k), handled)

LEMMA SaysNothing == \A D, U, h : LastSays(<<>>, D, U, h) <=> h
BY DEF LastSays

LEMMA SaysMore ==
  ASSUME NEW s, NEW D, NEW U, NEW h, NEW g, h => g, LastSays(s, D, U, h)
  PROVE  LastSays(s, D, U, g)
BY DEF LastSays

LEMMA SaysAppended ==
  ASSUME NEW S, NEW s \in Seq(S), NEW e \in S, NEW D, NEW U \in SUBSET D, NEW h
  PROVE  LastSays(Append(s, e), D, U, h) <=> IF e \in D THEN e \in U ELSE LastSays(s, D, U, h)
<1> DEFINE t == Append(s, e)
           n == Len(s)
<1>1. /\ DOMAIN s = 1..n /\ n \in Nat /\ DOMAIN t = 1..(n + 1)
      /\ \A i \in 1..n : t[i] = s[i]
      /\ t[n + 1] = e
  BY Appended
<1> HIDE DEF t, n
<1>2. CASE e \in D
  <2>1. ASSUME e \in U PROVE LastSays(t, D, U, h)
    <3>1. n + 1 \in DOMAIN t /\ t[n + 1] \in U /\ \A j \in DOMAIN t : ~(j > n + 1)
      BY <1>1, <2>1
    <3> QED BY <3>1 DEF LastSays
  <2>2. ASSUME LastSays(t, D, U, h) PROVE e \in U
    <3>1. n + 1 \in DOMAIN t /\ t[n + 1] \in D /\ \A i \in DOMAIN t : n + 1 > i \/ i = n + 1
      BY <1>1, <1>2
    <3> QED BY <1>1, <2>2, <3>1 DEF LastSays
  <2> QED BY <1>2, <2>1, <2>2 DEF t
<1>3. CASE e \notin D
  <2>1. (\A i \in DOMAIN t : t[i] \notin D) <=> \A i \in DOMAIN s : s[i] \notin D
    BY <1>1, <1>3
  <2>2. ASSUME NEW i \in DOMAIN s
        PROVE  (\A j \in DOMAIN t : j > i => t[j] \notin D)
                 <=> \A j \in DOMAIN s : j > i => s[j] \notin D
    BY <1>1, <1>3
  <2>3. (\E i \in DOMAIN t : t[i] \in U /\ \A j \in DOMAIN t : j > i => t[j] \notin D)
          <=> \E i \in DOMAIN s : t[i] \in U /\ \A j \in DOMAIN t : j > i => t[j] \notin D
    BY <1>1, <1>3
  <2>4. \A i \in DOMAIN s : t[i] = s[i]
    BY <1>1
  <2> QED BY <1>3, <2>1, <2>2, <2>3, <2>4 DEF LastSays, t
<1> QED BY <1>2, <1>3

LEMMA SaysOfHead ==
  ASSUME NEW S, NEW s \in Seq(S), s # <<>>, NEW D, NEW U \in SUBSET D, NEW h
  PROVE  LastSays(s, D, U, h)
           <=> LastSays(Tail(s), D, U, IF Head(s) \in D THEN Head(s) \in U ELSE h)
<1> DEFINE t == Tail(s)
           n == Len(s)
           g == IF s[1] \in D THEN s[1] \in U ELSE h
<1>1. /\ DOMAIN s = 1..n /\ n \in Nat \ {0} /\ DOMAIN t = 1..(n - 1) /\ Head(s) = s[1]
      /\ \A i \in 1..(n - 1) : t[i] = s[i + 1]
  BY TailTaken
<1> HIDE DEF t, n
<1>2. /\ \A i \in DOMAIN t : i + 1 \in DOMAIN s /\ t[i] = s[i + 1] /\ i \in Nat
      /\ \A i \in DOMAIN s : i = 1 \/ (i - 1 \in DOMAIN t /\ t[i - 1] = s[i])
      /\ 1 \in DOMAIN s /\ \A i \in DOMAIN s : i \in Nat /\ i >= 1
  BY <1>1
<1>3. (\A i \in DOMAIN t : t[i] \notin D) <=> \A i \in DOMAIN s : i > 1 => s[i] \notin D
  <2>1. ASSUME \A i \in DOMAIN t : t[i] \notin D, NEW i \in DOMAIN s, i > 1 PROVE s[i] \notin D
    <3>1. i - 1 \in DOMAIN t /\ t[i - 1] = s[i]
      BY <1>2, <2>1
    <3> QED BY <2>1, <3>1
  <2>2. ASSUME \A i \in DOMAIN s : i > 1 => s[i] \notin D, NEW i \in DOMAIN t PROVE t[i] \notin D
    <3>1. i + 1 \in DOMAIN s /\ i + 1 > 1 /\ t[i] = s[i + 1]
      BY <1>1
    <3> QED BY <2>2, <3>1
  <2> QED BY <2>1, <2>2
<1>4. ASSUME NEW i \in DOMAIN t
      PROVE  (\A j \in DOMAIN t : j > i => t[j] \notin D)
               <=> \A j \in DOMAIN s : j > i + 1 => s[j] \notin D
  <2>1. ASSUME \A j \in DOMAIN t : j > i => t[j] \notin D, NEW j \in DOMAIN s, j > i + 1
        PROVE  s[j] \notin D
    <3>1. j - 1 \in DOMAIN t /\ t[j - 1] = s[j] /\ j - 1 > i
      BY <1>1, <1>2, <1>4, <2>1
    <3> QED BY <2>1, <3>1
  <2>2. ASSUME \A j \in DOMAIN s : j > i + 1 => s[j] \notin D, NEW j \in DOMAIN t, j > i
        PROVE  t[j] \notin D
    <3>1. j + 1 \in DOMAIN s /\ j + 1 > i + 1 /\ t[j] = s[j + 1]
      BY <1>1, <1>4, <2>2
    <3> QED BY <2>2, <3>1
  <2> QED BY <2>1, <2>2
<1> DEFINE In(i) == s[i] \in U /\ \A j \in DOMAIN s : j > i => s[j] \notin D
           Of(i) == t[i] \in U /\ \A j \in DOMAIN t : j > i => t[j] \notin D
<1>5. \A i \in DOMAIN t : Of(i) <=> In(i + 1)
  BY <1>2, <1>4
<1>6. (\E i \in DOMAIN s : In(i)) <=> In(1) \/ \E i \in DOMAIN t : Of(i)
  <2>1. ASSUME NEW i \in DOMAIN s, In(i) PROVE In(1) \/ \E j \in DOMAIN t : Of(j)
    <3>1. CASE i = 1
      BY <2>1, <3>1
    <3>2. CASE i # 1
      <4>1. i - 1 \in DOMAIN t /\ (i - 1) + 1 = i
        BY <1>2, <3>2
      <4>2. Of(i - 1)
        <5> HIDE DEF Of, In
        <5> QED BY <1>5, <2>1, <4>1
      <4> QED BY <4>1, <4>2
    <3> QED BY <3>1, <3>2
  <2>2. ASSUME NEW i \in DOMAIN t, Of(i) PROVE \E j \in DOMAIN s : In(j)
    <3>1. In(i + 1) /\ i + 1 \in DOMAIN s
      <4> HIDE DEF Of, In
      <4> QED BY <1>2, <1>5, <2>2
    <3> QED BY <3>1
  <2> QED BY <1>2, <2>1, <2>2
<1>7. In(1) <=> s[1] \in U /\ \A i \in DOMAIN t : t[i] \notin D
  BY <1>3
<1>8. (\A i \in DOMAIN s : s[i] \notin D) <=> s[1] \notin D /\ \A i \in DOMAIN t : t[i] \notin D
  BY <1>2, <1>3
<1>9. LastSays(s, D, U, h) <=> (\E i \in DOMAIN s : In(i)) \/ (h /\ \A i \in DOMAIN s : s[i] \notin D)
  BY DEF LastSays
<1>10. LastSays(t, D, U, g) <=> (\E i \in DOMAIN t : Of(i)) \/ (g /\ \A i \in DOMAIN t : t[i] \notin D)
  BY DEF LastSays
<1>11. LastSays(s, D, U, h) <=> LastSays(t, D, U, g)
  <2> HIDE DEF In, Of
  <2> QED BY <1>6, <1>7, <1>8, <1>9, <1>10
<1> QED BY <1>1, <1>11 DEF t

(* What the parts of this mean for one another. *)
LEMMA DownSets ==
  \A k : DownEvents(k) \subseteq KeyEvents(k) /\ DownActions(k) \subseteq KeyActions(k)
         /\ DownMsgs(k) \subseteq KeyMsgs(k)
BY DEF DownEvents, DownActions, DownMsgs

LEMMA NothingOnItsWay ==
  \A k, h : DownInTheEnd(<<>>, <<>>, <<>>, <<>>, k, h) <=> h
BY SaysNothing DEF DownInTheEnd, PutDownBy

(* A buffer without a key event says nothing of the key. *)
LEMMA DownUnsaid ==
  ASSUME NEW buffer, NEW events, NEW actions, NEW msgs, NEW k, NEW h,
         \A i \in DOMAIN buffer : buffer[i] \notin KeyEvents(k)
  PROVE  DownInTheEnd(buffer, events, actions, msgs, k, h)
           <=> DownInTheEnd(<<>>, events, actions, msgs, k, h)
<1> DEFINE g == LastSays(events, KeyEvents(k), DownEvents(k),
                         PutDownBy(actions, k, LastSays(msgs, KeyMsgs(k), DownMsgs(k), h)))
<1>1. LastSays(buffer, KeyEvents(k), DownEvents(k), g) <=> g
  BY DEF LastSays, DownEvents
<1>2. LastSays(<<>>, KeyEvents(k), DownEvents(k), g) <=> g
  BY SaysNothing
<1> QED BY <1>1, <1>2 DEF DownInTheEnd

LEMMA DownMore ==
  ASSUME NEW buffer, NEW events, NEW actions, NEW msgs, NEW k, NEW h, NEW g, h => g,
         DownInTheEnd(buffer, events, actions, msgs, k, h)
  PROVE  DownInTheEnd(buffer, events, actions, msgs, k, g)
<1> DEFINE sent(b)    == LastSays(msgs, KeyMsgs(k), DownMsgs(k), b)
           pushed(b)  == LastSays(actions, KeyActions(k), DownActions(k), sent(b))
           handled(b) == LastSays(events, KeyEvents(k), DownEvents(k), pushed(b))
           done(b)    == LastSays(buffer, KeyEvents(k), DownEvents(k), handled(b))
<1>1. sent(h) => sent(g)
  BY SaysMore
<1>2. pushed(h) => pushed(g)
  <2> HIDE DEF sent
  <2> QED BY <1>1, SaysMore
<1>3. handled(h) => handled(g)
  <2> HIDE DEF pushed
  <2> QED BY <1>2, SaysMore
<1>4. done(h) => done(g)
  <2> HIDE DEF handled
  <2> QED BY <1>3, SaysMore
<1>5. \A b : DownInTheEnd(buffer, events, actions, msgs, k, b) <=> done(b)
  BY DEF DownInTheEnd, PutDownBy
<1> HIDE DEF done
<1> QED BY <1>4, <1>5

(* A report decides, or changes nothing. *)
LEMMA DownReported ==
  ASSUME NEW buffer \in Seq(Event), NEW events, NEW actions, NEW msgs, NEW k, NEW h, NEW e \in Event
  PROVE  DownInTheEnd(buffer \o <<e, SynEvent>>, events, actions, msgs, k, h)
           <=> IF e \in KeyEvents(k) THEN e \in DownEvents(k)
               ELSE DownInTheEnd(buffer, events, actions, msgs, k, h)
<1> DEFINE g == LastSays(events, KeyEvents(k), DownEvents(k),
                         PutDownBy(actions, k, LastSays(msgs, KeyMsgs(k), DownMsgs(k), h)))
           D == KeyEvents(k)
           U == DownEvents(k)
           one == Append(buffer, e)
<1>1. buffer \o <<e, SynEvent>> = Append(one, SynEvent)
  OBVIOUS
<1>2. SynEvent \in Event /\ SynEvent \notin D
  BY DEF SynEvent, Event, KeyEvents, Decisive
<1>3. one \in Seq(Event) /\ U \in SUBSET D
  BY AppendProperties, DownSets
<1>4. DownInTheEnd(buffer, events, actions, msgs, k, h) <=> LastSays(buffer, D, U, g)
  BY DEF DownInTheEnd
<1>5. DownInTheEnd(Append(one, SynEvent), events, actions, msgs, k, h)
        <=> LastSays(Append(one, SynEvent), D, U, g)
  BY DEF DownInTheEnd
<1> HIDE DEF g, D, U
<1>6. LastSays(one, D, U, g) <=> IF e \in D THEN e \in U ELSE LastSays(buffer, D, U, g)
  BY <1>3, SaysAppended
<1> HIDE DEF one
<1>7. LastSays(Append(one, SynEvent), D, U, g) <=> LastSays(one, D, U, g)
  BY <1>2, <1>3, SaysAppended
<1> QED BY <1>1, <1>4, <1>5, <1>6, <1>7 DEF D, U

(* An empty batch is filled from the buffer. *)
LEMMA DownFetched ==
  ASSUME NEW buffer, NEW actions, NEW msgs, NEW k, NEW h
  PROVE  DownInTheEnd(<<>>, buffer, actions, msgs, k, h)
           <=> DownInTheEnd(buffer, <<>>, actions, msgs, k, h)
<1> DEFINE g == PutDownBy(actions, k, LastSays(msgs, KeyMsgs(k), DownMsgs(k), h))
           D == KeyEvents(k)
           U == DownEvents(k)
           none == LastSays(<<>>, D, U, g)
           some == LastSays(buffer, D, U, g)
<1>1. DownInTheEnd(<<>>, buffer, actions, msgs, k, h) <=> LastSays(<<>>, D, U, some)
  BY DEF DownInTheEnd
<1>2. DownInTheEnd(buffer, <<>>, actions, msgs, k, h) <=> LastSays(buffer, D, U, none)
  BY DEF DownInTheEnd
<1> HIDE DEF g, D, U
<1>3. none <=> g
  BY SaysNothing
<1>4. LastSays(<<>>, D, U, some) <=> some
  <2> HIDE DEF some
  <2> QED BY SaysNothing
<1>5. LastSays(buffer, D, U, none) <=> LastSays(buffer, D, U, g)
  <2> HIDE DEF none
  <2> QED BY <1>3, SaysMore
<1> QED BY <1>1, <1>2, <1>4, <1>5

(* The head of the batch is handled: what is pushed for it says the same, *)
LEMMA DownForwarded ==
  ASSUME NEW buffer, NEW events \in Seq(Event), events # <<>>, NEW actions \in Seq(KeyAction),
         NEW msgs, NEW k, NEW h, NEW a \in KeyAction,
         a \in KeyActions(k) <=> Head(events) \in KeyEvents(k),
         a \in DownActions(k) <=> Head(events) \in DownEvents(k)
  PROVE  DownInTheEnd(buffer, Tail(events), Append(actions, a), msgs, k, h)
           <=> DownInTheEnd(buffer, events, actions, msgs, k, h)
<1> DEFINE sent   == LastSays(msgs, KeyMsgs(k), DownMsgs(k), h)
           before == LastSays(actions, KeyActions(k), DownActions(k), sent)
           after  == LastSays(Append(actions, a), KeyActions(k), DownActions(k), sent)
           g == IF Head(events) \in KeyEvents(k) THEN Head(events) \in DownEvents(k) ELSE before
           was  == LastSays(events, KeyEvents(k), DownEvents(k), before)
           is   == LastSays(Tail(events), KeyEvents(k), DownEvents(k), after)
<1>1. KeyEvents(k) \subseteq Event /\ DownEvents(k) \in SUBSET KeyEvents(k)
      /\ DownActions(k) \in SUBSET KeyActions(k)
  BY DownSets DEF KeyEvents
<1>2. was <=> LastSays(Tail(events), KeyEvents(k), DownEvents(k), g)
  <2> HIDE DEF before
  <2> QED BY <1>1, SaysOfHead
<1>3. after <=> g
  <2> HIDE DEF sent
  <2>1. after <=> IF a \in KeyActions(k) THEN a \in DownActions(k) ELSE before
    BY <1>1, SaysAppended
  <2> HIDE DEF before, after
  <2> QED BY <2>1 DEF g
<1>4. was <=> is
  <2> HIDE DEF after, g, was
  <2> QED BY <1>2, <1>3, SaysMore
<1>5. DownInTheEnd(buffer, events, actions, msgs, k, h)
        <=> LastSays(buffer, KeyEvents(k), DownEvents(k), was)
  BY DEF DownInTheEnd, PutDownBy
<1>6. DownInTheEnd(buffer, Tail(events), Append(actions, a), msgs, k, h)
        <=> LastSays(buffer, KeyEvents(k), DownEvents(k), is)
  BY DEF DownInTheEnd, PutDownBy
<1> HIDE DEF is, was
<1> QED BY <1>4, <1>5, <1>6, SaysMore

(* nothing is pushed for it, and it decides nothing, *)
LEMMA DownPassedOver ==
  ASSUME NEW buffer, NEW events \in Seq(Event), events # <<>>, NEW actions, NEW msgs, NEW k, NEW h,
         Head(events) \notin KeyEvents(k)
  PROVE  DownInTheEnd(buffer, Tail(events), actions, msgs, k, h)
           <=> DownInTheEnd(buffer, events, actions, msgs, k, h)
<1> DEFINE g == PutDownBy(actions, k, LastSays(msgs, KeyMsgs(k), DownMsgs(k), h))
           was == LastSays(events, KeyEvents(k), DownEvents(k), g)
           is  == LastSays(Tail(events), KeyEvents(k), DownEvents(k), g)
<1>1. was <=> is
  <2> HIDE DEF g
  <2>1. DownEvents(k) \in SUBSET KeyEvents(k)
    BY DownSets
  <2>2. was <=> LastSays(Tail(events), KeyEvents(k), DownEvents(k),
                         IF Head(events) \in KeyEvents(k) THEN Head(events) \in DownEvents(k) ELSE g)
    BY <2>1, SaysOfHead
  <2> QED BY <2>2
<1>2. DownInTheEnd(buffer, events, actions, msgs, k, h)
        <=> LastSays(buffer, KeyEvents(k), DownEvents(k), was)
  BY DEF DownInTheEnd
<1>3. DownInTheEnd(buffer, Tail(events), actions, msgs, k, h)
        <=> LastSays(buffer, KeyEvents(k), DownEvents(k), is)
  BY DEF DownInTheEnd
<1> HIDE DEF is, was
<1> QED BY <1>1, <1>2, <1>3, SaysMore

(* or it is a press that is taken for a keybind, and puts nothing down.       *)
LEMMA DownSwallowed ==
  ASSUME NEW buffer, NEW events \in Seq(Event), events # <<>>, NEW actions, NEW msgs, NEW k, NEW h,
         Head(events) \in KeyEvents(k) => Head(events) \in DownEvents(k),
         DownInTheEnd(buffer, Tail(events), actions, msgs, k, h)
  PROVE  DownInTheEnd(buffer, events, actions, msgs, k, h)
<1> DEFINE g == PutDownBy(actions, k, LastSays(msgs, KeyMsgs(k), DownMsgs(k), h))
           f == IF Head(events) \in KeyEvents(k) THEN Head(events) \in DownEvents(k) ELSE g
           was == LastSays(events, KeyEvents(k), DownEvents(k), g)
           is  == LastSays(Tail(events), KeyEvents(k), DownEvents(k), g)
<1>1. is => was
  <2> HIDE DEF g
  <2>1. DownEvents(k) \in SUBSET KeyEvents(k)
    BY DownSets
  <2>2. was <=> LastSays(Tail(events), KeyEvents(k), DownEvents(k), f)
    BY <2>1, SaysOfHead
  <2>3. g => f
    OBVIOUS
  <2> HIDE DEF f, was
  <2> QED BY <2>2, <2>3, SaysMore
<1>2. DownInTheEnd(buffer, events, actions, msgs, k, h)
        <=> LastSays(buffer, KeyEvents(k), DownEvents(k), was)
  BY DEF DownInTheEnd
<1>3. DownInTheEnd(buffer, Tail(events), actions, msgs, k, h)
        <=> LastSays(buffer, KeyEvents(k), DownEvents(k), is)
  BY DEF DownInTheEnd
<1> HIDE DEF is, was
<1> QED BY <1>1, <1>2, <1>3, SaysMore

(* A message that says what was pushed takes its place. *)
LEMMA DownSent ==
  ASSUME NEW buffer, NEW events, NEW actions \in Seq(KeyAction), NEW msgs \in Seq(MsgToUInput),
         NEW k, NEW h
  PROVE  DownInTheEnd(buffer, events, <<>>, Append(msgs, SendKeyActions(actions)), k, h)
           <=> DownInTheEnd(buffer, events, actions, msgs, k, h)
<1> DEFINE m == SendKeyActions(actions)
           sent == LastSays(msgs, KeyMsgs(k), DownMsgs(k), h)
           more == LastSays(Append(msgs, m), KeyMsgs(k), DownMsgs(k), h)
           was  == PutDownBy(actions, k, sent)
           is   == PutDownBy(<<>>, k, more)
<1>1. m \in MsgToUInput /\ m.type = "SendKeyActions" /\ m.actions = actions
  BY DEF SendKeyActions, MsgToUInput
<1>2. more <=> IF m \in KeyMsgs(k) THEN m \in DownMsgs(k) ELSE sent
  <2> HIDE DEF m
  <2>1. DownMsgs(k) \in SUBSET KeyMsgs(k)
    BY DownSets
  <2> QED BY <1>1, <2>1, SaysAppended
<1>3. is <=> more
  BY SaysNothing DEF PutDownBy
<1>4. was <=> PutDownBy(actions, k, sent)
  OBVIOUS
<1>5. m \in DownMsgs(k) <=> m \in KeyMsgs(k) /\ PutDownBy(actions, k, FALSE)
  BY <1>1 DEF DownMsgs
<1>6. m \in KeyMsgs(k) <=> \E i \in DOMAIN actions : actions[i] \in KeyActions(k)
  BY <1>1 DEF KeyMsgs
<1> HIDE DEF m, sent, more, was, is
<1>7. was <=> IF m \in KeyMsgs(k) THEN PutDownBy(actions, k, FALSE) ELSE sent
  <2>1. DownActions(k) \subseteq KeyActions(k)
    BY DownSets
  <2>2. CASE m \in KeyMsgs(k)
    BY <1>4, <1>6, <2>2 DEF PutDownBy, LastSays
  <2>3. CASE m \notin KeyMsgs(k)
    BY <1>4, <1>6, <2>1, <2>3 DEF PutDownBy, LastSays
  <2> QED BY <2>2, <2>3
<1>8. was <=> is
  BY <1>2, <1>3, <1>5, <1>7
<1> DEFINE batched(b) == LastSays(events, KeyEvents(k), DownEvents(k), b)
           all(b) == LastSays(buffer, KeyEvents(k), DownEvents(k), batched(b))
<1>9. all(is) <=> all(was)
  <2>1. batched(is) <=> batched(was)
    BY <1>8, SaysMore
  <2> HIDE DEF batched
  <2> QED BY <2>1, SaysMore
<1>10. DownInTheEnd(buffer, events, actions, msgs, k, h) <=> all(was)
  BY DEF DownInTheEnd, was, sent
<1>11. DownInTheEnd(buffer, events, <<>>, Append(msgs, m), k, h) <=> all(is)
  BY DEF DownInTheEnd, is, more
<1> HIDE DEF all
<1> QED BY <1>9, <1>10, <1>11 DEF m

(* What the messages leave is all that counts of them. *)
LEMMA DownByMsgs ==
  ASSUME NEW buffer, NEW events, NEW actions, NEW msgs, NEW k, NEW h, NEW others, NEW g,
         LastSays(msgs, KeyMsgs(k), DownMsgs(k), h) => LastSays(others, KeyMsgs(k), DownMsgs(k), g),
         DownInTheEnd(buffer, events, actions, msgs, k, h)
  PROVE  DownInTheEnd(buffer, events, actions, others, k, g)
<1> DEFINE was == LastSays(msgs, KeyMsgs(k), DownMsgs(k), h)
           is  == LastSays(others, KeyMsgs(k), DownMsgs(k), g)
           pushed(b)  == LastSays(actions, KeyActions(k), DownActions(k), b)
           handled(b) == LastSays(events, KeyEvents(k), DownEvents(k), pushed(b))
           done(b)    == LastSays(buffer, KeyEvents(k), DownEvents(k), handled(b))
<1>1. DownInTheEnd(buffer, events, actions, msgs, k, h) <=> done(was)
  BY DEF DownInTheEnd, PutDownBy
<1>2. DownInTheEnd(buffer, events, actions, others, k, g) <=> done(is)
  BY DEF DownInTheEnd, PutDownBy
<1>3. was => is
  OBVIOUS
<1> HIDE DEF was, is
<1>4. pushed(was) => pushed(is)
  BY <1>3, SaysMore
<1>5. handled(was) => handled(is)
  <2> HIDE DEF pushed
  <2> QED BY <1>4, SaysMore
<1>6. done(was) => done(is)
  <2> HIDE DEF handled
  <2> QED BY <1>5, SaysMore
<1> HIDE DEF done
<1> QED BY <1>1, <1>2, <1>6

(* Another message. *)
LEMMA DownAppended ==
  ASSUME NEW buffer, NEW events, NEW actions, NEW msgs \in Seq(MsgToUInput), NEW k, NEW h,
         NEW m \in MsgToUInput
  PROVE  /\ m \notin DownMsgs(k) /\ DownInTheEnd(buffer, events, actions, Append(msgs, m), k, h)
              => DownInTheEnd(buffer, events, actions, msgs, k, h)
         /\ m \notin KeyMsgs(k) /\ DownInTheEnd(buffer, events, actions, msgs, k, h)
              => DownInTheEnd(buffer, events, actions, Append(msgs, m), k, h)
<1> DEFINE was == LastSays(msgs, KeyMsgs(k), DownMsgs(k), h)
           is  == LastSays(Append(msgs, m), KeyMsgs(k), DownMsgs(k), h)
<1>1. is <=> IF m \in KeyMsgs(k) THEN m \in DownMsgs(k) ELSE was
  <2>1. DownMsgs(k) \in SUBSET KeyMsgs(k)
    BY DownSets
  <2> QED BY <2>1, SaysAppended
<1>2. (m \notin DownMsgs(k) => (is => was)) /\ (m \notin KeyMsgs(k) => (was => is))
  <2> HIDE DEF was, is
  <2> QED BY <1>1, DownSets
<1> DEFINE t == Append(msgs, m)
<1>3. is <=> LastSays(t, KeyMsgs(k), DownMsgs(k), h)
  OBVIOUS
<1> HIDE DEF t, is
<1>4. ASSUME m \notin DownMsgs(k), DownInTheEnd(buffer, events, actions, t, k, h)
      PROVE  DownInTheEnd(buffer, events, actions, msgs, k, h)
  BY <1>2, <1>3, <1>4, DownByMsgs
<1>5. ASSUME m \notin KeyMsgs(k), DownInTheEnd(buffer, events, actions, msgs, k, h)
      PROVE  DownInTheEnd(buffer, events, actions, t, k, h)
  BY <1>2, <1>3, <1>5, DownByMsgs
<1> QED BY <1>4, <1>5 DEF t

(* The first message is handled. *)
LEMMA DownHandled ==
  ASSUME NEW buffer, NEW events, NEW actions, NEW msgs \in Seq(MsgToUInput), msgs # <<>>,
         NEW k, NEW h, NEW g
  PROVE  /\ (g => IF Head(msgs) \in KeyMsgs(k) THEN Head(msgs) \in DownMsgs(k) ELSE h)
              /\ DownInTheEnd(buffer, events, actions, Tail(msgs), k, g)
              => DownInTheEnd(buffer, events, actions, msgs, k, h)
         /\ ((IF Head(msgs) \in KeyMsgs(k) THEN Head(msgs) \in DownMsgs(k) ELSE h) => g)
              /\ DownInTheEnd(buffer, events, actions, msgs, k, h)
              => DownInTheEnd(buffer, events, actions, Tail(msgs), k, g)
<1> DEFINE f    == IF Head(msgs) \in KeyMsgs(k) THEN Head(msgs) \in DownMsgs(k) ELSE h
           rest == Tail(msgs)
           was  == LastSays(msgs, KeyMsgs(k), DownMsgs(k), h)
           Is(b) == LastSays(rest, KeyMsgs(k), DownMsgs(k), b)
<1>1. was <=> Is(f)
  <2>1. DownMsgs(k) \in SUBSET KeyMsgs(k)
    BY DownSets
  <2> QED BY <2>1, SaysOfHead
<1> HIDE DEF f, rest
<1>2. (g => f) => (Is(g) => was)
  BY <1>1, SaysMore
<1>3. (f => g) => (was => Is(g))
  BY <1>1, SaysMore
<1>4. ASSUME g => f, DownInTheEnd(buffer, events, actions, rest, k, g)
      PROVE  DownInTheEnd(buffer, events, actions, msgs, k, h)
  BY <1>2, <1>4, DownByMsgs
<1>5. ASSUME f => g, DownInTheEnd(buffer, events, actions, msgs, k, h)
      PROVE  DownInTheEnd(buffer, events, actions, rest, k, g)
  BY <1>3, <1>5, DownByMsgs
<1> QED BY <1>4, <1>5 DEF f, rest

-----------------------------------------------------------------------------
(* The invariant, for a user with one keyboard: nothing makes the input       *)
(* thread open its devices again, and no message of a closure leaves a key    *)
(* down (taps do not).                                                        *)

OneKeyboard(kb) ==
  /\ Kbd = {kb}
  /\ CompUpdates \subseteq Screen
  /\ \A msg \in ClosureMsgs, k \in Key : msg \notin DownMsgs(k)

(* Taps come from closures, and what they tap is all that is ever let go      *)
(* behind the thread's back. *)
UntappedMsgs == {m \in MsgToUInput : m.type \notin {"SendKeyTap", "SendMouseClick"}}

TapsAreOfClosures ==
  /\ toUInput \in Seq(ClosureMsgs \cup UntappedMsgs)
  /\ toWorker \in [Api -> Seq(ClosureMsgs)]
  /\ toUpdate \in Seq({m \in MsgToUInput : m.type = "UpdateScreenSpace"})
  /\ \A k \in loose : SentByClosures(k)

(* The devices are opened once. *)
OpenedOnce ==
  /\ \A i \in DOMAIN toInput : IsChange(toInput[i])
  /\ pc = "fetch" => first_fetch
  /\ pc = "loop" /\ update_devices => first_fetch /\ devs = {}

(* Reports end in a SYN event, and what was pushed before it waits for it. *)
EndsInSyn(s) == s # <<>> => s[Len(s)].type = "SYN"

ReportsEnd(kb) ==
  /\ \A d \in Device : EndsInSyn(evq[d])
  /\ EndsInSyn(batch)
  /\ key_actions # <<>> => batch # <<>> /\ cur = kb

(* What the buffer of the keyboard holds for the loop.  What it holds before  *)
(* the keyboard is listed is dropped. *)
BufferOf(kb) == IF kb \in devs THEN evq[kb] ELSE <<>>

(* k will be down when all that is on its way has arrived; or may be, because *)
(* a tap presses what the thread believes held.                               *)
OnItsWay(kb, k, h) == DownInTheEnd(BufferOf(kb), BatchOf(kb), key_actions, toUInput, k, h)

WillBeDown(kb, k) == OnItsWay(kb, k, k \in down["virt_kbd"])
MayBeDown(kb, k)  == OnItsWay(kb, k, k \in down["virt_kbd"] \/ k \in cur_modifiers)

(* No key will be down that is not down on the keyboard, *)
NoKeyInvented(kb) ==
  kb \notin gone =>
    \A k \in KbdKey : ~BoundOnRelease(k) /\ MayBeDown(kb, k) => kb \in devs /\ k \in phys[kb]

(* and every key will that was pressed there after it was listed and that     *)
(* nothing else uses.                                                         *)
NoKeyLost(kb) ==
  kb \in devs \ gone =>
    \A k \in (phys[kb] \ downAtOpen[kb]) \cap KbdKey :
      ~Bound(k) /\ ~SentByClosures(k) => WillBeDown(kb, k)

(* What a step may do to the keys that count. *)
Noted(kb) ==
  IF kb \in devs' \ devs THEN phys'[kb] \subseteq downAtOpen'[kb]
                        ELSE downAtOpen[kb] \cap phys'[kb] \subseteq downAtOpen'[kb]

LEMMA StepNoted ==
  ASSUME NEW kb \in Device, [HeldNext]_heldVars PROVE Noted(kb)
<1>1. CASE HeldNext
  BY <1>1 DEF HeldNext, KeysNoted, Noted
<1>2. CASE UNCHANGED heldVars
  <2>1. UNCHANGED <<devs, downAtOpen>>
    BY <1>2 DEF heldVars, vars, inputVars, fetching
  <2> QED BY <2>1 DEF Noted
<1> QED BY <1>1, <1>2

KeysInv(kb) ==
  /\ TapsAreOfClosures /\ OpenedOnce /\ ReportsEnd(kb)
  /\ ~failed => NoKeyInvented(kb) /\ NoKeyLost(kb)

(* What may be used of the rest. *)
LEMMA RestOfIt ==
  ASSUME PromisesInv, BindingsInv
  PROVE  /\ InputTypeOK /\ ChannelsTypeOK /\ CoreTypeOK /\ UInputTypeOK /\ TrackedInv
         /\ SocketReadable /\ ModifiersInv /\ NoStrayEvents /\ bindings \subseteq DOMAIN Bindings
BY SendableIsTyped DEF PromisesInv, TypesInv, InputTyped, TrackedInv, PoolInv, ModifiersInv,
                       UInputTypeOK, BindingsInv

-----------------------------------------------------------------------------
LEMMA OpenedOnceStep ==
  ASSUME NEW kb, OneKeyboard(kb), OpenedOnce, TypesInv, [Next]_vars PROVE OpenedOnce'
<1>0. toInput \in Seq(MsgToInput) /\ SocketReadable
  BY DEF TypesInv, InputTyped, InputTypeOK, ChannelsTypeOK
<1>1. CASE UNCHANGED <<toInput, pc, first_fetch, update_devices, devs>>
  BY <1>1 DEF OpenedOnce
<1>2. CASE UNCHANGED toInput /\ (StartFetch \/ FetchDone \/ DeviceError \/ PrivExits)
  BY <1>2 DEF OpenedOnce, StartFetch, AtLoopTop, FetchDone, DeviceError, PrivExits, fetching
<1>3. ASSUME NEW d \in Device, OpenDevice(d) \/ AsksKeys(d) PROVE OpenedOnce'
  <2>1. UNCHANGED <<toInput, pc, first_fetch>> /\ pc = "fetch"
    BY <1>3, Asked DEF OpenDevice, channels
  <2> QED BY <2>1 DEF OpenedOnce
<1>4. CASE ReceiveFromCore
  <2>1. toInput # <<>> /\ toInput' = Tail(toInput)
    BY <1>0, <1>4 DEF ReceiveFromCore, SocketReadable
  <2>2. /\ Head(toInput) = toInput[1] /\ 1 \in DOMAIN toInput
        /\ \A i \in DOMAIN toInput' : i + 1 \in DOMAIN toInput /\ toInput'[i] = toInput[i + 1]
    BY <1>0, <2>1, TailTaken
  <2>3. UNCHANGED <<pc, first_fetch, update_devices, devs>>
    BY <1>4, <2>2 DEF ReceiveFromCore, OpenedOnce, IsChange
  <2> QED BY <2>2, <2>3 DEF OpenedOnce
<1>5. ASSUME NEW binds, toInput' = Append(toInput, ChangeBindings(binds)),
             ChangeBindings(binds) \in MsgToInput,
             UNCHANGED <<pc, first_fetch, update_devices, devs>>
      PROVE  OpenedOnce'
  <2>1. IsChange(ChangeBindings(binds))
    BY DEF IsChange, ChangeBindings
  <2>2. \A i \in DOMAIN toInput' : IsChange(toInput'[i])
    BY <1>0, <1>5, <2>1, Appended DEF OpenedOnce
  <2> QED BY <1>5, <2>2 DEF OpenedOnce
<1>6. CASE InputStep
  <2>1. CASE Poll \/ KeyFromKbd \/ KeyFromMouse \/ KbdSyn \/ MouseRel \/ MouseSyn \/ DrainAccumulated
             \/ \E d \in Device : FetchEvents(d)
    <3>1. UNCHANGED <<toInput, pc, first_fetch, update_devices, devs>>
      BY <2>1 DEF Poll, KeyFromKbd, KeyFromMouse, HandleKey, KbdSyn, MouseRel, MouseSyn,
                  DrainAccumulated, FetchEvents, fetching, channels
    <3> QED BY <1>1, <3>1
  <2>2. CASE StartFetch \/ FetchDone \/ DeviceError
    BY <1>2, <2>2 DEF StartFetch, FetchDone, DeviceError, channels
  <2> QED BY <1>3, <1>4, <1>6, <2>1, <2>2 DEF InputStep, InputThread, AsksKeys
<1>7. CASE CoreStep \/ CoreDrains
  <2>1. UNCHANGED <<pc, first_fetch, update_devices, devs>>
    BY <1>7 DEF CoreStep, CoreDrains, inputVars, fetching
  <2>2. CASE TogglePauseClosures
    <3>1. BindingsFor(~closures_unbound) \in Sendable
      BY SendableIsTyped DEF TypesInv, PoolInv, CoreTypeOK
    <3>2. ChangeBindings(BindingsFor(~closures_unbound)) \in MsgToInput
      BY <3>1, SendableIsTyped
    <3> QED BY <1>5, <2>1, <2>2, <3>2 DEF TogglePauseClosures
  <2>3. ASSUME NEW update \in CompUpdates, ForwardUpdate(update) PROVE UNCHANGED toInput
    BY <2>3 DEF ForwardUpdate, OneKeyboard
  <2>4. CASE KeyHandled \/ ToggleFails
             \/ \E api \in Api : ClosureSends(api) \/ ClosureEnds(api) \/ ClosurePanics(api)
    BY <1>1, <2>1, <2>4 DEF KeyHandled, KeyNotBound, RunClosure, SkipClosure, MacroRecording, Exit,
                            ToggleFails, ClosureSends, ClosureEnds, ClosurePanics, channels
  <2> QED BY <1>1, <1>7, <2>1, <2>2, <2>3, <2>4
          DEF CoreStep, CoreProcess, CoreDrains, CoreAlone, EventLoop
<1>8. CASE HardwareStep
  BY <1>1, <1>8 DEF HardwareStep, Typing, Hotplug, TimerExpires, fetching, channels
<1>9. CASE UInputStep
  BY <1>1, <1>9 DEF UInputStep, UInputThread, EmitKeyActions, EmitMouseActions, EmitKeyTap,
                    EmitMouseClick, UpdateScreenSpace, TakeMsg, inputVars, fetching
<1>10. CASE ForwardStep
  BY <1>1, <1>10 DEF ForwardStep, Forwarders, UpdateForwards, WorkerForwards, inputVars, fetching
<1>11. CASE PrivExits
  BY <1>2, <1>11 DEF PrivExits, channels
<1>12. CASE CoreExits \/ UNCHANGED vars
  BY <1>1, <1>12 DEF CoreExits, vars, inputVars, fetching, channels
<1> QED BY <1>6, <1>7, <1>8, <1>9, <1>10, <1>11, <1>12 DEF Next

(* The last of a typed sequence is typed. *)
LEMMA LastIsTyped ==
  ASSUME NEW S, NEW s \in Seq(S), NEW e, Append(s, e) \in Seq(S) PROVE e \in S
<1>1. /\ Len(s) \in Nat /\ Len(Append(s, e)) = Len(s) + 1 /\ Append(s, e)[Len(s) + 1] = e
  OBVIOUS
<1>2. Len(s) + 1 \in 1..Len(Append(s, e))
  BY <1>1
<1>3. Append(s, e)[Len(s) + 1] \in S
  BY <1>2, ElementOfSeq
<1> QED BY <1>1, <1>3

(* The input thread's own messages are not taps. *)
LEMMA InputSends ==
  ASSUME InputThread, ChannelsTypeOK, ChannelsTypeOK'
  PROVE  \/ UNCHANGED toUInput
         \/ KbdSyn
         \/ (MouseSyn \/ DrainAccumulated)
              /\ \E msg \in MsgToUInput : msg.type = "SendMouseActions" /\ toUInput' = Append(toUInput, msg)
<1>1. ASSUME NEW acts, PassOn(acts)
      PROVE  \E msg \in MsgToUInput : msg.type = "SendMouseActions" /\ toUInput' = Append(toUInput, msg)
  <2> DEFINE msg == SendMouseActions(acts)
  <2>1. toUInput' = Append(toUInput, msg) /\ msg.type = "SendMouseActions"
    BY <1>1 DEF PassOn, SendMouseActions
  <2> HIDE DEF msg
  <2>2. msg \in MsgToUInput
    BY <2>1, LastIsTyped DEF ChannelsTypeOK
  <2> QED BY <2>1, <2>2
<1>2. MouseSyn \/ DrainAccumulated => \E acts : PassOn(acts)
  BY DEF MouseSyn, DrainAccumulated
<1>3. CASE StartFetch \/ FetchDone \/ DeviceError \/ Poll
             \/ \E d \in Device : OpenDevice(d) \/ AsksKeys(d) \/ FetchEvents(d)
  BY <1>3, Asked DEF StartFetch, FetchDone, DeviceError, Poll, OpenDevice, FetchEvents, channels
<1>4. CASE KeyFromKbd \/ KeyFromMouse \/ MouseRel \/ ReceiveFromCore
  BY <1>4 DEF KeyFromKbd, KeyFromMouse, HandleKey, MouseRel, ReceiveFromCore, channels
<1> QED BY <1>1, <1>2, <1>3, <1>4 DEF InputThread, AsksKeys

-----------------------------------------------------------------------------
LEMMA TapsOfClosuresStep ==
  ASSUME TapsAreOfClosures, TypesInv, TypesInv', [Next]_vars PROVE TapsAreOfClosures'
<1> DEFINE S == ClosureMsgs \cup UntappedMsgs
           Updates == {m \in MsgToUInput : m.type = "UpdateScreenSpace"}
<1>0. /\ toUInput \in Seq(S) /\ toWorker \in [Api -> Seq(ClosureMsgs)] /\ toUpdate \in Seq(Updates)
      /\ \A k \in loose : SentByClosures(k)
  BY DEF TapsAreOfClosures
<1>1. /\ toUInput \in Seq(MsgToUInput) /\ toUInput' \in Seq(MsgToUInput)
      /\ ChannelsTypeOK /\ ChannelsTypeOK'
  BY DEF TypesInv, UInputTypeOK, ChannelsTypeOK
<1>2. ASSUME NEW m \in S, toUInput' = Append(toUInput, m) PROVE toUInput' \in Seq(S)
  <2> HIDE DEF S
  <2> QED BY <1>0, <1>2, AppendProperties
<1>3. ASSUME NEW m \in MsgToUInput, m.type \notin {"SendKeyTap", "SendMouseClick"} PROVE m \in S
  BY <1>3 DEF UntappedMsgs
<1> HIDE DEF S, Updates
<1>4. CASE InputStep
  <2>1. UNCHANGED <<toWorker, toUpdate, loose>> /\ InputThread
    BY <1>4 DEF InputStep, coreVars, forwards, uinputVars
  <2>2. CASE UNCHANGED toUInput
    BY <1>0, <2>1, <2>2 DEF TapsAreOfClosures, S, Updates
  <2>3. CASE KbdSyn
    <3> DEFINE m == SendKeyActions(key_actions)
    <3>1. toUInput' = Append(toUInput, m) /\ m.type = "SendKeyActions"
      BY <2>3 DEF KbdSyn, SendKeyActions
    <3> HIDE DEF m
    <3>2. m \in MsgToUInput
      BY <1>1, <3>1, LastIsTyped
    <3>3. toUInput' \in Seq(S)
      BY <1>2, <1>3, <3>1, <3>2
    <3> QED BY <1>0, <2>1, <3>3 DEF TapsAreOfClosures, S, Updates
  <2>4. ASSUME NEW m \in MsgToUInput, m.type = "SendMouseActions", toUInput' = Append(toUInput, m)
        PROVE  TapsAreOfClosures'
    <3>1. toUInput' \in Seq(S)
      BY <1>2, <1>3, <2>4
    <3> QED BY <1>0, <2>1, <3>1 DEF TapsAreOfClosures, S, Updates
  <2> QED BY <1>1, <2>1, <2>2, <2>3, <2>4, InputSends
<1>5. CASE UInputStep
  <2>1. UNCHANGED <<toWorker, toUpdate>> /\ toUInput # <<>> /\ toUInput' = Tail(toUInput)
    BY <1>5 DEF UInputStep, UInputThread, EmitKeyActions, EmitMouseActions, EmitKeyTap,
                EmitMouseClick, UpdateScreenSpace, TakeMsg, coreVars, forwards
  <2>2. toUInput' \in Seq(S) /\ Head(toUInput) \in S
    BY <1>0, <2>1, HeadTailProperties
  <2>3. ASSUME NEW k \in loose', k \notin loose PROVE SentByClosures(k)
    <3>1. EmitKeyTap \/ EmitMouseClick
      BY <1>5, <2>3 DEF UInputStep, UInputThread, EmitKeyActions, EmitMouseActions,
                        UpdateScreenSpace
    <3>2. k = Head(toUInput).key /\ EmitKeyTap
      BY <2>3, <3>1 DEF EmitKeyTap, EmitMouseClick, send_full_motion
    <3>3. Head(toUInput).type = "SendKeyTap"
      BY <3>2 DEF EmitKeyTap, TakeMsg
    <3>4. Head(toUInput) \in ClosureMsgs
      BY <2>2, <3>3 DEF S, UntappedMsgs
    <3> QED BY <3>2, <3>3, <3>4 DEF SentByClosures
  <2> QED BY <1>0, <2>1, <2>2, <2>3 DEF TapsAreOfClosures, S, Updates, SentByClosures
<1>6. CASE ForwardStep
  <2>0. UNCHANGED loose
    BY <1>6 DEF ForwardStep, uinputVars
  <2>1. ASSUME NEW api \in Api, WorkerForwards(api) PROVE TapsAreOfClosures'
    <3>1. toWorker[api] \in Seq(ClosureMsgs) /\ toWorker[api] # <<>>
      BY <1>0, <2>1 DEF WorkerForwards
    <3>2. Head(toWorker[api]) \in ClosureMsgs /\ Tail(toWorker[api]) \in Seq(ClosureMsgs)
      BY <3>1, HeadTailProperties
    <3>3. toUInput' \in Seq(S)
      BY <1>2, <2>1, <3>2 DEF WorkerForwards, S
    <3>4. toWorker' \in [Api -> Seq(ClosureMsgs)] /\ UNCHANGED toUpdate
      BY <1>0, <2>1, <3>2 DEF WorkerForwards
    <3> QED BY <1>0, <2>0, <3>3, <3>4 DEF TapsAreOfClosures, S, Updates, SentByClosures
  <2>2. CASE UpdateForwards
    <3>1. Head(toUpdate) \in Updates /\ toUpdate' \in Seq(Updates)
      BY <1>0, <2>2, HeadTailProperties DEF UpdateForwards
    <3>2. Head(toUpdate) \in S
      BY <1>3, <3>1 DEF Updates
    <3>3. toUInput' \in Seq(S) /\ UNCHANGED toWorker
      BY <1>2, <2>2, <3>2 DEF UpdateForwards
    <3> QED BY <1>0, <2>0, <3>1, <3>3 DEF TapsAreOfClosures, S, Updates, SentByClosures
  <2> QED BY <1>6, <2>1, <2>2 DEF ForwardStep, Forwarders
<1>7. CASE CoreStep \/ CoreDrains
  <2>0. UNCHANGED loose
    BY <1>7 DEF CoreStep, CoreDrains, uinputVars
  <2>1. CASE EventLoop \/ ToggleFails
    <3>1. UNCHANGED <<toUInput, toWorker, toUpdate>>
      BY <2>1 DEF EventLoop, KeyHandled, KeyNotBound, RunClosure, SkipClosure,
                  TogglePauseClosures, ToggleFails, MacroRecording, Exit, forwards, coreVars
    <3> QED BY <1>0, <2>0, <3>1 DEF TapsAreOfClosures, S, Updates, SentByClosures
  <2>2. ASSUME NEW api \in Api, ClosureSends(api) PROVE TapsAreOfClosures'
    <3>1. PICK m \in ClosureMsgs : toWorker' = [toWorker EXCEPT ![api] = Append(@, m)]
      BY <2>2 DEF ClosureSends
    <3>2. Append(toWorker[api], m) \in Seq(ClosureMsgs)
      BY <1>0, AppendProperties
    <3>3. toWorker' \in [Api -> Seq(ClosureMsgs)]
      BY <1>0, <3>1, <3>2
    <3>4. UNCHANGED <<toUInput, toUpdate>>
      BY <2>2 DEF ClosureSends, channels
    <3> QED BY <1>0, <2>0, <3>3, <3>4 DEF TapsAreOfClosures, S, Updates, SentByClosures
  <2>3. ASSUME NEW api \in Api, ClosureEnds(api) \/ ClosurePanics(api) PROVE TapsAreOfClosures'
    <3>1. UNCHANGED <<toUInput, toWorker, toUpdate>>
      BY <2>3 DEF ClosureEnds, ClosurePanics, forwards, channels
    <3> QED BY <1>0, <2>0, <3>1 DEF TapsAreOfClosures, S, Updates, SentByClosures
  <2>4. ASSUME NEW update \in CompUpdates, ForwardUpdate(update) PROVE TapsAreOfClosures'
    <3>1. UNCHANGED <<toUInput, toWorker>>
      BY <2>4 DEF ForwardUpdate
    <3>2. toUpdate' \in Seq(Updates)
      <4>1. CASE update \in Screen
        <5> DEFINE m == [type |-> "UpdateScreenSpace", screen |-> update]
        <5>1. m \in Updates /\ toUpdate' = Append(toUpdate, m)
          BY <2>4, <4>1 DEF ForwardUpdate, Updates, MsgToUInput
        <5> HIDE DEF m
        <5> QED BY <1>0, <5>1, AppendProperties
      <4>2. CASE update \notin Screen
        BY <1>0, <2>4, <4>2 DEF ForwardUpdate
      <4> QED BY <4>1, <4>2
    <3> QED BY <1>0, <2>0, <3>1, <3>2 DEF TapsAreOfClosures, S, Updates, SentByClosures
  <2> QED BY <1>7, <2>1, <2>2, <2>3, <2>4
          DEF CoreStep, CoreProcess, CoreDrains, CoreAlone, EventLoop
<1>8. CASE HardwareStep \/ PrivExits \/ CoreExits \/ UNCHANGED vars
  <2>1. UNCHANGED <<toUInput, toWorker, toUpdate, loose>>
    BY <1>8 DEF HardwareStep, Typing, Hotplug, TimerExpires, PrivExits, CoreExits, vars, channels,
                coreVars, forwards, uinputVars
  <2> QED BY <1>0, <2>1 DEF TapsAreOfClosures, S, Updates, SentByClosures
<1> QED BY <1>4, <1>5, <1>6, <1>7, <1>8 DEF Next

-----------------------------------------------------------------------------
(* Dropping the keys leaves the SYN event at the end. *)
LEMMA StillEndsInSyn ==
  ASSUME NEW s \in Seq(Event), EndsInSyn(s) PROVE EndsInSyn(WithoutKeys(s))
<1>1. CASE s = <<>>
  BY <1>1, WithoutKeysOfNone DEF EndsInSyn
<1>2. CASE s # <<>>
  <2> DEFINE e == s[Len(s)]
             f == SubSeq(s, 1, Len(s) - 1)
             kept == WithoutKeys(f)
  <2>1. Len(s) \in Nat \ {0} /\ e \in Event /\ e.type = "SYN"
    <3>1. Len(s) \in Nat /\ Len(s) # 0
      BY <1>2, EmptySeq
    <3>2. Len(s) \in 1..Len(s)
      BY <3>1
    <3> QED BY <1>2, <3>1, <3>2, ElementOfSeq DEF EndsInSyn
  <2>2. f \in Seq(Event) /\ s = Append(f, e)
    <3>1. f \in Seq(Event) /\ s = SubSeq(s, 1, Len(s) - 1) \o <<s[Len(s)]>>
      BY <2>1, SubSeqProperties, SubSeqRecursiveSecond, SubSeqFull
    <3> QED BY <2>1, <3>1, AppendIsConcat
  <2> HIDE DEF e, f
  <2>3. WithoutKeys(s) = IF Dropped(kept, e) THEN kept ELSE Append(kept, e)
    BY <2>1, <2>2, WithoutKeysAppended
  <2>4. kept \in Seq(Event)
    BY <2>2, WithoutKeysDecides
  <2> HIDE DEF kept
  <2>5. CASE Dropped(kept, e)
    BY <2>1, <2>3, <2>5 DEF Dropped, EndsInSyn, Last
  <2>6. CASE ~Dropped(kept, e)
    <3>1. Len(Append(kept, e)) = Len(kept) + 1 /\ Append(kept, e)[Len(kept) + 1] = e
      BY <2>4
    <3> QED BY <2>1, <2>3, <2>6, <3>1 DEF EndsInSyn
  <2> QED BY <2>5, <2>6
<1> QED BY <1>1, <1>2

LEMMA ReportsEndStep ==
  ASSUME NEW kb, OneKeyboard(kb), ReportsEnd(kb), TypesInv, TypesInv', [Next]_vars
  PROVE  ReportsEnd(kb)'
<1>0. /\ evq \in [Device -> Seq(Event)] /\ batch \in Seq(Event) /\ cur \in Device
      /\ Kbd = {kb} /\ Device = Kbd \cup Mouse /\ kb \notin Mouse
  BY InputAssumption DEF TypesInv, InputTyped, InputTypeOK, OneKeyboard, Device
<1>1. CASE UNCHANGED <<evq, batch, key_actions, cur>>
  BY <1>1 DEF ReportsEnd, EndsInSyn
<1>2. ASSUME NEW s \in Seq(Event), s # <<>>, EndsInSyn(s)
      PROVE  EndsInSyn(Tail(s)) /\ (s[1].type # "SYN" => Tail(s) # <<>>)
  <2>1. /\ Len(s) \in Nat \ {0} /\ Len(Tail(s)) = Len(s) - 1
        /\ \A i \in 1..(Len(s) - 1) : Tail(s)[i] = s[i + 1]
    BY <1>2, TailTaken
  <2>2. Tail(s) \in Seq(Event) /\ (Tail(s) = <<>> <=> Len(Tail(s)) = 0)
    BY <1>2, HeadTailProperties, EmptySeq
  <2>3. Tail(s) # <<>> => Tail(s)[Len(Tail(s))] = s[Len(s)]
    BY <2>1, <2>2
  <2>4. Tail(s) = <<>> => Len(s) = 1
    BY <2>1, <2>2
  <2> QED BY <1>2, <2>3, <2>4 DEF EndsInSyn
<1>3. ASSUME NEW s \in Seq(Event), NEW e \in Event PROVE EndsInSyn(s \o <<e, SynEvent>>)
  <2> DEFINE t == s \o <<e, SynEvent>>
  <2>1. Len(t) = Len(s) + 2 /\ Len(s) \in Nat /\ t[Len(s) + 2] = SynEvent
    BY DEF SynEvent
  <2> QED BY <2>1 DEF EndsInSyn, SynEvent
<1>4. ASSUME NEW d \in Device, NEW e \in Event, Report(d, e), UNCHANGED <<batch, key_actions, cur>>
      PROVE  ReportsEnd(kb)'
  <2>1. \A x \in Device : EndsInSyn(evq'[x])
    BY <1>0, <1>3, <1>4 DEF Report, ReportsEnd
  <2> QED BY <1>4, <2>1 DEF ReportsEnd, EndsInSyn
<1>5. CASE HardwareStep
  <2>1. UNCHANGED <<batch, key_actions, cur>>
    BY <1>5 DEF HardwareStep, Typing, Hotplug, TimerExpires, round, pending
  <2>2. CASE Typing
    <3>1. ASSUME NEW d \in Device, NEW k \in Key, KeyChanges(d, k) \/ KeyRepeats(d, k)
          PROVE  ReportsEnd(kb)'
      <4>1. \A v \in 0..2 : KeyEvent(k, v) \in Event
        BY DEF KeyEvent, Event
      <4>2. \E v \in 0..2 : Report(d, KeyEvent(k, v))
        BY <3>1 DEF KeyChanges, KeyRepeats
      <4> QED BY <1>4, <2>1, <4>1, <4>2
    <3>2. ASSUME NEW d \in Mouse, NEW ax \in Axis, NEW v \in Position, MouseMoves(d, ax, v)
          PROVE  ReportsEnd(kb)'
      <4>1. RelEvent(ax, v) \in Event
        BY ChannelsAssumption DEF RelEvent, Event
      <4>2. Report(d, RelEvent(ax, v)) /\ d \in Device
        BY <3>2 DEF MouseMoves, Device
      <4> QED BY <1>4, <2>1, <4>1, <4>2
    <3> QED BY <2>2, <3>1, <3>2 DEF Typing
  <2>3. CASE Hotplug
    <3>1. \A x \in Device : EndsInSyn(evq'[x])
      BY <1>0, <2>3 DEF Hotplug, Unplugged, Plugged, ReportsEnd, EndsInSyn
    <3> QED BY <2>1, <3>1 DEF ReportsEnd, EndsInSyn
  <2>4. CASE TimerExpires
    BY <1>1, <2>4 DEF TimerExpires, hardware, round, pending
  <2> QED BY <1>5, <2>2, <2>3, <2>4 DEF HardwareStep
<1>6. CASE InputStep
  <2>1. CASE StartFetch
    <3>1. \A x \in Device : EndsInSyn(evq'[x])
      BY <2>1 DEF StartFetch, EndsInSyn
    <3> QED BY <2>1, <3>1 DEF StartFetch, AtLoopTop, ReportsEnd, EndsInSyn, round, pending
  <2>2. CASE FetchDone \/ DeviceError \/ Poll \/ ReceiveFromCore \/ DrainAccumulated
               \/ \E d \in Device : OpenDevice(d)
    BY <1>1, <2>2 DEF FetchDone, DeviceError, Poll, ReceiveFromCore, DrainAccumulated, OpenDevice,
                      hardware, round, pending
  <2>3. ASSUME NEW d \in Device, FetchEvents(d) PROVE ReportsEnd(kb)'
    <3>1. \A x \in Device : EndsInSyn(evq'[x])
      BY <1>0, <2>3 DEF FetchEvents, ReportsEnd, EndsInSyn
    <3>2. EndsInSyn(batch') /\ key_actions' = <<>>
      BY <2>3 DEF FetchEvents, ReportsEnd, pending
    <3> QED BY <3>1, <3>2 DEF ReportsEnd, EndsInSyn
  <2>4. ASSUME NEW devices, NEW type, NextEvent(devices, type), UNCHANGED <<evq, cur>>
        PROVE  /\ EndsInSyn(batch') /\ (type # "SYN" => batch' # <<>>)
               /\ \A x \in Device : EndsInSyn(evq'[x])
    <3>1. batch # <<>> /\ batch' = Tail(batch) /\ batch[1].type = type /\ EndsInSyn(batch)
      BY <1>0, <2>4 DEF NextEvent, ReportsEnd
    <3> QED BY <1>0, <1>2, <2>4, <3>1 DEF ReportsEnd
  <2>5. CASE KeyFromKbd
    <3>1. /\ EndsInSyn(batch') /\ batch' # <<>> /\ UNCHANGED cur /\ cur = kb
          /\ \A x \in Device : EndsInSyn(evq'[x])
      BY <1>0, <2>4, <2>5 DEF KeyFromKbd, HandleKey, NextEvent, hardware
    <3> QED BY <3>1 DEF ReportsEnd, EndsInSyn
  <2>6. CASE KbdSyn
    <3>1. /\ EndsInSyn(batch') /\ key_actions' = <<>>
          /\ \A x \in Device : EndsInSyn(evq'[x])
      BY <2>4, <2>6 DEF KbdSyn, hardware
    <3> QED BY <3>1 DEF ReportsEnd, EndsInSyn
  <2>7. CASE KeyFromMouse \/ MouseRel \/ MouseSyn
    <3>1. cur \in Mouse /\ UNCHANGED <<cur, key_actions, evq>>
      BY <2>7 DEF KeyFromMouse, HandleKey, PushMouseKey, MouseRel, MouseSyn, NextEvent, hardware,
                  pending
    <3>2. \E type : NextEvent(Mouse, type)
      BY <2>7 DEF KeyFromMouse, HandleKey, MouseRel, MouseSyn
    <3>3. EndsInSyn(batch') /\ \A x \in Device : EndsInSyn(evq'[x])
      BY <2>4, <3>1, <3>2
    <3>4. key_actions = <<>>
      BY <1>0, <3>1 DEF ReportsEnd
    <3> QED BY <3>1, <3>3, <3>4 DEF ReportsEnd, EndsInSyn
  <2>8. ASSUME NEW d \in Device, AsksKeys(d) PROVE ReportsEnd(kb)'
    <3>1. UNCHANGED <<batch, key_actions, cur>> /\ evq' = [evq EXCEPT ![d] = WithoutKeys(@)]
      BY <2>8, Asked DEF round, pending
    <3>2. \A x \in Device : EndsInSyn(evq[x])
      BY DEF ReportsEnd
    <3>3. \A x \in Device : evq'[x] = evq[x] \/ evq'[x] = WithoutKeys(evq[x])
      BY <1>0, <3>1
    <3>4. \A x \in Device : EndsInSyn(evq'[x])
      BY <1>0, <3>2, <3>3, StillEndsInSyn
    <3> QED BY <3>1, <3>4 DEF ReportsEnd, EndsInSyn
  <2> QED BY <1>6, <2>1, <2>2, <2>3, <2>5, <2>6, <2>7, <2>8 DEF InputStep, InputThread, AsksKeys
<1>7. CASE \/ UInputStep \/ ForwardStep \/ CoreStep \/ PrivExits \/ CoreDrains \/ CoreExits
           \/ UNCHANGED vars
  BY <1>1, <1>7 DEF UInputStep, ForwardStep, CoreStep, PrivExits, CoreDrains, CoreExits, vars,
                    inputVars, hardware, round, pending
<1> QED BY <1>5, <1>6, <1>7 DEF Next

-----------------------------------------------------------------------------
(* What a step may do to what is on its way to the virtual keyboard.  A key   *)
(* bound on its release alone may stay down, and keys that bindings swallow   *)
(* or closures send need not follow the keyboard. *)

OnItsWayNext(kb, k, h) ==
  DownInTheEnd(BufferOf(kb)', BatchOf(kb)', key_actions', toUInput', k, h)

QueuesKept(kb) ==
  \A k \in KbdKey, h \in BOOLEAN :
    /\ ~BoundOnRelease(k) /\ OnItsWayNext(kb, k, h) => OnItsWay(kb, k, h)
    /\ ~Bound(k) /\ ~SentByClosures(k) /\ OnItsWay(kb, k, h) => OnItsWayNext(kb, k, h)

FatesKept(kb) ==
  \A k \in KbdKey :
    /\ ~BoundOnRelease(k) /\ MayBeDown(kb, k)' => MayBeDown(kb, k)
    /\ ~Bound(k) /\ ~SentByClosures(k) /\ WillBeDown(kb, k) => WillBeDown(kb, k)'

LEMMA MoreOnItsWay ==
  ASSUME NEW kb, NEW k, NEW h, NEW g, h => g, OnItsWay(kb, k, h) PROVE OnItsWay(kb, k, g)
BY DownMore DEF OnItsWay

LEMMA MoreOnItsWayNext ==
  ASSUME NEW kb, NEW k, NEW h, NEW g, h => g, OnItsWayNext(kb, k, h) PROVE OnItsWayNext(kb, k, g)
BY DownMore DEF OnItsWayNext

LEMMA SameQueues ==
  ASSUME NEW kb, BufferOf(kb)' = BufferOf(kb), BatchOf(kb)' = BatchOf(kb),
         UNCHANGED <<key_actions, toUInput>>
  PROVE  QueuesKept(kb)
BY DEF QueuesKept, OnItsWay, OnItsWayNext

(* If what is on its way is kept and the virtual keyboard and the modifiers   *)
(* booked are as they were, so is what will be down. *)
LEMMA QueuesFates ==
  ASSUME NEW kb, QueuesKept(kb), UNCHANGED <<down, cur_modifiers>>
  PROVE  FatesKept(kb)
<1>1. ASSUME NEW k \in KbdKey, ~BoundOnRelease(k), MayBeDown(kb, k)' PROVE MayBeDown(kb, k)
  <2> DEFINE g == (k \in down["virt_kbd"] \/ k \in cur_modifiers)'
             h == k \in down["virt_kbd"] \/ k \in cur_modifiers
  <2>1. OnItsWayNext(kb, k, g) /\ g \in BOOLEAN /\ (g => h)
    BY <1>1 DEF MayBeDown, OnItsWay, OnItsWayNext
  <2>2. OnItsWay(kb, k, h) => MayBeDown(kb, k)
    BY DEF MayBeDown
  <2> HIDE DEF g, h
  <2>3. OnItsWay(kb, k, g)
    BY <1>1, <2>1 DEF QueuesKept
  <2>4. OnItsWay(kb, k, h)
    BY <2>1, <2>3, MoreOnItsWay
  <2> QED BY <2>2, <2>4
<1>2. ASSUME NEW k \in KbdKey, ~Bound(k), ~SentByClosures(k), WillBeDown(kb, k)
      PROVE  WillBeDown(kb, k)'
  <2> DEFINE h == k \in down["virt_kbd"]
             g == (k \in down["virt_kbd"])'
  <2>1. OnItsWay(kb, k, h) /\ h \in BOOLEAN /\ (h => g)
    BY <1>2 DEF WillBeDown
  <2>2. OnItsWayNext(kb, k, g) => WillBeDown(kb, k)'
    BY DEF WillBeDown, OnItsWay, OnItsWayNext
  <2> HIDE DEF g, h
  <2>3. OnItsWayNext(kb, k, h)
    BY <1>2, <2>1 DEF QueuesKept
  <2>4. OnItsWayNext(kb, k, g)
    BY <2>1, <2>3, MoreOnItsWayNext
  <2> QED BY <2>2, <2>4
<1> QED BY <1>1, <1>2 DEF FatesKept

LEMMA KeysByFates ==
  ASSUME NEW kb, FatesKept(kb), NoKeyInvented(kb), NoKeyLost(kb), phys'[kb] = phys[kb],
         kb \in gone' <=> kb \in gone, kb \in devs' <=> kb \in devs, Noted(kb)
  PROVE  NoKeyInvented(kb)' /\ NoKeyLost(kb)'
<1>1. NoKeyInvented(kb)'
  BY DEF FatesKept, NoKeyInvented, BoundOnRelease
<1>2. phys'[kb] \ downAtOpen'[kb] \subseteq phys[kb] \ downAtOpen[kb]
  BY DEF Noted
<1>3. NoKeyLost(kb)'
  BY <1>2 DEF FatesKept, NoKeyLost, Bound, SentByClosures
<1> QED BY <1>1, <1>3

-----------------------------------------------------------------------------
(* The parts of the invariant that the steps use, for the only keyboard.      *)
KeysNow(kb) ==
  /\ OneKeyboard(kb) /\ TypesInv /\ TrackedInv /\ NoStrayEvents /\ bindings \subseteq DOMAIN Bindings
  /\ TapsAreOfClosures /\ OpenedOnce /\ ReportsEnd(kb) /\ NoKeyInvented(kb) /\ NoKeyLost(kb)

LEMMA KeysTyped ==
  ASSUME NEW kb, KeysNow(kb)
  PROVE  /\ kb \in Device /\ kb \notin Mouse /\ \A d \in Device : d \in Mouse \/ d = kb
         /\ evq \in [Device -> Seq(Event)] /\ batch \in Seq(Event) /\ cur \in Device
         /\ key_actions \in Seq(KeyAction) /\ toUInput \in Seq(MsgToUInput)
         /\ phys \in [Device -> SUBSET Key] /\ gone \subseteq devs \cup opening
         /\ devs \subseteq Device
         /\ down \in [VirtualDevice -> SUBSET Key] /\ cur_modifiers \in Modifiers /\ KbdKey \subseteq Key
BY InputAssumption, UInputAssumption
   DEF KeysNow, OneKeyboard, TypesInv, InputTyped, InputTypeOK, UInputTypeOK, ChannelsTypeOK, Device

(* A report of the keyboard decides what its key will be, and no other. *)
LEMMA KeyReported ==
  ASSUME NEW kb, KeysNow(kb), NEW e \in Event, Report(kb, e), kb \in devs \ gone, NEW k, NEW h,
         UNCHANGED <<batch, cur, key_actions, toUInput, devs>>
  PROVE  OnItsWayNext(kb, k, h)
           <=> IF e \in KeyEvents(k) THEN e \in DownEvents(k) ELSE OnItsWay(kb, k, h)
<1> DEFINE buffer == evq[kb]
           more   == buffer \o <<e, SynEvent>>
<1>1. /\ buffer \in Seq(Event) /\ BufferOf(kb) = buffer /\ BufferOf(kb)' = more
      /\ BatchOf(kb)' = BatchOf(kb)
  BY KeysTyped DEF Report, Open, BatchOf, BufferOf
<1>2. OnItsWayNext(kb, k, h) <=> DownInTheEnd(more, BatchOf(kb), key_actions, toUInput, k, h)
  BY <1>1 DEF OnItsWayNext
<1>3. OnItsWay(kb, k, h) <=> DownInTheEnd(buffer, BatchOf(kb), key_actions, toUInput, k, h)
  BY <1>1 DEF OnItsWay
<1>4. DownInTheEnd(more, BatchOf(kb), key_actions, toUInput, k, h)
        <=> IF e \in KeyEvents(k) THEN e \in DownEvents(k)
            ELSE DownInTheEnd(buffer, BatchOf(kb), key_actions, toUInput, k, h)
  <2> HIDE DEF buffer
  <2> QED BY <1>1, DownReported DEF more
<1> HIDE DEF buffer, more
<1> QED BY <1>2, <1>3, <1>4

LEMMA TypingKeepsKeys ==
  ASSUME NEW kb, KeysNow(kb), Typing, UNCHANGED uinputVars, Noted(kb)
  PROVE  NoKeyInvented(kb)' /\ NoKeyLost(kb)'
<1>0. UNCHANGED <<batch, cur, key_actions, toUInput, devs, gone, down, cur_modifiers>>
  BY DEF Typing, KeyChanges, KeyRepeats, MouseMoves, round, pending, fetching, channels, uinputVars
<1>1. BatchOf(kb)' = BatchOf(kb)
  BY <1>0 DEF BatchOf
<1>2. ASSUME BufferOf(kb)' = BufferOf(kb), UNCHANGED phys
      PROVE  NoKeyInvented(kb)' /\ NoKeyLost(kb)'
  BY <1>0, <1>1, <1>2, SameQueues, QueuesFates, KeysByFates DEF KeysNow
<1>3. ASSUME NEW d \in Device, NEW e \in Event, Report(d, e), UNCHANGED phys,
             \A k : e \in KeyEvents(k) => FALSE
      PROVE  NoKeyInvented(kb)' /\ NoKeyLost(kb)'
  <2>1. CASE d # kb \/ kb \notin devs \ gone
    <3>1. BufferOf(kb)' = BufferOf(kb)
      BY <1>0, <1>3, <2>1, KeysTyped DEF Report, Open, BufferOf
    <3> QED BY <1>2, <1>3, <3>1
  <2>2. CASE d = kb /\ kb \in devs \ gone
    <3>1. QueuesKept(kb)
      BY <1>0, <1>3, <2>2, KeyReported DEF QueuesKept
    <3> QED BY <1>0, <1>3, <3>1, QueuesFates, KeysByFates DEF KeysNow
  <2> QED BY <2>1, <2>2
<1>4. ASSUME NEW d \in Device, NEW k \in Key, KeyRepeats(d, k)
      PROVE  NoKeyInvented(kb)' /\ NoKeyLost(kb)'
  <2>1. KeyEvent(k, 2) \in Event /\ \A j : KeyEvent(k, 2) \notin KeyEvents(j)
    BY DEF KeyEvent, Event, KeyEvents, Decisive
  <2> QED BY <1>3, <1>4, <2>1 DEF KeyRepeats
<1>5. ASSUME NEW d \in Mouse, NEW ax \in Axis, NEW v \in Position, MouseMoves(d, ax, v)
      PROVE  NoKeyInvented(kb)' /\ NoKeyLost(kb)'
  <2>1. RelEvent(ax, v) \in Event /\ \A j : RelEvent(ax, v) \notin KeyEvents(j)
    BY ChannelsAssumption DEF RelEvent, Event, KeyEvents, Decisive
  <2> QED BY <1>3, <1>5, <2>1 DEF MouseMoves, Device
<1>6. ASSUME NEW d \in Device, NEW k \in Key, KeyChanges(d, k)
      PROVE  NoKeyInvented(kb)' /\ NoKeyLost(kb)'
  <2> DEFINE v == IF k \in phys[d] THEN 0 ELSE 1
             e == KeyEvent(k, v)
  <2>1. /\ Report(d, e)
        /\ \A j : j \in phys'[d] <=> IF j = k THEN v = 1 ELSE j \in phys[d]
        /\ \A x \in Device \ {d} : phys'[x] = phys[x]
    BY <1>6, KeysTyped DEF KeyChanges
  <2>2. /\ e \in Event /\ \A j : e \in KeyEvents(j) <=> j = k
        /\ \A j : e \in DownEvents(j) <=> j = k /\ v = 1
    BY DEF KeyEvent, Event, KeyEvents, DownEvents, Decisive
  <2> HIDE DEF e, v
  <2>3. CASE d # kb
    <3>1. BufferOf(kb)' = BufferOf(kb) /\ phys'[kb] = phys[kb]
      BY <1>0, <2>1, <2>3, KeysTyped DEF Report, BufferOf
    <3>2. FatesKept(kb)
      BY <1>0, <1>1, <3>1, SameQueues, QueuesFates
    <3> QED BY <1>0, <3>1, <3>2, KeysByFates DEF KeysNow
  <2>4. CASE d = kb /\ kb \notin devs \ gone
    <3>1. BufferOf(kb)' = BufferOf(kb)
      BY <1>0, <2>1, <2>4 DEF Report, Open, BufferOf
    <3>2. FatesKept(kb)
      BY <1>0, <1>1, <3>1, SameQueues, QueuesFates
    <3> QED BY <1>0, <2>4, <3>2 DEF KeysNow, FatesKept, NoKeyInvented, NoKeyLost, BoundOnRelease
  <2>5. CASE d = kb /\ kb \in devs \ gone
    <3>0. /\ kb \in devs' /\ kb \notin gone' /\ kb \in devs /\ kb \notin gone
          /\ downAtOpen[kb] \cap phys'[kb] \subseteq downAtOpen'[kb]
      BY <1>0, <2>5 DEF Noted
    <3>1. ASSUME NEW j \in KbdKey, ~BoundOnRelease(j), MayBeDown(kb, j)' PROVE j \in phys'[kb]
      <4> DEFINE h == j \in down["virt_kbd"] \/ j \in cur_modifiers
                 g == (j \in down["virt_kbd"] \/ j \in cur_modifiers)'
      <4>1. OnItsWayNext(kb, j, g) /\ (g => h)
        BY <1>0, <3>1 DEF MayBeDown, OnItsWay, OnItsWayNext
      <4>2. OnItsWay(kb, j, h) => MayBeDown(kb, j)
        BY DEF MayBeDown
      <4> HIDE DEF g, h
      <4>3. IF j = k THEN v = 1 ELSE OnItsWay(kb, j, g)
        BY <1>0, <2>1, <2>2, <2>5, <4>1, KeyReported
      <4>4. j # k => MayBeDown(kb, j)
        BY <4>1, <4>2, <4>3, MoreOnItsWay
      <4>5. MayBeDown(kb, j) => j \in phys[kb]
        BY <3>0, <3>1 DEF KeysNow, NoKeyInvented
      <4> QED BY <2>1, <2>5, <4>3, <4>4, <4>5
    <3>2. ASSUME NEW j \in KbdKey, j \in phys'[kb] \ downAtOpen'[kb], ~Bound(j), ~SentByClosures(j)
          PROVE  WillBeDown(kb, j)'
      <4> DEFINE h == j \in down["virt_kbd"]
                 g == (j \in down["virt_kbd"])'
      <4>1. (OnItsWayNext(kb, j, g) => WillBeDown(kb, j)') /\ (h => g)
        BY <1>0 DEF WillBeDown, OnItsWay, OnItsWayNext
      <4>2. WillBeDown(kb, j) => OnItsWay(kb, j, h)
        BY DEF WillBeDown
      <4> HIDE DEF g, h
      <4>3. IF j = k THEN v = 1 ELSE j \in phys[kb] \ downAtOpen[kb]
        BY <2>1, <2>5, <3>0, <3>2
      <4>4. j # k => OnItsWay(kb, j, g)
        <5>1. j \in phys[kb] \ downAtOpen[kb] => WillBeDown(kb, j)
          BY <3>0, <3>2 DEF KeysNow, NoKeyLost
        <5> QED BY <4>1, <4>2, <4>3, <5>1, MoreOnItsWay
      <4>5. OnItsWayNext(kb, j, g)
        BY <1>0, <2>1, <2>2, <2>5, <4>3, <4>4, KeyReported
      <4> QED BY <4>1, <4>5
    <3>3. NoKeyInvented(kb)'
      BY <3>0, <3>1 DEF NoKeyInvented, BoundOnRelease
    <3>4. NoKeyLost(kb)'
      BY <3>2 DEF NoKeyLost, Bound, SentByClosures
    <3> QED BY <3>3, <3>4
  <2> QED BY <2>3, <2>4, <2>5
<1> QED BY <1>4, <1>5, <1>6 DEF Typing

LEMMA HotplugKeepsKeys ==
  ASSUME NEW kb, KeysNow(kb), Hotplug, UNCHANGED uinputVars, Noted(kb)
  PROVE  NoKeyInvented(kb)' /\ NoKeyLost(kb)'
<1>0. UNCHANGED <<key_actions, toUInput, devs, down, cur_modifiers>> /\ BatchOf(kb)' = BatchOf(kb)
  BY DEF Hotplug, round, pending, fetching, channels, uinputVars, BatchOf
<1>1. ASSUME BufferOf(kb)' = BufferOf(kb) PROVE FatesKept(kb)
  BY <1>0, <1>1, SameQueues, QueuesFates
<1>2. ASSUME NEW d \in Device, Plugged(d) PROVE NoKeyInvented(kb)' /\ NoKeyLost(kb)'
  BY <1>0, <1>1, <1>2, KeysByFates DEF Plugged, KeysNow, BufferOf
<1>3. ASSUME NEW d \in Device, Unplugged(d) PROVE NoKeyInvented(kb)' /\ NoKeyLost(kb)'
  <2>1. CASE d # kb
    <3>1. BufferOf(kb)' = BufferOf(kb) /\ phys'[kb] = phys[kb] /\ (kb \in gone' <=> kb \in gone)
      BY <1>0, <1>3, <2>1, KeysTyped DEF Unplugged, BufferOf
    <3> QED BY <1>0, <1>1, <3>1, KeysByFates DEF KeysNow
  <2>2. CASE d = kb /\ kb \in devs \cup opening
    BY <1>3, <2>2 DEF Unplugged, NoKeyInvented, NoKeyLost
  <2>3. CASE d = kb /\ kb \notin devs \cup opening
    <3>1. BufferOf(kb)' = BufferOf(kb) /\ UNCHANGED gone
      BY <1>0, <1>3, <2>3, KeysTyped DEF Unplugged, BufferOf
    <3>2. FatesKept(kb)
      BY <1>1, <3>1
    <3> QED BY <1>0, <2>3, <3>1, <3>2
            DEF KeysNow, FatesKept, NoKeyInvented, NoKeyLost, BoundOnRelease
  <2> QED BY <2>1, <2>2, <2>3
<1> QED BY <1>2, <1>3 DEF Hotplug

(* The input thread keeps what is on its way, but for keys that are bound.    *)
(* Opening the devices and reading them.                                      *)
LEMMA OpeningKeepsKeys ==
  ASSUME NEW kb, KeysNow(kb), StartFetch \/ (\E d \in Device : OpenDevice(d)),
         UNCHANGED uinputVars, Noted(kb)
  PROVE  NoKeyInvented(kb)' /\ NoKeyLost(kb)'
<1>0. /\ UNCHANGED <<key_actions, toUInput, down, cur_modifiers, phys>>
      /\ BatchOf(kb)' = BatchOf(kb)
  BY DEF StartFetch, OpenDevice, hardware, round, pending, fetching, channels, uinputVars, BatchOf
<1>1. CASE StartFetch
  <2>1. devs = {} /\ devs' = {} /\ gone = {} /\ gone' = {}
    BY <1>1, KeysTyped DEF StartFetch, AtLoopTop, KeysNow, OpenedOnce, NoStrayEvents
  <2>2. BufferOf(kb)' = BufferOf(kb)
    BY <2>1 DEF BufferOf
  <2> QED BY <1>0, <2>1, <2>2, SameQueues, QueuesFates, KeysByFates DEF KeysNow
<1>2. CASE \E d \in Device : OpenDevice(d)
  <2>1. UNCHANGED <<evq, gone, devs>>
    BY <1>2 DEF OpenDevice, hardware
  <2>2. BufferOf(kb)' = BufferOf(kb)
    BY <2>1 DEF BufferOf
  <2> QED BY <1>0, <2>1, <2>2, SameQueues, QueuesFates, KeysByFates DEF KeysNow
<1> QED BY <1>1, <1>2

(* Listing the keyboard brings what is left of its buffer, no key, before the *)
(* loop; a key that is down by then is one that the loop cannot know of.      *)
LEMMA AskingKeepsKeys ==
  ASSUME NEW kb, KeysNow(kb), NEW d \in Device, AsksKeys(d), UNCHANGED uinputVars, Noted(kb)
  PROVE  NoKeyInvented(kb)' /\ NoKeyLost(kb)'
<1>0. /\ UNCHANGED <<key_actions, toUInput, down, cur_modifiers, phys, gone>>
      /\ BatchOf(kb)' = BatchOf(kb) /\ d \in opening \ gone /\ d \notin devs
      /\ evq' = [evq EXCEPT ![d] = WithoutKeys(@)]
      /\ devs' = devs \/ devs' = devs \cup {d}
  BY Asked DEF round, pending, channels, uinputVars, BatchOf, KeysNow, NoStrayEvents
<1>1. CASE d # kb \/ devs' = devs
  <2>1. BufferOf(kb)' = BufferOf(kb) /\ (kb \in devs' <=> kb \in devs)
    BY <1>0, <1>1, KeysTyped DEF BufferOf
  <2> QED BY <1>0, <2>1, SameQueues, QueuesFates, KeysByFates DEF KeysNow
<1>2. CASE d = kb /\ devs' = devs \cup {d}
  <2>1. BufferOf(kb) = <<>> /\ BufferOf(kb)' = WithoutKeys(evq[kb]) /\ evq[kb] \in Seq(Event)
    BY <1>0, <1>2, KeysTyped DEF BufferOf
  <2>2. \A k \in KbdKey : ~BoundOnRelease(k) => ~MayBeDown(kb, k)
    BY <1>0, <1>2 DEF KeysNow, NoKeyInvented
  <2>3. ASSUME NEW k \in KbdKey, MayBeDown(kb, k)' PROVE MayBeDown(kb, k)
    <3> DEFINE h == k \in down["virt_kbd"] \/ k \in cur_modifiers
               left == WithoutKeys(evq[kb])
    <3>1. DownInTheEnd(left, BatchOf(kb), key_actions, toUInput, k, h)
      BY <1>0, <2>1, <2>3 DEF MayBeDown, OnItsWay
    <3>2. \A i \in DOMAIN left : left[i] \notin KeyEvents(k)
      BY <2>1, WithoutKeysDecides DEF KeyEvents
    <3>3. DownInTheEnd(<<>>, BatchOf(kb), key_actions, toUInput, k, h) => MayBeDown(kb, k)
      BY <2>1 DEF MayBeDown, OnItsWay
    <3> HIDE DEF h, left
    <3> QED BY <3>1, <3>2, <3>3, DownUnsaid
  <2>4. NoKeyInvented(kb)'
    BY <2>2, <2>3 DEF NoKeyInvented, BoundOnRelease
  <2>5. NoKeyLost(kb)'
    BY <1>0, <1>2 DEF Noted, NoKeyLost
  <2> QED BY <2>4, <2>5
<1> QED BY <1>0, <1>1, <1>2

LEMMA FetchKeepsQueues ==
  ASSUME NEW kb, KeysNow(kb), NEW d \in Device, FetchEvents(d)
  PROVE  QueuesKept(kb)
<1>0. UNCHANGED <<key_actions, toUInput>> /\ batch = <<>> /\ cur' = d
  BY DEF FetchEvents, pending, channels
<1>1. CASE d # kb
  <2>1. BufferOf(kb)' = BufferOf(kb) /\ BatchOf(kb)' = BatchOf(kb)
    BY <1>0, <1>1, KeysTyped DEF FetchEvents, BatchOf, BufferOf, fetching
  <2> QED BY <1>0, <2>1, SameQueues
<1>2. CASE d = kb
  <2>1. /\ BufferOf(kb)' = <<>> /\ BatchOf(kb)' = BufferOf(kb) /\ BatchOf(kb) = <<>>
    BY <1>0, <1>2, KeysTyped DEF FetchEvents, BatchOf, BufferOf, fetching
  <2>2. \A k, h : OnItsWayNext(kb, k, h) <=> OnItsWay(kb, k, h)
    BY <1>0, <2>1, DownFetched DEF OnItsWay, OnItsWayNext
  <2> QED BY <2>2 DEF QueuesKept
<1> QED BY <1>1, <1>2

(* A key event of the keyboard is swallowed by a binding, passed over or      *)
(* pushed.                                                                    *)
LEMMA KeyKeepsQueues ==
  ASSUME NEW kb, KeysNow(kb), KeyFromKbd
  PROVE  QueuesKept(kb)
<1> DEFINE e     == Head(batch)
           state == StateOfValue(e.value)
           bind  == [code |-> e.code, state |-> state,
                     modifiers |-> ModifiersAfter(d_modifiers[cur], e.code, state)]
           a     == [key |-> e.code, state |-> state]
<1>0. /\ BufferOf(kb)' = BufferOf(kb) /\ UNCHANGED <<toUInput, cur>> /\ cur = kb
      /\ batch # <<>> /\ batch' = Tail(batch) /\ e.type = "KEY"
  BY DEF KeyFromKbd, HandleKey, NextEvent, hardware, fetching, BufferOf, KeysNow, OneKeyboard
<1>1. BatchOf(kb) = batch /\ BatchOf(kb)' = Tail(batch) /\ batch \in Seq(Event)
  BY <1>0, KeysTyped DEF BatchOf
<1>2. e \in Event
  BY <1>0, <1>1, HeadTailProperties
<1>3. e.code \in Key /\ e.value \in 0..2
  BY <1>0, <1>2 DEF Event
<1>4. /\ \A k : e \in KeyEvents(k) <=> e.code = k /\ e.value # 2
      /\ \A k : e \in DownEvents(k) <=> e.code = k /\ e.value = 1
      /\ state = "Released" <=> e.value = 0
      /\ state = "Pressed" <=> e.value = 1
      /\ state \in KeyState
  BY <1>0, <1>2, <1>3 DEF KeyEvents, DownEvents, Decisive, StateOfValue, KeyState
<1>5. /\ a \in KeyAction
      /\ \A k : a \in KeyActions(k) <=> e \in KeyEvents(k)
      /\ \A k : a \in DownActions(k) <=> e \in DownEvents(k)
  BY <1>3, <1>4 DEF KeyAction, KeyActions, DownActions, Changes, KeyState
<1>6. \/ bind \in bindings /\ UNCHANGED key_actions
      \/ state = "Repeated" /\ UNCHANGED key_actions
      \/ key_actions' = Append(key_actions, a)
  BY DEF KeyFromKbd, HandleKey, IsBound, pending, PushKeyAction
<1>7. bind \in bindings => \E b \in DOMAIN Bindings : b.code = e.code /\ b.state = state
  BY DEF KeysNow
<1> HIDE DEF e, state, bind, a
<1>8. CASE bind \in bindings /\ UNCHANGED key_actions
  <2>1. ASSUME NEW k, NEW h, ~BoundOnRelease(k), OnItsWayNext(kb, k, h) PROVE OnItsWay(kb, k, h)
    <3>1. e \in KeyEvents(k) => e \in DownEvents(k)
      BY <1>3, <1>4, <1>7, <1>8, <2>1 DEF BoundOnRelease
    <3> QED BY <1>0, <1>1, <1>8, <2>1, <3>1, DownSwallowed DEF OnItsWay, OnItsWayNext, e
  <2>2. ASSUME NEW k, NEW h, ~Bound(k), OnItsWay(kb, k, h) PROVE OnItsWayNext(kb, k, h)
    <3>1. e \notin KeyEvents(k)
      BY <1>4, <1>7, <1>8, <2>2 DEF Bound
    <3> QED BY <1>0, <1>1, <1>8, <2>2, <3>1, DownPassedOver DEF OnItsWay, OnItsWayNext, e
  <2> QED BY <2>1, <2>2 DEF QueuesKept
<1>9. CASE state = "Repeated" /\ UNCHANGED key_actions
  <2>1. ASSUME NEW k, NEW h PROVE OnItsWayNext(kb, k, h) <=> OnItsWay(kb, k, h)
    <3>1. e \notin KeyEvents(k)
      BY <1>3, <1>4, <1>9
    <3> QED BY <1>0, <1>1, <1>9, <3>1, DownPassedOver DEF OnItsWay, OnItsWayNext, e
  <2> QED BY <2>1 DEF QueuesKept
<1>10. CASE key_actions' = Append(key_actions, a)
  <2>1. ASSUME NEW k, NEW h PROVE OnItsWayNext(kb, k, h) <=> OnItsWay(kb, k, h)
    <3>1. key_actions \in Seq(KeyAction) /\ a \in KeyAction
      BY <1>5, KeysTyped
    <3>2. /\ a \in KeyActions(k) <=> Head(batch) \in KeyEvents(k)
          /\ a \in DownActions(k) <=> Head(batch) \in DownEvents(k)
      BY <1>5 DEF e
    <3>3. DownInTheEnd(BufferOf(kb), Tail(batch), Append(key_actions, a), toUInput, k, h)
            <=> DownInTheEnd(BufferOf(kb), batch, key_actions, toUInput, k, h)
      BY <1>0, <1>1, <3>1, <3>2, DownForwarded
    <3> QED BY <1>0, <1>1, <1>10, <3>3 DEF OnItsWay, OnItsWayNext
  <2> QED BY <2>1 DEF QueuesKept
<1> QED BY <1>6, <1>8, <1>9, <1>10

LEMMA SynKeepsQueues ==
  ASSUME NEW kb, KeysNow(kb), KbdSyn
  PROVE  QueuesKept(kb)
<1> DEFINE msgs == Append(toUInput, SendKeyActions(key_actions))
<1>0. /\ BufferOf(kb)' = BufferOf(kb) /\ UNCHANGED cur /\ cur = kb
      /\ key_actions' = <<>> /\ toUInput' = msgs
      /\ batch # <<>> /\ batch' = Tail(batch) /\ Head(batch).type = "SYN"
  BY DEF KbdSyn, NextEvent, hardware, fetching, BufferOf, KeysNow, OneKeyboard
<1>1. BatchOf(kb) = batch /\ BatchOf(kb)' = Tail(batch) /\ batch \in Seq(Event)
  BY <1>0, KeysTyped DEF BatchOf
<1>2. ASSUME NEW k, NEW h PROVE OnItsWayNext(kb, k, h) <=> OnItsWay(kb, k, h)
  <2>1. Head(batch) \notin KeyEvents(k)
    BY <1>0 DEF KeyEvents, Decisive
  <2>2. DownInTheEnd(BufferOf(kb), Tail(batch), <<>>, msgs, k, h)
          <=> DownInTheEnd(BufferOf(kb), Tail(batch), key_actions, toUInput, k, h)
    BY KeysTyped, DownSent
  <2>3. DownInTheEnd(BufferOf(kb), Tail(batch), key_actions, toUInput, k, h)
          <=> DownInTheEnd(BufferOf(kb), batch, key_actions, toUInput, k, h)
    BY <1>0, <1>1, <2>1, DownPassedOver
  <2> HIDE DEF msgs
  <2> QED BY <1>0, <1>1, <2>2, <2>3 DEF OnItsWay, OnItsWayNext
<1> QED BY <1>2 DEF QueuesKept

(* A message that neither puts a key down nor lets one go. *)
LEMMA QueuedAfter ==
  ASSUME NEW kb, KeysNow(kb), NEW m \in MsgToUInput, toUInput' = Append(toUInput, m),
         BufferOf(kb)' = BufferOf(kb), BatchOf(kb)' = BatchOf(kb), UNCHANGED key_actions,
         \A k \in Key : m \notin DownMsgs(k) /\ (~SentByClosures(k) => m \notin KeyMsgs(k))
  PROVE  QueuesKept(kb)
<1> DEFINE msgs == Append(toUInput, m)
<1>1. \A k \in Key : \A h :
        /\ OnItsWayNext(kb, k, h)
             => DownInTheEnd(BufferOf(kb), BatchOf(kb), key_actions, toUInput, k, h)
        /\ ~SentByClosures(k) /\ DownInTheEnd(BufferOf(kb), BatchOf(kb), key_actions, toUInput, k, h)
             => OnItsWayNext(kb, k, h)
  BY KeysTyped, DownAppended DEF OnItsWayNext
<1> QED BY <1>1, KeysTyped DEF QueuesKept, OnItsWay

LEMMA MouseKeepsQueues ==
  ASSUME NEW kb, KeysNow(kb), TypesInv',
         KeyFromMouse \/ MouseRel \/ MouseSyn \/ DrainAccumulated
  PROVE  QueuesKept(kb)
<1>1. BufferOf(kb)' = BufferOf(kb) /\ UNCHANGED key_actions
  BY DEF KeyFromMouse, HandleKey, PushMouseKey, MouseRel, MouseSyn, DrainAccumulated, hardware,
         fetching, pending, BufferOf
<1>2. BatchOf(kb)' = BatchOf(kb)
  <2>1. DrainAccumulated => UNCHANGED <<cur, batch>>
    BY DEF DrainAccumulated
  <2>2. KeyFromMouse \/ MouseRel \/ MouseSyn => cur \in Mouse /\ cur' = cur
    BY DEF KeyFromMouse, HandleKey, MouseRel, MouseSyn, NextEvent
  <2> QED BY <2>1, <2>2, KeysTyped DEF BatchOf
<1>3. CASE UNCHANGED toUInput
  BY <1>1, <1>2, <1>3, SameQueues
<1>4. ASSUME NEW m \in MsgToUInput, m.type = "SendMouseActions", toUInput' = Append(toUInput, m)
      PROVE  QueuesKept(kb)
  <2>1. \A k : m \notin KeyMsgs(k) /\ m \notin DownMsgs(k)
    BY <1>4 DEF KeyMsgs, DownMsgs
  <2> QED BY <1>1, <1>2, <1>4, <2>1, QueuedAfter
<1>5. ChannelsTypeOK /\ ChannelsTypeOK'
  BY DEF KeysNow, TypesInv, UInputTypeOK
<1>6. KbdSyn => FALSE
  <2>1. cur \in Mouse \/ batch = <<>>
    BY DEF KeyFromMouse, HandleKey, MouseRel, MouseSyn, DrainAccumulated, NextEvent, DevicesHandled
  <2>2. KbdSyn => cur \in Kbd /\ batch # <<>>
    BY DEF KbdSyn, NextEvent
  <2> QED BY <2>1, <2>2, InputAssumption
<1> QED BY <1>3, <1>4, <1>5, <1>6, InputSends DEF InputThread

-----------------------------------------------------------------------------
(* What becomes of the messages.                                              *)

LEMMA KeyAfterMsg ==
  ASSUME NEW m \in MsgToUInput, m.type = "SendKeyActions", NEW k \in Key, NEW held
  PROVE  k \in KeysAfter(held, m.actions)
           <=> IF m \in KeyMsgs(k) THEN m \in DownMsgs(k) ELSE k \in held
<1>1. m.actions \in Seq(KeyAction)
  BY DEF MsgToUInput
<1>2. \A i \in DOMAIN m.actions : m.actions[i] \in KeyAction
  BY <1>1, ElementOfSeq
<1>3. /\ \A i \in DOMAIN m.actions :
            /\ m.actions[i] \in KeyActions(k) <=> Changes(m.actions[i], k)
            /\ m.actions[i] \in DownActions(k)
                 <=> Changes(m.actions[i], k) /\ m.actions[i].state = "Pressed"
  BY <1>2 DEF KeyActions, DownActions
<1>4. m \in KeyMsgs(k) <=> \E i \in DOMAIN m.actions : Changes(m.actions[i], k)
  BY <1>3 DEF KeyMsgs
<1>5. PutDownBy(m.actions, k, FALSE)
        <=> \E i \in DOMAIN m.actions : Decides(m.actions, i, k) /\ m.actions[i].state = "Pressed"
  BY <1>3 DEF PutDownBy, LastSays, Decides
<1>6. m \in DownMsgs(k) <=> m \in KeyMsgs(k) /\ PutDownBy(m.actions, k, FALSE)
  BY DEF DownMsgs
<1>7. k \in KeysAfter(held, m.actions)
        <=> \/ \E i \in DOMAIN m.actions : Decides(m.actions, i, k) /\ m.actions[i].state = "Pressed"
            \/ k \in held /\ \A i \in DOMAIN m.actions : ~Changes(m.actions[i], k)
  BY DEF KeysAfter
<1>8. (\E i \in DOMAIN m.actions : Decides(m.actions, i, k) /\ m.actions[i].state = "Pressed")
        => \E i \in DOMAIN m.actions : Changes(m.actions[i], k)
  BY DEF Decides
<1> QED BY <1>4, <1>5, <1>6, <1>7, <1>8

(* A message handled decides what becomes of a key as long as it was on its   *)
(* way.                                                                       *)
LEMMA HandledFates ==
  ASSUME NEW kb, KeysNow(kb), toUInput # <<>>, toUInput' = Tail(toUInput),
         UNCHANGED <<evq, devs, batch, cur, key_actions>>, NEW k,
         Head(toUInput) \in KeyMsgs(k)
           => /\ k \in down'["virt_kbd"] => Head(toUInput) \in DownMsgs(k)
              /\ k \in cur_modifiers' => Head(toUInput) \in DownMsgs(k)
              /\ Head(toUInput) \in DownMsgs(k) => k \in down'["virt_kbd"],
         Head(toUInput) \notin KeyMsgs(k)
           => /\ k \in down'["virt_kbd"] \/ k \in cur_modifiers'
                   => k \in down["virt_kbd"] \/ k \in cur_modifiers
              /\ ~SentByClosures(k) => (k \in down'["virt_kbd"] <=> k \in down["virt_kbd"])
  PROVE  /\ MayBeDown(kb, k)' => MayBeDown(kb, k)
         /\ ~SentByClosures(k) /\ WillBeDown(kb, k) => WillBeDown(kb, k)'
<1> DEFINE buffer == BufferOf(kb)
           events == BatchOf(kb)
           m == Head(toUInput)
<1>0. BatchOf(kb)' = events /\ BufferOf(kb)' = buffer /\ toUInput \in Seq(MsgToUInput)
  BY KeysTyped DEF BatchOf, BufferOf
<1>1. ASSUME MayBeDown(kb, k)' PROVE MayBeDown(kb, k)
  <2> DEFINE g == (k \in down["virt_kbd"] \/ k \in cur_modifiers)'
             h == k \in down["virt_kbd"] \/ k \in cur_modifiers
  <2>1. g => IF m \in KeyMsgs(k) THEN m \in DownMsgs(k) ELSE h
    OBVIOUS
  <2>2. DownInTheEnd(buffer, events, key_actions, Tail(toUInput), k, g)
    BY <1>0, <1>1 DEF MayBeDown, OnItsWay
  <2>3. DownInTheEnd(buffer, events, key_actions, toUInput, k, h) => MayBeDown(kb, k)
    BY DEF MayBeDown, OnItsWay
  <2> HIDE DEF g, h, buffer, events
  <2>4. DownInTheEnd(buffer, events, key_actions, toUInput, k, h)
    BY <1>0, <2>1, <2>2, DownHandled
  <2> QED BY <2>3, <2>4
<1>2. ASSUME ~SentByClosures(k), WillBeDown(kb, k) PROVE WillBeDown(kb, k)'
  <2> DEFINE g == (k \in down["virt_kbd"])'
             h == k \in down["virt_kbd"]
  <2>1. (IF m \in KeyMsgs(k) THEN m \in DownMsgs(k) ELSE h) => g
    BY <1>2
  <2>2. DownInTheEnd(buffer, events, key_actions, toUInput, k, h)
    BY <1>2 DEF WillBeDown, OnItsWay
  <2>3. DownInTheEnd(buffer, events, key_actions, Tail(toUInput), k, g) => WillBeDown(kb, k)'
    BY <1>0 DEF WillBeDown, OnItsWay
  <2> HIDE DEF g, h, buffer, events
  <2>4. DownInTheEnd(buffer, events, key_actions, Tail(toUInput), k, g)
    BY <1>0, <2>1, <2>2, DownHandled
  <2> QED BY <2>3, <2>4
<1> QED BY <1>1, <1>2

LEMMA UInputKeepsFates ==
  ASSUME NEW kb, KeysNow(kb), UInputThread, ~failed', UNCHANGED inputVars
  PROVE  FatesKept(kb)
<1> DEFINE m == Head(toUInput)
<1> SUFFICES ASSUME NEW k \in KbdKey
             PROVE  /\ MayBeDown(kb, k)' => MayBeDown(kb, k)
                    /\ ~SentByClosures(k) /\ WillBeDown(kb, k) => WillBeDown(kb, k)'
  BY DEF FatesKept
<1>0. /\ toUInput # <<>> /\ toUInput' = Tail(toUInput)
      /\ UNCHANGED <<evq, devs, batch, cur, key_actions>>
  BY DEF UInputThread, EmitKeyActions, EmitMouseActions, EmitKeyTap, EmitMouseClick,
         UpdateScreenSpace, TakeMsg, inputVars, hardware, fetching, round, pending
<1>1. m \in MsgToUInput /\ m \in ClosureMsgs \cup UntappedMsgs
  <2>1. toUInput \in Seq(ClosureMsgs \cup UntappedMsgs)
    BY DEF KeysNow, TapsAreOfClosures
  <2> QED BY <1>0, <2>1, HeadTailProperties, KeysTyped
<1>2. k \in Key /\ "virt_kbd" \in VirtualDevice /\ "virt_mouse_rel" \in VirtualDevice
      /\ down \in [VirtualDevice -> SUBSET Key] /\ KeysOf("virt_kbd") = KbdKey
  BY KeysTyped DEF VirtualDevice, KeysOf
<1> HIDE DEF m
<1>3. CASE EmitKeyActions
  <2>1. /\ m.type = "SendKeyActions"
        /\ cur_modifiers' = KeysAfter(cur_modifiers, m.actions) \cap ModKey
        /\ down'["virt_kbd"] = KeysAfter(down["virt_kbd"], m.actions) \cap KbdKey
    BY <1>2, <1>3 DEF EmitKeyActions, TakeMsg, m
  <2>2. /\ k \in down'["virt_kbd"]
             <=> IF m \in KeyMsgs(k) THEN m \in DownMsgs(k) ELSE k \in down["virt_kbd"]
        /\ k \in cur_modifiers'
             => IF m \in KeyMsgs(k) THEN m \in DownMsgs(k) ELSE k \in cur_modifiers
    BY <1>1, <1>2, <2>1, KeyAfterMsg
  <2> QED BY <1>0, <2>2, HandledFates DEF m
<1>4. ASSUME m \notin KeyMsgs(k), UNCHANGED cur_modifiers,
             k \in down'["virt_kbd"] => k \in down["virt_kbd"] \/ k \in cur_modifiers,
             ~SentByClosures(k) => (k \in down'["virt_kbd"] <=> k \in down["virt_kbd"])
      PROVE  /\ MayBeDown(kb, k)' => MayBeDown(kb, k)
             /\ ~SentByClosures(k) /\ WillBeDown(kb, k) => WillBeDown(kb, k)'
  BY <1>0, <1>4, HandledFates DEF m
<1>5. CASE EmitMouseActions \/ EmitMouseClick \/ UpdateScreenSpace
  <2>1. m.type # "SendKeyActions" /\ UNCHANGED cur_modifiers
    BY <1>5 DEF EmitMouseActions, EmitMouseClick, UpdateScreenSpace, TakeMsg, send_full_motion, m
  <2>2. down'["virt_kbd"] = down["virt_kbd"]
    BY <1>2, <1>5 DEF EmitMouseActions, EmitMouseClick, UpdateScreenSpace, send_full_motion
  <2> QED BY <1>4, <2>1, <2>2 DEF KeyMsgs
<1>6. CASE EmitKeyTap
  <2>1. m.type = "SendKeyTap" /\ UNCHANGED cur_modifiers
    BY <1>6 DEF EmitKeyTap, TakeMsg, send_full_motion, m
  <2>2. m \in ClosureMsgs
    BY <1>1, <2>1 DEF UntappedMsgs
  <2>3. down'["virt_kbd"] =
          Releasing(m, Pressing(m, down["virt_kbd"]) \cap KbdKey) \cap KbdKey
    BY <1>2, <1>6 DEF EmitKeyTap, send_full_motion, Emitted, m
  <2>4. k \in down'["virt_kbd"] => k \in down["virt_kbd"] \/ k \in cur_modifiers
    BY <2>3 DEF Releasing, Pressing, mod_to_rm
  <2>5. ~SentByClosures(k) => (k \in down'["virt_kbd"] <=> k \in down["virt_kbd"])
    <3>1. down'["virt_kbd"] \ ({m.key} \cup loose) = down["virt_kbd"] \ ({m.key} \cup loose)
      BY <1>2, <1>6, TapLeaves DEF KeysNow, m
    <3>2. ~SentByClosures(k) => k # m.key /\ k \notin loose
      BY <2>1, <2>2 DEF SentByClosures, KeysNow, TapsAreOfClosures
    <3> QED BY <3>1, <3>2
  <2> QED BY <1>4, <2>1, <2>4, <2>5 DEF KeyMsgs
<1> QED BY <1>3, <1>5, <1>6 DEF UInputThread

LEMMA ForwardersKeepQueues ==
  ASSUME NEW kb, KeysNow(kb), Forwarders, UNCHANGED inputVars
  PROVE  QueuesKept(kb)
<1>0. /\ BufferOf(kb)' = BufferOf(kb) /\ BatchOf(kb)' = BatchOf(kb) /\ UNCHANGED key_actions
      /\ CoreTypeOK
  BY DEF inputVars, hardware, fetching, round, pending, BatchOf, BufferOf, KeysNow, TypesInv, PoolInv
<1>1. ASSUME NEW api \in Api, WorkerForwards(api) PROVE QueuesKept(kb)
  <2> DEFINE m == Head(toWorker[api])
  <2>1. toWorker[api] \in Seq(ClosureMsgs) /\ toWorker[api] # <<>>
    BY <1>1 DEF WorkerForwards, KeysNow, TapsAreOfClosures
  <2>2. m \in ClosureMsgs /\ m \in MsgToUInput /\ toUInput' = Append(toUInput, m)
    BY <1>1, <2>1, HeadTailProperties, CoreAssumption DEF WorkerForwards
  <2> HIDE DEF m
  <2>3. ASSUME NEW k, ~SentByClosures(k) PROVE m \notin KeyMsgs(k)
    BY <2>2, <2>3 DEF SentByClosures, KeyMsgs, KeyActions, Changes
  <2>4. \A k \in Key : m \notin DownMsgs(k)
    BY <2>2 DEF KeysNow, OneKeyboard
  <2> QED BY <1>0, <2>2, <2>3, <2>4, QueuedAfter
<1>2. CASE UpdateForwards
  <2> DEFINE m == Head(toUpdate)
  <2>1. toUpdate \in Seq({x \in MsgToUInput : x.type = "UpdateScreenSpace"}) /\ toUpdate # <<>>
    BY <1>2 DEF UpdateForwards, KeysNow, TapsAreOfClosures
  <2>2. m \in MsgToUInput /\ m.type = "UpdateScreenSpace" /\ toUInput' = Append(toUInput, m)
    BY <1>2, <2>1, HeadTailProperties DEF UpdateForwards
  <2> HIDE DEF m
  <2>3. \A k : m \notin KeyMsgs(k) /\ m \notin DownMsgs(k)
    BY <2>2 DEF KeyMsgs, DownMsgs
  <2> QED BY <1>0, <2>2, <2>3, QueuedAfter
<1> QED BY <1>1, <1>2 DEF Forwarders

-----------------------------------------------------------------------------
(* The invariant of the whole. *)

LEMMA KeysInvIs ==
  ASSUME NEW kb, OneKeyboard(kb), PromisesInv, BindingsInv, KeysInv(kb), ~failed
  PROVE  KeysNow(kb)
BY RestOfIt DEF KeysInv, KeysNow, PromisesInv

LEMMA InputKeepsKeys ==
  ASSUME NEW kb, KeysNow(kb), TypesInv', InputThread, UNCHANGED uinputVars, Noted(kb)
  PROVE  NoKeyInvented(kb)' /\ NoKeyLost(kb)'
<1>1. CASE StartFetch \/ \E d \in Device : OpenDevice(d)
  BY <1>1, OpeningKeepsKeys
<1>2. ASSUME QueuesKept(kb), UNCHANGED <<phys, gone, devs>>
      PROVE  NoKeyInvented(kb)' /\ NoKeyLost(kb)'
  BY <1>2, QueuesFates, KeysByFates DEF KeysNow, uinputVars
<1>3. CASE FetchDone \/ DeviceError \/ Poll \/ ReceiveFromCore
  <2>1. /\ BufferOf(kb)' = BufferOf(kb) /\ BatchOf(kb)' = BatchOf(kb)
        /\ UNCHANGED <<key_actions, toUInput, phys, gone, devs>>
    BY <1>3 DEF FetchDone, DeviceError, Poll, ReceiveFromCore, hardware, fetching, round, pending,
                channels, BatchOf, BufferOf
  <2> QED BY <1>2, <2>1, SameQueues
<1>4. ASSUME NEW d \in Device, FetchEvents(d) PROVE NoKeyInvented(kb)' /\ NoKeyLost(kb)'
  BY <1>2, <1>4, FetchKeepsQueues DEF FetchEvents, fetching
<1>5. CASE KeyFromKbd \/ KbdSyn \/ KeyFromMouse \/ MouseRel \/ MouseSyn \/ DrainAccumulated
  <2>1. UNCHANGED <<phys, gone, devs>>
    BY <1>5 DEF KeyFromKbd, KeyFromMouse, HandleKey, KbdSyn, MouseRel, MouseSyn, DrainAccumulated,
                hardware, fetching
  <2>2. QueuesKept(kb)
    BY <1>5, KeyKeepsQueues, SynKeepsQueues, MouseKeepsQueues
  <2> QED BY <1>2, <2>1, <2>2
<1>6. ASSUME NEW d \in Device, AsksKeys(d) PROVE NoKeyInvented(kb)' /\ NoKeyLost(kb)'
  BY <1>6, AskingKeepsKeys
<1> QED BY <1>1, <1>3, <1>4, <1>5, <1>6 DEF InputThread, AsksKeys

LEMMA KeysKept ==
  ASSUME NEW kb, KeysNow(kb), TypesInv', ~failed', [Next]_vars, Noted(kb)
  PROVE  NoKeyInvented(kb)' /\ NoKeyLost(kb)'
<1>1. CASE InputStep
  BY <1>1, InputKeepsKeys DEF InputStep
<1>2. CASE HardwareStep
  <2>1. CASE TimerExpires
    <3>1. /\ BufferOf(kb)' = BufferOf(kb) /\ BatchOf(kb)' = BatchOf(kb)
          /\ UNCHANGED <<key_actions, toUInput, phys, gone, devs, down, cur_modifiers>>
      BY <1>2, <2>1 DEF HardwareStep, TimerExpires, hardware, fetching, round, pending, channels,
                        uinputVars, BatchOf, BufferOf
    <3> QED BY <3>1, SameQueues, QueuesFates, KeysByFates DEF KeysNow
  <2> QED BY <1>2, <2>1, TypingKeepsKeys, HotplugKeepsKeys DEF HardwareStep
<1>3. CASE UInputStep
  <2>1. UNCHANGED <<phys, gone, devs>>
    BY <1>3 DEF UInputStep, inputVars, hardware, fetching
  <2> QED BY <1>3, <2>1, UInputKeepsFates, KeysByFates DEF UInputStep, KeysNow
<1>4. CASE ForwardStep
  <2>1. UNCHANGED <<phys, gone, devs, down, cur_modifiers>>
    BY <1>4 DEF ForwardStep, inputVars, hardware, fetching, uinputVars
  <2> QED BY <1>4, <2>1, ForwardersKeepQueues, QueuesFates, KeysByFates DEF ForwardStep, KeysNow
<1>5. CASE CoreStep \/ PrivExits \/ CoreDrains \/ CoreExits \/ UNCHANGED vars
  <2>1. UNCHANGED toUInput
    BY <1>5 DEF CoreStep, CoreProcess, CoreDrains, CoreAlone, EventLoop, KeyHandled, KeyNotBound,
                RunClosure, SkipClosure, TogglePauseClosures, ToggleFails, MacroRecording, Exit,
                ClosureSends, ClosureEnds, ClosurePanics, ForwardUpdate, coreVars, PrivExits,
                CoreExits, vars, channels
  <2>2. /\ BufferOf(kb)' = BufferOf(kb) /\ BatchOf(kb)' = BatchOf(kb)
        /\ UNCHANGED <<key_actions, phys, gone, devs, down, cur_modifiers>>
    BY <1>5 DEF CoreStep, PrivExits, CoreDrains, CoreExits, vars, inputVars, hardware, fetching,
                round, pending, uinputVars, BatchOf, BufferOf
  <2> QED BY <2>1, <2>2, SameQueues, QueuesFates, KeysByFates DEF KeysNow
<1> QED BY <1>1, <1>2, <1>3, <1>4, <1>5 DEF Next

LEMMA KeysInvStep ==
  ASSUME NEW kb, OneKeyboard(kb), PromisesInv, PromisesInv', BindingsInv, KeysInv(kb), [Next]_vars,
         Noted(kb)
  PROVE  KeysInv(kb)'
<1>1. TypesInv /\ TypesInv' /\ TapsAreOfClosures /\ OpenedOnce /\ ReportsEnd(kb)
  BY DEF PromisesInv, KeysInv
<1>2. TapsAreOfClosures' /\ OpenedOnce' /\ ReportsEnd(kb)'
  BY <1>1, TapsOfClosuresStep, OpenedOnceStep, ReportsEndStep
<1>3. failed => failed'
  BY DEF Next, InputStep, HardwareStep, UInputStep, UInputThread, EmitKeyActions, EmitMouseActions,
         EmitKeyTap, EmitMouseClick, UpdateScreenSpace, send_full_motion, ForwardStep, CoreStep,
         PrivExits, CoreDrains, CoreExits, vars, uinputVars
<1>4. ~failed' => NoKeyInvented(kb)' /\ NoKeyLost(kb)'
  BY <1>1, <1>3, KeysInvIs, KeysKept
<1> QED BY <1>2, <1>4 DEF KeysInv

LEMMA KeysInvInit ==
  ASSUME NEW kb, OneKeyboard(kb), Init PROVE KeysInv(kb)
<1>1. /\ toUInput = <<>> /\ key_actions = <<>> /\ batch = <<>> /\ devs = {} /\ cur_modifiers = {}
      /\ evq = [d \in Device |-> <<>>] /\ down = [dev \in VirtualDevice |-> {}] /\ loose = {}
      /\ toWorker = [api \in Api |-> <<>>] /\ toUpdate = <<>>
      /\ toInput = <<ChangeBindings(DOMAIN Bindings)>> /\ pc = "loop" /\ first_fetch = TRUE
  BY DEF Init, InputInit, CoreInit, UInputInit, ChannelsInit
<1>2. kb \in Device /\ "virt_kbd" \in VirtualDevice
  BY DEF OneKeyboard, Device, VirtualDevice
<1>3. TapsAreOfClosures
  BY <1>1 DEF TapsAreOfClosures
<1>4. OpenedOnce
  <2>1. IsChange(ChangeBindings(DOMAIN Bindings))
    BY DEF IsChange, ChangeBindings
  <2> QED BY <1>1, <2>1 DEF OpenedOnce
<1>5. ReportsEnd(kb)
  BY <1>1 DEF ReportsEnd, EndsInSyn
<1>6. \A k : ~MayBeDown(kb, k)
  <2> TAKE k
  <2> DEFINE h == k \in down["virt_kbd"] \/ k \in cur_modifiers
  <2>1. ~h
    BY <1>1, <1>2
  <2>2. MayBeDown(kb, k) => DownInTheEnd(<<>>, <<>>, <<>>, <<>>, k, h)
    BY <1>1, <1>2 DEF MayBeDown, OnItsWay, BatchOf, BufferOf
  <2> HIDE DEF h
  <2> QED BY <2>1, <2>2, NothingOnItsWay
<1>7. NoKeyInvented(kb) /\ NoKeyLost(kb)
  BY <1>1, <1>6 DEF NoKeyInvented, NoKeyLost
<1> QED BY <1>3, <1>4, <1>5, <1>7 DEF KeysInv

(* Once nothing is on its way any more, what will be down is down.            *)
LEMMA KeysInTheEnd ==
  ASSUME NEW kb, OneKeyboard(kb), PromisesInv, BindingsInv, KeysInv(kb) PROVE KeysFollowTheUser
<1> SUFFICES ASSUME Quiescent, ~failed, NEW k \in KbdKey
             PROVE  /\ k \in down["virt_kbd"] /\ ~BoundOnRelease(k) => \E d \in Kbd : k \in phys[d]
                    /\ \A d \in Kbd \cap devs :
                         k \in phys[d] \ downAtOpen[d] /\ ~Bound(k) /\ ~SentByClosures(k)
                           => k \in down["virt_kbd"]
  BY DEF KeysFollowTheUser
<1>0. KeysNow(kb)
  BY KeysInvIs
<1>1. /\ BufferOf(kb) = <<>> /\ BatchOf(kb) = <<>> /\ key_actions = <<>> /\ toUInput = <<>>
      /\ gone = {} /\ Kbd = {kb}
  BY <1>0, KeysTyped DEF Quiescent, KeysNow, ReportsEnd, BatchOf, BufferOf, OneKeyboard
<1>2. k \in down["virt_kbd"] => MayBeDown(kb, k)
  <2> DEFINE h == k \in down["virt_kbd"] \/ k \in cur_modifiers
  <2>1. DownInTheEnd(<<>>, <<>>, <<>>, <<>>, k, h) => MayBeDown(kb, k)
    BY <1>1 DEF MayBeDown, OnItsWay
  <2>2. k \in down["virt_kbd"] => h
    OBVIOUS
  <2> HIDE DEF h
  <2> QED BY <2>1, <2>2, NothingOnItsWay
<1>3. WillBeDown(kb, k) => k \in down["virt_kbd"]
  <2> DEFINE h == k \in down["virt_kbd"]
  <2>1. WillBeDown(kb, k) => DownInTheEnd(<<>>, <<>>, <<>>, <<>>, k, h)
    BY <1>1 DEF WillBeDown, OnItsWay
  <2> HIDE DEF h
  <2>2. WillBeDown(kb, k) => h
    BY <2>1, NothingOnItsWay
  <2> QED BY <2>2 DEF h
<1>4. k \in down["virt_kbd"] /\ ~BoundOnRelease(k) => k \in phys[kb]
  BY <1>0, <1>1, <1>2 DEF KeysNow, NoKeyInvented
<1>5. kb \in devs /\ k \in phys[kb] \ downAtOpen[kb] /\ ~Bound(k) /\ ~SentByClosures(k)
        => k \in down["virt_kbd"]
  BY <1>0, <1>1, <1>3 DEF KeysNow, NoKeyLost
<1> QED BY <1>1, <1>4, <1>5

(* With one keyboard, for every set of keys and bindings, over every          *)
(* interleaving of its events with toggles, closures and the ends of either   *)
(* process: once all that is on its way has arrived, a key is down on the     *)
(* virtual keyboard only if it is down on the real one (unless a binding      *)
(* swallowed its release), and is down there if it is down on the real one    *)
(* and neither bound nor sent by closures nor held since before the keyboard  *)
(* was listed.  That last case is in the code: a key pressed between the      *)
(* recheck and the reading of the modifiers is held, and its press is never   *)
(* passed on.  Two keyboards that hold the same key, or a refetch that drops  *)
(* a release, do break this.                                                  *)
THEOREM KeysOfOneKeyboard ==
  ASSUME NEW CONSTANT kb, OneKeyboard(kb) PROVE HeldSpec => []KeysFollowTheUser
<1> DEFINE Inv == PromisesInv /\ BindingsInv /\ KeysInv(kb)
<1>1. HeldInit => Inv
  BY PromisesInit, BindingsInvInit, KeysInvInit DEF HeldInit
<1>2. Inv /\ [HeldNext]_heldVars => Inv'
  <2> SUFFICES ASSUME Inv, [HeldNext]_heldVars PROVE Inv'
    OBVIOUS
  <2>1. [Next]_vars
    BY DEF HeldNext, heldVars
  <2>2. Noted(kb)
    BY StepNoted DEF OneKeyboard, Device
  <2>3. PromisesInv' /\ BindingsInv'
    BY <2>1, PromisesStep, BindingsInvStep
  <2>4. KeysInv(kb)'
    BY <2>1, <2>2, <2>3, KeysInvStep
  <2> QED BY <2>3, <2>4
<1>3. Inv => KeysFollowTheUser
  BY KeysInTheEnd
<1> QED BY <1>1, <1>2, <1>3, PTL DEF HeldSpec
=============================================================================
