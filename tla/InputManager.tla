---------------------------- MODULE InputManager ----------------------------
(***************************************************************************)
(* The input thread of the privileged process                              *)
(* (bindae/src/bin/manager/input_manager.rs): it grabs the keyboards and   *)
(* mice, polls them together with the core's socket and a timer, sends     *)
(* bound keys to the core and passes everything else to the uinput thread. *)
(*                                                                         *)
(* One step of the thread is one iteration of a loop of the source (one    *)
(* event of a fetched batch, one message, one timer expiry) or, while a    *)
(* device is opened, one call into the kernel.  The hardware (the user,    *)
(* the kernel's event buffers, hotplug and the timerfd) is the             *)
(* environment.                                                            *)
(***************************************************************************)
EXTENDS Channels, FiniteSets, SequencesExt

CONSTANTS
  Kbd, Mouse,   (* The device nodes, by the type their name gives them.     *)
  Throttled,    (* Whether min_mouse_poll_interval is not zero.             *)
  MaxEvents,    (* Bound: events waiting in the buffer of a device.         *)
  MaxMotion,    (* Bound: distance of motion on its way through the thread. *)
  MsgsFromCore  (* Messages of the core, when the thread runs on its own.   *)

Device == Kbd \cup Mouse
Source == Device \cup {"socket", "timer"}

ASSUME InputAssumption ==
  /\ Kbd \cap Mouse = {} /\ IsFiniteSet(Device) /\ IsFiniteSet(Axis)
  /\ "socket" \notin Device /\ "timer" \notin Device
  /\ Throttled \in BOOLEAN
  /\ MaxEvents \in Nat /\ MaxMotion \in Nat
  /\ MsgsFromCore \subseteq MsgToInput

VARIABLES
  (* hardware *)
  present,        (* Devices plugged in.                                    *)
  phys,           (* Keys physically down on each device.                   *)
  evq,            (* Events in the kernel buffer of each open device.       *)
  gone,           (* Open devices that were unplugged: reads give ENODEV.   *)
  timer,          (* The timerfd: "off", "armed", or "expired" (readable).  *)
  (* locals of input_loop *)
  pc,             (* "loop", "fetch" (inside fetch_devices), or "dead".     *)
  update_devices, first_fetch,
  devs,           (* all_device_info: the devices open and grabbed.         *)
  todo,           (* Device paths fetch_devices has not opened yet.         *)
  opening,        (* The device it has opened and not yet listed, if any,   *)
  at,             (* and its next line: "check", "recheck" or "read".       *)
  d_modifiers,    (* Modifiers each device holds down.                      *)
  ready,          (* Sources this round of poll reported and are left.      *)
  cur, batch,     (* Device being read and its fetched events.              *)
  key_actions, mouse_actions,   (* Actions since the last SYN event.        *)
  accumulated,    (* accumulated_relative_mouse_movements.                  *)
  bindings,
  (* history *)
  owed            (* Motion read from the mice and not yet passed on.       *)

hardware == <<present, phys, evq, gone>>
fetching == <<update_devices, first_fetch, devs, todo, opening, at>>
round    == <<ready, cur, batch>>
pending  == <<key_actions, mouse_actions>>
inputVars == <<hardware, timer, pc, fetching, d_modifiers, round, pending,
               accumulated, bindings, owed>>

-----------------------------------------------------------------------------
(* Events. *)

KeyEvent(k, v)   == [type |-> "KEY", code |-> k, value |-> v]
RelEvent(ax, v)  == [type |-> "RELATIVE", axis |-> ax, value |-> v]
SynEvent         == [type |-> "SYN"]

Event == [type : {"KEY"}, code : Key, value : 0..2]
           \cup [type : {"RELATIVE"}, axis : Axis, value : Int]
           \cup [type : {"SYN"}]

SendKeyActions(actions)   == [type |-> "SendKeyActions", actions |-> actions]
SendMouseActions(actions) == [type |-> "SendMouseActions", actions |-> actions]

(* The motion along an axis in a sequence of mouse actions or events. *)
Motion(s, relType, ax) ==
  FoldLeft(LAMBDA sum, a : IF a.type = relType /\ a.axis = ax THEN sum + a.value ELSE sum,
           0, s)

(* The motion along an axis in the buffers of all devices. *)
Buffered(ax) == MapThenSumSet(LAMBDA d : Motion(evq[d], "RELATIVE", ax), Device)

InputInit ==
  /\ present \in SUBSET Device
  /\ phys = [d \in Device |-> {}]
  /\ evq = [d \in Device |-> <<>>]
  /\ gone = {}
  /\ timer = "off"
  /\ pc = "loop"
  /\ update_devices = TRUE /\ first_fetch = TRUE
  /\ devs = {} /\ todo = {} /\ opening = {} /\ at = "check"
  /\ d_modifiers = [d \in Device |-> {}]
  /\ ready = {} /\ cur \in Device /\ batch = <<>>
  /\ key_actions = <<>> /\ mouse_actions = <<>>
  /\ accumulated = <<>>
  /\ bindings = {}
  /\ owed = [ax \in Axis |-> 0]

-----------------------------------------------------------------------------
(* Hardware.  An open device reports to this thread, once it is grabbed to *)
(* this thread alone; what a device that is not grabbed reports to the     *)
(* compositor is none of this module.                                      *)

Open(d) == d \in (devs \cup opening) \ gone

Report(d, event) ==
  evq' = IF Open(d) THEN [evq EXCEPT ![d] = @ \o <<event, SynEvent>>] ELSE evq

HasSpace(d) == Len(evq[d]) + 2 <= MaxEvents /\ UInputKeepsUp

KeyChanges(d, k) ==
  /\ d \in present /\ HasSpace(d)
  /\ IF k \in phys[d]
     THEN phys' = [phys EXCEPT ![d] = @ \ {k}] /\ Report(d, KeyEvent(k, 0))
     ELSE phys' = [phys EXCEPT ![d] = @ \cup {k}] /\ Report(d, KeyEvent(k, 1))
  /\ UNCHANGED <<present, gone, owed>>

KeyRepeats(d, k) ==
  /\ Open(d) /\ HasSpace(d)
  /\ k \in phys[d]
  /\ Report(d, KeyEvent(k, 2))
  /\ UNCHANGED <<present, phys, gone, owed>>

MouseMoves(d, ax, v) ==
  /\ Open(d) /\ HasSpace(d)
  /\ owed[ax] + v \in (-MaxMotion)..MaxMotion
  /\ Report(d, RelEvent(ax, v))
  /\ owed' = [owed EXCEPT ![ax] = @ + v]
  /\ UNCHANGED <<present, phys, gone>>

(* Unplugging loses what the device had buffered; every later read fails. *)
Unplugged(d) ==
  /\ d \in present
  /\ present' = present \ {d}
  /\ phys' = [phys EXCEPT ![d] = {}]
  /\ evq' = [evq EXCEPT ![d] = <<>>]
  /\ gone' = gone \cup ({d} \cap (devs \cup opening))
  /\ owed' = [ax \in Axis |-> owed[ax] - Motion(evq[d], "RELATIVE", ax)]

Plugged(d) ==
  /\ d \in Device \ present
  /\ present' = present \cup {d}
  /\ UNCHANGED <<phys, evq, gone, owed>>

Typing ==
  /\ \/ \E d \in Device, k \in Key : KeyChanges(d, k) \/ KeyRepeats(d, k)
     \/ \E d \in Mouse, ax \in Axis, v \in Position : MouseMoves(d, ax, v)
  /\ UNCHANGED <<timer, pc, fetching, d_modifiers, round, pending, accumulated,
                 bindings, channels>>

Hotplug ==
  /\ \E d \in Device : Unplugged(d) \/ Plugged(d)
  /\ UNCHANGED <<timer, pc, fetching, d_modifiers, round, pending, accumulated,
                 bindings, channels>>

TimerExpires ==
  /\ timer = "armed"
  /\ timer' = "expired"
  /\ UNCHANGED <<hardware, pc, fetching, d_modifiers, round, pending, accumulated,
                 bindings, owed, channels>>

-----------------------------------------------------------------------------
(* Opening the devices.                                                    *)

AtLoopTop == pc = "loop" /\ ready = {} /\ batch = <<>>

(* `all_device_info.clear()` closes the old devices with whatever their     *)
(* buffers still hold, then the device paths are listed afresh.             *)
StartFetch ==
  /\ AtLoopTop /\ update_devices
  /\ pc' = "fetch"
  /\ todo' = present
  /\ devs' = {} /\ gone' = {}
  /\ evq' = [d \in Device |-> <<>>]
  /\ owed' = [ax \in Axis |-> owed[ax] - Buffered(ax)]
  /\ UNCHANGED <<present, phys, timer, update_devices, first_fetch, opening, at, d_modifiers,
                 round, pending, accumulated, bindings, channels>>

OpenDevice(d) ==
  /\ pc = "fetch" /\ opening = {} /\ d \in todo \cap present
  /\ opening' = {d} /\ todo' = todo \ {d}
  /\ at' = IF first_fetch THEN "check" ELSE "read"
  /\ UNCHANGED <<hardware, timer, pc, update_devices, first_fetch, devs, d_modifiers, round,
                 pending, accumulated, bindings, owed, channels>>

(* Asking the kernel for the keys that are down drops the key events from   *)
(* the buffer of the device, and each SYN event but the first that is left  *)
(* with no event of its own.                                                *)
WithoutKeys(events) ==
  FoldLeft(LAMBDA kept, e :
             IF e.type = "KEY" \/ (e.type = "SYN" /\ kept # <<>> /\ Last(kept).type = "SYN")
             THEN kept ELSE Append(kept, e),
           <<>>, events)

ReadsKeys(d, line) ==
  /\ pc = "fetch" /\ d \in opening \ gone /\ at = line
  /\ evq' = [evq EXCEPT ![d] = WithoutKeys(@)]
  /\ UNCHANGED <<present, phys, gone, timer, pc, update_devices, first_fetch, todo, round,
                 pending, accumulated, bindings, owed, channels>>

(* The first fetch waits until no key of the device is down and grabs it    *)
(* then, checks again, and lets go of it to wait anew if a key came between.*)
Check(d) ==
  /\ ReadsKeys(d, "check")
  /\ at' = IF phys[d] = {} THEN "recheck" ELSE "check"
  /\ UNCHANGED <<devs, opening, d_modifiers>>

Recheck(d) ==
  /\ ReadsKeys(d, "recheck")
  /\ at' = IF phys[d] = {} THEN "read" ELSE "check"
  /\ UNCHANGED <<devs, opening, d_modifiers>>

List(d) == devs' = devs \cup {d} /\ opening' = {} /\ at' = "check"

(* Mistaken: a device opened again starts with no modifiers. *)
ReadForgetting(d) ==
  /\ ReadsKeys(d, "read") /\ List(d)
  /\ d_modifiers' = [d_modifiers EXCEPT ![d] = {}]

(* The modifiers are those down now; the press of a key that came after the *)
(* recheck is among the events dropped.                                     *)
ReadModifiers(d) ==
  /\ ReadsKeys(d, "read") /\ List(d)
  /\ d_modifiers' = [d_modifiers EXCEPT ![d] = modifiers_from_key_codes(phys[d])]

FetchDone ==
  /\ pc = "fetch" /\ todo = {} /\ opening = {}
  /\ pc' = "loop"
  /\ update_devices' = FALSE /\ first_fetch' = FALSE
  /\ UNCHANGED <<hardware, timer, devs, todo, opening, at, d_modifiers, round, pending,
                 accumulated, bindings, owed, channels>>

(* A device that has gone by the time it is opened, asked or read is an     *)
(* error that `?` carries out of input_loop, where the thread's expect      *)
(* panics.                                                                  *)
DeviceError ==
  /\ \/ pc = "fetch" /\ (IF opening = {} THEN todo \ present # {} ELSE opening \cap gone # {})
     \/ pc = "loop" /\ batch = <<>> /\ ready \cap gone # {}
  /\ pc' = "dead"
  /\ UNCHANGED <<hardware, timer, fetching, d_modifiers, round, pending,
                 accumulated, bindings, owed, channels>>

-----------------------------------------------------------------------------
(* A round: poll, then the devices, the socket and the timer in this order. *)

(* Mistaken: while the core has messages, the devices wait. *)
ReadableCoreFirst ==
  IF toInput # <<>> THEN {"socket"}
  ELSE {d \in devs : evq[d] # <<>> \/ d \in gone}
         \cup (IF timer = "expired" THEN {"timer"} ELSE {})

(* Mistaken: while a device has events, the core waits. *)
ReadableDevicesFirst ==
  LET events == {d \in devs : evq[d] # <<>> \/ d \in gone} IN
  IF events # {} THEN events
  ELSE (IF toInput # <<>> THEN {"socket"} ELSE {})
         \cup (IF timer = "expired" THEN {"timer"} ELSE {})

Readable ==
  {d \in devs : evq[d] # <<>> \/ d \in gone}
    \cup (IF toInput # <<>> THEN {"socket"} ELSE {})
    \cup (IF timer = "expired" THEN {"timer"} ELSE {})

Poll ==
  /\ AtLoopTop /\ ~update_devices
  /\ Readable # {}
  /\ ready' = Readable
  /\ UNCHANGED <<hardware, timer, pc, fetching, d_modifiers, cur, batch, pending,
                 accumulated, bindings, owed, channels>>

FetchEvents(d) ==
  /\ pc = "loop" /\ batch = <<>>
  /\ d \in ready \cap devs /\ d \notin gone
  /\ ready' = ready \ {d}
  /\ cur' = d
  /\ batch' = evq[d]
  /\ evq' = [evq EXCEPT ![d] = <<>>]
  /\ UNCHANGED <<present, phys, gone, timer, pc, fetching, d_modifiers, pending,
                 accumulated, bindings, owed, channels>>

(* One event of the batch, of a device of the given type. *)
NextEvent(devices, type) ==
  /\ pc = "loop" /\ batch # <<>>
  /\ cur \in devices /\ Head(batch).type = type
  /\ batch' = Tail(batch)

(* Mistaken: a binding is looked up without the key's state. *)
IsBoundInAnyState(bind) ==
  \E b \in bindings : b.code = bind.code /\ b.modifiers = bind.modifiers

(* A key event is matched with the bindings under the modifiers it leaves   *)
(* the device with.  `Forward` is what becomes of an unbound key.           *)
IsBound(bind) == bind \in bindings

HandleKey(devices, Forward(_, _)) ==
  LET e     == Head(batch)
      state == StateOfValue(e.value)
      mods  == ModifiersAfter(d_modifiers[cur], e.code, state)
      bind  == [code |-> e.code, state |-> state, modifiers |-> mods]
  IN
  /\ NextEvent(devices, "KEY")
  /\ d_modifiers' = [d_modifiers EXCEPT ![cur] = mods]
  /\ \/ /\ IsBound(bind)
        /\ HasRoom(toCore)
        /\ toCore' = Append(toCore, bind)
        /\ UNCHANGED pending
     \/ /\ ~IsBound(bind)
        /\ IF state = "Repeated" THEN UNCHANGED pending ELSE Forward(e.code, state)
        /\ UNCHANGED toCore
  /\ UNCHANGED <<hardware, timer, pc, fetching, ready, cur, accumulated, bindings,
                 owed, toInput, toUInput>>

PushKeyAction(k, state) ==
  /\ key_actions' = Append(key_actions, [key |-> k, state |-> state])
  /\ UNCHANGED mouse_actions

PushMouseKey(k, state) ==
  /\ mouse_actions' = Append(mouse_actions, [type |-> "Key", key |-> k, state |-> state])
  /\ UNCHANGED key_actions

KeyFromKbd   == HandleKey(Kbd, PushKeyAction)
KeyFromMouse == HandleKey(Mouse, PushMouseKey)

KbdSyn ==
  /\ NextEvent(Kbd, "SYN")
  /\ toUInput' = Append(toUInput, SendKeyActions(key_actions))
  /\ key_actions' = <<>>
  /\ UNCHANGED <<hardware, timer, pc, fetching, d_modifiers, ready, cur, mouse_actions,
                 accumulated, bindings, owed, toInput, toCore>>

MouseRel ==
  LET e == Head(batch) IN
  /\ NextEvent(Mouse, "RELATIVE")
  /\ mouse_actions' =
       Append(mouse_actions, [type |-> "Rel", axis |-> e.axis, value |-> e.value])
  /\ UNCHANGED <<hardware, timer, pc, fetching, d_modifiers, ready, cur, key_actions,
                 accumulated, bindings, owed, channels>>

(* Mistaken: motion put aside replaces what is there. *)
AccumulateLast(actions) ==
  [ax \in DOMAIN accumulated
          \cup {actions[i].axis : i \in {j \in DOMAIN actions : actions[j].type = "Rel"}} |->
     IF \E i \in DOMAIN actions : actions[i].type = "Rel" /\ actions[i].axis = ax
     THEN Motion(actions, "Rel", ax) ELSE accumulated[ax]]

(* With a poll interval, a SYN event arms the timer unless it is running    *)
(* (an expired timer is not running, and arming it clears its expiry), and  *)
(* relative motion is put aside for the timer; keys are never held back.    *)
Accumulate(actions) ==
  [ax \in DOMAIN accumulated
          \cup {actions[i].axis : i \in {j \in DOMAIN actions : actions[j].type = "Rel"}} |->
     (IF ax \in DOMAIN accumulated THEN accumulated[ax] ELSE 0) + Motion(actions, "Rel", ax)]

(* What is not motion, in its order. *)
non_rel_mouse_actions(actions) ==
  FoldLeft(LAMBDA kept, a : IF a.type = "Rel" THEN kept ELSE Append(kept, a), <<>>, actions)

PassOn(actions) ==
  /\ toUInput' = Append(toUInput, SendMouseActions(actions))
  /\ owed' = [ax \in Axis |-> owed[ax] - Motion(actions, "Rel", ax)]

(* Mistaken: the actions sent stay in the list. *)
MouseSynKeeping ==
  /\ NextEvent(Mouse, "SYN") /\ ~Throttled
  /\ PassOn(mouse_actions)
  /\ UNCHANGED <<hardware, timer, pc, fetching, d_modifiers, ready, cur, pending, accumulated,
                 bindings, toInput, toCore>>

MouseSyn ==
  /\ NextEvent(Mouse, "SYN")
  /\ IF Throttled
     THEN /\ timer' = "armed"
          /\ accumulated' = Accumulate(mouse_actions)
          /\ PassOn(non_rel_mouse_actions(mouse_actions))
     ELSE /\ PassOn(mouse_actions)
          /\ UNCHANGED <<timer, accumulated>>
  /\ mouse_actions' = <<>>
  /\ UNCHANGED <<hardware, pc, fetching, d_modifiers, ready, cur, key_actions,
                 bindings, toInput, toCore>>

DevicesHandled == pc = "loop" /\ batch = <<>> /\ ready \cap devs = {}

(* devices_changed: a device is there that is not in the list.  A device of *)
(* the list that is not there any more is not a change.  A device whose     *)
(* physical path cannot be read is an error, taken for a change.            *)
devices_changed == present \ devs # {}

ReceiveFromCore ==
  LET msg == Head(toInput) IN
  /\ DevicesHandled /\ "socket" \in ready
  /\ ready' = ready \ {"socket"}
  /\ toInput' = Tail(toInput)
  /\ \/ /\ msg.type = "ChangeBindings"
        /\ bindings' = msg.bindings
        /\ UNCHANGED update_devices
     \/ /\ msg.type \in {"PointersChanged", "KeyboardChanged"}
        /\ \E changed \in {devices_changed, TRUE} : update_devices' = (update_devices \/ changed)
        /\ UNCHANGED bindings
  /\ UNCHANGED <<hardware, timer, pc, first_fetch, devs, todo, opening, at, d_modifiers, cur,
                 batch, pending, accumulated, owed, toCore, toUInput>>

(* Mistaken: the motion sent stays put aside. *)
DrainKeeping ==
  /\ DevicesHandled /\ "socket" \notin ready /\ "timer" \in ready
  /\ timer = "expired"
  /\ timer' = "off"
  /\ ready' = ready \ {"timer"}
  /\ \E axes \in SetToSeqs(DOMAIN accumulated) :
       PassOn([i \in DOMAIN axes |->
                 [type |-> "Rel", axis |-> axes[i], value |-> accumulated[axes[i]]]])
  /\ UNCHANGED <<hardware, pc, fetching, d_modifiers, cur, batch, pending, accumulated,
                 bindings, toInput, toCore>>

(* `fd_timer.wait()` returns once the timer has expired, and blocks till then. *)
DrainAccumulated ==
  /\ DevicesHandled /\ "socket" \notin ready /\ "timer" \in ready
  /\ timer = "expired"
  /\ timer' = "off"
  /\ ready' = ready \ {"timer"}
  /\ \E axes \in SetToSeqs(DOMAIN accumulated) :
       PassOn([i \in DOMAIN axes |->
                 [type |-> "Rel", axis |-> axes[i], value |-> accumulated[axes[i]]]])
  /\ accumulated' = <<>>
  /\ UNCHANGED <<hardware, pc, fetching, d_modifiers, cur, batch, pending, bindings,
                 toInput, toCore>>

-----------------------------------------------------------------------------
InputThread ==
  \/ StartFetch \/ FetchDone \/ DeviceError \/ Poll
  \/ \E d \in Device :
       OpenDevice(d) \/ Check(d) \/ Recheck(d) \/ ReadModifiers(d) \/ FetchEvents(d)
  \/ KeyFromKbd \/ KbdSyn \/ KeyFromMouse \/ MouseRel \/ MouseSyn
  \/ ReceiveFromCore \/ DrainAccumulated

InputNext == InputThread \/ Typing \/ Hotplug \/ TimerExpires

(***************************************************************************)
(* The thread on its own, in any surroundings: a core that sends whatever  *)
(* `MsgsFromCore` holds, and readers that take what the thread sends.      *)
(***************************************************************************)
FromCore ==
  /\ HasRoom(toInput)
  /\ \E msg \in MsgsFromCore : toInput' = Append(toInput, msg)
  /\ UNCHANGED <<inputVars, toCore, toUInput>>

TakenByCore ==
  /\ toCore # <<>> /\ toCore' = Tail(toCore)
  /\ UNCHANGED <<inputVars, toInput, toUInput>>

TakenByUInput ==
  /\ toUInput # <<>> /\ toUInput' = Tail(toUInput)
  /\ UNCHANGED <<inputVars, toInput, toCore>>

OpenVars == <<inputVars, channels>>
OpenInit == InputInit /\ toInput = <<>> /\ toCore = <<>> /\ toUInput = <<>>
OpenNext == InputNext \/ FromCore \/ TakenByCore \/ TakenByUInput
OpenSpec == OpenInit /\ [][OpenNext]_OpenVars

(* The threads and the timer run; the user, the plugs and the core need not. *)
OpenFairness ==
  /\ WF_OpenVars(InputThread) /\ WF_OpenVars(TimerExpires)
  /\ WF_OpenVars(TakenByCore) /\ WF_OpenVars(TakenByUInput)
OpenFairSpec == OpenSpec /\ OpenFairness

-----------------------------------------------------------------------------
(* What must hold.                                                         *)

InputTypeOK ==
  /\ ChannelsTypeOK
  /\ present \subseteq Device /\ devs \subseteq Device /\ gone \subseteq devs \cup opening
  /\ phys \in [Device -> SUBSET Key]
  /\ evq \in [Device -> Seq(Event)]
  /\ timer \in {"off", "armed", "expired"}
  /\ pc \in {"loop", "fetch", "dead"}
  /\ update_devices \in BOOLEAN /\ first_fetch \in BOOLEAN
  /\ todo \subseteq Device
  /\ opening \in {{}} \cup {{d} : d \in Device} /\ at \in {"check", "recheck", "read"}
  /\ d_modifiers \in [Device -> Modifiers]
  /\ ready \subseteq Source /\ cur \in Device /\ batch \in Seq(Event)
  /\ key_actions \in Seq(KeyAction) /\ mouse_actions \in Seq(MouseAction)
  /\ DOMAIN accumulated \subseteq Axis
  /\ \A ax \in DOMAIN accumulated : accumulated[ax] \in Int
  /\ bindings \subseteq Keybind
  /\ owed \in [Axis -> Int]

(* Once every event of a device has been handled, the modifiers its next key  *)
(* will be matched under are those the user holds down on it: over presses,   *)
(* releases and repeats, bound or not, and across every refetch.              *)
Handled(d) == evq[d] = <<>> /\ ~(cur = d /\ batch # <<>>)

ModifiersArePhysical ==
  pc # "dead" =>
    \A d \in devs \ gone :
      Handled(d) => d_modifiers[d] = modifiers_from_key_codes(phys[d])

(* No relative motion is lost, invented or sent twice between the buffer of   *)
(* the mouse and the uinput channel, throttled or not: what is owed is what   *)
(* still sits in a buffer, in the batch, before its SYN, or put aside.        *)
MotionConserved ==
  \A ax \in Axis :
    owed[ax] = Buffered(ax) + Motion(batch, "RELATIVE", ax) + Motion(mouse_actions, "Rel", ax)
                 + (IF ax \in DOMAIN accumulated THEN accumulated[ax] ELSE 0)

(* Motion put aside for the next mouse poll is never forgotten: the timer     *)
(* that will send it runs, or has run out and is about to be read.            *)
AccumulatedWillBeSent == accumulated # <<>> => timer # "off"

(* An open device is served: its buffer is emptied in the end, unless the     *)
(* thread has died or waits, at the first fetch, for the keys of the device   *)
(* it is opening to be released.                                              *)
WaitsForRelease == first_fetch /\ \E d \in opening : phys[d] # {}

GrabbedDeviceIsServed ==
  \A d \in Device :
    evq[d] # <<>> ~> (evq[d] = <<>> \/ pc = "dead" \/ WaitsForRelease)

(* "Empty the fd so that it stops being readable": when the timer's turn      *)
(* comes in a round the timer is readable, so that reading it cannot block.   *)
TimerIsReadable ==
  (DevicesHandled /\ "socket" \notin ready /\ "timer" \in ready) => timer = "expired"
=============================================================================
