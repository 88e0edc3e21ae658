------------------------------- MODULE Daekey -------------------------------
(***************************************************************************)
(* The whole program: the input and uinput threads and the forwarders of   *)
(* the privileged process, composed with the core over their channels.     *)
(***************************************************************************)
EXTENDS InputManager, Core, UInput

vars == <<inputVars, coreVars, uinputVars, channels>>

Init == InputInit /\ CoreInit /\ UInputInit /\ ChannelsInit

-----------------------------------------------------------------------------
(* While the privileged process lives.                                       *)
Alive == pc # "dead"

InputStep   == Alive /\ InputThread /\ UNCHANGED <<coreVars, uinputVars>>
HardwareStep ==
  Alive /\ (Typing \/ Hotplug \/ TimerExpires) /\ UNCHANGED <<coreVars, uinputVars>>
UInputStep  == Alive /\ UInputThread /\ UNCHANGED <<inputVars, coreVars>>
ForwardStep == Alive /\ Forwarders /\ UNCHANGED <<inputVars, uinputVars>>
CoreStep    == Alive /\ CoreProcess /\ UNCHANGED <<inputVars, uinputVars>>

(* The end of the core closes the sockets: the thread that listens for it on *)
(* stdin ends the privileged process.                                        *)
PrivExits ==
  /\ Alive /\ core = "exited"
  /\ pc' = "dead"
  /\ UNCHANGED <<hardware, timer, fetching, d_modifiers, round, pending, accumulated,
                 bindings, owed, coreVars, uinputVars, channels>>

(* After the end of the privileged process the event loop goes through the   *)
(* keys that are buffered.                                                   *)
CoreDrains == ~Alive /\ CoreAlone /\ UNCHANGED <<inputVars, uinputVars>>

(* The end of the privileged process ends the core, once the event loop has   *)
(* read all and finds the socket closed, or the main thread cannot send an    *)
(* update.                                                                    *)
CoreExits ==
  /\ ~Alive
  /\ (core = "running" /\ toCore = <<>>) \/ (core # "exited" /\ CompUpdates # {})
  /\ core' = "exited"
  /\ UNCHANGED <<closures_unbound, pool, forwards, inputVars, uinputVars, channels>>

Next ==
  \/ InputStep \/ HardwareStep \/ UInputStep \/ ForwardStep \/ CoreStep
  \/ PrivExits \/ CoreDrains \/ CoreExits

Spec == Init /\ [][Next]_vars

(* Threads run and the timer fires.  The user, the plugs, the compositor and *)
(* the closures are owed nothing.                                            *)
Fairness ==
  /\ WF_vars(InputStep) /\ WF_vars(UInputStep) /\ WF_vars(ForwardStep)
  /\ WF_vars(Alive /\ TimerExpires /\ UNCHANGED <<coreVars, uinputVars>>)
  /\ WF_vars(Alive /\ EventLoop /\ UNCHANGED <<inputVars, uinputVars>>)
  /\ WF_vars(PrivExits) /\ WF_vars(CoreExits)

FairSpec == Spec /\ Fairness

-----------------------------------------------------------------------------
(* What must hold.                                                         *)

TypeOK == InputTypeOK /\ CoreTypeOK /\ UInputTypeOK

(* The event loop is never sent a keybind that is not bound, so that it never *)
(* takes the branch that ends it: however bindings change while keys are on   *)
(* their way, those in force are always some of the configured ones.          *)
OnlyBoundKeysSent == \A i \in DOMAIN toCore : toCore[i] \in DOMAIN Bindings

(* The bindings that will be in force when the input thread has read all that *)
(* is on its way to it are those of the pause state of the core: no toggle is *)
(* lost or undone by one that overtakes it, or by an update in between.       *)
IsChange(msg) == msg.type = "ChangeBindings"

BindingsUnderWay(b) ==
  \/ \E i \in DOMAIN toInput :
       /\ IsChange(toInput[i]) /\ b = toInput[i].bindings
       /\ \A j \in DOMAIN toInput : j > i => ~IsChange(toInput[j])
  \/ b = bindings /\ \A i \in DOMAIN toInput : ~IsChange(toInput[i])

PauseReachesInput == BindingsUnderWay(BindingsFor(closures_unbound))

(* Pauses and keybinds work as PauseSwitch says, whatever sockets, rounds,     *)
(* refetches and other messages come in between: every change of bindings      *)
(* reaches the input thread once and in order, keys are acted on in the order  *)
(* they were taken, no closure shares its Api.                                 *)
ChangesUnderWay == Cardinality({i \in DOMAIN toInput : IsChange(toInput[i])})

Switch ==
  INSTANCE PauseSwitch WITH
    paused <- closures_unbound, bound <- bindings, late <- ChangesUnderWay,
    taken <- toCore, busy <- running, serving <- (core = "running")

ImplementsPauseSwitch == Switch!Spec

(* Once the input thread has caught up with a pause and the keys it had taken  *)
(* before have been acted on, no closure starts until the user unpauses, and   *)
(* no key is kept from the compositor for one.                                 *)
Quiet ==
  /\ closures_unbound
  /\ \A i \in DOMAIN toInput : ~IsChange(toInput[i])
  /\ \A i \in DOMAIN toCore : toCore[i] \in ControlBindings

PausedStaysQuiet == [][Quiet => (Quiet' \/ ~closures_unbound') /\ running' \subseteq running]_vars

(* The keys that unpause and exit are never unbound again once the input      *)
(* thread has bindings, paused or not.                                        *)
ControlKeysStayBound == [][bindings # {} => ControlBindings \subseteq bindings']_vars

(* The event loop and the input thread each wait for room in the socket that  *)
(* the other one should be reading.                                           *)
InputBlocked ==
  /\ pc = "loop" /\ batch # <<>> /\ Head(batch).type = "KEY"
  /\ ~HasRoom(toCore)
  /\ LET state == StateOfValue(Head(batch).value)
         mods  == ModifiersAfter(d_modifiers[cur], Head(batch).code, state)
     IN  [code |-> Head(batch).code, state |-> state, modifiers |-> mods] \in bindings

CoreBlocked ==
  /\ core = "running" /\ toCore # <<>> /\ ~HasRoom(toInput)
  /\ Head(toCore) \in ControlBindings /\ Bindings[Head(toCore)] = "TogglePauseClosures"

MutuallyBlocked == InputBlocked /\ CoreBlocked

(* A pause takes effect: the closures' keys are given back to the compositor, *)
(* unless the user unpauses, a process ends, or the two processes block each  *)
(* other.                                                                     *)
PauseTakesEffect ==
  closures_unbound ~>
    (bindings = ControlBindings \/ ~closures_unbound \/ ~Alive \/ MutuallyBlocked)
=============================================================================
