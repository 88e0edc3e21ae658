-------------------------------- MODULE Core --------------------------------
(***************************************************************************)
(* The unprivileged process (libdae/src/app.rs, api.rs, configs.rs): the   *)
(* event loop that turns keybinds into actions, the pool of Api instances  *)
(* that closures run with, and the main thread that passes the updates of  *)
(* the compositor on.  With them go the threads of the privileged process  *)
(* that only forward: one per worker socket and one for the uinput socket. *)
(***************************************************************************)
EXTENDS Channels, FiniteSets, SequencesExt

CONSTANTS
  Api,          (* The Api instances, one per worker socket: max_threads.   *)
  Bindings,     (* Configs.bindings: the Action of each bound Keybind.      *)
  ClosureMsgs,  (* What closures send through their Api.                    *)
  CompUpdates,  (* What the compositor reports.                             *)
  KeybindMsgs   (* Keybinds that arrive, when the core runs on its own.     *)

Action == {"Closure", "TogglePauseClosures", "MacroRecordingStart",
           "MacroRecordingStop", "Exit"}
CompUpdate == {"PointersChanged", "KeyboardsChanged"} \cup Screen

ASSUME CoreAssumption ==
  /\ IsFiniteSet(Api)
  /\ DOMAIN Bindings \subseteq Keybind
  /\ Bindings \in [DOMAIN Bindings -> Action]
  /\ ClosureMsgs \subseteq MsgToUInput
  /\ CompUpdates \subseteq CompUpdate
  /\ KeybindMsgs \subseteq Keybind

VARIABLES
  core,             (* The event loop: "running", "stopped" (its thread has *)
                    (* ended), or "exited" (the whole process has).         *)
  closures_unbound, (* Whether the closures are paused.                     *)
  api_instances,    (* The pile of free Api instances, its top at the end.  *)
  running,          (* Apis held by closures that were spawned.             *)
  toWorker,         (* Messages on the socket of each Api.                  *)
  toUpdate          (* Messages on the uinput socket.                       *)

eventLoop == <<core, closures_unbound>>
pool      == <<api_instances, running>>
forwards  == <<toWorker, toUpdate>>
coreVars  == <<eventLoop, pool, forwards>>

-----------------------------------------------------------------------------
(* The keybinds the input thread is told of: all of them, or, while closures *)
(* are paused, those of the other actions.                                   *)
ControlBindings == {b \in DOMAIN Bindings : Bindings[b] # "Closure"}

(* Mistaken: pausing unbinds every key. *)
BindingsForNone(unbound) == IF unbound THEN {} ELSE DOMAIN Bindings

(* Mistaken: pausing unbinds no key. *)
BindingsForAll(unbound) == DOMAIN Bindings

BindingsFor(unbound) == IF unbound THEN ControlBindings ELSE DOMAIN Bindings

(* The event loop starts once the bindings have been sent. *)
CoreInit ==
  /\ core = "running"
  /\ closures_unbound = FALSE
  /\ api_instances = SetToSeq(Api)
  /\ running = {}
  /\ toWorker = [api \in Api |-> <<>>]
  /\ toUpdate = <<>>

ChannelsInit ==
  toInput = <<ChangeBindings(DOMAIN Bindings)>> /\ toCore = <<>> /\ toUInput = <<>>

-----------------------------------------------------------------------------
(* The event loop.                                                           *)

Receive == core = "running" /\ toCore # <<>> /\ toCore' = Tail(toCore)

Triggered(actions) ==
  Receive /\ Head(toCore) \in DOMAIN Bindings /\ Bindings[Head(toCore)] \in actions

(* "key received from input is not bound": the loop ends. *)
KeyNotBound ==
  /\ Receive /\ Head(toCore) \notin DOMAIN Bindings
  /\ core' = "stopped"
  /\ UNCHANGED <<closures_unbound, pool, forwards, toInput, toUInput>>

RunClosure ==
  /\ Triggered({"Closure"}) /\ api_instances # <<>>
  /\ api_instances' = Front(api_instances)
  /\ running' = running \cup {Last(api_instances)}
  /\ UNCHANGED <<eventLoop, forwards, toInput, toUInput>>

SkipClosure ==
  /\ Triggered({"Closure"}) /\ api_instances = <<>>
  /\ UNCHANGED <<coreVars, toInput, toUInput>>

(* Mistaken: the bindings sent are those of the state before the toggle. *)
ToggleSendingOld ==
  /\ Triggered({"TogglePauseClosures"}) /\ HasRoom(toInput)
  /\ closures_unbound' = ~closures_unbound
  /\ toInput' = Append(toInput, ChangeBindings(BindingsFor(closures_unbound)))
  /\ UNCHANGED <<core, pool, forwards, toUInput>>

(* Mistaken: what a full socket does not take is given up. *)
ToggleWithoutWaiting ==
  /\ Triggered({"TogglePauseClosures"})
  /\ closures_unbound' = ~closures_unbound
  /\ toInput' = IF HasRoom(toInput)
                THEN Append(toInput, ChangeBindings(BindingsFor(~closures_unbound)))
                ELSE toInput
  /\ UNCHANGED <<core, pool, forwards, toUInput>>

TogglePauseClosures ==
  /\ Triggered({"TogglePauseClosures"}) /\ HasRoom(toInput)
  /\ closures_unbound' = ~closures_unbound
  /\ toInput' = Append(toInput, ChangeBindings(BindingsFor(~closures_unbound)))
  /\ UNCHANGED <<core, pool, forwards, toUInput>>

(* The input side is gone: the send's expect ends the thread of the loop, with *)
(* the pause it was about to tell of. *)
ToggleFails ==
  /\ Triggered({"TogglePauseClosures"})
  /\ core' = "stopped"
  /\ UNCHANGED <<closures_unbound, pool, forwards, toInput, toUInput>>

(* `todo!()` panics, which ends the thread of the loop. *)
MacroRecording ==
  /\ Triggered({"MacroRecordingStart", "MacroRecordingStop"})
  /\ core' = "stopped"
  /\ UNCHANGED <<closures_unbound, pool, forwards, toInput, toUInput>>

Exit ==
  /\ Triggered({"Exit"})
  /\ core' = "exited"
  /\ UNCHANGED <<closures_unbound, pool, forwards, toInput, toUInput>>

KeyHandled == KeyNotBound \/ RunClosure \/ SkipClosure \/ MacroRecording \/ Exit

EventLoop == KeyHandled \/ TogglePauseClosures

-----------------------------------------------------------------------------
(* Closures.  A spawned closure runs at once: the pool has a thread for each *)
(* Api.  Closures outlive the event loop, but not the process.               *)

ClosureSends(api) ==
  /\ core # "exited" /\ api \in running
  /\ HasRoom(toWorker[api]) /\ UInputKeepsUp
  /\ \E msg \in ClosureMsgs : toWorker' = [toWorker EXCEPT ![api] = Append(@, msg)]
  /\ UNCHANGED <<eventLoop, pool, toUpdate, channels>>

(* Mistaken: a closure that ends keeps its Api. *)
ClosureEndsKeeping(api) ==
  /\ core # "exited" /\ api \in running
  /\ running' = running \ {api}
  /\ UNCHANGED <<eventLoop, api_instances, forwards, channels>>

(* Dropping the ApiHolder puts the Api back on the pile. *)
ClosureEnds(api) ==
  /\ core # "exited" /\ api \in running
  /\ running' = running \ {api}
  /\ api_instances' = Append(api_instances, api)
  /\ UNCHANGED <<eventLoop, forwards, channels>>

(* The pool has no panic handler: a closure that panics, on a call that fails *)
(* or on its own account, aborts the process. *)
ClosurePanics(api) ==
  /\ core # "exited" /\ api \in running
  /\ core' = "exited"
  /\ UNCHANGED <<closures_unbound, pool, forwards, channels>>

(* Mistaken: every update goes to the uinput socket. *)
ForwardToUInput(update) ==
  /\ core # "exited"
  /\ HasRoom(toUpdate) /\ UInputKeepsUp
  /\ toUpdate' = Append(toUpdate,
       IF update \in Screen THEN [type |-> "UpdateScreenSpace", screen |-> update]
                            ELSE [type |-> "KeyboardChanged"])
  /\ UNCHANGED <<eventLoop, pool, toWorker, channels>>

(* The main thread, for an update of the compositor. *)
ForwardUpdate(update) ==
  /\ core # "exited"
  /\ IF update \in Screen
     THEN /\ HasRoom(toUpdate) /\ UInputKeepsUp
          /\ toUpdate' = Append(toUpdate, [type |-> "UpdateScreenSpace", screen |-> update])
          /\ UNCHANGED toInput
     ELSE /\ HasRoom(toInput)
          /\ toInput' = Append(toInput,
               [type |-> IF update = "PointersChanged" THEN update ELSE "KeyboardChanged"])
          /\ UNCHANGED toUpdate
  /\ UNCHANGED <<eventLoop, pool, toWorker, toCore, toUInput>>

-----------------------------------------------------------------------------
(* The privileged side of the worker sockets and of the uinput socket.       *)

WorkerForwards(api) ==
  /\ toWorker[api] # <<>>
  /\ toUInput' = Append(toUInput, Head(toWorker[api]))
  /\ toWorker' = [toWorker EXCEPT ![api] = Tail(@)]
  /\ UNCHANGED <<eventLoop, pool, toUpdate, toInput, toCore>>

UpdateForwards ==
  /\ toUpdate # <<>>
  /\ toUInput' = Append(toUInput, Head(toUpdate))
  /\ toUpdate' = Tail(toUpdate)
  /\ UNCHANGED <<eventLoop, pool, toWorker, toInput, toCore>>

Forwarders == UpdateForwards \/ \E api \in Api : WorkerForwards(api)

(* What is left to the core when the privileged process has ended: the keys  *)
(* still buffered, and closures that end or whose calls fail.                *)
CoreAlone ==
  KeyHandled \/ ToggleFails \/ \E api \in Api : ClosureEnds(api) \/ ClosurePanics(api)

CoreProcess ==
  \/ EventLoop
  \/ \E api \in Api : ClosureSends(api) \/ ClosureEnds(api) \/ ClosurePanics(api)
  \/ \E update \in CompUpdates : ForwardUpdate(update)

(* The core on its own: keybinds arrive, bound or not, and what it sends is  *)
(* read.                                                                     *)
KeybindArrives ==
  /\ HasRoom(toCore)
  /\ \E b \in KeybindMsgs : toCore' = Append(toCore, b)
  /\ UNCHANGED <<coreVars, toInput, toUInput>>

SentIsRead ==
  /\ \/ toInput # <<>> /\ toInput' = Tail(toInput) /\ UNCHANGED toUInput
     \/ toUInput # <<>> /\ toUInput' = Tail(toUInput) /\ UNCHANGED toInput
  /\ UNCHANGED <<coreVars, toCore>>

CoreSpecVars == <<coreVars, channels>>
CoreSpecInit == CoreInit /\ ChannelsInit
CoreSpecNext == CoreProcess \/ Forwarders \/ KeybindArrives \/ SentIsRead
CoreSpec == CoreSpecInit /\ [][CoreSpecNext]_CoreSpecVars

-----------------------------------------------------------------------------
(* What must hold.                                                         *)

CoreTypeOK ==
  /\ core \in {"running", "stopped", "exited"}
  /\ closures_unbound \in BOOLEAN
  /\ api_instances \in Seq(Api)
  /\ running \subseteq Api
  /\ toWorker \in [Api -> Seq(MsgToUInput)]
  /\ toUpdate \in Seq(MsgToUInput)

(* An Api is on the pile once or in the hands of one closure: no sequence of  *)
(* spawns, skips and drops loses one, or hands one socket to two closures.    *)
ApisConserved ==
  /\ IsInjective(api_instances)
  /\ ToSet(api_instances) \cap running = {}
  /\ ToSet(api_instances) \cup running = Api
=============================================================================
