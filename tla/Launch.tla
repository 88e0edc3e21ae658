------------------------------- MODULE Launch -------------------------------
(***************************************************************************)
(* How the two processes come to life and how they end: App::launch        *)
(* (libdae/src/app.rs) and PrivHandler::launch_handler                     *)
(* (bindae/src/bin/priv_handler.rs).  The core starts the privileged       *)
(* process, tells it the context over its stdin, which is a socket, waits  *)
(* for an acknowledgement and sends it one end of each socket the two will *)
(* use.  What the threads do once they run is the matter of Daekey; here   *)
(* they run, or have ended in one of the ways the code lets them end, and  *)
(* pass the layout of the screens on, from which the range of the virtual  *)
(* absolute mouse is taken.                                                *)
(***************************************************************************)
EXTENDS Screens

CONSTANTS
  NbThreads,   (* Configs.max_threads: worker sockets.                      *)
  Layouts,     (* The lists of monitors the compositor may have.            *)
  MaxLayouts,  (* Bound: changes of the layout while the client runs.       *)
  MaxKeys      (* Bound: keybinds on their way to the event loop.           *)

ASSUME LaunchAssumption ==
  {NbThreads, MaxLayouts, MaxKeys} \subseteq Nat /\ Layouts \subseteq Seq(Monitor)

(* The sockets in the order they are shared. *)
NbSockets == NbThreads + 2
Role(i)   == IF i <= NbThreads THEN "Worker" ELSE IF i = NbThreads + 1 THEN "Input" ELSE "UInput"
Socket    == [role : {"Worker", "Input", "UInput"}, pair : 1..NbSockets]

VARIABLES
  (* the core *)
  main,       (* Where its main thread is; "gone": the process has ended.   *)
  loop,       (* The event loop: "off", "running" or, after a panic of its  *)
              (* thread alone, "unfinished" (a macro) or "unsent" (a toggle *)
              (* that the input thread is no longer there to be told of).   *)
  client,     (* The compositor client: "off", "setup", "running", "ended". *)
  layout,     (* The monitors it knows.                                     *)
  changes,    (* How often they have changed.                               *)
  updates,    (* Its channel to the main thread: layouts.                   *)
  monitors,   (* What it answered to the main thread at the start.          *)
  kept,       (* The ends of the sockets the core keeps.                    *)
  (* between the processes *)
  stdin,      (* The socket that is the stdin of the child.                 *)
  acked,
  toUInput,   (* The uinput socket, and the channel it is forwarded to.     *)
  keys,       (* How many keybinds the event loop has not read.             *)
  (* the privileged process *)
  priv,       (* Where its main thread is; "off" before it is started.      *)
  context,    (* The context it has read.                                   *)
  received,   (* The ends of the sockets it has received.                   *)
  mouse,      (* The range of the virtual absolute mouse.                   *)
  refused,    (* Whether the kernel refused an acceptable one.              *)
  input,      (* The input thread: "off", "running", "stopped", "panicked". *)
  listening   (* Whether the thread that listens for the core's end runs.   *)

screens  == <<layout, changes, updates>>
coreSide == <<main, loop, client, screens, monitors, kept>>
between  == <<stdin, acked, toUInput, keys>>
virtual  == <<mouse, refused>>
privSide == <<priv, context, received, virtual, input, listening>>
launchVars == <<coreSide, between, privSide>>

NoContext == [nb_threads |-> 0, range |-> RangeOf(<<>>)]

LaunchInit ==
  /\ main = "start" /\ loop = "off" /\ client = "off"
  /\ layout = <<>> /\ changes = 0 /\ updates = <<>>
  /\ monitors = <<>> /\ kept = <<>>
  /\ stdin = <<>> /\ acked = FALSE /\ toUInput = <<>> /\ keys = 0
  /\ priv = "off" /\ context = NoContext /\ received = <<>>
  /\ mouse = RangeOf(<<>>) /\ refused = FALSE
  /\ input = "off" /\ listening = FALSE

CoreGone == main = "gone"
PrivGone == priv = "gone"

(* The end of a process ends its threads and closes its sockets. *)
CoreEnds ==
  /\ main' = "gone" /\ loop' = "off" /\ client' = "ended"
  /\ UNCHANGED <<screens, monitors, kept, between, privSide>>

PrivEnds ==
  /\ priv' = "gone" /\ listening' = FALSE
  /\ UNCHANGED <<coreSide, between, context, received, virtual, input>>

(* The other end of the input socket is closed: the process has ended, or the *)
(* input thread, which owns it.                                               *)
InputSocketClosed == PrivGone \/ input \in {"stopped", "panicked"}

-----------------------------------------------------------------------------
(* The main thread of the core.                                              *)

(* sudo runs, and the child may then end for reasons of its own, a password   *)
(* that is not given or a group that is not granted.                          *)
StartPriv ==
  /\ main = "start"
  /\ main' = "screens" /\ client' = "setup"
  /\ priv' \in {"context", "gone"}
  /\ UNCHANGED <<loop, screens, monitors, kept, between, context, received, virtual, input,
                 listening>>

ScreenInfo ==
  /\ main = "screens" /\ client = "running"
  /\ monitors' = layout
  /\ main' = "context"
  /\ UNCHANGED <<loop, client, screens, kept, between, privSide>>

ContextOf(list) == [nb_threads |-> NbThreads, range |-> from_monitors(list).range]

(* Mistaken: the sockets follow the context at once. *)
SendContextOnly ==
  /\ main = "context" /\ ~PrivGone
  /\ stdin' = Append(stdin, ContextOf(monitors))
  /\ main' = "share"
  /\ UNCHANGED <<loop, client, screens, monitors, kept, acked, toUInput, keys, privSide>>

SendContext ==
  /\ main = "context" /\ ~PrivGone
  /\ stdin' = Append(stdin, ContextOf(monitors))
  /\ main' = "ack"
  /\ UNCHANGED <<loop, client, screens, monitors, kept, acked, toUInput, keys, privSide>>

ReadAck ==
  /\ main = "ack" /\ acked
  /\ main' = "share"
  /\ UNCHANGED <<loop, client, screens, monitors, kept, between, privSide>>

(* Mistaken: the loop over the worker sockets makes one too many. *)
send_socket_too_many ==
  LET i == Len(kept) + 1
      s == [role |-> Role(i), pair |-> i]
  IN
  /\ main = "share" /\ i <= NbSockets + 1 /\ ~PrivGone
  /\ kept' = Append(kept, s)
  /\ stdin' = Append(stdin, s)
  /\ UNCHANGED <<main, loop, client, screens, monitors, acked, toUInput, keys, privSide>>

send_socket ==
  LET i == Len(kept) + 1
      s == [role |-> Role(i), pair |-> i]
  IN
  /\ main = "share" /\ i <= NbSockets /\ ~PrivGone
  /\ kept' = Append(kept, s)
  /\ stdin' = Append(stdin, s)
  /\ UNCHANGED <<main, loop, client, screens, monitors, acked, toUInput, keys, privSide>>

(* The bindings are sent, the pool is built and the event loop is spawned. *)
StartLoop ==
  /\ main = "share" /\ Len(kept) = NbSockets /\ ~InputSocketClosed
  /\ main' = "updates" /\ loop' = "running"
  /\ UNCHANGED <<client, screens, monitors, kept, between, privSide>>

(* No screens within 200 ms, or a child that has ended when it is needed. *)
LaunchFails ==
  /\ \/ main = "screens"
     \/ main \in {"context", "ack", "share"} /\ PrivGone
     \/ main = "share" /\ Len(kept) = NbSockets /\ InputSocketClosed
  /\ CoreEnds

(* sudo cannot be run; no descriptors are left for the sockets. *)
LaunchCallFails == main \in {"start", "share"} /\ CoreEnds

ForwardLayout ==
  /\ main = "updates" /\ updates # <<>> /\ ~PrivGone
  /\ toUInput' = Append(toUInput, from_monitors(Head(updates)).range)
  /\ updates' = Tail(updates)
  /\ UNCHANGED <<main, loop, client, layout, changes, monitors, kept, stdin, acked, keys,
                 privSide>>

(* "should be able to send message to the child process": updates of the      *)
(* devices go to the input thread.                                            *)
UpdateFails ==
  /\ main = "updates"
  /\ (updates # <<>> /\ PrivGone) \/ (client = "running" /\ InputSocketClosed)
  /\ CoreEnds

(* The client thread has ended, and its end of the channel with it. *)
UpdatesEnd ==
  /\ main = "updates" /\ client = "ended" /\ updates = <<>>
  /\ main' = "wait"
  /\ UNCHANGED <<loop, client, screens, monitors, kept, between, privSide>>

ChildWaited == main = "wait" /\ PrivGone /\ CoreEnds

MainThread ==
  \/ StartPriv \/ ScreenInfo \/ SendContext \/ ReadAck \/ send_socket \/ StartLoop
  \/ LaunchFails \/ ForwardLayout \/ UpdatesEnd \/ ChildWaited

-----------------------------------------------------------------------------
(* The other threads of the core.                                            *)

(* The first round trip of the client reports the outputs it finds. *)
ClientStarts ==
  /\ client = "setup" /\ client' = "running"
  /\ layout' \in Layouts
  /\ updates' = IF layout' = <<>> THEN <<>> ELSE <<layout'>>
  /\ UNCHANGED <<main, loop, changes, monitors, kept, between, privSide>>

(* Mistaken: the core is not told when screens are lost. *)
LayoutShrinksSilently ==
  /\ client = "running" /\ changes < MaxLayouts
  /\ layout' \in Layouts /\ changes' = changes + 1
  /\ updates' = IF Len(layout') < Len(layout) THEN updates ELSE Append(updates, layout')
  /\ UNCHANGED <<main, loop, client, monitors, kept, between, privSide>>

sync_outputs ==
  /\ client = "running" /\ changes < MaxLayouts
  /\ layout' \in Layouts /\ changes' = changes + 1
  /\ updates' = Append(updates, layout')
  /\ UNCHANGED <<main, loop, client, monitors, kept, between, privSide>>

(* An error of the connection, in the set-up or later. *)
ClientEnds ==
  /\ client \in {"setup", "running"} /\ client' = "ended"
  /\ UNCHANGED <<main, loop, screens, monitors, kept, between, privSide>>

(* A bound key is pressed. *)
KeyArrives ==
  /\ input = "running" /\ ~PrivGone /\ loop = "running" /\ keys < MaxKeys
  /\ keys' = keys + 1
  /\ UNCHANGED <<coreSide, stdin, acked, toUInput, privSide>>

(* What has arrived is handled before the end of the socket is seen.          *)
NextKey == loop = "running" /\ keys > 0

(* A closure, which is spawned or skipped, or a toggle that is sent. *)
KeyHandled ==
  /\ NextKey /\ keys' = keys - 1
  /\ UNCHANGED <<coreSide, stdin, acked, toUInput, privSide>>

KeyExits == NextKey /\ CoreEnds

LoopPanics(why) ==
  /\ NextKey /\ keys' = keys - 1
  /\ loop' = why
  /\ UNCHANGED <<main, client, screens, monitors, kept, stdin, acked, toUInput, privSide>>

(* A key of a macro, which is not implemented. *)
KeyPanics == LoopPanics("unfinished")

(* A toggle that came before the input side closed, or that waits for room in *)
(* the socket then: its `send` fails, and the `expect` on it panics.          *)
TogglePanics == InputSocketClosed /\ LoopPanics("unsent")

(* Mistaken: the event loop sees the end of the process alone. *)
LoopSeesProcessEnd == loop = "running" /\ keys = 0 /\ PrivGone /\ CoreEnds

(* "child process died, aborting": the socket gives no more. *)
LoopReadsEnd == loop = "running" /\ keys = 0 /\ InputSocketClosed /\ CoreEnds

EventLoop == KeyHandled \/ KeyExits \/ KeyPanics \/ TogglePanics \/ LoopReadsEnd

(* A closure panics, which aborts the process. *)
ClosurePanics == loop # "off" /\ CoreEnds

-----------------------------------------------------------------------------
(* The main thread of the privileged process.                                *)

(* Mistaken: the context is not acknowledged. *)
ReadContextUnacked ==
  /\ priv = "context" /\ stdin # <<>> /\ ~CoreGone
  /\ context' = Head(stdin)
  /\ stdin' = IF Len(stdin) > 1 THEN Tail(Tail(stdin)) ELSE <<>>
  /\ priv' = "sockets"
  /\ UNCHANGED <<coreSide, acked, toUInput, keys, received, virtual, input, listening>>

(* stdin is buffered.  What has arrived with the context is read with it, up  *)
(* to the first message that carries a descriptor, which is lost.             *)
ReadContext ==
  /\ priv = "context" /\ stdin # <<>> /\ ~CoreGone
  /\ context' = Head(stdin)
  /\ stdin' = IF Len(stdin) > 1 THEN Tail(Tail(stdin)) ELSE <<>>
  /\ acked' = TRUE
  /\ priv' = "sockets"
  /\ UNCHANGED <<coreSide, toUInput, keys, received, virtual, input, listening>>

AllReceived == Len(received) = context.nb_threads + 2

get_socket ==
  /\ priv = "sockets" /\ ~AllReceived /\ stdin # <<>>
  /\ received' = Append(received, Head(stdin))
  /\ stdin' = Tail(stdin)
  /\ UNCHANGED <<coreSide, acked, toUInput, keys, priv, context, virtual, input, listening>>

(* "input_socket should be initialized", "uinput_socket should be initialized". *)
SocketsSorted == {"Input", "UInput"} \subseteq {s.role : s \in ToSet(received)}

launch_uinput_listener ==
  /\ priv = "sockets" /\ AllReceived /\ SocketsSorted /\ Accepted(context.range)
  /\ mouse' = context.range
  /\ priv' = "uinput"
  /\ UNCHANGED <<coreSide, between, context, received, refused, input, listening>>

launch_input_listener ==
  /\ priv = "uinput"
  /\ priv' = "input" /\ input' = "running"
  /\ UNCHANGED <<coreSide, between, context, received, virtual, listening>>

(* The workers and the thread that listens for the end of the core. *)
launch_workers ==
  /\ priv = "input"
  /\ priv' = "join" /\ listening' = TRUE
  /\ UNCHANGED <<coreSide, between, context, received, virtual, input>>

(* The core has ended, or the range is one that the kernel does not take. *)
HandlerFails ==
  /\ \/ priv = "context" /\ CoreGone
     \/ priv = "sockets" /\ ~AllReceived /\ stdin = <<>> /\ CoreGone
     \/ priv = "sockets" /\ AllReceived /\ ~(SocketsSorted /\ Accepted(context.range))
  /\ PrivEnds

(* No descriptors are left for a socket; a virtual device is refused. *)
HandlerCallFails ==
  /\ priv = "sockets" /\ (AllReceived \/ stdin # <<>>)
  /\ PrivEnds

(* The input thread panicked: `expect` on its join. *)
JoinFails == priv = "join" /\ input = "panicked" /\ PrivEnds

(* It ended without an error: the uinput threads, which never end, are next. *)
JoinUInput ==
  /\ priv = "join" /\ input = "stopped"
  /\ priv' = "joinUInput"
  /\ UNCHANGED <<coreSide, between, context, received, virtual, input, listening>>

HandlerThread ==
  \/ ReadContext \/ get_socket \/ launch_uinput_listener \/ launch_input_listener
  \/ launch_workers \/ HandlerFails \/ JoinFails \/ JoinUInput

-----------------------------------------------------------------------------
(* Its other threads.                                                        *)

UInputRuns == priv \in {"uinput", "input", "join", "joinUInput"}

(* A mouse that cannot be made leaves the one of before. *)
UpdateScreenSpace ==
  /\ UInputRuns /\ toUInput # <<>>
  /\ toUInput' = Tail(toUInput)
  /\ \/ Accepted(Head(toUInput)) /\ mouse' = Head(toUInput) /\ UNCHANGED refused
     \/ UNCHANGED mouse /\ refused' = (refused \/ Accepted(Head(toUInput)))
  /\ UNCHANGED <<coreSide, stdin, acked, keys, priv, context, received, input, listening>>

(* poll fails: the loop is left without an error. *)
PollFails ==
  /\ ~PrivGone /\ input = "running" /\ input' = "stopped"
  /\ UNCHANGED <<coreSide, between, priv, context, received, virtual, listening>>

(* An error of a device, a socket or a channel whose other end is closed. *)
InputPanics ==
  /\ ~PrivGone /\ input = "running" /\ input' = "panicked"
  /\ UNCHANGED <<coreSide, between, priv, context, received, virtual, listening>>

(* "parent process died, killing current process". *)
Listener == listening /\ CoreGone /\ PrivEnds

LaunchNext ==
  \/ MainThread \/ LaunchCallFails \/ UpdateFails
  \/ ClientStarts \/ sync_outputs \/ ClientEnds
  \/ KeyArrives \/ EventLoop \/ ClosurePanics
  \/ HandlerThread \/ HandlerCallFails \/ UpdateScreenSpace
  \/ PollFails \/ InputPanics \/ Listener

LaunchSpec == LaunchInit /\ [][LaunchNext]_launchVars

(* Threads run.  The client need not start, nothing has to fail of itself,    *)
(* and the user need not press a key.  The event loop may wait for room in    *)
(* the socket to the input thread, but not once that is closed.               *)
LaunchFairness ==
  /\ WF_launchVars(MainThread) /\ WF_launchVars(InputSocketClosed /\ EventLoop)
  /\ WF_launchVars(HandlerThread) /\ WF_launchVars(Listener)

LaunchFairSpec == LaunchSpec /\ LaunchFairness

-----------------------------------------------------------------------------
(* What must hold.                                                         *)

(* Every variable has its type, and the sockets their roles. *)
LaunchTypeOK ==
  /\ main \in {"start", "screens", "context", "ack", "share", "updates", "wait", "gone"}
  /\ loop \in {"off", "running", "unfinished", "unsent"}
  /\ client \in {"off", "setup", "running", "ended"}
  /\ kept \in Seq(Socket) /\ received \in Seq(Socket)
  /\ priv \in {"off", "context", "sockets", "uinput", "input", "join", "joinUInput", "gone"}
  /\ input \in {"off", "running", "stopped", "panicked"}
  /\ {acked, listening, refused} \subseteq BOOLEAN
  /\ keys \in 0..MaxKeys

(* Both processes hold the ends of the same sockets, for the same purposes and *)
(* in the same order: no descriptor is lost with bytes that a buffered read    *)
(* took ("the ancillary data from socket creation will get tacked on"), and    *)
(* none is taken for another.                                                  *)
SocketsAreShared ==
  /\ Len(received) <= Len(kept) /\ \A i \in DOMAIN received : received[i] = kept[i]
  /\ UInputRuns => Len(received) = NbSockets

(* Once no layout is under way the virtual mouse points at each pixel of the   *)
(* screens the client knows, and has no more to scale than that and the way to *)
(* the origin: layouts reported before the client answered the main thread are *)
(* applied after that answer, and do not have the last word.  Without a screen *)
(* there is nothing to point at.                                               *)
MouseFollowsScreens ==
  UInputRuns /\ updates = <<>> /\ toUInput = <<>>
    => refused \/ layout = <<>> \/ Spans(mouse, layout)

Launched == loop # "off" /\ input # "off" /\ listening
AllGone  == CoreGone /\ priv \in {"off", "gone"}

(* Starting ends in service or with neither process left: no error on the way, *)
(* in either process, leaves the other waiting for it.                         *)
LaunchEnds == <>(Launched \/ AllGone)

(* They stand and fall together: when one process ends, or the input thread    *)
(* does, with or without an error, both processes end.  Two keys make an       *)
(* exception, as without the event loop nobody reads the end: that of a macro, *)
(* which is unfinished, and a toggle that the loop handles when the input side *)
(* has closed ("postcard should be able to serialize").                        *)
AllEndTogether ==
  (CoreGone \/ InputSocketClosed) ~> (AllGone \/ loop \in {"unfinished", "unsent"})
=============================================================================
