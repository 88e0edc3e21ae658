----------------------------- MODULE Compositor -----------------------------
(***************************************************************************)
(* The thread of the core that talks to the Wayland compositor             *)
(* (libdae/src/compositor_interface/): it answers calls of the closures    *)
(* for the screens and for the position of the cursor.  To learn the       *)
(* latter it lets an invisible layer over each output take the pointer,    *)
(* waits for the pointer to enter one, and lets it go again.               *)
(*                                                                         *)
(* The compositor and the user are the environment.  A position is the     *)
(* output the pointer is on.                                               *)
(***************************************************************************)
EXTENDS Naturals, Sequences, FiniteSets, SequencesExt

CONSTANTS
  Output,      (* Outputs (monitors).                                       *)
  Call,        (* Calls of req_abs_cursor_pos and req_screen_info.          *)
  NoLayer,     (* No layer has the pointer.                                 *)
  NoPoint,     (* No position.                                              *)
  MaxChanges,  (* Bound: changes of the outputs and of sizes of layers.     *)
  MaxBuffered  (* Bound: messages on their way when the user does something. *)

ASSUME CompositorAssumption ==
  /\ IsFiniteSet(Output) /\ Output # {}
  /\ NoPoint \notin Output /\ {MaxChanges, MaxBuffered} \subseteq Nat

(* The layer of an output; every change of the outputs replaces all layers. *)
Layer == [change : 0..MaxChanges, output : Output]

ASSUME NoLayerAssumption == NoLayer \notin Layer

LayersOf(change, outs) == [change : {change}, output : outs]

VARIABLES
  (* callers *)
  call,          (* The state of each call.                                 *)
  (* the client thread *)
  reqs,          (* Requests on its channel.                                *)
  client,        (* "running"; "panicked" in a reply; "failed" otherwise.   *)
  shell_layers,
  unconfigured,  (* Layers whose first_configure is true.                   *)
  layers_state,
  answer,
  (* the Wayland connection *)
  toComp, fromComp,
  (* the compositor and the user *)
  outputs, changes,
  surfaces,      (* Layers the compositor knows.                            *)
  mapped,        (* Those that have a buffer.                               *)
  active,        (* Whether the layers take the pointer.                    *)
  focus,         (* The layer the pointer is in.                            *)
  held,          (* Whether the user holds a button, which pins the focus.  *)
  at,            (* The output the pointer is on.                           *)
  (* history *)
  seen,          (* The positions of the pointer during a call that waits.  *)
  stale,         (* Whether a call returned a position not seen during it.  *)
  pinned,        (* Whether a button was held down in a layer.              *)
  hindered,      (* The calls that something kept from finding the pointer. *)
  unexplained    (* Whether a call that nothing hindered failed.            *)

layering   == <<shell_layers, unconfigured, layers_state>>
clientVars == <<reqs, client, layering, answer>>
screens    == <<outputs, changes, surfaces, mapped>>
pointing   == <<active, focus>>
failing    == <<hindered, unexplained>>
history    == <<seen, stale, pinned, failing>>
user       == <<held, at, history>>
compVars   == <<call, clientVars, toComp, fromComp, screens, pointing, user>>

CompInit ==
  /\ call = [c \in Call |-> "idle"]
  /\ reqs = <<>> /\ client = "running"
  /\ outputs \in SUBSET Output \ {{}} /\ changes = 0
  /\ shell_layers = LayersOf(0, outputs) /\ unconfigured = shell_layers
  /\ layers_state = "AwaitingConf" /\ answer = NoPoint
  /\ toComp = <<[type |-> "Layers", layers |-> shell_layers]>> /\ fromComp = <<>>
  /\ surfaces = {} /\ mapped = {}
  /\ active = FALSE /\ focus = NoLayer
  /\ held = FALSE /\ at \in outputs
  /\ seen = [c \in Call |-> {}] /\ stale = FALSE /\ pinned = FALSE
  /\ hindered = {} /\ unexplained = FALSE

-----------------------------------------------------------------------------
(* Calls.                                                                    *)

Waiting == {c \in Call : call[c] = "waiting"}

(* The compositor has a drawn layer on each of its outputs and takes no other *)
(* request for the pointer.                                                   *)
Unhindered ==
  /\ ~held /\ ~pinned /\ outputs = {l.output : l \in mapped}
  /\ \A i \in DOMAIN fromComp : fromComp[i].type # "outputs"
  /\ \A i \in DOMAIN toComp : toComp[i].type \notin {"Layers", "capture"}
  /\ \A i \in DOMAIN reqs : reqs[i].type # "AbsCursorPos"
  /\ Waiting = {}

(* "should be able to send": the caller panics once the thread has ended. *)
Ask(c, type) ==
  /\ call[c] = "idle"
  /\ \/ /\ client = "running"
        /\ call' = [call EXCEPT ![c] = "waiting"]
        /\ reqs' = Append(reqs, [type |-> type, call |-> c])
        /\ seen' = [seen EXCEPT ![c] = {at}]
        /\ hindered' = IF Unhindered THEN hindered ELSE hindered \cup Waiting'
     \/ /\ client # "running"
        /\ call' = [call EXCEPT ![c] = "panicked"]
        /\ UNCHANGED <<reqs, seen, hindered>>
  /\ UNCHANGED <<client, layering, answer, toComp, fromComp, screens, pointing,
                 held, at, stale, pinned, unexplained>>

(* 200 ms have passed, or the thread has ended: the receiver is dropped. *)
TimeOut(c) ==
  /\ call[c] = "waiting"
  /\ call' = [call EXCEPT ![c] = "timedout"]
  /\ seen' = [seen EXCEPT ![c] = {}]
  /\ UNCHANGED <<clientVars, toComp, fromComp, screens, pointing, held, at, stale, pinned,
                 failing>>

-----------------------------------------------------------------------------
(* The client thread handles one request or one event at a time.  `capture`  *)
(* stands for set_shell_layer_activation(true), trigger_mouse and a sync,    *)
(* `release` for set_shell_layer_activation(false) and trigger_mouse.        *)

NextRequest(type) ==
  client = "running" /\ reqs # <<>> /\ Head(reqs).type = type /\ reqs' = Tail(reqs)

HandleAbsCursorPos ==
  /\ NextRequest("AbsCursorPos")
  /\ toComp' = Append(toComp, [type |-> "capture", call |-> Head(reqs).call])
  /\ UNCHANGED <<call, client, layering, answer, fromComp, screens, pointing, user>>

(* An answer that nobody waits for is an error that is printed. *)
HandleScreenInfo ==
  LET c == Head(reqs).call IN
  /\ NextRequest("ScreenInfo")
  /\ call' = [call EXCEPT ![c] = IF @ = "waiting" THEN "answered" ELSE @]
  /\ seen' = [seen EXCEPT ![c] = {}]
  /\ UNCHANGED <<client, layering, answer, toComp, fromComp, screens, pointing, held, at,
                 stale, pinned, failing>>

NextEvent(type) ==
  /\ client = "running" /\ fromComp # <<>> /\ Head(fromComp).type = type
  /\ fromComp' = Tail(fromComp)

(* Mistaken: the position is noted and the layers go on taking the pointer. *)
EnterKeepingLayers ==
  LET layer == Head(fromComp).layer IN
  /\ NextEvent("enter")
  /\ answer' = IF layer \in shell_layers THEN layer.output ELSE answer
  /\ UNCHANGED <<call, reqs, client, layering, toComp, screens, pointing, user>>

(* Mistaken: the calls that wait are answered at once. *)
EnterAnsweringAll ==
  LET layer == Head(fromComp).layer IN
  /\ NextEvent("enter")
  /\ answer' = layer.output
  /\ call' = [c \in Call |-> IF c \in Waiting THEN "answered" ELSE call[c]]
  /\ toComp' = Append(toComp, [type |-> "release"])
  /\ UNCHANGED <<reqs, client, layering, screens, pointing, user>>

(* The pointer entered a layer: events for layers of before are ignored. *)
HandleEnter ==
  LET layer == Head(fromComp).layer IN
  /\ NextEvent("enter")
  /\ IF layer \in shell_layers
     THEN /\ answer' = layer.output
          /\ toComp' = Append(toComp, [type |-> "release"])
     ELSE UNCHANGED <<answer, toComp>>
  /\ UNCHANGED <<call, reqs, client, layering, screens, pointing, user>>

(* `send(..).unwrap()`: the thread panics if the call no longer waits. *)
Reply(c, reply, points) ==
  IF call[c] = "waiting"
  THEN /\ call' = [call EXCEPT ![c] = reply]
       /\ seen' = [seen EXCEPT ![c] = {}]
       /\ stale' = (stale \/ ~points \subseteq seen[c])
       /\ unexplained' = (unexplained \/ (reply = "failed" /\ c \notin hindered))
       /\ UNCHANGED client
  ELSE client' = "panicked" /\ UNCHANGED <<call, seen, stale, unexplained>>

(* Mistaken: without an answer, the layers let go but the call is not told. *)
SyncWithoutReply ==
  LET c == Head(fromComp).call IN
  /\ NextEvent("done")
  /\ IF answer # NoPoint
     THEN Reply(c, "answered", {answer}) /\ UNCHANGED toComp
     ELSE /\ toComp' = Append(toComp, [type |-> "release"])
          /\ UNCHANGED <<call, client, seen, stale, unexplained>>
  /\ answer' = NoPoint
  /\ UNCHANGED <<reqs, layering, screens, pointing, held, at, pinned, hindered>>

HandleSyncAbsMousePos ==
  LET c == Head(fromComp).call IN
  /\ NextEvent("done")
  /\ IF answer # NoPoint
     THEN Reply(c, "answered", {answer}) /\ UNCHANGED toComp
     ELSE Reply(c, "failed", {}) /\ toComp' = Append(toComp, [type |-> "release"])
  /\ answer' = NoPoint
  /\ UNCHANGED <<reqs, layering, screens, pointing, held, at, pinned, hindered>>

HandleLayersConfigured ==
  /\ NextEvent("layersDone")
  /\ layers_state' = "Ready"
  /\ UNCHANGED <<call, reqs, client, shell_layers, unconfigured, answer, toComp, screens,
                 pointing, user>>

(* The first configure of a layer draws it; that of the last layer asks to   *)
(* be told when the compositor is done with them.  Later ones draw it again  *)
(* if they change its size.                                                  *)
HandleConfigure ==
  LET layer == Head(fromComp).layer
      draw  == [type |-> "draw", layer |-> layer]
      sync  == [type |-> "syncLayers"]
  IN
  /\ NextEvent("configure")
  /\ IF layer \in unconfigured
     THEN /\ unconfigured' = unconfigured \ {layer}
          /\ IF unconfigured' = {}
             THEN layers_state' = "AwaitingSync" /\ toComp' = toComp \o <<draw, sync>>
             ELSE toComp' = Append(toComp, draw) /\ UNCHANGED layers_state
     ELSE /\ toComp' = IF layer \in shell_layers /\ Head(fromComp).resized
                       THEN Append(toComp, draw) ELSE toComp
          /\ UNCHANGED <<unconfigured, layers_state>>
  /\ UNCHANGED <<call, reqs, client, shell_layers, answer, screens, pointing, user>>

(* Mistaken: the layers of before still count as awaited. *)
OutputsKeepingAwaited ==
  LET event == Head(fromComp) IN
  /\ NextEvent("outputs")
  /\ shell_layers' = LayersOf(event.change, event.outputs)
  /\ unconfigured' = unconfigured \cup shell_layers' /\ layers_state' = "AwaitingConf"
  /\ toComp' = Append(toComp, [type |-> "Layers", layers |-> shell_layers'])
  /\ UNCHANGED <<call, reqs, client, answer, screens, pointing, user>>

(* sync_outputs: all layers are made anew.  An output whose position or size *)
(* is not known stops initialize_layers at the layers made till then.        *)
HandleOutputs ==
  LET event == Head(fromComp) IN
  /\ NextEvent("outputs")
  /\ \E known \in SUBSET event.outputs :
       /\ shell_layers' = LayersOf(event.change, known)
       /\ layers_state' = IF known = event.outputs THEN "AwaitingConf" ELSE "Empty"
  /\ unconfigured' = shell_layers'
  /\ toComp' = Append(toComp, [type |-> "Layers", layers |-> shell_layers'])
  /\ UNCHANGED <<call, reqs, client, answer, screens, pointing, user>>

(* What else ends the thread: an error of the connection, which `?` carries   *)
(* out of the loop, a buffer that cannot be made or attached, memory that is  *)
(* not given to a layer.                                                      *)
Fails ==
  /\ client = "running" /\ client' = "failed"
  /\ UNCHANGED <<call, reqs, layering, answer, toComp, fromComp, screens, pointing, user>>

FailsAt(type) == fromComp # <<>> /\ Head(fromComp).type = type /\ Fails

DispatchFails == Fails

DrawFails ==
  LET event == Head(fromComp) IN
  /\ FailsAt("configure")
  /\ event.layer \in unconfigured \/ (event.layer \in shell_layers /\ event.resized)

PoolFails == FailsAt("outputs") /\ Head(fromComp).outputs # {}

ClientThread ==
  \/ HandleAbsCursorPos \/ HandleScreenInfo
  \/ HandleEnter \/ HandleSyncAbsMousePos \/ HandleLayersConfigured
  \/ HandleConfigure \/ HandleOutputs
  \/ DispatchFails \/ DrawFails \/ PoolFails

-----------------------------------------------------------------------------
(* The compositor handles requests in order, and its events arrive in order. *)

Serving == client = "running"

(* The pointer goes where it now belongs, unless a button pins it. *)
Target(act, on, pos) ==
  IF act /\ \E l \in on : l.output = pos THEN CHOOSE l \in on : l.output = pos ELSE NoLayer

Refocus(act, on, pos, then) ==
  LET next == IF held' THEN focus ELSE Target(act, on, pos) IN
  /\ focus' = next
  /\ fromComp' = fromComp
       \o (IF next \notin {NoLayer, focus} THEN <<[type |-> "enter", layer |-> next]>> ELSE <<>>)
       \o then

NextFromClient(type) ==
  /\ Serving /\ toComp # <<>> /\ Head(toComp).type = type
  /\ toComp' = Tail(toComp)
  /\ UNCHANGED <<call, clientVars, outputs, changes, user>>

Configure(layer, resized) == [type |-> "configure", layer |-> layer, resized |-> resized]

LayersReplaced ==
  LET layers == Head(toComp).layers IN
  /\ NextFromClient("Layers")
  /\ surfaces' = {l \in layers : l.output \in outputs}
  /\ mapped' = {} /\ active' = FALSE /\ focus' = NoLayer
  /\ \E order \in SetToSeqs(surfaces') :
       fromComp' = fromComp \o [i \in DOMAIN order |-> Configure(order[i], FALSE)]

LayerDrawn ==
  /\ NextFromClient("draw")
  /\ mapped' = mapped \cup ({Head(toComp).layer} \cap surfaces)
  /\ UNCHANGED <<surfaces, active>>
  /\ (Refocus(active, mapped', at, <<>>) \/ UNCHANGED <<fromComp, focus>>)

LayersSynced ==
  /\ NextFromClient("syncLayers")
  /\ fromComp' = Append(fromComp, [type |-> "layersDone"])
  /\ UNCHANGED <<surfaces, mapped, pointing>>

(* Mistaken: the sync is asked for before the layers take the pointer. *)
PointerCapturedLate ==
  LET next == IF held THEN focus ELSE Target(TRUE, mapped, at)
      done == [type |-> "done", call |-> Head(toComp).call]
  IN
  /\ NextFromClient("capture")
  /\ active' = TRUE /\ focus' = next
  /\ fromComp' = Append(fromComp, done)
       \o (IF next \notin {NoLayer, focus} THEN <<[type |-> "enter", layer |-> next]>> ELSE <<>>)
  /\ UNCHANGED <<surfaces, mapped>>

PointerCaptured ==
  /\ NextFromClient("capture")
  /\ active' = TRUE
  /\ Refocus(TRUE, mapped, at, <<[type |-> "done", call |-> Head(toComp).call]>>)
  /\ UNCHANGED <<surfaces, mapped>>

PointerReleased ==
  /\ NextFromClient("release")
  /\ active' = FALSE
  /\ Refocus(FALSE, mapped, at, <<>>)
  /\ UNCHANGED <<surfaces, mapped>>

UserActs == Serving /\ Len(toComp) + Len(fromComp) <= MaxBuffered

Sightings == [c \in Call |-> IF call[c] = "waiting" THEN seen[c] \cup {at'} ELSE seen[c]]

PointerMoves ==
  /\ UserActs
  /\ UNCHANGED <<call, clientVars, toComp, screens, active, held, stale, pinned, failing>>
  /\ at' \in outputs \ {at}
  /\ seen' = Sightings
  /\ Refocus(active, mapped, at', <<>>)

(* A button pressed pins the focus; released, it may let the focus go on. *)
ButtonChanges ==
  /\ UserActs
  /\ UNCHANGED <<call, clientVars, toComp, screens, active, at, seen, stale, unexplained>>
  /\ held' = ~held
  /\ hindered' = IF held' THEN hindered \cup Waiting ELSE hindered
  /\ pinned' = (pinned \/ (held' /\ focus # NoLayer))
  /\ (Refocus(active, mapped, at, <<>>) \/ UNCHANGED <<fromComp, focus>>)

(* Outputs come and go; the layers of one that goes are gone with it. *)
OutputsChange ==
  /\ Serving /\ changes < MaxChanges
  /\ changes' = changes + 1
  /\ outputs' \in SUBSET Output \ {{}}
  /\ at' \in outputs' /\ (at \in outputs' => at' = at)
  /\ surfaces' = {l \in surfaces : l.output \in outputs'}
  /\ mapped' = mapped \cap surfaces'
  /\ focus' = IF focus \in surfaces' THEN focus ELSE NoLayer
  /\ fromComp' =
       Append(fromComp, [type |-> "outputs", change |-> changes', outputs |-> outputs'])
  /\ seen' = Sightings
  /\ hindered' = hindered \cup Waiting
  /\ UNCHANGED <<call, clientVars, toComp, active, held, stale, pinned, unexplained>>

LayerResized ==
  /\ Serving /\ changes < MaxChanges
  /\ changes' = changes + 1
  /\ \E layer \in mapped : fromComp' = Append(fromComp, Configure(layer, TRUE))
  /\ UNCHANGED <<call, clientVars, toComp, outputs, surfaces, mapped, pointing, user>>

Environment ==
  \/ LayersReplaced \/ LayerDrawn \/ LayersSynced \/ PointerCaptured \/ PointerReleased
  \/ PointerMoves \/ ButtonChanges \/ OutputsChange \/ LayerResized

CompNext ==
  \/ \E c \in Call : TimeOut(c) \/ \E type \in {"AbsCursorPos", "ScreenInfo"} : Ask(c, type)
  \/ ClientThread \/ Environment

CompSpec == CompInit /\ [][CompNext]_compVars

-----------------------------------------------------------------------------
(* What must hold.                                                         *)

CompTypeOK ==
  /\ call \in [Call -> {"idle", "waiting", "answered", "failed", "timedout", "panicked"}]
  /\ client \in {"running", "panicked", "failed"}
  /\ shell_layers \subseteq Layer /\ unconfigured \subseteq shell_layers
  /\ layers_state \in {"Empty", "AwaitingConf", "AwaitingSync", "Ready"}
  /\ answer \in Output \cup {NoPoint}
  /\ surfaces \subseteq Layer /\ mapped \subseteq surfaces
  /\ focus \in surfaces \cup {NoLayer}
  /\ at \in outputs /\ held \in BOOLEAN /\ hindered \subseteq Call

(* Nothing is left to handle, on either side. *)
Settled == client = "running" /\ reqs = <<>> /\ toComp = <<>> /\ fromComp = <<>>

(* No call is left waiting by a thread that has nothing more to do: whatever  *)
(* the pointer and the outputs do meanwhile, each request is answered, by its *)
(* own sync if by nothing else.                                               *)
NoCallForgotten == Settled => \A c \in Call : call[c] # "waiting"

(* The layers let the pointer go: once nothing is under way, none of them     *)
(* holds the pointer and takes its clicks, unless the user pressed a button   *)
(* in one ("the brief window the shell layer is up").                         *)
LayersLetGo == Settled /\ active /\ ~pinned => focus = NoLayer

(* A call fails for a reason: "Fails if the user is currently holding down the *)
(* cursor", or another call overlapped, or the outputs changed or had no drawn *)
(* layers, or a button pressed in a layer before keeps the pointer in it.      *)
(* Otherwise the pointer enters a layer before the sync of the call is done:   *)
(* whatever an earlier call left under way is over by then.                    *)
FailuresAreExplained == ~unexplained

(* Of all the replies that can be sent, only one to a call that has timed out  *)
(* panics the thread: calls that overlap, however their syncs and layers      *)
(* interleave, are each sent one reply.  (The connection, and memory that the *)
(* layers need, may fail too: `Fails`.)                                       *)
OnlyLateRepliesPanic == client = "panicked" => \E c \in Call : call[c] = "timedout"

(* "The absolute cursor position": the position a call returns is one that    *)
(* the cursor had after the call was made.                                    *)
AnswersAreFresh == ~stale
=============================================================================
