------------------------------ MODULE Channels ------------------------------
(***************************************************************************)
(* The queues between the threads of the two processes, and the messages   *)
(* of libdae/src/message.rs that travel through them.                      *)
(*                                                                         *)
(*   toInput   core -> input thread       socket, MsgToInput               *)
(*   toCore    input thread -> core       same socket, other way, Keybind  *)
(*   toUInput  any -> uinput thread       crossbeam channel, MsgToUInput   *)
(*                                                                         *)
(* A socket is reliable and ordered; a send into a full one blocks         *)
(* (write_all on a blocking UnixStream).  The crossbeam channel is         *)
(* unbounded.                                                              *)
(***************************************************************************)
EXTENDS Keys, Integers

CONSTANTS
  Axis,      (* Relative and absolute axes.                                 *)
  Position,  (* Positions and offsets on an axis.                           *)
  Screen,    (* Screen layouts (ScreenSpace values).                        *)
  SockCap,   (* Messages one direction of a socket holds before it blocks.  *)
  MaxUInput  (* Bound: uinput messages waiting when users or closures add more. *)

ASSUME ChannelsAssumption ==
  SockCap \in Nat \ {0} /\ MaxUInput \in Nat /\ Position \subseteq Int

VARIABLES toInput, toCore, toUInput

channels == <<toInput, toCore, toUInput>>

(* What core tells the input thread. *)
ChangeBindings(binds) == [type |-> "ChangeBindings", bindings |-> binds]
MsgToInput ==
  [type : {"ChangeBindings"}, bindings : SUBSET Keybind]
    \cup [type : {"PointersChanged", "KeyboardChanged"}]

MouseAction ==
  [type : {"Key"}, key : Key, state : KeyState]
    \cup [type : {"Rel"}, axis : Axis, value : Int]
    \cup [type : {"Abs"}, axis : Axis, pos : Int]

AppliedModifiers == [type : {"Current"}] \cup [type : {"Exact"}, modifiers : Modifiers]

(* What anyone tells the uinput thread. *)
MsgToUInput ==
  [type : {"SendKeyActions"}, actions : Seq(KeyAction)]
    \cup [type : {"SendMouseActions"}, actions : Seq(MouseAction)]
    \cup [type : {"SendKeyTap", "SendMouseClick"}, key : Key, modifiers : AppliedModifiers]
    \cup [type : {"UpdateScreenSpace"}, screen : Screen]

ChannelsTypeOK ==
  /\ toInput \in Seq(MsgToInput)
  /\ toCore \in Seq(Keybind)
  /\ toUInput \in Seq(MsgToUInput)

HasRoom(socket) == Len(socket) < SockCap

UInputKeepsUp == Len(toUInput) <= MaxUInput
=============================================================================
