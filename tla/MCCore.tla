------------------------------- MODULE MCCore -------------------------------
(***************************************************************************)
(* A small instance of Core: a binding of every action, one keybind that   *)
(* is not bound, and two Api instances.                                    *)
(***************************************************************************)
EXTENDS Core, TLC

CONSTANTS run, pause, start, stop, exit, stray

On(k) == [code |-> k, state |-> "Pressed", modifiers |-> {}]

MCBindings ==
  On(run) :> "Closure" @@ On(pause) :> "TogglePauseClosures"
    @@ On(start) :> "MacroRecordingStart" @@ On(stop) :> "MacroRecordingStop"
    @@ On(exit) :> "Exit"

MCKeybindMsgs == {On(k) : k \in Key}

MCClosureMsgs == {[type |-> "SendKeyTap", key |-> run, modifiers |-> [type |-> "Current"]]}
NoPosition    == {}
=============================================================================
