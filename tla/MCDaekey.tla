------------------------------ MODULE MCDaekey ------------------------------
(***************************************************************************)
(* A small instance of Daekey: one key that pauses the closures when it is *)
(* pressed and runs one each time it repeats.                              *)
(***************************************************************************)
EXTENDS Daekey, TLC

CONSTANT key

When(state) == [code |-> key, state |-> state, modifiers |-> {}]

PauseBindings == When("Pressed") :> "TogglePauseClosures" @@ When("Repeated") :> "Closure"

NoMsgs     == {}
MCPosition == {1}
=============================================================================
