----------------------------- MODULE MCHeldKeys -----------------------------
(***************************************************************************)
(* A small instance of HeldKeys: a key bound to a closure under a          *)
(* modifier, and the closure taps it.                                      *)
(***************************************************************************)
EXTENDS HeldKeys, TLC

CONSTANTS key, shift

ChordBindings == [code |-> key, state |-> "Pressed", modifiers |-> {shift}] :> "Closure"

(* A closure that taps its own key, with exactly no modifiers. *)
TapPlain ==
  {[type |-> "SendKeyTap", key |-> key, modifiers |-> [type |-> "Exact", modifiers |-> {}]]}
NoMsgs     == {}
MCPosition == {1}
=============================================================================
