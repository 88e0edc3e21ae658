--------------------------- MODULE MCInputManager ---------------------------
(***************************************************************************)
(* Small instances of InputManager.  Two keys, one of them a modifier; the *)
(* bound chord is the plain key pressed under the modifier.                *)
(***************************************************************************)
EXTENDS InputManager

CONSTANTS key, shift

Chord == [code |-> key, state |-> "Pressed", modifiers |-> {shift}]

Changed      == {[type |-> "KeyboardChanged"]}
BindOrChange == {ChangeBindings({Chord})} \cup Changed
NoMessages   == {}

MCPosition == {-1, 1}
OneMove    == {1}
=============================================================================
