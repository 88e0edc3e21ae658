---------------------------- MODULE PauseSwitch ----------------------------
(***************************************************************************)
(* What the two processes promise about keybinds and pauses, with neither  *)
(* sockets, devices nor rounds of poll in it.                              *)
(*                                                                         *)
(* Keys are taken from the user while they are bound, and acted on in the  *)
(* order they were taken.  A toggle changes what is bound, a little later  *)
(* but without fail: the bindings in force are always those of some number *)
(* of toggles ago, the last one excepted never undone.  A closure starts   *)
(* only for a key that was taken, with an Api nobody holds, and is skipped *)
(* only when there is none.                                                *)
(***************************************************************************)
EXTENDS Integers, Sequences

CONSTANTS
  Api,       (* What a closure needs one of.                                *)
  Bindings   (* The action of each keybind.                                 *)

VARIABLES
  paused,    (* Whether closures are paused.                                *)
  bound,     (* The keybinds that are taken from the user.                  *)
  late,      (* How many changes the bindings in force are behind.          *)
  taken,     (* Keybinds taken and not yet acted on.                        *)
  busy,      (* Apis held by closures.                                      *)
  serving    (* Whether keybinds are acted on.                              *)

vars == <<paused, bound, late, taken, busy, serving>>

BoundWhen(p) == IF p THEN {b \in DOMAIN Bindings : Bindings[b] # "Closure"}
                     ELSE DOMAIN Bindings

(* The first bindings are one change that is still to come. *)
Init ==
  /\ paused = FALSE
  /\ bound = {} /\ late = 1
  /\ taken = <<>>
  /\ busy = {}
  /\ serving = TRUE

Take ==
  /\ \E b \in bound : taken' = Append(taken, b)
  /\ UNCHANGED <<paused, bound, late, busy, serving>>

CatchUp ==
  /\ late > 0
  /\ late' = late - 1
  /\ bound' = BoundWhen(IF late' % 2 = 0 THEN paused ELSE ~paused)
  /\ UNCHANGED <<paused, taken, busy, serving>>

ActOn(actions) ==
  /\ serving /\ taken # <<>>
  /\ Head(taken) \in DOMAIN Bindings /\ Bindings[Head(taken)] \in actions
  /\ taken' = Tail(taken)

Toggle ==
  /\ ActOn({"TogglePauseClosures"})
  /\ paused' = ~paused /\ late' = late + 1
  /\ UNCHANGED <<bound, busy, serving>>

Start ==
  /\ ActOn({"Closure"})
  /\ \E api \in Api \ busy : busy' = busy \cup {api}
  /\ UNCHANGED <<paused, bound, late, serving>>

Skip ==
  /\ ActOn({"Closure"}) /\ busy = Api
  /\ UNCHANGED <<paused, bound, late, busy, serving>>

Finish ==
  /\ \E api \in busy : busy' = busy \ {api}
  /\ UNCHANGED <<paused, bound, late, taken, serving>>

(* A key that ends it all, a toggle nobody can be told of, or the end of    *)
(* either process. *)
Stop ==
  /\ serving /\ serving' = FALSE
  /\ \/ ActOn({"Exit", "MacroRecordingStart", "MacroRecordingStop", "TogglePauseClosures"})
     \/ UNCHANGED taken
  /\ UNCHANGED <<paused, bound, late, busy>>

Next == Take \/ CatchUp \/ Toggle \/ Start \/ Skip \/ Finish \/ Stop

Spec == Init /\ [][Next]_vars
=============================================================================
