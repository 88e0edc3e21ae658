---------------------------- MODULE MCCompositor ----------------------------
(***************************************************************************)
(* Small instances of Compositor: two outputs, two or three calls.         *)
(***************************************************************************)
EXTENDS Compositor, TLC

Alike == Permutations(Call) \cup Permutations(Output)
=============================================================================
