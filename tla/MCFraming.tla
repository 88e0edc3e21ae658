----------------------------- MODULE MCFraming -----------------------------
(* A small instance of Framing: a message of one byte, and longer ones. *)
EXTENDS Framing

CONSTANTS changed, bind, unbind

MCSize == (changed :> 1) @@ (unbind :> 2) @@ (bind :> 3)
=============================================================================
