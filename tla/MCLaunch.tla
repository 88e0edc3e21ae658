------------------------------ MODULE MCLaunch ------------------------------
(* Small instances of Launch: layouts of up to two screens of a few pixels. *)
EXTENDS Launch

Screen(x, y, w, h) == [x |-> x, y |-> y, width |-> w, height |-> h]

MCLayouts ==
  {<<>>, <<Screen(0, 0, 2, 1)>>, <<Screen(1, 2, 2, 1)>>, <<Screen(-3, -1, 2, 1)>>,
   <<Screen(0, 0, 2, 1), Screen(2, -2, 1, 2)>>, <<Screen(0, 0, 2, 1), Screen(-1, 1, 1, 2)>>}
=============================================================================
