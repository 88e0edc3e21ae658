------------------------------ MODULE Screens ------------------------------
(***************************************************************************)
(* ScreenSpace (libdae/src/compositor_interface/mod.rs): the pixels that   *)
(* the monitors span, from which the range of the virtual absolute mouse   *)
(* is taken.                                                               *)
(***************************************************************************)
EXTENDS Integers, FiniteSetsExt, SequencesExt

(* The origin and the size of a monitor. *)
Monitor == [x : Int, y : Int, width : Nat \ {0}, height : Nat \ {0}]

(* Top to bottom, then left to right. *)
ComesBefore(a, b) == a.y < b.y \/ (a.y = b.y /\ a.x < b.x)

(* Mistaken: the last pixel is taken for the first one beyond the screen. *)
RangePastEnd(monitors) ==
  [left   |-> Min({0} \cup {m.x : m \in ToSet(monitors)}),
   top    |-> Min({0} \cup {m.y : m \in ToSet(monitors)}),
   right  |-> Max({0} \cup {m.x + m.width  : m \in ToSet(monitors)}),
   bottom |-> Max({0} \cup {m.y + m.height : m \in ToSet(monitors)})]

(* The range grows from the point (0,0); without a monitor its end lies       *)
(* before its beginning.                                                      *)
RangeOf(monitors) ==
  [left   |-> Min({0} \cup {m.x : m \in ToSet(monitors)}),
   top    |-> Min({0} \cup {m.y : m \in ToSet(monitors)}),
   right  |-> Max({0} \cup {m.x + m.width  : m \in ToSet(monitors)}) - 1,
   bottom |-> Max({0} \cup {m.y + m.height : m \in ToSet(monitors)}) - 1]

from_monitors(monitors) ==
  [range |-> RangeOf(monitors), monitors |-> SortSeq(monitors, ComesBefore)]

(* What the kernel takes for the range of an axis. *)
Accepted(range) == range.left <= range.right /\ range.top <= range.bottom

-----------------------------------------------------------------------------
(* Reference: the pixels themselves. *)

Pixels(m)   == (m.x .. m.x + m.width - 1) \X (m.y .. m.y + m.height - 1)
Area(range) == (range.left .. range.right) \X (range.top .. range.bottom)

(* The range has every pixel of the monitors, and none of its four sides can  *)
(* be moved in without losing one, or passing the origin.                     *)
Spans(range, monitors) ==
  LET pixels == UNION {Pixels(m) : m \in ToSet(monitors)}
      xs     == {p[1] : p \in pixels}
      ys     == {p[2] : p \in pixels}
  IN  /\ pixels \subseteq Area(range)
      /\ range.left \in xs \cup {0}    /\ range.top \in ys \cup {0}
      /\ range.right \in xs \cup {-1}  /\ range.bottom \in ys \cup {-1}
=============================================================================
