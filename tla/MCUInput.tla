------------------------------ MODULE MCUInput ------------------------------
(***************************************************************************)
(* Small instances of UInput.  Two modifiers, a plain key and a button.    *)
(***************************************************************************)
EXTENDS UInput, SequencesExt

CONSTANTS key, button, shift, ctrl, x, y

Current == [type |-> "Current"]
Applied == {Current} \cup {[type |-> "Exact", modifiers |-> mods] : mods \in Modifiers}

KeyActions(codes) == [key : codes, state : KeyState]

SomeKeyActions ==
  {[type |-> "SendKeyActions", actions |-> <<a>>] : a \in KeyActions(Key \ {button})}
    \cup {[type |-> "SendKeyActions", actions |-> <<a, b>>] :
            a \in KeyActions({shift}), b \in KeyActions({shift, ctrl})}

Taps(codes)   == [type : {"SendKeyTap"}, key : codes, modifiers : Applied]
Clicks(codes) == [type : {"SendMouseClick"}, key : codes, modifiers : Applied]

Button(state)  == [type |-> "Key", key |-> button, state |-> state]
MoveAbs(ax, p) == [type |-> "Abs", axis |-> ax, pos |-> p]

SomeMouseActions ==
  {[type |-> "SendMouseActions", actions |-> actions] :
     actions \in {<<>>, <<Button("Pressed")>>, <<Button("Released")>>,
                  <<MoveAbs(x, 1), MoveAbs(y, 1), Button("Pressed")>>,
                  <<MoveAbs(x, 1), MoveAbs(x, 0)>>}}

(* The messages the threads and the closures of the example send. *)
OrdinaryMsgs ==
  SomeKeyActions \cup Taps({key, shift}) \cup Clicks({button}) \cup SomeMouseActions
    \cup [type : {"UpdateScreenSpace"}, screen : Screen]

MCPosition == -1..1

(* KeysAfter is the loop of the source, which takes the actions one by one.   *)
OneKeyAction(keys, action) ==
  CASE action.state = "Pressed"  -> keys \cup {action.key}
    [] action.state = "Released" -> keys \ {action.key}
    [] OTHER                     -> keys

ASSUME KeysAfterIsTheLoop ==
  \A held \in SUBSET {shift, ctrl}, n \in 0..3 :
    \A actions \in [1..n -> KeyActions({shift, ctrl})] :
      KeysAfter(held, actions) = FoldLeft(OneKeyAction, held, actions)
=============================================================================
