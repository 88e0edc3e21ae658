------------------------------- MODULE UInput -------------------------------
(***************************************************************************)
(* The uinput thread of the privileged process                             *)
(* (bindae/src/bin/manager/uinput_manager.rs): it takes messages off its   *)
(* channel one at a time and emits them on three virtual devices, a        *)
(* keyboard, a relative mouse and an absolute mouse.                       *)
(*                                                                         *)
(* The kernel keeps the state of a virtual device as the compositor sees   *)
(* it: a press of a key that is down, a release of one that is up and any  *)
(* key the device does not have are dropped.                               *)
(***************************************************************************)
EXTENDS Channels

CONSTANTS
  KbdKey,       (* The keys of the virtual keyboard.                        *)
  RelKey,       (* The buttons of the virtual relative mouse.               *)
  AbsAxis,      (* The axes of the virtual absolute mouse.                  *)
  EmitOutcome,  (* What an emit may give: {TRUE}, or BOOLEAN if it may fail. *)
  UInputMsgs    (* Messages of the other threads, when the thread runs alone. *)

ASSUME UInputAssumption ==
  /\ KbdKey \subseteq Key /\ RelKey \subseteq Key
  /\ ModKey \subseteq KbdKey /\ ModKey \cap RelKey = {}
  /\ AbsAxis \subseteq Axis
  /\ EmitOutcome \subseteq BOOLEAN
  /\ UInputMsgs \subseteq MsgToUInput

VARIABLES
  cur_modifiers,  (* What the thread believes the virtual keyboard holds.   *)
  down,           (* Keys down on the virtual keyboard and relative mouse.  *)
  absPos,         (* Where the absolute mouse is.                           *)
  screen,         (* The layout the absolute mouse was last set up for.     *)
  (* history *)
  tap,            (* The last tap or click and the modifiers it went under. *)
  loose,          (* Modifiers booked as held that a tap of theirs let go.  *)
  failed          (* Whether an emit has failed.                            *)

uinputVars == <<cur_modifiers, down, absPos, screen, tap, loose, failed>>

VirtualDevice == {"virt_kbd", "virt_mouse_rel"}
KeysOf(dev) == IF dev = "virt_kbd" THEN KbdKey ELSE RelKey

NoTap == [device |-> "none"]

UInputInit ==
  /\ cur_modifiers = {}
  /\ down = [dev \in VirtualDevice |-> {}]
  /\ absPos = [ax \in AbsAxis |-> 0]
  /\ screen \in Screen
  /\ tap = NoTap
  /\ loose = {}
  /\ failed = FALSE

-----------------------------------------------------------------------------
(* The keys down after a list of key actions: the last press or release of a *)
(* key decides, and a repeat changes nothing.                                *)
Changes(action, k) == action.key = k /\ action.state # "Repeated"

Decides(actions, i, k) ==
  Changes(actions[i], k) /\ \A j \in DOMAIN actions : j > i => ~Changes(actions[j], k)

Changed(actions) == {k \in Key : \E i \in DOMAIN actions : Changes(actions[i], k)}

KeysAfter(held, actions) ==
  {k \in Key :
     \/ \E i \in DOMAIN actions : Decides(actions, i, k) /\ actions[i].state = "Pressed"
     \/ k \in held /\ \A i \in DOMAIN actions : ~Changes(actions[i], k)}

(* The first message of the channel, taken off it. *)
TakeMsg(types) ==
  /\ toUInput # <<>> /\ Head(toUInput).type \in types
  /\ toUInput' = Tail(toUInput)
  /\ UNCHANGED <<toInput, toCore>>

(* Mistaken: every key held is booked as a modifier. *)
EmitKeyActionsBookingAll ==
  LET actions == Head(toUInput).actions IN
  /\ TakeMsg({"SendKeyActions"})
  /\ cur_modifiers' = KeysAfter(cur_modifiers, actions)
  /\ loose' = loose \ Changed(actions)
  /\ \E ok \in EmitOutcome :
       /\ failed' = (failed \/ ~ok)
       /\ down' = IF ok THEN [down EXCEPT !["virt_kbd"] = KeysAfter(@, actions) \cap KbdKey]
                        ELSE down
  /\ UNCHANGED <<absPos, screen, tap>>

(* The bookkeeping follows the actions whether or not the emit succeeds. *)
EmitKeyActions ==
  LET actions == Head(toUInput).actions IN
  /\ TakeMsg({"SendKeyActions"})
  /\ cur_modifiers' = KeysAfter(cur_modifiers, actions) \cap ModKey
  /\ loose' = loose \ Changed(actions)
  /\ \E ok \in EmitOutcome :
       /\ failed' = (failed \/ ~ok)
       /\ down' = IF ok THEN [down EXCEPT !["virt_kbd"] = KeysAfter(@, actions) \cap KbdKey]
                        ELSE down
  /\ UNCHANGED <<absPos, screen, tap>>

(* The actions of one type, at their places in the list. *)
Only(actions, type) ==
  [i \in {j \in DOMAIN actions : actions[j].type = type} |-> actions[i]]

(* Any absolute action first sends both axes to -1, so that a position the   *)
(* mouse already has is accepted again.                                      *)
AbsAfter(moves) ==
  [ax \in AbsAxis |->
     LET on == {i \in DOMAIN moves : moves[i].axis = ax}
     IN  IF on = {} THEN -1
         ELSE moves[CHOOSE i \in on : \A j \in on : j <= i].pos]

(* Keys and relative motion go out in one frame, absolute motion in another  *)
(* one after it; a frame with nothing in it is not sent, and cannot fail.    *)
EmitMouseActions ==
  LET actions == Head(toUInput).actions
      moves   == Only(actions, "Abs")
  IN
  /\ TakeMsg({"SendMouseActions"})
  /\ \E relOk, absOk \in EmitOutcome :
       /\ (DOMAIN moves = DOMAIN actions) => relOk
       /\ (DOMAIN moves = {}) => absOk
       /\ failed' = (failed \/ ~relOk \/ ~absOk)
       /\ down' = IF relOk
                  THEN [down EXCEPT !["virt_mouse_rel"] =
                          KeysAfter(@, Only(actions, "Key")) \cap RelKey]
                  ELSE down
       /\ absPos' = IF absOk /\ DOMAIN moves # {} THEN AbsAfter(moves) ELSE absPos
  /\ UNCHANGED <<cur_modifiers, screen, tap, loose>>

(* send_full_motion: the modifiers that are missing are pressed and those in *)
(* excess released around the press and the release of the key, in one frame *)
(* for the keyboard and in two for the mouse.                                *)
mod_to_add(req) == IF req.type = "Exact" THEN req.modifiers \ cur_modifiers ELSE {}

(* Mistaken: modifiers in excess are left held. *)
NothingToRemove(req) == {}

mod_to_rm(req)  == IF req.type = "Exact" THEN cur_modifiers \ req.modifiers ELSE {}

Pressing(msg, keys) ==
  ((keys \cup mod_to_add(msg.modifiers)) \ mod_to_rm(msg.modifiers)) \cup {msg.key}

(* Mistaken: the modifiers taken away are not put back. *)
ReleasingAll(msg, keys) == keys \ ({msg.key} \cup mod_to_add(msg.modifiers))

(* Mistaken: the modifiers added stay down. *)
ReleasingKey(msg, keys) == (keys \ {msg.key}) \cup mod_to_rm(msg.modifiers)

Releasing(msg, keys) ==
  (keys \ ({msg.key} \cup mod_to_add(msg.modifiers))) \cup mod_to_rm(msg.modifiers)

Emitted(dev, ok, frame, keys) == IF ok THEN frame \cap KeysOf(dev) ELSE keys

send_full_motion(dev, pressOk, releaseOk) ==
  LET msg     == Head(toUInput)
      pressed == Emitted(dev, pressOk, Pressing(msg, down[dev]), down[dev])
  IN
  /\ failed' = (failed \/ ~pressOk \/ ~releaseOk)
  /\ down' = [down EXCEPT ![dev] = Emitted(dev, releaseOk, Releasing(msg, pressed), pressed)]
  /\ loose' = IF dev = "virt_kbd"
              THEN (loose \cup (cur_modifiers \cap {msg.key})) \ mod_to_rm(msg.modifiers)
              ELSE loose
  /\ tap' = [device |-> dev, key |-> msg.key, modifiers |-> msg.modifiers, let |-> loose,
             held |-> {k \in ModKey : \/ k \in pressed
                                      \/ \E d \in VirtualDevice \ {dev} : k \in down[d]}]
  /\ UNCHANGED <<cur_modifiers, absPos, screen>>

EmitKeyTap ==
  /\ TakeMsg({"SendKeyTap"})
  /\ \E ok \in EmitOutcome : send_full_motion("virt_kbd", ok, ok)

EmitMouseClick ==
  /\ TakeMsg({"SendMouseClick"})
  /\ \E pressOk, releaseOk \in EmitOutcome :
       send_full_motion("virt_mouse_rel", pressOk, releaseOk)

(* A new absolute mouse replaces the old one, which stays if that fails. *)
UpdateScreenSpace ==
  /\ TakeMsg({"UpdateScreenSpace"})
  /\ \E ok \in EmitOutcome :
       IF ok THEN screen' = Head(toUInput).screen /\ absPos' = [ax \in AbsAxis |-> 0]
             ELSE UNCHANGED <<screen, absPos>>
  /\ UNCHANGED <<cur_modifiers, down, tap, loose, failed>>

UInputThread ==
  EmitKeyActions \/ EmitMouseActions \/ EmitKeyTap \/ EmitMouseClick \/ UpdateScreenSpace

(* The thread on its own, sent any of UInputMsgs by the others. *)
SentToUInput ==
  /\ UInputKeepsUp
  /\ \E msg \in UInputMsgs : toUInput' = Append(toUInput, msg)
  /\ UNCHANGED <<uinputVars, toInput, toCore>>

UInputSpecVars == <<uinputVars, channels>>
UInputSpecInit == UInputInit /\ toInput = <<>> /\ toCore = <<>> /\ toUInput = <<>>
UInputSpecNext == UInputThread \/ SentToUInput
UInputSpec == UInputSpecInit /\ [][UInputSpecNext]_UInputSpecVars

-----------------------------------------------------------------------------
(* What must hold.                                                         *)

UInputTypeOK ==
  /\ ChannelsTypeOK
  /\ cur_modifiers \in Modifiers
  /\ down \in [VirtualDevice -> SUBSET Key]
  /\ \A dev \in VirtualDevice : down[dev] \subseteq KeysOf(dev)
  /\ absPos \in [AbsAxis -> Int]
  /\ screen \in Screen
  /\ failed \in BOOLEAN
  /\ loose \subseteq ModKey
  /\ \/ tap = NoTap
     \/ tap \in [device : VirtualDevice, key : Key, modifiers : AppliedModifiers,
                 let : Modifiers, held : Modifiers]

(* What the compositor sees held on the virtual keyboard is what the thread   *)
(* believes held, but for modifiers that were tapped themselves while held    *)
(* and that no key action or Exact tap has put right since, as long as every  *)
(* emit has succeeded.  All other taps put back what they took away, and      *)
(* nothing is held that is not booked.                                        *)
ModifiersTracked ==
  ~failed => /\ loose \subseteq cur_modifiers
             /\ down["virt_kbd"] \cap ModKey = cur_modifiers \ loose

(* "Ensure an exact set of modifiers is active": when the key of an Exact tap *)
(* goes down, the compositor sees these modifiers held and no other, but for  *)
(* those that were let go behind the thread's back.                           *)
ExactOn(dev) ==
  (tap.device = dev /\ tap.modifiers.type = "Exact" /\ ~failed)
    => tap.held \ {tap.key} = tap.modifiers.modifiers \ ({tap.key} \cup tap.let)

ExactTap   == ExactOn("virt_kbd")
ExactClick == ExactOn("virt_mouse_rel")

(* A tap or a click leaves every other key of either device as it found it,   *)
(* or presses a modifier again that was let go behind the thread's back.      *)
TapLeavesTheRest ==
  [][(EmitKeyTap \/ EmitMouseClick) /\ ~failed'
       => \A dev \in VirtualDevice :
            down'[dev] \ ({Head(toUInput).key} \cup loose)
              = down[dev] \ ({Head(toUInput).key} \cup loose)]_UInputSpecVars
=============================================================================
