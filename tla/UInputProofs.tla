---------------------------- MODULE UInputProofs ----------------------------
(***************************************************************************)
(* What UInput keeps true for every set of keys, modifiers, messages and   *)
(* emit outcomes.                                                          *)
(***************************************************************************)
EXTENDS UInput, SequenceTheorems, WellFoundedInduction, TLAPS

-----------------------------------------------------------------------------
(* Lemmas about the messages and the operators. *)

(* The fields of a message, by its type. *)
LEMMA MessageFields ==
  ASSUME NEW m \in MsgToUInput
  PROVE  /\ m.type \in {"SendKeyTap", "SendMouseClick"} =>
              m.key \in Key /\ m.modifiers \in AppliedModifiers
         /\ m.type = "SendKeyActions" => m.actions \in Seq(KeyAction)
         /\ m.type = "SendMouseActions" => m.actions \in Seq(MouseAction)
         /\ m.type = "UpdateScreenSpace" => m.screen \in Screen
BY DEF MsgToUInput

(* The modifiers a tap asks for are modifiers. *)
LEMMA AppliedFields ==
  ASSUME NEW a \in AppliedModifiers
  PROVE  a.type \in {"Current", "Exact"} /\ (a.type = "Exact" => a.modifiers \in Modifiers)
BY DEF AppliedModifiers

(* Emitting key actions never puts an unknown key down, ... *)
LEMMA KeysAfterType == \A held, actions : KeysAfter(held, actions) \subseteq Key
BY DEF KeysAfter

(* ... and acts on the modifiers alone as it does on all keys: the thread's   *)
(* bookkeeping, which sees only modifiers, and the kernel's agree.            *)
LEMMA KeysAfterModifiers ==
  ASSUME NEW held, NEW actions, NEW has, ModKey \subseteq has
  PROVE  (KeysAfter(held, actions) \cap has) \cap ModKey
           = KeysAfter(held \cap ModKey, actions) \cap ModKey
BY DEF KeysAfter

(* A key acted on is down afterwards, or not, whatever was held before; any   *)
(* other key is left as it was.                                               *)
LEMMA KeysAfterElsewhere ==
  ASSUME NEW held \in SUBSET Key, NEW less, NEW actions
  PROVE  KeysAfter(held \ less, actions) = KeysAfter(held, actions) \ (less \ Changed(actions))
BY DEF KeysAfter, Changed, Decides

(* A non-empty set of positions of a list has a last one. *)
LEMMA LastPosition ==
  ASSUME NEW n \in Nat, NEW on, on \subseteq 1..n, on # {}
  PROVE  \E i \in on : \A j \in on : j <= i
<1> DEFINE fromEnd == {n - i : i \in on}
<1>0. \A i \in on : i \in Nat /\ n - i \in Nat
  OBVIOUS
<1>1. fromEnd \subseteq Nat /\ fromEnd # {}
  BY <1>0
<1>2. PICK m \in fromEnd : \A l \in fromEnd : <<l, m>> \notin OpToRel(<, Nat)
  BY <1>1, NatLessThanWellFounded, WFMin, Zenon
<1>3. \A l \in fromEnd : ~(l < m)
  BY <1>1, <1>2 DEF OpToRel
<1>4. PICK i \in on : m = n - i
  OBVIOUS
<1>5. ASSUME NEW j \in on PROVE j <= i
  <2>1. n - j \in fromEnd
    OBVIOUS
  <2>2. ~(n - j < n - i)
    BY <1>3, <1>4, <2>1
  <2>3. i \in Nat /\ j \in Nat
    BY <1>0
  <2> QED BY <2>2, <2>3
<1> QED BY <1>5

(* The absolute mouse ends up at integer positions. *)
LEMMA AbsAfterType ==
  ASSUME NEW actions \in Seq(MouseAction)
  PROVE  AbsAfter(Only(actions, "Abs")) \in [AbsAxis -> Int]
<1> DEFINE moves == Only(actions, "Abs")
<1>1. \A i \in DOMAIN moves : moves[i].pos \in Int
  BY DEF Only, MouseAction
<1>2. DOMAIN moves \subseteq 1..Len(actions) /\ Len(actions) \in Nat
  BY DEF Only
<1> HIDE DEF moves
<1> DEFINE on(ax)  == {i \in DOMAIN moves : moves[i].axis = ax}
           end(ax) == IF on(ax) = {} THEN -1
                      ELSE moves[CHOOSE i \in on(ax) : \A j \in on(ax) : j <= i].pos
<1>3. ASSUME NEW ax \in AbsAxis PROVE end(ax) \in Int
  <2>1. CASE on(ax) = {}
    BY <2>1
  <2>2. CASE on(ax) # {}
    <3>1. on(ax) \subseteq 1..Len(actions)
      BY <1>2
    <3> DEFINE i == CHOOSE i \in on(ax) : \A j \in on(ax) : j <= i
    <3>2. \E m \in on(ax) : \A j \in on(ax) : j <= m
      <4> HIDE DEF on
      <4> QED BY <1>2, <2>2, <3>1, LastPosition
    <3>3. i \in on(ax)
      <4> HIDE DEF on
      <4> QED BY <3>2
    <3>4. moves[i].pos \in Int
      BY <1>1, <3>3
    <3> QED BY <2>2, <3>4
  <2> QED BY <2>1, <2>2
<1>4. AbsAfter(moves) = [ax \in AbsAxis |-> end(ax)]
  BY Zenon DEF AbsAfter
<1> HIDE DEF end
<1>5. AbsAfter(moves) \in [AbsAxis -> Int]
  BY <1>3, <1>4
<1> QED BY <1>5 DEF moves
-----------------------------------------------------------------------------
(* Type correctness.                                                       *)

(* The head of a typed channel is a message, and what is left is typed.       *)
LEMMA TakenIsMessage ==
  ASSUME NEW types, ChannelsTypeOK, TakeMsg(types)
  PROVE  /\ Head(toUInput) \in MsgToUInput /\ Head(toUInput).type \in types
         /\ ChannelsTypeOK'
BY HeadTailProperties DEF ChannelsTypeOK, TakeMsg

(* A tap or a click puts down only keys the device has, whatever the emits do. *)
LEMMA FullMotionType ==
  ASSUME UInputTypeOK, NEW dev \in VirtualDevice,
         NEW pressOk \in BOOLEAN, NEW releaseOk \in BOOLEAN,
         Head(toUInput).key \in Key, Head(toUInput).modifiers \in AppliedModifiers,
         ChannelsTypeOK', send_full_motion(dev, pressOk, releaseOk)
  PROVE  UInputTypeOK'
<1> DEFINE pressed == Emitted(dev, pressOk, Pressing(Head(toUInput), down[dev]), down[dev])
           left == Emitted(dev, releaseOk, Releasing(Head(toUInput), pressed), pressed)
<1>1. pressed \subseteq KeysOf(dev)
  BY DEF Emitted, UInputTypeOK
<1>2. left \subseteq KeysOf(dev)
  <2> HIDE DEF pressed
  <2> QED BY <1>1 DEF Emitted
<1>3. down' = [down EXCEPT ![dev] = left]
  BY Zenon DEF send_full_motion
<1>4. /\ down' \in [VirtualDevice -> SUBSET Key]
      /\ \A d \in VirtualDevice : down'[d] \subseteq KeysOf(d)
  <2> HIDE DEF left
  <2> QED BY <1>2, <1>3, UInputAssumption DEF UInputTypeOK, KeysOf
<1>5. tap' \in [device : VirtualDevice, key : Key, modifiers : AppliedModifiers,
                let : Modifiers, held : Modifiers]
  BY DEF send_full_motion, Modifiers, UInputTypeOK
<1>6. failed' \in BOOLEAN /\ UNCHANGED <<cur_modifiers, absPos, screen>>
  BY Zenon DEF send_full_motion, UInputTypeOK
<1>7. loose' \subseteq ModKey
  BY DEF send_full_motion, UInputTypeOK, Modifiers
<1> QED BY <1>4, <1>5, <1>6, <1>7 DEF UInputTypeOK

(* One step of the thread keeps the types.                                    *)
LEMMA UInputThreadType ==
  ASSUME UInputTypeOK, UInputThread
  PROVE  UInputTypeOK'
<1> DEFINE m == Head(toUInput)
<1> USE UInputAssumption
<1>1. CASE EmitKeyActions
  <2>1. ChannelsTypeOK'
    BY <1>1, TakenIsMessage DEF EmitKeyActions, UInputTypeOK
  <2>2. cur_modifiers' \in Modifiers
    BY <1>1 DEF EmitKeyActions, Modifiers
  <2>3. /\ down' \in [VirtualDevice -> SUBSET Key]
        /\ \A d \in VirtualDevice : down'[d] \subseteq KeysOf(d)
    BY <1>1, KeysAfterType DEF EmitKeyActions, UInputTypeOK, KeysOf, VirtualDevice
  <2>4. failed' \in BOOLEAN /\ loose' \subseteq ModKey /\ UNCHANGED <<absPos, screen, tap>>
    BY <1>1 DEF EmitKeyActions, UInputTypeOK
  <2> QED BY <2>1, <2>2, <2>3, <2>4 DEF UInputTypeOK
<1>2. CASE EmitMouseActions
  <2>1. /\ ChannelsTypeOK'
        /\ m \in MsgToUInput /\ m.type = "SendMouseActions"
    BY <1>2, TakenIsMessage DEF EmitMouseActions, UInputTypeOK
  <2>2. m.actions \in Seq(MouseAction)
    BY <2>1, MessageFields
  <2>3. absPos' \in [AbsAxis -> Int]
    BY <1>2, <2>2, AbsAfterType DEF EmitMouseActions, UInputTypeOK
  <2>4. /\ down' \in [VirtualDevice -> SUBSET Key]
        /\ \A d \in VirtualDevice : down'[d] \subseteq KeysOf(d)
    BY <1>2, KeysAfterType DEF EmitMouseActions, UInputTypeOK, KeysOf, VirtualDevice
  <2>5. failed' \in BOOLEAN /\ UNCHANGED <<cur_modifiers, screen, tap, loose>>
    BY <1>2 DEF EmitMouseActions, UInputTypeOK
  <2> QED BY <2>1, <2>3, <2>4, <2>5 DEF UInputTypeOK
<1>3. CASE EmitKeyTap \/ EmitMouseClick
  <2>1. /\ ChannelsTypeOK'
        /\ m \in MsgToUInput /\ m.type \in {"SendKeyTap", "SendMouseClick"}
    BY <1>3, TakenIsMessage DEF EmitKeyTap, EmitMouseClick, UInputTypeOK
  <2>2. m.key \in Key /\ m.modifiers \in AppliedModifiers
    BY <2>1, MessageFields
  <2>3. PICK dev \in VirtualDevice, pressOk \in BOOLEAN, releaseOk \in BOOLEAN :
          send_full_motion(dev, pressOk, releaseOk)
    BY <1>3 DEF EmitKeyTap, EmitMouseClick, VirtualDevice
  <2> QED BY <2>1, <2>2, <2>3, FullMotionType
<1>4. CASE UpdateScreenSpace
  <2>1. /\ ChannelsTypeOK'
        /\ m \in MsgToUInput /\ m.type = "UpdateScreenSpace"
    BY <1>4, TakenIsMessage DEF UpdateScreenSpace, UInputTypeOK
  <2>2. m.screen \in Screen
    BY <2>1, MessageFields
  <2> QED BY <1>4, <2>1, <2>2 DEF UpdateScreenSpace, UInputTypeOK
<1> QED BY <1>1, <1>2, <1>3, <1>4 DEF UInputThread

(* The thread starts well typed, and so does a message that is sent to it.    *)
LEMMA UInputInitTyped ==
  ASSUME UInputInit, ChannelsTypeOK PROVE UInputTypeOK
<1>1. cur_modifiers \in Modifiers /\ absPos \in [AbsAxis -> Int]
  BY DEF UInputInit, Modifiers
<1>2. failed \in BOOLEAN /\ screen \in Screen /\ tap = NoTap /\ loose \subseteq ModKey
  BY Zenon DEF UInputInit
<1>3. /\ down \in [VirtualDevice -> SUBSET Key]
      /\ \A dev \in VirtualDevice : down[dev] \subseteq KeysOf(dev)
  BY DEF UInputInit
<1> QED BY <1>1, <1>2, <1>3 DEF UInputTypeOK

LEMMA UInputInitType == UInputSpecInit => UInputTypeOK
<1>1. UInputSpecInit => ChannelsTypeOK
  BY EmptySeq DEF UInputSpecInit, ChannelsTypeOK
<1> QED BY <1>1, UInputInitTyped DEF UInputSpecInit

LEMMA SentToUInputType ==
  ASSUME UInputTypeOK, SentToUInput PROVE UInputTypeOK'
<1>1. ChannelsTypeOK'
  BY UInputAssumption, AppendProperties DEF SentToUInput, UInputTypeOK, ChannelsTypeOK
<1> QED BY <1>1 DEF SentToUInput, UInputTypeOK, uinputVars

(* Every message handled leaves the bookkeeping, the virtual devices and the  *)
(* history of the last tap well typed, for all keys, messages and outcomes.   *)
THEOREM UInputTypeCorrect == UInputSpec => []UInputTypeOK
<1>1. UInputTypeOK /\ [UInputSpecNext]_UInputSpecVars => UInputTypeOK'
  <2> SUFFICES ASSUME UInputTypeOK, [UInputSpecNext]_UInputSpecVars PROVE UInputTypeOK'
    OBVIOUS
  <2>1. CASE UInputThread
    BY <2>1, UInputThreadType
  <2>2. CASE SentToUInput
    BY <2>2, SentToUInputType
  <2>3. CASE UNCHANGED UInputSpecVars
    BY <2>3 DEF UInputTypeOK, ChannelsTypeOK, UInputSpecVars, uinputVars, channels
  <2> QED BY <2>1, <2>2, <2>3 DEF UInputSpecNext
<1> QED BY <1>1, UInputInitType, PTL DEF UInputSpec

-----------------------------------------------------------------------------
(* The modifiers the thread believes held are those the compositor sees.   *)

TrackedInv == UInputTypeOK /\ ModifiersTracked

(* A tap lets go of the key it taps and puts back what it took away: of the   *)
(* modifiers booked, those held afterwards are those held before, with those  *)
(* in excess and without the key itself.                                      *)
LEMMA TapRestoresModifiers ==
  ASSUME NEW msg, NEW keys, NEW less, less \subseteq cur_modifiers,
         keys \cap ModKey = cur_modifiers \ less, cur_modifiers \subseteq ModKey,
         mod_to_add(msg.modifiers) \cap cur_modifiers = {},
         mod_to_rm(msg.modifiers) \subseteq cur_modifiers,
         NEW has, ModKey \subseteq has,
         NEW pressed, pressed = Pressing(msg, keys) \cap has
  PROVE  (Releasing(msg, pressed) \cap has) \cap ModKey
           = cur_modifiers
               \ ((less \cup (cur_modifiers \cap {msg.key})) \ mod_to_rm(msg.modifiers))
BY DEF Pressing, Releasing

(* What a tap adds is not booked, what it takes away is.                      *)
LEMMA AddAndRemove ==
  ASSUME NEW req \in AppliedModifiers, cur_modifiers \subseteq ModKey
  PROVE  /\ mod_to_add(req) \cap cur_modifiers = {} /\ mod_to_add(req) \subseteq ModKey
         /\ mod_to_rm(req) \subseteq cur_modifiers
BY AppliedFields DEF mod_to_add, mod_to_rm, Modifiers

(* The message of a tap or a click asks for modifiers.                        *)
LEMMA TapAsks ==
  ASSUME UInputTypeOK, EmitKeyTap \/ EmitMouseClick
  PROVE  Head(toUInput).modifiers \in AppliedModifiers
<1>1. Head(toUInput) \in MsgToUInput /\ Head(toUInput).type \in {"SendKeyTap", "SendMouseClick"}
  BY TakenIsMessage DEF EmitKeyTap, EmitMouseClick, UInputTypeOK
<1> QED BY <1>1, MessageFields

LEMMA ModifiersTrackedStep ==
  ASSUME TrackedInv, UInputThread
  PROVE  TrackedInv'
<1> USE UInputAssumption
<1>1. UInputTypeOK'
  BY UInputThreadType DEF TrackedInv
<1>2. ASSUME ~failed'
      PROVE  /\ loose' \subseteq cur_modifiers'
             /\ down'["virt_kbd"] \cap ModKey = cur_modifiers' \ loose'
  <2>1. CASE EmitKeyActions
    <3> DEFINE actions == Head(toUInput).actions
    <3>1. /\ ~failed /\ loose' = loose \ Changed(actions)
          /\ cur_modifiers' = KeysAfter(cur_modifiers, actions) \cap ModKey
          /\ down' = [down EXCEPT !["virt_kbd"] = KeysAfter(@, actions) \cap KbdKey]
      BY <1>2, <2>1 DEF EmitKeyActions
    <3> HIDE DEF actions
    <3>2. /\ down'["virt_kbd"] = KeysAfter(down["virt_kbd"], actions) \cap KbdKey
          /\ cur_modifiers \subseteq Key /\ loose \subseteq cur_modifiers
          /\ cur_modifiers \subseteq ModKey
          /\ down["virt_kbd"] \cap ModKey = cur_modifiers \ loose
      BY <3>1, KeysAssumption
         DEF TrackedInv, UInputTypeOK, VirtualDevice, ModifiersTracked, Modifiers
    <3>3. down'["virt_kbd"] \cap ModKey = KeysAfter(cur_modifiers \ loose, actions) \cap ModKey
      BY <3>2, KeysAfterModifiers
    <3>4. KeysAfter(cur_modifiers \ loose, actions)
            = KeysAfter(cur_modifiers, actions) \ (loose \ Changed(actions))
      BY <3>2, KeysAfterElsewhere
    <3>5. loose \ Changed(actions) \subseteq KeysAfter(cur_modifiers, actions) \cap ModKey
      BY <3>2 DEF KeysAfter, Changed
    <3> QED BY <3>1, <3>3, <3>4, <3>5
  <2>2. CASE EmitMouseActions
    BY <1>2, <2>2 DEF EmitMouseActions, TrackedInv, ModifiersTracked, UInputTypeOK, VirtualDevice
  <2>3. CASE EmitKeyTap
    <3> DEFINE msg == Head(toUInput)
               pressed == Pressing(msg, down["virt_kbd"]) \cap KbdKey
    <3>1. msg.modifiers \in AppliedModifiers
      BY <2>3, TapAsks DEF TrackedInv
    <3>2. /\ ~failed /\ UNCHANGED cur_modifiers
          /\ down' = [down EXCEPT !["virt_kbd"] = Releasing(msg, pressed) \cap KbdKey]
          /\ loose' = (loose \cup (cur_modifiers \cap {msg.key})) \ mod_to_rm(msg.modifiers)
      BY <1>2, <2>3 DEF EmitKeyTap, send_full_motion, Emitted, KeysOf
    <3>3. /\ down'["virt_kbd"] = Releasing(msg, pressed) \cap KbdKey
          /\ cur_modifiers \subseteq ModKey /\ loose \subseteq cur_modifiers
          /\ down["virt_kbd"] \cap ModKey = cur_modifiers \ loose
      BY <3>2 DEF TrackedInv, UInputTypeOK, VirtualDevice, ModifiersTracked, Modifiers
    <3> HIDE DEF msg
    <3>4. (Releasing(msg, pressed) \cap KbdKey) \cap ModKey = cur_modifiers \ loose'
      BY <3>1, <3>2, <3>3, AddAndRemove, TapRestoresModifiers
    <3>5. loose' \subseteq cur_modifiers'
      BY <3>2, <3>3
    <3> QED BY <3>2, <3>3, <3>4, <3>5
  <2>4. CASE EmitMouseClick
    BY <1>2, <2>4 DEF EmitMouseClick, send_full_motion, TrackedInv, ModifiersTracked,
                      UInputTypeOK, VirtualDevice
  <2>5. CASE UpdateScreenSpace
    BY <1>2, <2>5 DEF UpdateScreenSpace, TrackedInv, ModifiersTracked
  <2> QED BY <2>1, <2>2, <2>3, <2>4, <2>5 DEF UInputThread
<1> QED BY <1>1, <1>2 DEF TrackedInv, ModifiersTracked

LEMMA TrackedAtFirst ==
  ASSUME UInputInit PROVE ModifiersTracked
BY DEF UInputInit, ModifiersTracked, VirtualDevice

(* The inductive invariant holds.                                             *)
LEMMA TrackedInvariant == UInputSpec => []TrackedInv
<1>1. UInputSpecInit => TrackedInv
  <2> SUFFICES ASSUME UInputSpecInit PROVE TrackedInv
    OBVIOUS
  <2>1. UInputTypeOK
    BY UInputInitType
  <2>2. ModifiersTracked
    BY TrackedAtFirst DEF UInputSpecInit
  <2> QED BY <2>1, <2>2 DEF TrackedInv
<1>2. TrackedInv /\ [UInputSpecNext]_UInputSpecVars => TrackedInv'
  <2> SUFFICES ASSUME TrackedInv, [UInputSpecNext]_UInputSpecVars PROVE TrackedInv'
    OBVIOUS
  <2>1. CASE UInputThread
    BY <2>1, ModifiersTrackedStep
  <2>2. CASE SentToUInput
    <3>1. UInputTypeOK'
      BY <2>2, SentToUInputType DEF TrackedInv
    <3> QED BY <2>2, <3>1 DEF TrackedInv, ModifiersTracked, SentToUInput, uinputVars
  <2>3. CASE UNCHANGED UInputSpecVars
    BY <2>3 DEF TrackedInv, UInputTypeOK, ChannelsTypeOK, ModifiersTracked,
                UInputSpecVars, uinputVars, channels
  <2> QED BY <2>1, <2>2, <2>3 DEF UInputSpecNext
<1> QED BY <1>1, <1>2, PTL DEF UInputSpec

(* As long as emits succeed, whatever threads and closures send, what the     *)
(* compositor sees held on the virtual keyboard is what the thread believes   *)
(* held, without the modifiers that were tapped themselves meanwhile.         *)
THEOREM ModifiersAreTracked == UInputSpec => []ModifiersTracked
<1>1. TrackedInv => ModifiersTracked
  BY DEF TrackedInv
<1> QED BY <1>1, TrackedInvariant, PTL

-----------------------------------------------------------------------------
(* Taps are exact, and leave everything else alone.                        *)

(* A tap goes under the modifiers it asks for and no other, because the       *)
(* thread knows what is held and the mouse has no modifier keys.              *)
LEMMA ExactTapStep ==
  ASSUME TrackedInv, ExactTap, UInputThread
  PROVE  ExactTap'
<1> USE UInputAssumption
<1>1. CASE UNCHANGED tap
  BY <1>1 DEF ExactTap, ExactOn, UInputThread, EmitKeyActions, EmitMouseActions,
              EmitKeyTap, EmitMouseClick, send_full_motion, UpdateScreenSpace
<1>2. CASE EmitMouseClick
  BY <1>2 DEF EmitMouseClick, send_full_motion, ExactTap, ExactOn
<1>3. CASE EmitKeyTap
  <2> DEFINE msg == Head(toUInput)
             pressed == Pressing(msg, down["virt_kbd"]) \cap KbdKey
  <2>1. SUFFICES ASSUME ~failed', msg.modifiers.type = "Exact"
                 PROVE  tap'.held \ {msg.key}
                          = msg.modifiers.modifiers \ ({msg.key} \cup loose)
    BY <1>3 DEF EmitKeyTap, send_full_motion, ExactTap, ExactOn
  <2>2. /\ ~failed
        /\ tap'.held = {k \in ModKey : k \in pressed \/ k \in down["virt_mouse_rel"]}
    <3>1. PICK ok \in EmitOutcome : send_full_motion("virt_kbd", ok, ok)
      BY <1>3 DEF EmitKeyTap
    <3>2. failed' = (failed \/ ~ok \/ ~ok)
      BY <3>1 DEF send_full_motion
    <3>3. ~failed /\ ok
      BY <2>1, <3>2
    <3>4. Emitted("virt_kbd", ok, Pressing(msg, down["virt_kbd"]), down["virt_kbd"]) = pressed
      BY <3>3 DEF Emitted, KeysOf
    <3>5. tap'.held = {k \in ModKey : \/ k \in pressed
                                     \/ \E d \in VirtualDevice \ {"virt_kbd"} : k \in down[d]}
      BY <3>1, <3>4 DEF send_full_motion
    <3> HIDE DEF pressed
    <3>6. VirtualDevice \ {"virt_kbd"} = {"virt_mouse_rel"}
      BY DEF VirtualDevice
    <3> QED BY <3>3, <3>5, <3>6
  <2>3. /\ down["virt_mouse_rel"] \subseteq RelKey
        /\ down["virt_kbd"] \cap ModKey = cur_modifiers \ loose
        /\ loose \subseteq cur_modifiers
    BY <2>2 DEF TrackedInv, UInputTypeOK, ModifiersTracked, VirtualDevice, KeysOf
  <2>4. msg.modifiers.modifiers \subseteq ModKey
    BY <1>3, <2>1, TapAsks, AppliedFields DEF TrackedInv, Modifiers
  <2> HIDE DEF msg
  <2> QED BY <2>1, <2>2, <2>3, <2>4 DEF Pressing, mod_to_add, mod_to_rm
<1> QED BY <1>1, <1>2, <1>3
        DEF UInputThread, EmitKeyActions, EmitMouseActions, UpdateScreenSpace

(* "Ensure an exact set of modifiers is active": as long as emits succeed,    *)
(* every Exact tap of the keyboard is seen under its modifiers and no other,  *)
(* but for those let go by a tap of their own.                                *)
THEOREM TapsAreExact == UInputSpec => []ExactTap
<1>1. UInputSpecInit => ExactTap
  BY DEF UInputSpecInit, UInputInit, ExactTap, ExactOn, NoTap
<1>2. TrackedInv /\ ExactTap /\ [UInputSpecNext]_UInputSpecVars => ExactTap'
  <2> SUFFICES ASSUME TrackedInv, ExactTap, [UInputSpecNext]_UInputSpecVars PROVE ExactTap'
    OBVIOUS
  <2>1. CASE UInputThread
    BY <2>1, ExactTapStep
  <2>2. CASE UNCHANGED uinputVars
    BY <2>2 DEF ExactTap, ExactOn, uinputVars
  <2> QED BY <2>1, <2>2 DEF UInputSpecNext, SentToUInput, UInputSpecVars
<1> QED BY <1>1, <1>2, TrackedInvariant, PTL DEF UInputSpec

LEMMA TapLeaves ==
  ASSUME TrackedInv, EmitKeyTap \/ EmitMouseClick, ~failed', NEW dev \in VirtualDevice
  PROVE  down'[dev] \ ({Head(toUInput).key} \cup loose)
           = down[dev] \ ({Head(toUInput).key} \cup loose)
<1> DEFINE msg == Head(toUInput)
           After(d) == Releasing(msg, Pressing(msg, down[d]) \cap KeysOf(d)) \cap KeysOf(d)
<1> USE UInputAssumption
<1>1. PICK d \in VirtualDevice : down' = [down EXCEPT ![d] = After(d)] /\ ~failed
  BY DEF EmitKeyTap, EmitMouseClick, send_full_motion, Emitted, VirtualDevice
<1>2. /\ down[d] \subseteq KeysOf(d)
      /\ ModKey \cap KeysOf("virt_mouse_rel") = {}
      /\ cur_modifiers \ loose = down["virt_kbd"] \cap ModKey
      /\ cur_modifiers \subseteq ModKey
  BY <1>1 DEF TrackedInv, UInputTypeOK, ModifiersTracked, KeysOf, Modifiers
<1>3. /\ mod_to_rm(msg.modifiers) \subseteq cur_modifiers
      /\ mod_to_add(msg.modifiers) \cap down["virt_kbd"] = {}
      /\ mod_to_add(msg.modifiers) \subseteq ModKey
  <2>1. msg.modifiers \in AppliedModifiers
    BY TapAsks DEF TrackedInv
  <2> HIDE DEF msg
  <2> QED BY <1>2, <2>1, AddAndRemove
<1> HIDE DEF msg
<1>4. After(d) \ ({msg.key} \cup loose) = down[d] \ ({msg.key} \cup loose)
  <2>1. CASE d = "virt_kbd"
    BY <1>2, <1>3, <2>1 DEF Releasing, Pressing
  <2>2. CASE d = "virt_mouse_rel"
    BY <1>2, <1>3, <2>2 DEF Releasing, Pressing
  <2> QED BY <2>1, <2>2 DEF VirtualDevice
<1>5. down'[dev] \ ({msg.key} \cup loose) = down[dev] \ ({msg.key} \cup loose)
  <2>1. down \in [VirtualDevice -> SUBSET Key]
    BY DEF TrackedInv, UInputTypeOK
  <2> HIDE DEF After
  <2> QED BY <1>1, <1>4, <2>1
<1> QED BY <1>5 DEF msg

(* A tap or a click disturbs no other key, as long as emits succeed, unless   *)
(* it presses a modifier again that a tap of its own had let go.              *)
THEOREM TapsLeaveTheRest == UInputSpec => TapLeavesTheRest
<1>1. TrackedInv /\ [UInputSpecNext]_UInputSpecVars
        => [(EmitKeyTap \/ EmitMouseClick) /\ ~failed'
              => \A dev \in VirtualDevice :
                   down'[dev] \ ({Head(toUInput).key} \cup loose)
                     = down[dev] \ ({Head(toUInput).key} \cup loose)]_UInputSpecVars
  BY TapLeaves
<1> QED BY <1>1, TrackedInvariant, PTL DEF UInputSpec, TapLeavesTheRest
=============================================================================
