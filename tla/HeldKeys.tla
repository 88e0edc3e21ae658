------------------------------ MODULE HeldKeys ------------------------------
(***************************************************************************)
(* The keys that the compositor sees held, and those that the user holds.  *)
(* A history variable tells which keys were down before the input thread   *)
(* could hear of them.                                                     *)
(***************************************************************************)
EXTENDS Daekey

VARIABLE
  downAtOpen  (* Keys down on a device ever since it was last listed.       *)

heldVars == <<vars, downAtOpen>>

HeldInit == Init /\ downAtOpen = [d \in Device |-> {}]

KeysNoted ==
  downAtOpen' = [d \in Device |-> IF d \in devs' \ devs THEN phys'[d]
                                                       ELSE downAtOpen[d] \cap phys'[d]]

HeldNext == Next /\ KeysNoted

HeldSpec == HeldInit /\ [][HeldNext]_heldVars

-----------------------------------------------------------------------------
(* What the compositor sees held is what the user holds on the only keyboard, *)
(* opened once, whenever everything on its way has arrived: a key is down on  *)
(* the virtual keyboard only if it is down on the real one, and, unless       *)
(* bindings or closures use it, also then.  Excepted from the second half is  *)
(* a key held since before the keyboard was listed: a press that comes after  *)
(* the recheck and before the modifiers are read is dropped with the reading, *)
(* and the key stays unknown until it is pressed again.  (Of two keyboards    *)
(* that hold the same key, the first to release it lifts it; fetching the     *)
(* devices again drops the releases they had buffered.)                       *)
Quiescent ==
  /\ pc = "loop" /\ ready = {} /\ batch = <<>> /\ ~update_devices
  /\ gone = {} /\ \A d \in Device : evq[d] = <<>>
  /\ toCore = <<>> /\ toUInput = <<>> /\ toUpdate = <<>>
  /\ \A api \in Api : toWorker[api] = <<>>

BoundOnRelease(k) == \E b \in DOMAIN Bindings : b.code = k /\ b.state = "Released"
Bound(k)          == \E b \in DOMAIN Bindings : b.code = k
SentByClosures(k) ==
  \E msg \in ClosureMsgs :
    msg.type \in {"SendKeyTap", "SendKeyActions"}
      /\ IF msg.type = "SendKeyTap" THEN msg.key = k
                                    ELSE \E i \in DOMAIN msg.actions : msg.actions[i].key = k

KeysFollowTheUser ==
  Quiescent /\ ~failed =>
    \A k \in KbdKey :
      /\ k \in down["virt_kbd"] /\ ~BoundOnRelease(k) => \E d \in Kbd : k \in phys[d]
      /\ \A d \in Kbd \cap devs :
           k \in phys[d] \ downAtOpen[d] /\ ~Bound(k) /\ ~SentByClosures(k)
             => k \in down["virt_kbd"]
=============================================================================
