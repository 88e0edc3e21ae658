-------------------------------- MODULE Keys --------------------------------
(***************************************************************************)
(* The vocabulary of libdae/src/input.rs and libdae/src/modifiers.rs: key  *)
(* codes, key states, modifier sets, keybinds and key actions.             *)
(*                                                                         *)
(* A `Modifiers` bit field is the set of the modifiers whose bit is set; a *)
(* modifier is named by the key that MOD_LIST pairs it with.  Or-ing a bit *)
(* in is union, and-ing its complement is set difference.                  *)
(***************************************************************************)
EXTENDS Naturals, Sequences

CONSTANTS
  Key,      (* The key codes in play (evdev::KeyCode).                      *)
  ModKey    (* The keys of MOD_LIST: shifts, ctrls, alts and metas.         *)

ASSUME KeysAssumption == ModKey \subseteq Key

KeyState == {"Released", "Pressed", "Repeated"}

Modifiers == SUBSET ModKey

Keybind == [code : Key, state : KeyState, modifiers : Modifiers]

KeyAction == [key : Key, state : KeyState]

(* Mistaken: every key taken for a modifier. *)
EveryKeyModifies(key) == {key}

(* The modifier a key stands for, none for any other key. *)
modifier_from_keycode(key) == {key} \cap ModKey

(* The modifiers among a device's pressed keys. *)
modifiers_from_key_codes(keys) == UNION {modifier_from_keycode(k) : k \in keys}

(* The key codes MOD_LIST gives for a set of modifiers. *)
keycodes_from_modifiers(mods) ==
  {k \in ModKey : modifier_from_keycode(k) \cap mods # {}}

(***************************************************************************)
(* The value of an evdev key event read as a KeyState, and what an event   *)
(* does to the modifiers a device holds: a press adds the key's modifier,  *)
(* a release takes it away, a repeat changes nothing.                      *)
(***************************************************************************)
StateOfValue(value) ==
  CASE value = 0 -> "Released"
    [] value = 1 -> "Pressed"
    [] OTHER     -> "Repeated"

ModifiersAfter(mods, key, state) ==
  CASE state = "Released" -> mods \ modifier_from_keycode(key)
    [] state = "Pressed"  -> mods \cup modifier_from_keycode(key)
    [] OTHER              -> mods
=============================================================================
