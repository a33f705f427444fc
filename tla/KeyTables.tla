------------------------------ MODULE KeyTables ------------------------------
(***************************************************************************)
(* The keys, as src/input/keys.rs sorts them.  Keys are abstract: the      *)
(* module that uses this one says which are the modifiers and which F-key  *)
(* selects which slot (hotkey.rs, fkey_slot).                              *)
(***************************************************************************)

CONSTANTS
  Ctrls, Alts, Shifts, Supers,  \* the left and right key of each modifier
  FkeySlot,                     \* [F-key -> the slot it selects]
  None                          \* no key

ModifierKeys == [ctrl |-> Ctrls, alt |-> Alts, shift |-> Shifts, super |-> Supers]

AllModifiers == Ctrls \cup Alts \cup Shifts \cup Supers

Fkeys == DOMAIN FkeySlot

ASSUME KeysAssumption ==
  /\ Fkeys \cap AllModifiers = {}
  /\ None \notin Fkeys \cup AllModifiers
  /\ \A f, g \in Fkeys : FkeySlot[f] = FkeySlot[g] => f = g

\* The modifiers among a set of held keys, side-agnostic.
FromHeld(keys) == {m \in DOMAIN ModifierKeys : ModifierKeys[m] \cap keys # {}}

=============================================================================
