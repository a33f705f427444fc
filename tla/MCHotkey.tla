------------------------------- MODULE MCHotkey -------------------------------
(* Two keyboards that share some of their keys. *)
EXTENDS Hotkey

MCCtrls == {"lctrl"}
MCAlts == {"lalt"}
MCShifts == {"lshift"}
MCSupers == {"lmeta"}
MCFkeySlot == [f2 |-> 2, f3 |-> 3]
\* One macro on Ctrl+Alt, one on a bare F-key.
MCMacros == [c \in {[mods |-> {"ctrl", "alt"}, key |-> "a"], [mods |-> {}, key |-> "f3"]} |->
              IF c.key = "a" THEN 0 ELSE 1]

TwoKeyboards ==
  [d \in Devices |-> {"lctrl", "f2", "a"} \cup IF d = "kbd" THEN {"lalt", "f3"} ELSE {"lshift"}]

=============================================================================
