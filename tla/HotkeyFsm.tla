------------------------------ MODULE HotkeyFsm ------------------------------
(***************************************************************************)
(* The hotkey state machine of src/input/hotkey.rs (HotkeyFsm::on_key).    *)
(* One action per outcome of a key event: a slot-switch combo, a macro     *)
(* combo, any other press, a repeat, a release.  The verdict of the last   *)
(* three is Swallow when the key is in "suppressed" before the event and   *)
(* Pass otherwise (Swallowed below).                                       *)
(***************************************************************************)

EXTENDS KeyTables

CONSTANT
  Macros   \* [[mods, key] -> index in the macro list]

VARIABLES
  held,        \* physical key state, tracked regardless of suppression
  suppressed,  \* keys whose remaining events must be swallowed
  comboHeld    \* the combo F-key currently held, or None

fsmVars == <<held, suppressed, comboHeld>>

\* The config parser takes a modifier for no trigger, and keeps Ctrl+Alt+F<n>
\* for slot switching (keys.rs:172, config.rs:443).
ASSUME MacrosAssumption ==
  \A c \in DOMAIN Macros :
    /\ c.key \notin AllModifiers
    /\ ~(c.key \in Fkeys /\ {"ctrl", "alt"} \subseteq c.mods)

-----------------------------------------------------------------------------

FsmInit ==
  /\ held = {}
  /\ suppressed = {}
  /\ comboHeld = None

\* Mutant: the F-key test dropped.
AnyKeySwitches(k) == Ctrls \cap held # {} /\ Alts \cap held # {}

\* Ctrl+Alt+F<n>, whatever else is held.
IsSwitch(k) == k \in Fkeys /\ Ctrls \cap held # {} /\ Alts \cap held # {}

\* A macro matches its modifier set exactly.
Combo(k) == [mods |-> FromHeld(held \cup {k}), key |-> k]

IsMacro(k) == ~IsSwitch(k) /\ Combo(k) \in DOMAIN Macros

FireHooks == Shifts \cap held # {}

\* The modifier keys that formed a combo: their releases will be swallowed.
SwitchMods == held \cap (Ctrls \cup Alts \cup Shifts)

MacroMods == held \cap AllModifiers

Swallowed(k) == k \in suppressed

\* Mutant: everything held is swallowed, and not only the combo's modifiers.
MacroSwallowsAll(k) ==
  /\ IsMacro(k)
  /\ held' = held \cup {k}
  /\ suppressed' = suppressed \cup held'
  /\ UNCHANGED comboHeld

SwitchPress(k) ==
  /\ IsSwitch(k)
  /\ held' = held \cup {k}
  /\ suppressed' = suppressed \cup {k} \cup SwitchMods
  /\ comboHeld' = k

MacroPress(k) ==
  /\ IsMacro(k)
  /\ held' = held \cup {k}
  /\ suppressed' = suppressed \cup {k} \cup MacroMods
  /\ UNCHANGED comboHeld

OtherPress(k) ==
  /\ ~IsSwitch(k) /\ ~IsMacro(k)
  /\ held' = held \cup {k}
  /\ UNCHANGED <<suppressed, comboHeld>>

Repeat(k) == UNCHANGED fsmVars

\* Mutant: the combo key's release swallowed before it is forgotten.
ReleaseKeepsCombo(k) ==
  /\ held' = held \ {k}
  /\ suppressed' = suppressed \ {k}
  /\ comboHeld' = IF k \in suppressed THEN comboHeld ELSE None

Release(k) ==
  /\ held' = held \ {k}
  /\ suppressed' = suppressed \ {k}
  /\ comboHeld' = IF comboHeld = k THEN None ELSE comboHeld

=============================================================================
