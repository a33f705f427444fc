-------------------------------- MODULE Lights --------------------------------
(***************************************************************************)
(* What the LEDs should show (Lights in src/rgb/mod.rs): the active slot's *)
(* color, or a blink or flash of its own, under an idle gate that fades.   *)
(* Three timers run over the one frame; armed says which, and a tick may   *)
(* find any of them due.                                                   *)
(***************************************************************************)
EXTENDS Integers, Sequences, FiniteSets

CONSTANTS
  Slots,               \* the local slot among them
  Brightness,          \* [Slots -> the brightness configured]
  Full,                \* the level of a lit gate
  OutStep, InStep,     \* what a frame of a fade takes from it, or adds
  Flashes              \* half-periods of the flash of a bind

ASSUME LightsAssumption ==
  /\ 0 \in Slots /\ Slots \subseteq Nat
  /\ {Full, OutStep, InStep, Flashes} \subseteq Nat \ {0}
  /\ Brightness \in [Slots -> Nat]

VARIABLES
  setup,               \* the configuration, and what may happen
  slot, anim, level, dark,
  armed                \* the timers set: of "idle", "fade", "anim"

lightsVars == <<slot, anim, level, dark, armed>>

Steady == [kind |-> "steady", lit |-> TRUE, left |-> 0]
Blink == [kind |-> "pairing", lit |-> TRUE, left |-> 0]
Flash == [kind |-> "flash", lit |-> TRUE, left |-> Flashes]

Off == [of |-> "off", slot |-> 0, level |-> 0]

\* Black, or a color dimmed to the level.
Color ==
  IF level = 0 \/ ~anim.lit THEN Off
  ELSE [of |-> anim.kind, slot |-> IF anim.kind = "steady" THEN slot ELSE 0, level |-> level]

Frame == [color |-> Color, brightness |-> Brightness[slot]]

LightsInit ==
  /\ slot \in setup.slots /\ anim = Steady /\ level = Full /\ dark = FALSE
  /\ armed = IF setup.idles THEN {"idle"} ELSE {}

\* sync_fade: the fade runs while the level is not where the gate wants it.
Goal(d) == IF d THEN 0 ELSE Full
Synced(timers, d, lv) == IF lv = Goal(d) THEN timers \ {"fade"} ELSE timers \cup {"fade"}

SetSlot(s) == slot' = s /\ UNCHANGED <<anim, level, dark, armed>>

OnEvent(e) ==
  /\ \/ e = "PairingOpen" /\ anim' = Blink /\ armed' = armed \cup {"anim"}
     \/ e = "PairingClosed" /\ anim.kind = "pairing" /\ anim' = Steady /\ armed' = armed \ {"anim"}
     \/ e = "PairingClosed" /\ anim.kind # "pairing" /\ UNCHANGED <<anim, armed>>
     \/ e = "Bound" /\ anim' = Flash /\ armed' = armed \cup {"anim"}
  /\ UNCHANGED <<slot, level, dark>>

\* Mutant: a fade out is left to run on.
OnActivityLater ==
  /\ dark' = FALSE
  /\ armed' = IF setup.idles THEN armed \cup {"idle"} ELSE armed
  /\ UNCHANGED <<slot, anim, level>>

\* The countdown starts again, and a fade turns round where it is.
OnActivity ==
  /\ dark' = FALSE
  /\ armed' = Synced(IF setup.idles THEN armed \cup {"idle"} ELSE armed, FALSE, level)
  /\ UNCHANGED <<slot, anim, level>>

StepFade ==
  IF dark THEN (IF level > OutStep THEN level - OutStep ELSE 0)
  ELSE IF level + InStep < Full THEN level + InStep ELSE Full

\* Mutant: after a flash the blink it interrupted goes on.
TickAnimResumes ==
  IF anim.kind = "flash" /\ anim.left = 0 THEN Blink ELSE [anim EXCEPT !.lit = ~@, !.left = IF @ = 0 THEN 0 ELSE @ - 1]

TickAnim ==
  CASE anim.kind = "steady" \/ (anim.kind = "flash" /\ anim.left = 0) -> Steady
    [] anim.kind = "pairing" -> [anim EXCEPT !.lit = ~@]
    [] OTHER -> [anim EXCEPT !.lit = ~@, !.left = @ - 1]

\* The timers in due have run out.  Going dark arms the fade anew.
LightsTick(due) ==
  /\ due # {} /\ due \subseteq armed
  /\ dark' = (dark \/ "idle" \in due)
  /\ level' = IF "fade" \in due /\ "idle" \notin due THEN StepFade ELSE level
  /\ anim' = IF "anim" \in due THEN TickAnim ELSE anim
  /\ armed' = {t \in Synced(armed, dark', level') : /\ t # "idle" \/ t \notin due
                                                    /\ t # "anim" \/ anim'.kind # "steady"}
  /\ UNCHANGED slot

=============================================================================
