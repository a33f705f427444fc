------------------------------ MODULE Translator ------------------------------
(***************************************************************************)
(* hid::Translator (src/hid/translate.rs): what the hub has told the       *)
(* active remote host, as a record, and its operations as operators on it. *)
(*                                                                         *)
(* Keys stand for their HID usages: the code's tables are one to one, but  *)
(* for the mouse thumb buttons (ButtonBit).  The six-entry key array is a  *)
(* set of at most Rollover keys: hosts do not read an order into it.  One  *)
(* motion axis stands for three (x, y, wheel), each treated alike.         *)
(***************************************************************************)
EXTENDS KeyTables, Integers, Sequences, FiniteSets

CONSTANTS
  PlainKeys,           \* keys with a usage in the key array
  MediaKeys,           \* keys on the consumer page
  ButtonBit,           \* [mouse button -> bit in the mouse report]
  LeftAlt, LeftGui,    \* the pair a Mac layout swaps
  Rollover,            \* keys in one keyboard report: 6
  Chunk                \* largest delta of one mouse report: 127

Buttons == DOMAIN ButtonBit
Bits == {ButtonBit[b] : b \in Buttons}

\* The code looks a key up in the media, button and keyboard tables in turn: no
\* key is in two of them.
ASSUME TranslatorAssumption ==
  /\ {LeftAlt, LeftGui} \subseteq AllModifiers
  /\ None \notin MediaKeys
  /\ MediaKeys \cap (Buttons \cup AllModifiers \cup PlainKeys) = {}
  /\ Buttons \cap (AllModifiers \cup PlainKeys) = {}
  /\ AllModifiers \cap PlainKeys = {}
  /\ Rollover \in Nat \ {0} /\ Chunk \in Nat \ {0}

Translators ==
  [mods : SUBSET AllModifiers, keys : SUBSET PlainKeys, kbdDirty : BOOLEAN,
   buttons : SUBSET Bits, buttonsDirty : BOOLEAN, motion : Int,
   consumer : MediaKeys \cup {None}, consumerDirty : BOOLEAN, mac : BOOLEAN]

\* Nothing held, nothing to send.
IdleTranslator(mac) ==
  [mods |-> {}, keys |-> {}, kbdDirty |-> FALSE,
   buttons |-> {}, buttonsDirty |-> FALSE, motion |-> 0,
   consumer |-> None, consumerDirty |-> FALSE, mac |-> mac]

\* Mutant: only a press is worth a report.
ConsumerPressOnly(t, c) ==
  [t EXCEPT !.consumer = c, !.consumerDirty = @ \/ c \notin {t.consumer, None}]

SetMods(t, mods) == [t EXCEPT !.mods = mods, !.kbdDirty = @ \/ mods # t.mods]
SetKeys(t, keys) == [t EXCEPT !.keys = keys, !.kbdDirty = @ \/ keys # t.keys]
SetButtons(t, bits) == [t EXCEPT !.buttons = bits, !.buttonsDirty = @ \/ bits # t.buttons]
SetConsumer(t, c) == [t EXCEPT !.consumer = c, !.consumerDirty = @ \/ c # t.consumer]

\* A press: the key array drops a key it has no room for.
KeyPressed(t, k) ==
  CASE k \in MediaKeys -> SetConsumer(t, k)
    [] k \in Buttons -> SetButtons(t, t.buttons \cup {ButtonBit[k]})
    [] k \in AllModifiers -> SetMods(t, t.mods \cup {k})
    [] k \in PlainKeys /\ Cardinality(t.keys) < Rollover -> SetKeys(t, t.keys \cup {k})
    [] OTHER -> t

\* A release: of the media keys, only that of the one being reported counts.
KeyReleased(t, k) ==
  CASE k \in MediaKeys -> SetConsumer(t, IF t.consumer = k THEN None ELSE t.consumer)
    [] k \in Buttons -> SetButtons(t, t.buttons \ {ButtonBit[k]})
    [] k \in AllModifiers -> SetMods(t, t.mods \ {k})
    [] k \in PlainKeys -> SetKeys(t, t.keys \ {k})
    [] OTHER -> t

Moved(t, delta) == [t EXCEPT !.motion = @ + delta]

MotionPending(t) == t.motion # 0

-----------------------------------------------------------------------------
(* Reports.  The flushes return the frames and leave the matching dirty flag clear. *)

SwapAltGui(k) ==
  CASE k = LeftAlt -> LeftGui [] k = LeftGui -> LeftAlt [] OTHER -> k

\* Mutant: the layout forgotten on the way out.
PhysicalMods(t) == t.mods

\* What the host sees as its modifiers: "mods" is physical, swapped on the way out.
ShownMods(t) == IF t.mac THEN {SwapAltGui(k) : k \in t.mods} ELSE t.mods

KeyboardFrame(t) == [report |-> "keyboard", mods |-> ShownMods(t), keys |-> t.keys]
ConsumerFrame(t) == [report |-> "consumer", usage |-> t.consumer]
MouseFrame(bits, delta) == [report |-> "mouse", buttons |-> bits, motion |-> delta]

FlushKeyboard(t) == IF t.kbdDirty THEN <<KeyboardFrame(t)>> ELSE <<>>
FlushConsumer(t) == IF t.consumerDirty THEN <<ConsumerFrame(t)>> ELSE <<>>

Clamp(v) == IF v > Chunk THEN Chunk ELSE IF v < -Chunk THEN -Chunk ELSE v

\* Mutants: one clamped report; a button change waits for motion.
FlushMouseClamped(t) ==
  IF t.buttonsDirty \/ MotionPending(t) THEN <<MouseFrame(t.buttons, Clamp(t.motion))>> ELSE <<>>
FlushMotionOnly(t) ==
  IF MotionPending(t) THEN <<MouseFrame(t.buttons, Clamp(t.motion))>> ELSE <<>>

\* Deltas beyond one report are split across several; a button change without
\* motion still takes one.
FlushMouse(t) ==
  LET size == IF t.motion < 0 THEN -t.motion ELSE t.motion
      sign == IF t.motion < 0 THEN -1 ELSE 1
      splits == IF size = 0 THEN 1 ELSE (size + Chunk - 1) \div Chunk
  IN  IF t.buttonsDirty \/ MotionPending(t)
      THEN [i \in 1 .. splits |-> MouseFrame(t.buttons, Clamp(t.motion - sign * (i - 1) * Chunk))]
      ELSE <<>>

KeysFlushed(t) == [t EXCEPT !.kbdDirty = FALSE, !.consumerDirty = FALSE]
MouseFlushed(t) == [t EXCEPT !.buttonsDirty = FALSE, !.motion = 0]

\* Mutant: modifiers alone are not worth a release.
ReleaseKeysOnly(t) ==
  IF t.keys # {} THEN <<[report |-> "keyboard", mods |-> {}, keys |-> {}]>> ELSE <<>>

\* Release everything: a report for each kind that holds something.  The
\* translator is IdleTranslator(t.mac) after it.
ReleaseAll(t) ==
    (IF t.mods # {} \/ t.keys # {}
       THEN <<[report |-> "keyboard", mods |-> {}, keys |-> {}]>> ELSE <<>>)
  \o (IF t.buttons # {} THEN <<MouseFrame({}, 0)>> ELSE <<>>)
  \o (IF t.consumer # None THEN <<[report |-> "consumer", usage |-> None]>> ELSE <<>>)

=============================================================================
