------------------------- MODULE RouterHotkeyProofs -------------------------
(***************************************************************************)
(* The router implements Hotkey.tla, for every desk on which no two        *)
(* buttons are reported as one: so what HotkeyProofs proves of an abstract *)
(* target holds of the local session and of each host in turn.             *)
(***************************************************************************)
EXTENDS RouterProofs

OneSpelling == \A b, c \in Buttons : ButtonBit[b] = ButtonBit[c] => b = c

HeldBy(tr) ==
  tr.mods \cup tr.keys \cup {b \in Buttons : ButtonBit[b] \in tr.buttons}
    \cup ({tr.consumer} \ {None})

-----------------------------------------------------------------------------
(* A key event tells the translator of that key at most.                   *)

LEMMA PressTracked ==
  ASSUME OneSpelling, NEW tr \in Translators, NEW k
  PROVE  HeldBy(KeyPressed(tr, k)) \subseteq HeldBy(tr) \cup {k}
<1>1. CASE k \in MediaKeys
  <2>1. KeyPressed(tr, k) = SetConsumer(tr, k)
    BY <1>1, TranslatorAssumption DEF KeyPressed
  <2>2. /\ SetConsumer(tr, k).mods = tr.mods /\ SetConsumer(tr, k).keys = tr.keys
        /\ SetConsumer(tr, k).buttons = tr.buttons /\ SetConsumer(tr, k).consumer = k
    BY DEF SetConsumer, Translators
  <2>. QED  BY <2>1, <2>2 DEF HeldBy
<1>2. CASE k \notin MediaKeys /\ k \in Buttons
  <2>1. KeyPressed(tr, k) = SetButtons(tr, tr.buttons \cup {ButtonBit[k]})
    BY <1>2, TranslatorAssumption DEF KeyPressed
  <2>2. ASSUME NEW x
        PROVE  /\ SetButtons(tr, x).mods = tr.mods /\ SetButtons(tr, x).keys = tr.keys
               /\ SetButtons(tr, x).buttons = x /\ SetButtons(tr, x).consumer = tr.consumer
    BY DEF SetButtons, Translators
  <2>. QED  BY <1>2, <2>1, <2>2 DEF HeldBy, OneSpelling
<1>3. CASE k \notin MediaKeys \cup Buttons /\ k \in AllModifiers
  <2>1. KeyPressed(tr, k) = SetMods(tr, tr.mods \cup {k})
    BY <1>3, TranslatorAssumption DEF KeyPressed
  <2>2. ASSUME NEW x
        PROVE  /\ SetMods(tr, x).mods = x /\ SetMods(tr, x).keys = tr.keys
               /\ SetMods(tr, x).buttons = tr.buttons /\ SetMods(tr, x).consumer = tr.consumer
    BY DEF SetMods, Translators
  <2>. QED  BY <2>1, <2>2 DEF HeldBy
<1>4. CASE k \notin MediaKeys \cup Buttons \cup AllModifiers
  <2>1. \/ KeyPressed(tr, k) = SetKeys(tr, tr.keys \cup {k})
        \/ KeyPressed(tr, k) = tr
    BY <1>4, TranslatorAssumption DEF KeyPressed
  <2>2. ASSUME NEW x
        PROVE  /\ SetKeys(tr, x).mods = tr.mods /\ SetKeys(tr, x).keys = x
               /\ SetKeys(tr, x).buttons = tr.buttons /\ SetKeys(tr, x).consumer = tr.consumer
    BY DEF SetKeys, Translators
  <2>. QED  BY <2>1, <2>2 DEF HeldBy
<1>. QED  BY <1>1, <1>2, <1>3, <1>4

LEMMA ReleaseTracked ==
  ASSUME NEW tr \in Translators, NEW k
  PROVE  HeldBy(KeyReleased(tr, k)) \subseteq HeldBy(tr) \ {k}
<1>. USE TranslatorAssumption
<1>0. /\ tr.mods \subseteq AllModifiers /\ tr.keys \subseteq PlainKeys
      /\ tr.consumer \in MediaKeys \cup {None}
  BY SettersType
<1>1. CASE k \in MediaKeys
  <2>1. KeyReleased(tr, k) = SetConsumer(tr, IF tr.consumer = k THEN None ELSE tr.consumer)
    BY <1>1 DEF KeyReleased
  <2>2. ASSUME NEW x
        PROVE  /\ SetConsumer(tr, x).mods = tr.mods /\ SetConsumer(tr, x).keys = tr.keys
               /\ SetConsumer(tr, x).buttons = tr.buttons /\ SetConsumer(tr, x).consumer = x
    BY DEF SetConsumer, Translators
  <2>. QED  BY <1>0, <1>1, <2>1, <2>2 DEF HeldBy
<1>2. CASE k \notin MediaKeys /\ k \in Buttons
  <2>1. KeyReleased(tr, k) = SetButtons(tr, tr.buttons \ {ButtonBit[k]})
    BY <1>2 DEF KeyReleased
  <2>2. ASSUME NEW x
        PROVE  /\ SetButtons(tr, x).mods = tr.mods /\ SetButtons(tr, x).keys = tr.keys
               /\ SetButtons(tr, x).buttons = x /\ SetButtons(tr, x).consumer = tr.consumer
    BY DEF SetButtons, Translators
  <2>. QED  BY <1>0, <1>2, <2>1, <2>2 DEF HeldBy
<1>3. CASE k \notin MediaKeys \cup Buttons /\ k \in AllModifiers
  <2>1. KeyReleased(tr, k) = SetMods(tr, tr.mods \ {k})
    BY <1>3 DEF KeyReleased
  <2>2. ASSUME NEW x
        PROVE  /\ SetMods(tr, x).mods = x /\ SetMods(tr, x).keys = tr.keys
               /\ SetMods(tr, x).buttons = tr.buttons /\ SetMods(tr, x).consumer = tr.consumer
    BY DEF SetMods, Translators
  <2>. QED  BY <1>0, <1>3, <2>1, <2>2 DEF HeldBy
<1>4. CASE k \notin MediaKeys \cup Buttons \cup AllModifiers
  <2>1. \/ k \in PlainKeys /\ KeyReleased(tr, k) = SetKeys(tr, tr.keys \ {k})
        \/ k \notin PlainKeys /\ KeyReleased(tr, k) = tr
    BY <1>4 DEF KeyReleased
  <2>2. ASSUME NEW x
        PROVE  /\ SetKeys(tr, x).mods = tr.mods /\ SetKeys(tr, x).keys = x
               /\ SetKeys(tr, x).buttons = tr.buttons /\ SetKeys(tr, x).consumer = tr.consumer
    BY DEF SetKeys, Translators
  <2>. QED  BY <1>0, <1>4, <2>1, <2>2 DEF HeldBy
<1>. QED  BY <1>1, <1>2, <1>3, <1>4

\* Letting go of modifiers lets go of nothing else.
LEMMA ModsTracked ==
  ASSUME NEW tr \in Translators, NEW mods \in SUBSET AllModifiers
  PROVE  /\ SetMods(tr, tr.mods \ mods) \in Translators
         /\ HeldBy(SetMods(tr, tr.mods \ mods)) = HeldBy(tr) \ mods
<1>1. /\ tr.mods \subseteq AllModifiers /\ tr.keys \subseteq PlainKeys
      /\ tr.consumer \in MediaKeys \cup {None}
  BY SettersType
<1>2. SetMods(tr, tr.mods \ mods) \in Translators
  BY <1>1, SettersType
<1>3. ASSUME NEW x
      PROVE  /\ SetMods(tr, x).mods = x /\ SetMods(tr, x).keys = tr.keys
             /\ SetMods(tr, x).buttons = tr.buttons /\ SetMods(tr, x).consumer = tr.consumer
  BY DEF SetMods, Translators
<1>. QED  BY <1>1, <1>2, <1>3, TranslatorAssumption DEF HeldBy

\* A flush tells the host; what is tracked stays.
LEMMA FlushTracked ==
  ASSUME NEW tr \in Translators, FlushRemote(tr)
  PROVE  HeldBy(t') = HeldBy(tr)
BY FlushRemoteFacts DEF HeldBy

LEMMA IdleTracksNothing == \A mac : HeldBy(IdleTranslator(mac)) = {}
<1>. SUFFICES ASSUME NEW mac PROVE HeldBy(IdleTranslator(mac)) = {}
  OBVIOUS
<1>1. /\ IdleTranslator(mac).mods = {} /\ IdleTranslator(mac).keys = {}
      /\ IdleTranslator(mac).buttons = {} /\ IdleTranslator(mac).consumer = None
  BY DEF IdleTranslator
<1>. QED  BY <1>1 DEF HeldBy

-----------------------------------------------------------------------------
(* What each verdict does to the active target.                            *)

TargetInv == SessionInv /\ t \in Translators

LEMMA TargetIs ==
  /\ ActiveTarget = IF slot = LocalSlot THEN localHeld ELSE HeldBy(t)
  /\ ActiveTarget' = IF slot' = LocalSlot THEN localHeld' ELSE HeldBy(t')
BY DEF ActiveTarget, Tracked, HeldBy

LEMMA ReleaseComboModsTarget ==
  ASSUME TargetInv, NEW mods \in SUBSET AllModifiers, NEW ok, ReleaseComboMods(mods, ok), slot' = slot
  PROVE  ActiveTarget' = ActiveTarget \ mods
<1>1. CASE slot = LocalSlot
  <2>1. localHeld' = localHeld \ mods
    BY <1>1 DEF ReleaseComboMods
  <2>. QED  BY <1>1, <2>1, TargetIs
<1>2. CASE slot # LocalSlot
  <2>1. FlushRemote(SetMods(t, t.mods \ mods))
    BY <1>2 DEF ReleaseComboMods
  <2>2. HeldBy(t') = HeldBy(t) \ mods
    BY <2>1, ModsTracked, FlushTracked DEF TargetInv
  <2>. QED  BY <1>2, <2>2, TargetIs
<1>. QED  BY <1>1, <1>2

\* A switch that moves on leaves the new target with nothing, and so does one that
\* uinput stopped half-way.
LEMMA SwitchToTarget ==
  ASSUME TargetInv, NEW s \in Slots, NEW fire, NEW mods \in SUBSET AllModifiers, SwitchTo(s, fire, mods)
  PROVE  ActiveTarget' = {} \/ ActiveTarget' = ActiveTarget \ mods
<1>1. CASE s = slot /\ Reassert(fire, mods)
  BY <1>1, ReleaseComboModsTarget DEF Reassert
<1>2. CASE RequestPairing(s, mods)
  BY <1>2, ReleaseComboModsTarget DEF RequestPairing
<1>3. CASE s # slot /\ slot = LocalSlot /\ LeaveLocal(s, fire)
  <2>1. t = IdleTranslator(FALSE) /\ localHeld' = {}
    BY <1>3 DEF LeaveLocal, TargetInv, SessionInv, LocalIsIdle
  <2>2. t' = t \/ t' = [t EXCEPT !.mac = s \in MacSlots]
    BY <1>3 DEF LeaveLocal
  <2>3. /\ t'.mods = t.mods /\ t'.keys = t.keys
        /\ t'.buttons = t.buttons /\ t'.consumer = t.consumer
    BY <2>2 DEF TargetInv, Translators
  <2>4. HeldBy(t') = {}
    BY <2>1, <2>3, IdleTracksNothing DEF HeldBy
  <2>. QED  BY <2>1, <2>4, TargetIs
<1>4. CASE slot # LocalSlot /\ LeaveRemote(s, fire)
  <2>1. t' = IdleTranslator(s \in MacSlots) /\ localHeld' = {}
    BY <1>4 DEF LeaveRemote, TargetInv, SessionInv, LocalReleased
  <2>. QED  BY <2>1, IdleTracksNothing, TargetIs
<1>. QED  BY <1>1, <1>2, <1>3, <1>4 DEF SwitchTo

LEMMA PassTarget ==
  ASSUME OneSpelling, TargetInv, NEW k, NEW pressed \in BOOLEAN, Pass(k, pressed)
  PROVE  ActiveTarget' \subseteq IF pressed THEN ActiveTarget \cup {k} ELSE ActiveTarget \ {k}
<1>1. CASE slot = LocalSlot
  <2>1. slot' = slot /\ localHeld' = IF pressed THEN localHeld \cup {k} ELSE localHeld \ {k}
    BY <1>1 DEF Pass
  <2>. QED  BY <1>1, <2>1, TargetIs
<1>2. CASE slot # LocalSlot
  <2>1. slot' = slot /\ t' = IF pressed THEN KeyPressed(t, k) ELSE KeyReleased(t, k)
    BY <1>2 DEF Pass
  <2>2. HeldBy(t') \subseteq IF pressed THEN HeldBy(t) \cup {k} ELSE HeldBy(t) \ {k}
    BY <2>1, PressTracked, ReleaseTracked DEF TargetInv
  <2>. QED  BY <1>2, <2>1, <2>2, TargetIs
<1>. QED  BY <1>1, <1>2

LEMMA SwallowTarget == Swallow => ActiveTarget' = ActiveTarget
<1>. SUFFICES ASSUME Swallow PROVE ActiveTarget' = ActiveTarget
  OBVIOUS
<1>1. UNCHANGED <<slot, t, localHeld>>
  BY Zenon DEF Swallow
<1>. QED  BY <1>1, TargetIs

-----------------------------------------------------------------------------
(* Every step is one of Hotkey's, or leaves all it sees alone.             *)

DownInv == down \in [Devices -> SUBSET Keys] /\ \A d \in Devices : down[d] \subseteq KeysOf[d]

LayerInv == TargetInv /\ DownInv

Layered == [HotkeyLayer!Next]_<<held, suppressed, comboHeld, down, ActiveTarget>>

\* The instance's state machine is the router's own: same tables, same variables.
LEMMA SameMachine ==
  ASSUME NEW k
  PROVE  /\ HotkeyLayer!SwitchPress(k) <=> SwitchPress(k)
         /\ HotkeyLayer!MacroPress(k) <=> MacroPress(k)
         /\ HotkeyLayer!OtherPress(k) <=> OtherPress(k)
         /\ HotkeyLayer!Swallowed(k) <=> Swallowed(k)
         /\ HotkeyLayer!SwitchMods = SwitchMods
         /\ HotkeyLayer!MacroMods = MacroMods
<1>1. HotkeyLayer!IsSwitch(k) <=> IsSwitch(k)
  BY DEF HotkeyLayer!IsSwitch, IsSwitch, HotkeyLayer!Fkeys, Fkeys
<1>2. HotkeyLayer!Combo(k) = Combo(k)
  BY Zenon DEF HotkeyLayer!Combo, Combo, HotkeyLayer!FromHeld, FromHeld,
     HotkeyLayer!ModifierKeys, ModifierKeys
<1>3. HotkeyLayer!IsMacro(k) <=> IsMacro(k)
  BY <1>1, <1>2 DEF HotkeyLayer!IsMacro, IsMacro
<1>4. HotkeyLayer!SwitchMods = SwitchMods
  BY DEF HotkeyLayer!SwitchMods, SwitchMods
<1>5. HotkeyLayer!MacroMods = MacroMods
  BY DEF HotkeyLayer!MacroMods, MacroMods, HotkeyLayer!AllModifiers, AllModifiers
<1>6. HotkeyLayer!Swallowed(k) <=> Swallowed(k)
  BY DEF HotkeyLayer!Swallowed, Swallowed
<1>7. HotkeyLayer!SwitchPress(k) <=> SwitchPress(k)
  BY <1>1, <1>4 DEF HotkeyLayer!SwitchPress, SwitchPress
<1>8. HotkeyLayer!MacroPress(k) <=> MacroPress(k)
  BY <1>3, <1>5 DEF HotkeyLayer!MacroPress, MacroPress
<1>9. HotkeyLayer!OtherPress(k) <=> OtherPress(k)
  BY <1>1, <1>3 DEF HotkeyLayer!OtherPress, OtherPress
<1>. QED  BY <1>4, <1>5, <1>6, <1>7, <1>8, <1>9

LEMMA KeyDownLayered ==
  ASSUME OneSpelling, LayerInv, NEW d \in Devices, NEW k \in Keys, KeyDown(d, k)
  PROVE  HotkeyLayer!Next
<1>1. k \in KeysOf[d] /\ HotkeyLayer!GoesDown(d, k)
  BY DEF KeyDown, HotkeyLayer!GoesDown
<1>2. SwitchMods \in SUBSET AllModifiers /\ MacroMods \in SUBSET AllModifiers
  BY DEF SwitchMods, MacroMods, AllModifiers
<1>3. CASE SwitchPress(k) /\ SwitchTo(FkeySlot[k], FireHooks, SwitchMods)
  <2>1. FkeySlot[k] \in Slots
    BY <1>3 DEF SwitchPress, IsSwitch, Slots
  <2>2. ActiveTarget' = {} \/ ActiveTarget' = ActiveTarget \ SwitchMods
    BY <1>2, <1>3, <2>1, SwitchToTarget DEF LayerInv
  <2>3. HotkeyLayer!SwitchDown(d, k, TRUE) \/ HotkeyLayer!SwitchDown(d, k, FALSE)
    BY <1>1, <1>3, <2>2, SameMachine DEF HotkeyLayer!SwitchDown
  <2>. QED  BY <1>1, <2>3 DEF HotkeyLayer!Next
<1>4. CASE MacroPress(k) /\ RunMacro(Macros[Combo(k)], MacroMods)
  <2>1. ActiveTarget' = ActiveTarget \ MacroMods
    BY <1>2, <1>4, ReleaseComboModsTarget DEF RunMacro, LayerInv
  <2>2. HotkeyLayer!MacroDown(d, k)
    BY <1>1, <1>4, <2>1, SameMachine DEF HotkeyLayer!MacroDown
  <2>. QED  BY <1>1, <2>2 DEF HotkeyLayer!Next
<1>5. CASE OtherPress(k) /\ \/ Swallowed(k) /\ Swallow
                            \/ ~Swallowed(k) /\ Pass(k, TRUE)
  <2>1. IF Swallowed(k) THEN ActiveTarget' = ActiveTarget ELSE ActiveTarget' \subseteq ActiveTarget \cup {k}
    BY <1>5, SwallowTarget, PassTarget DEF LayerInv
  <2>2. HotkeyLayer!OtherDown(d, k)
    BY <1>1, <1>5, <2>1, SameMachine DEF HotkeyLayer!OtherDown
  <2>. QED  BY <1>1, <2>2 DEF HotkeyLayer!Next
<1>. QED  BY <1>3, <1>4, <1>5 DEF KeyDown

LEMMA KeyUpLayered ==
  ASSUME OneSpelling, LayerInv, NEW d \in Devices, NEW k \in Keys, KeyUp(d, k)
  PROVE  HotkeyLayer!Next
<1>1. k \in KeysOf[d]
  BY DEF KeyUp, LayerInv, DownInv
<1>2. IF Swallowed(k) THEN ActiveTarget' = ActiveTarget ELSE ActiveTarget' \subseteq ActiveTarget \ {k}
  BY SwallowTarget, PassTarget DEF LayerInv, KeyUp
<1>3. HotkeyLayer!Up(d, k)
  BY <1>2 DEF KeyUp, HotkeyLayer!Up, HotkeyLayer!Release, Release, HotkeyLayer!Swallowed, Swallowed
<1>. QED  BY <1>1, <1>3 DEF HotkeyLayer!Next

LEMMA StepLayered == ASSUME OneSpelling, LayerInv, [Next]_vars PROVE Layered
<1>1. ASSUME UNCHANGED <<held, suppressed, comboHeld, down, slot, t, localHeld>> PROVE Layered
  <2>1. ActiveTarget' = ActiveTarget
    BY <1>1, TargetIs
  <2>. QED  BY <1>1, <2>1 DEF Layered
<1>2. ASSUME UNCHANGED <<held, suppressed, comboHeld, down, slot, localHeld>>, HeldBy(t') = HeldBy(t)
      PROVE  Layered
  <2>1. ActiveTarget' = ActiveTarget
    BY <1>2, TargetIs
  <2>. QED  BY <1>2, <2>1 DEF Layered
<1>3. ASSUME NEW d \in Devices, NEW k \in Keys, KeyRepeat(d, k) PROVE Layered
  BY <1>1, <1>3, Zenon DEF KeyRepeat, Repeat, fsmVars
<1>4. ASSUME NEW d \in Devices, NEW delta \in Deltas, Move(d, delta) PROVE Layered
  <2>1. UNCHANGED <<held, suppressed, comboHeld, down, slot, localHeld>> /\ t' \in {t, Moved(t, delta)}
    BY <1>4 DEF Move, fsmVars
  <2>2. HeldBy(Moved(t, delta)) = HeldBy(t)
    BY DEF HeldBy, Moved, LayerInv, TargetInv, Translators
  <2>. QED  BY <1>2, <2>1, <2>2
<1>5. ASSUME NEW d \in Devices, Syn(d) PROVE Layered
  <2>1. UNCHANGED <<held, suppressed, comboHeld, down, slot, localHeld>> /\ (t' = t \/ FlushRemote(t))
    BY <1>5, Zenon DEF Syn, fsmVars
  <2>. QED  BY <1>2, <2>1, FlushTracked DEF LayerInv, TargetInv
<1>6. CASE FlushTimer
  <2>1. UNCHANGED <<held, suppressed, comboHeld, down, slot, localHeld>> /\ t' = MouseFlushed(t)
    BY <1>6, Zenon DEF FlushTimer, fsmVars
  <2>2. HeldBy(MouseFlushed(t)) = HeldBy(t)
    BY MouseFlushedType DEF HeldBy, LayerInv, TargetInv
  <2>. QED  BY <1>2, <2>1, <2>2
<1>7. CASE FireRepair
  BY <1>1, <1>7, Zenon DEF FireRepair, fsmVars, worldVars
<1>8. CASE Others
  BY <1>1, <1>8, Zenon
     DEF Others, Tick, IntervalPasses, TakeFrame, TakeCmd, TakeHook, TakeRepaint, Rebind,
         fsmVars, routerVars, worldVars
<1>9. CASE UNCHANGED vars
  BY <1>1, <1>9, Zenon DEF vars, fsmVars, routerVars, worldVars
<1>10. HotkeyLayer!Next => Layered
  BY DEF Layered
<1>. QED
  BY <1>3, <1>4, <1>5, <1>6, <1>7, <1>8, <1>9, <1>10, KeyDownLayered, KeyUpLayered, Zenon
     DEF Next, Input, Timers

LEMMA DownInvStep == DownInv /\ [Next]_vars => DownInv'
<1>. SUFFICES ASSUME DownInv, [Next]_vars PROVE DownInv'
  OBVIOUS
<1>1. ASSUME NEW d \in Devices, NEW k \in Keys, KeyDown(d, k) PROVE DownInv'
  BY <1>1 DEF KeyDown, DownInv
<1>2. ASSUME NEW d \in Devices, NEW k \in Keys, KeyUp(d, k) PROVE DownInv'
  BY <1>2 DEF KeyUp, DownInv
<1>3. ASSUME UNCHANGED down PROVE DownInv'
  BY <1>3 DEF DownInv
<1>. QED
  BY <1>1, <1>2, <1>3, Zenon
     DEF Next, Input, Timers, Others, KeyRepeat, Move, Syn, FlushTimer, FireRepair, Tick,
         IntervalPasses, TakeFrame, TakeCmd, TakeHook, TakeRepaint, Rebind, vars, worldVars

LEMMA LayerInvInductive ==
  /\ Init => LayerInv /\ ScheduledInv
  /\ LayerInv /\ ScheduledInv /\ [Next]_vars => LayerInv' /\ ScheduledInv'
<1>1. Init => DownInv
  BY DEF Init, DownInv
<1>2. Init => SessionInv /\ ScheduledInv
  BY InitSchedule
<1>. QED
  BY <1>1, <1>2, DownInvStep, SessionInvStep, ScheduledInvStep DEF LayerInv, TargetInv, ScheduledInv

\* The router is an implementation of the hotkey layer on whichever target is
\* active: the local session or any host, through combos, macros, failed writes,
\* unbound slots and switches.
THEOREM RouterImplementsHotkey == ASSUME OneSpelling PROVE Spec => HotkeySpec
<1>1. Init => HotkeyLayer!Init
  <2>. SUFFICES ASSUME Init PROVE HotkeyLayer!Init
    OBVIOUS
  <2>1. localHeld = {} /\ \E mac : t = IdleTranslator(mac)
    BY DEF Init
  <2>2. ActiveTarget = {}
    BY <2>1, IdleTracksNothing, TargetIs
  <2>. QED
    BY <2>2 DEF Init, FsmInit, HotkeyLayer!Init, HotkeyLayer!FsmInit
<1>2. LayerInv /\ [Next]_vars => [HotkeyLayer!Next]_(HotkeyLayer!vars)
  BY StepLayered DEF Layered, HotkeyLayer!vars
<1>. QED
  BY <1>1, <1>2, LayerInvInductive, PTL DEF Spec, HotkeySpec, HotkeyLayer!Spec

=============================================================================
