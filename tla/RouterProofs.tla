---------------------------- MODULE RouterProofs ----------------------------
(***************************************************************************)
(* Proofs about Router.tla, for every set of devices, keys, slots, macros  *)
(* and every channel capacity.                                             *)
(***************************************************************************)
EXTENDS Router, TLAPS

-----------------------------------------------------------------------------
(* The two sides of the router: the one that is not active is clean.  Each *)
(* verdict is taken by itself; everything else a step does is elsewhere.   *)

SessionInv == LocalIsIdle /\ LocalReleased

LEMMA ReleaseLocalFacts ==
  ASSUME NEW keys, NEW ok, ReleaseLocal(keys, ok)
  PROVE  /\ localDown' \cup sinkLost' \subseteq localDown \cup sinkLost \cup keys
         /\ localDown' \cap keys \subseteq sinkLost'
         /\ sinkLost \subseteq sinkLost'
         /\ localDown' \subseteq localDown
BY DEF ReleaseLocal

LEMMA ReleaseComboModsKeepsSession ==
  ASSUME SessionInv, NEW mods, NEW ok, ReleaseComboMods(mods, ok), slot' = slot
  PROVE  SessionInv'
<1>. USE DEF SessionInv, LocalIsIdle, LocalReleased
<1>1. CASE slot = LocalSlot
  <2>1. ReleaseLocal(mods \cap localHeld, ok) /\ localHeld' = localHeld \ mods
        /\ UNCHANGED <<t, flushAt>>
    BY <1>1 DEF ReleaseComboMods
  <2>2. /\ localDown' \cap (mods \cap localHeld) \subseteq sinkLost'
        /\ sinkLost \subseteq sinkLost' /\ localDown' \subseteq localDown
    BY <2>1, ReleaseLocalFacts
  <2>. QED  BY <1>1, <2>1, <2>2
<1>2. CASE slot # LocalSlot
  BY <1>2 DEF ReleaseComboMods
<1>. QED  BY <1>1, <1>2

LEMMA SwitchToKeepsSession ==
  ASSUME SessionInv, NEW s \in Slots, NEW fire, NEW mods, SwitchTo(s, fire, mods)
  PROVE  SessionInv'
<1>1. CASE s = slot /\ Reassert(fire, mods)
  BY <1>1, ReleaseComboModsKeepsSession DEF Reassert
<1>2. CASE RequestPairing(s, mods)
  BY <1>2, ReleaseComboModsKeepsSession DEF RequestPairing
<1>3. CASE s # slot /\ slot = LocalSlot /\ LeaveLocal(s, fire)
  <2>. USE DEF SessionInv, LocalIsIdle, LocalReleased
  <2>1. PICK ok \in SinkOutcomes :
          /\ ReleaseLocal(localHeld, ok) /\ localHeld' = {}
          /\ slot' = IF ok THEN s ELSE slot
          /\ t' = IF ok THEN [t EXCEPT !.mac = s \in MacSlots] ELSE t
          /\ UNCHANGED flushAt
    BY <1>3 DEF LeaveLocal
  <2>2. /\ localDown' \cap localHeld \subseteq sinkLost'
        /\ sinkLost \subseteq sinkLost' /\ localDown' \subseteq localDown
    BY <2>1, ReleaseLocalFacts
  <2>. QED  BY <1>3, <2>1, <2>2
<1>4. CASE slot # LocalSlot /\ LeaveRemote(s, fire)
  <2>1. s = LocalSlot => (s \in MacSlots) = FALSE
    BY RouterAssumption DEF Remote
  <2>. QED
    BY <1>4, <2>1 DEF LeaveRemote, SessionInv, LocalIsIdle, LocalReleased
<1>. QED  BY <1>1, <1>2, <1>3, <1>4 DEF SwitchTo

LEMMA PassKeepsSession ==
  ASSUME SessionInv, NEW k, NEW pressed, Pass(k, pressed)
  PROVE  SessionInv'
<1>. USE DEF SessionInv, LocalIsIdle, LocalReleased
<1>1. CASE slot = LocalSlot
  <2>1. PICK ok \in SinkOutcomes :
          /\ EmitLocal(k, pressed, ok)
          /\ localHeld' = IF pressed THEN localHeld \cup {k} ELSE localHeld \ {k}
          /\ UNCHANGED <<slot, t, flushAt>>
    BY <1>1, Zenon DEF Pass
  <2>. QED  BY <1>1, <2>1 DEF EmitLocal
<1>2. CASE slot # LocalSlot
  <2>1. UNCHANGED <<slot, localHeld, localDown, sinkLost>>
    BY <1>2, Zenon DEF Pass, historyVars
  <2>. QED  BY <1>2, <2>1
<1>. QED  BY <1>1, <1>2

LEMMA SwallowKeepsSession == SessionInv /\ Swallow => SessionInv'
<1>. SUFFICES ASSUME SessionInv, Swallow PROVE SessionInv'
  OBVIOUS
<1>1. UNCHANGED <<slot, t, localHeld, flushAt, localDown, sinkLost>>
  BY Zenon DEF Swallow, historyVars
<1>. QED  BY <1>1 DEF SessionInv, LocalIsIdle, LocalReleased

LEMMA SessionInvStep == SessionInv /\ [Next]_vars => SessionInv'
<1>. SUFFICES ASSUME SessionInv, [Next]_vars PROVE SessionInv'
  OBVIOUS
<1>1. ASSUME NEW d \in Devices, NEW k \in Keys, KeyDown(d, k)
      PROVE  SessionInv'
  <2>1. CASE SwitchPress(k) /\ SwitchTo(FkeySlot[k], FireHooks, SwitchMods)
    BY <2>1, SwitchToKeepsSession DEF SwitchPress, IsSwitch, Slots
  <2>2. CASE RunMacro(Macros[Combo(k)], MacroMods)
    BY <2>2, ReleaseComboModsKeepsSession DEF RunMacro
  <2>. QED
    BY <1>1, <2>1, <2>2, PassKeepsSession, SwallowKeepsSession DEF KeyDown
<1>2. ASSUME NEW d \in Devices, NEW k \in Keys, KeyUp(d, k)
      PROVE  SessionInv'
  BY <1>2, PassKeepsSession, SwallowKeepsSession DEF KeyUp
<1>3. ASSUME UNCHANGED <<slot, t, localHeld, flushAt, localDown, sinkLost>>
      PROVE  SessionInv'
  BY <1>3 DEF SessionInv, LocalIsIdle, LocalReleased
<1>4. ASSUME slot # LocalSlot, UNCHANGED <<slot, localHeld, localDown, sinkLost>>
      PROVE  SessionInv'
  BY <1>4 DEF SessionInv, LocalIsIdle, LocalReleased
<1>5. ASSUME NEW d \in Devices, NEW k \in Keys, KeyRepeat(d, k)
      PROVE  SessionInv'
  BY <1>3, <1>5, Zenon DEF KeyRepeat, historyVars
<1>6. ASSUME NEW d \in Devices, NEW delta \in Deltas, Move(d, delta)
      PROVE  SessionInv'
  BY <1>3, <1>4, <1>6, Zenon DEF Move
<1>7. ASSUME NEW d \in Devices, Syn(d)
      PROVE  SessionInv'
  BY <1>3, <1>4, <1>7, Zenon DEF Syn
<1>8. CASE FlushTimer
  <2>1. t' = MouseFlushed(t) /\ flushAt /\ ~flushAt'
        /\ UNCHANGED <<slot, localHeld, localDown, sinkLost>>
    BY <1>8, Zenon DEF FlushTimer
  <2>. QED  BY <2>1 DEF SessionInv, LocalIsIdle, LocalReleased
<1>9. CASE FireRepair
  BY <1>3, <1>9, Zenon DEF FireRepair, historyVars
<1>10. CASE Others
  BY <1>3, <1>10, Zenon
     DEF Others, Tick, IntervalPasses, TakeFrame, TakeCmd, TakeHook, TakeRepaint, Rebind,
         routerVars, historyVars
<1>11. CASE UNCHANGED vars
  BY <1>3, <1>11, Zenon DEF vars, routerVars, historyVars
<1>. QED
  BY <1>1, <1>2, <1>5, <1>6, <1>7, <1>8, <1>9, <1>10, <1>11, Zenon DEF Next, Input, Timers

\* While the local session is active the translator is idle, in the plain
\* layout and with no flush armed; while a host is active nothing is tracked as
\* held locally, and what the local session holds is tracked or was refused.
THEOREM SessionsSeparate == Spec => [](LocalIsIdle /\ LocalReleased)
<1>1. Init => SessionInv
  <2>1. (LocalSlot \in MacSlots) = FALSE
    BY RouterAssumption DEF Remote
  <2>. QED
    BY <2>1 DEF Init, SessionInv, LocalIsIdle, LocalReleased
<1>2. SessionInv <=> LocalIsIdle /\ LocalReleased
  BY DEF SessionInv
<1>. QED
  BY <1>1, <1>2, SessionInvStep, PTL DEF Spec


\* What the local session holds down is tracked, or uinput refused its release,
\* even where a write fails half-way through a switch.
THEOREM SessionLeftClean == Spec => []LocalReleased
BY SessionsSeparate, PTL

-----------------------------------------------------------------------------
(* The translator, whatever it is fed.                                     *)

LEMMA SettersType ==
  ASSUME NEW tr \in Translators
  PROVE  /\ tr.mods \subseteq AllModifiers /\ tr.keys \subseteq PlainKeys
         /\ tr.buttons \subseteq Bits /\ tr.consumer \in MediaKeys \cup {None}
         /\ \A x \in SUBSET AllModifiers : SetMods(tr, x) \in Translators /\ SetMods(tr, x).motion = tr.motion
         /\ \A x \in SUBSET PlainKeys : SetKeys(tr, x) \in Translators /\ SetKeys(tr, x).motion = tr.motion
         /\ \A x \in SUBSET Bits : SetButtons(tr, x) \in Translators /\ SetButtons(tr, x).motion = tr.motion
         /\ \A x \in MediaKeys \cup {None} :
              SetConsumer(tr, x) \in Translators /\ SetConsumer(tr, x).motion = tr.motion
BY DEF Translators, SetMods, SetKeys, SetButtons, SetConsumer

LEMMA KeyPressedType ==
  ASSUME NEW tr \in Translators, NEW k
  PROVE  KeyPressed(tr, k) \in Translators /\ KeyPressed(tr, k).motion = tr.motion
<1>1. CASE k \in MediaKeys
  <2>1. KeyPressed(tr, k) = SetConsumer(tr, k)
    BY <1>1, TranslatorAssumption DEF KeyPressed
  <2>. QED  BY <1>1, <2>1, SettersType
<1>2. CASE k \notin MediaKeys /\ k \in Buttons
  <2>1. KeyPressed(tr, k) = SetButtons(tr, tr.buttons \cup {ButtonBit[k]})
    BY <1>2, TranslatorAssumption DEF KeyPressed
  <2>. QED  BY <1>2, <2>1, SettersType DEF Bits
<1>3. CASE k \notin MediaKeys \cup Buttons /\ k \in AllModifiers
  <2>1. KeyPressed(tr, k) = SetMods(tr, tr.mods \cup {k})
    BY <1>3, TranslatorAssumption DEF KeyPressed
  <2>. QED  BY <1>3, <2>1, SettersType
<1>4. CASE k \notin MediaKeys \cup Buttons \cup AllModifiers
  <2>1. \/ k \in PlainKeys /\ KeyPressed(tr, k) = SetKeys(tr, tr.keys \cup {k})
        \/ KeyPressed(tr, k) = tr
    BY <1>4, TranslatorAssumption DEF KeyPressed
  <2>. QED  BY <2>1, SettersType
<1>. QED  BY <1>1, <1>2, <1>3, <1>4

LEMMA KeyReleasedType ==
  ASSUME NEW tr \in Translators, NEW k
  PROVE  KeyReleased(tr, k) \in Translators /\ KeyReleased(tr, k).motion = tr.motion
<1>1. CASE k \in MediaKeys
  <2>1. KeyReleased(tr, k) = SetConsumer(tr, IF tr.consumer = k THEN None ELSE tr.consumer)
    BY <1>1, TranslatorAssumption DEF KeyReleased
  <2>. QED  BY <2>1, SettersType
<1>2. CASE k \notin MediaKeys /\ k \in Buttons
  <2>1. KeyReleased(tr, k) = SetButtons(tr, tr.buttons \ {ButtonBit[k]})
    BY <1>2, TranslatorAssumption DEF KeyReleased
  <2>. QED  BY <2>1, SettersType
<1>3. CASE k \notin MediaKeys \cup Buttons /\ k \in AllModifiers
  <2>1. KeyReleased(tr, k) = SetMods(tr, tr.mods \ {k})
    BY <1>3, TranslatorAssumption DEF KeyReleased
  <2>. QED  BY <2>1, SettersType
<1>4. CASE k \notin MediaKeys \cup Buttons \cup AllModifiers
  <2>1. \/ KeyReleased(tr, k) = SetKeys(tr, tr.keys \ {k})
        \/ KeyReleased(tr, k) = tr
    BY <1>4, TranslatorAssumption DEF KeyReleased
  <2>. QED  BY <2>1, SettersType
<1>. QED  BY <1>1, <1>2, <1>3, <1>4

LEMMA KeysFlushedType ==
  ASSUME NEW tr \in Translators
  PROVE  /\ KeysFlushed(tr) \in Translators /\ KeysFlushed(tr).motion = tr.motion
         /\ KeysFlushed(tr).mods = tr.mods /\ KeysFlushed(tr).keys = tr.keys
         /\ KeysFlushed(tr).buttons = tr.buttons /\ KeysFlushed(tr).consumer = tr.consumer
BY DEF KeysFlushed, Translators

LEMMA MouseFlushedType ==
  ASSUME NEW tr \in Translators
  PROVE  /\ MouseFlushed(tr) \in Translators /\ MouseFlushed(tr).motion = 0
         /\ MouseFlushed(tr).mods = tr.mods /\ MouseFlushed(tr).keys = tr.keys
         /\ MouseFlushed(tr).buttons = tr.buttons /\ MouseFlushed(tr).consumer = tr.consumer
<1>0. ASSUME NEW x \in Translators
      PROVE  [x EXCEPT !.buttonsDirty = FALSE] \in Translators /\ [x EXCEPT !.motion = 0] \in Translators
  <2>1. [x EXCEPT !.buttonsDirty = FALSE] \in Translators
    BY DEF Translators
  <2>2. [x EXCEPT !.motion = 0] \in Translators
    BY DEF Translators
  <2>. QED  BY <2>1, <2>2
<1>1. MouseFlushed(tr) \in Translators
  <2>1. MouseFlushed(tr) = [[tr EXCEPT !.buttonsDirty = FALSE] EXCEPT !.motion = 0]
    BY DEF MouseFlushed, Translators
  <2>. QED  BY <1>0, <2>1
<1>2. MouseFlushed(tr).motion = 0
  BY DEF MouseFlushed, Translators
<1>3. /\ MouseFlushed(tr).mods = tr.mods /\ MouseFlushed(tr).keys = tr.keys
      /\ MouseFlushed(tr).buttons = tr.buttons /\ MouseFlushed(tr).consumer = tr.consumer
  BY DEF MouseFlushed, Translators
<1>. QED  BY <1>1, <1>2, <1>3

\* Whatever flush_remote leaves over has a flush coming, and nothing held changes.
LEMMA FlushRemoteFacts ==
  ASSUME NEW tr \in Translators, FlushRemote(tr)
  PROVE  /\ t' \in Translators
         /\ MotionPending(t') => flushAt'
         /\ t'.mods = tr.mods /\ t'.keys = tr.keys /\ t'.buttons = tr.buttons
         /\ t'.consumer = tr.consumer
<1>1. t' \in {MouseFlushed(KeysFlushed(tr)), KeysFlushed(tr)}
  BY DEF FlushRemote
<1>2. MotionPending(t') => flushAt'
  BY KeysFlushedType, MouseFlushedType DEF FlushRemote, MotionPending
<1>. QED  BY <1>1, <1>2, KeysFlushedType, MouseFlushedType

-----------------------------------------------------------------------------
(* Motion left over has a flush coming.                                    *)

ScheduledInv == t \in Translators /\ MotionScheduled

\* A translator with no motion in it, or flushed by flush_remote.
LEMMA FlushedIsScheduled ==
  ASSUME t' \in Translators, ~MotionPending(t') \/ flushAt'
  PROVE  ScheduledInv'
BY DEF ScheduledInv, MotionScheduled

LEMMA ReleaseComboModsKeepsMotion ==
  ASSUME SessionInv, ScheduledInv, NEW mods, NEW ok, ReleaseComboMods(mods, ok)
  PROVE  t' \in Translators /\ (~MotionPending(t') \/ flushAt')
<1>1. CASE slot = LocalSlot
  BY <1>1 DEF ReleaseComboMods, SessionInv, LocalIsIdle, IdleTranslator, ScheduledInv, MotionPending
<1>2. CASE slot # LocalSlot
  <2>1. t.mods \ mods \in SUBSET AllModifiers
    BY SettersType DEF ScheduledInv
  <2>2. SetMods(t, t.mods \ mods) \in Translators
    BY <2>1, SettersType DEF ScheduledInv
  <2>. QED  BY <1>2, <2>2, FlushRemoteFacts DEF ReleaseComboMods
<1>. QED  BY <1>1, <1>2

LEMMA IdleIsStill ==
  ASSUME NEW mac \in BOOLEAN
  PROVE  IdleTranslator(mac) \in Translators /\ ~MotionPending(IdleTranslator(mac))
BY DEF IdleTranslator, Translators, MotionPending

LEMMA SwitchToKeepsMotion ==
  ASSUME SessionInv, ScheduledInv, NEW s \in Slots, NEW fire, NEW mods, SwitchTo(s, fire, mods)
  PROVE  t' \in Translators /\ (~MotionPending(t') \/ flushAt')
<1>1. CASE s = slot /\ Reassert(fire, mods)
  BY <1>1, ReleaseComboModsKeepsMotion DEF Reassert
<1>2. CASE RequestPairing(s, mods)
  BY <1>2, ReleaseComboModsKeepsMotion DEF RequestPairing
<1>3. CASE slot = LocalSlot /\ LeaveLocal(s, fire)
  <2>1. t = IdleTranslator(FALSE)
    BY <1>3 DEF SessionInv, LocalIsIdle
  <2>2. PICK mac : mac = (s \in MacSlots)
    OBVIOUS
  <2>3. t' = t \/ t' = [t EXCEPT !.mac = mac]
    BY <1>3, <2>2 DEF LeaveLocal
  <2>4. mac \in BOOLEAN
    BY <2>2
  <2>5. [t EXCEPT !.mac = mac] \in Translators /\ [t EXCEPT !.mac = mac].motion = t.motion
    BY <2>4 DEF ScheduledInv, Translators
  <2>. QED  BY <2>1, <2>3, <2>5, IdleIsStill DEF MotionPending
<1>4. CASE LeaveRemote(s, fire)
  <2>1. PICK mac : mac = (s \in MacSlots)
    OBVIOUS
  <2>2. t' = IdleTranslator(mac) /\ mac \in BOOLEAN
    BY <1>4, <2>1 DEF LeaveRemote
  <2>. QED  BY <2>2, IdleIsStill
<1>. QED  BY <1>1, <1>2, <1>3, <1>4 DEF SwitchTo

\* An event of a device leaves its SYN to come.
LEMMA PassKeepsMotion ==
  ASSUME ScheduledInv, NEW k, NEW pressed, Pass(k, pressed) \/ Swallow, unsynced' # {}
  PROVE  ScheduledInv'
<1>1. t' \in {t, KeyPressed(t, k), KeyReleased(t, k)}
  BY Zenon DEF Pass, Swallow
<1>2. t' \in Translators
  BY <1>1, KeyPressedType, KeyReleasedType DEF ScheduledInv
<1>. QED  BY <1>2 DEF ScheduledInv, MotionScheduled

LEMMA ScheduledInvStep == SessionInv /\ ScheduledInv /\ [Next]_vars => ScheduledInv'
<1>. SUFFICES ASSUME SessionInv, ScheduledInv, [Next]_vars PROVE ScheduledInv'
  OBVIOUS
<1>1. ASSUME NEW d \in Devices, NEW k \in Keys, KeyDown(d, k)
      PROVE  ScheduledInv'
  <2>1. CASE SwitchPress(k) /\ SwitchTo(FkeySlot[k], FireHooks, SwitchMods)
    BY <2>1, SwitchToKeepsMotion, FlushedIsScheduled DEF SwitchPress, IsSwitch, Slots
  <2>2. CASE RunMacro(Macros[Combo(k)], MacroMods)
    BY <2>2, ReleaseComboModsKeepsMotion, FlushedIsScheduled DEF RunMacro
  <2>3. unsynced' # {}
    BY <1>1 DEF KeyDown
  <2>. QED
    BY <1>1, <2>1, <2>2, <2>3, PassKeepsMotion DEF KeyDown
<1>2. ASSUME NEW d \in Devices, NEW k \in Keys, KeyUp(d, k)
      PROVE  ScheduledInv'
  <2>1. unsynced' # {}
    BY <1>2 DEF KeyUp
  <2>. QED  BY <1>2, <2>1, PassKeepsMotion DEF KeyUp
<1>3. ASSUME UNCHANGED <<slot, t, flushAt>>, unsynced' = {} => unsynced = {}
      PROVE  ScheduledInv'
  BY <1>3 DEF ScheduledInv, MotionScheduled, MotionPending
<1>4. ASSUME NEW d \in Devices, NEW k \in Keys, KeyRepeat(d, k)
      PROVE  ScheduledInv'
  <2>1. UNCHANGED <<slot, t, flushAt>> /\ unsynced' # {}
    BY <1>4 DEF KeyRepeat
  <2>. QED  BY <1>3, <2>1
<1>5. ASSUME NEW d \in Devices, NEW delta \in Deltas, Move(d, delta)
      PROVE  ScheduledInv'
  <2>1. unsynced' # {} /\ t' \in {t, Moved(t, delta)}
    BY <1>5 DEF Move
  <2>2. Moved(t, delta) \in Translators
    BY RouterAssumption DEF Moved, Translators, ScheduledInv
  <2>. QED  BY <2>1, <2>2 DEF ScheduledInv, MotionScheduled
<1>6. ASSUME NEW d \in Devices, Syn(d)
      PROVE  ScheduledInv'
  <2>1. CASE slot = LocalSlot
    <3>1. slot' = LocalSlot /\ t' = t
      BY <1>6, <2>1 DEF Syn
    <3>. QED  BY <3>1 DEF ScheduledInv, MotionScheduled
  <2>2. CASE slot # LocalSlot
    BY <1>6, <2>2, FlushRemoteFacts, FlushedIsScheduled DEF Syn, ScheduledInv
  <2>. QED  BY <2>1, <2>2
<1>7. CASE FlushTimer
  <2>1. MouseFlushed(t) \in Translators /\ ~MotionPending(MouseFlushed(t))
    BY MouseFlushedType DEF MotionPending, ScheduledInv
  <2>. QED  BY <1>7, <2>1, FlushedIsScheduled DEF FlushTimer
<1>8. CASE FireRepair
  BY <1>3, <1>8, Zenon DEF FireRepair, worldVars
<1>9. CASE Others
  BY <1>3, <1>9, Zenon
     DEF Others, Tick, IntervalPasses, TakeFrame, TakeCmd, TakeHook, TakeRepaint, Rebind,
         routerVars, worldVars
<1>10. CASE UNCHANGED vars
  BY <1>3, <1>10, Zenon DEF vars, routerVars, worldVars
<1>. QED
  BY <1>1, <1>2, <1>4, <1>5, <1>6, <1>7, <1>8, <1>9, <1>10, Zenon DEF Next, Input, Timers

LEMMA InitSchedule == Init => SessionInv /\ ScheduledInv
<1>. SUFFICES ASSUME Init PROVE SessionInv /\ ScheduledInv
  OBVIOUS
<1>1. (LocalSlot \in MacSlots) = FALSE
  BY RouterAssumption DEF Remote
<1>2. SessionInv
  BY <1>1 DEF Init, SessionInv, LocalIsIdle, LocalReleased
<1>3. PICK mac : mac = (slot \in MacSlots)
  OBVIOUS
<1>4. t = IdleTranslator(mac) /\ mac \in BOOLEAN
  BY <1>3 DEF Init
<1>. QED  BY <1>2, <1>4, IdleIsStill DEF ScheduledInv, MotionScheduled

\* Paced motion is never forgotten: with every device's SYN in, what is left of it
\* has a deferred flush armed, whatever combos and switches came between.
THEOREM FlushIsComing == Spec => []MotionScheduled
BY InitSchedule, SessionInvStep, ScheduledInvStep, PTL DEF Spec, ScheduledInv

-----------------------------------------------------------------------------
(* What goes out: commands and hooks.                                      *)

Cmds == [cmd : {"open", "repair"}, slot : Slots]
HookMsgs == {<<"slot", s>> : s \in Slots} \cup {<<"macro", Macros[c]>> : c \in DOMAIN Macros}

OutInv == slot \in Slots /\ cmds \in Seq(Cmds) /\ hooks \in Seq(HookMsgs)

\* A try_send adds the message, or nothing; a receive adds nothing.
LEMMA OfferFacts ==
  ASSUME NEW M, NEW ch \in Seq(M), NEW m \in M, NEW cap
  PROVE  Offer(ch, m, cap) \in Seq(M) /\ Added(ch, Offer(ch, m, cap)) \subseteq {m}
<1>1. CASE Offer(ch, m, cap) = Append(ch, m)
  <2>1. Append(ch, m) \in Seq(M) /\ Len(Append(ch, m)) = Len(ch) + 1
        /\ Append(ch, m)[Len(ch) + 1] = m
    OBVIOUS
  <2>. QED  BY <1>1, <2>1 DEF Added
<1>2. CASE Offer(ch, m, cap) = ch
  BY <1>2 DEF Added
<1>. QED  BY <1>1, <1>2 DEF Offer

LEMMA TakenFacts ==
  ASSUME NEW M, NEW ch \in Seq(M)
  PROVE  /\ Added(ch, ch) = {}
         /\ ch # <<>> => Tail(ch) \in Seq(M) /\ Added(ch, Tail(ch)) = {}
<1>1. Added(ch, ch) = {}
  BY DEF Added
<1>2. ASSUME ch # <<>> PROVE Tail(ch) \in Seq(M) /\ Len(Tail(ch)) = Len(ch) - 1
  BY <1>2
<1>. QED  BY <1>1, <1>2 DEF Added

OpenCmds == [cmd : {"open"}, slot : Slots]
HooksOf(s) == {m \in HookMsgs : m[1] = "slot" => m[2] = s /\ FireHooks}

\* The whole effect of a switch on the two channels.
LEMMA SwitchToSends ==
  ASSUME OutInv, NEW s \in Slots, NEW mods, SwitchTo(s, FireHooks, mods)
  PROVE  /\ slot' \in Slots
         /\ cmds' = cmds \/ \E m \in OpenCmds : cmds' = Offer(cmds, m, CmdCap)
         /\ hooks' = hooks \/ \E m \in HooksOf(slot') : hooks' = Offer(hooks, m, HookCap)
<1>0. ASSUME FireHooks, NEW r \in Slots PROVE <<"slot", r>> \in HooksOf(r)
  BY <1>0 DEF HooksOf, HookMsgs
<1>1. CASE s = slot /\ Reassert(FireHooks, mods)
  <2>1. slot' = slot /\ cmds' = cmds
        /\ (hooks' = hooks \/ (FireHooks /\ hooks' = Offer(hooks, <<"slot", slot>>, HookCap)))
    BY <1>1 DEF Reassert
  <2>. QED  BY <1>0, <2>1 DEF OutInv
<1>2. CASE RequestPairing(s, mods)
  <2>1. [cmd |-> "open", slot |-> s] \in OpenCmds
    BY DEF OpenCmds
  <2>. QED  BY <1>2, <2>1 DEF RequestPairing, OutInv
<1>3. CASE LeaveLocal(s, FireHooks)
  <2>1. PICK ok \in SinkOutcomes :
          /\ slot' = IF ok THEN s ELSE slot
          /\ hooks' = IF ok /\ FireHooks THEN Offer(hooks, <<"slot", s>>, HookCap) ELSE hooks
          /\ cmds' = cmds
    BY <1>3 DEF LeaveLocal
  <2>. QED  BY <1>0, <2>1 DEF OutInv
<1>4. CASE LeaveRemote(s, FireHooks)
  <2>1. slot' = s /\ cmds' = cmds
        /\ hooks' = IF FireHooks THEN Offer(hooks, <<"slot", s>>, HookCap) ELSE hooks
    BY <1>4 DEF LeaveRemote
  <2>. QED  BY <1>0, <2>1
<1>. QED  BY <1>1, <1>2, <1>3, <1>4 DEF SwitchTo

\* Every step sends at most one message on each channel: a re-pair only when the
\* timer fires, a hook only for a combo.
Sends ==
  /\ slot' \in Slots
  /\ \/ cmds' = cmds \/ (cmds # <<>> /\ cmds' = Tail(cmds))
     \/ \E m \in OpenCmds : cmds' = Offer(cmds, m, CmdCap)
     \/ FireRepair
  /\ \/ hooks' = hooks \/ (hooks # <<>> /\ hooks' = Tail(hooks))
     \/ \E m \in HooksOf(slot') : hooks' = Offer(hooks, m, HookCap)

LEMMA StepSends == OutInv /\ [Next]_vars => Sends
<1>. SUFFICES ASSUME OutInv, [Next]_vars PROVE Sends
  OBVIOUS
<1>1. ASSUME NEW d \in Devices, NEW k \in Keys, KeyDown(d, k)
      PROVE  Sends
  <2>1. CASE SwitchPress(k) /\ SwitchTo(FkeySlot[k], FireHooks, SwitchMods)
    <3>1. FkeySlot[k] \in Slots
      BY <2>1 DEF SwitchPress, IsSwitch, Slots
    <3>. QED  BY <2>1, <3>1, SwitchToSends DEF Sends
  <2>2. CASE MacroPress(k) /\ RunMacro(Macros[Combo(k)], MacroMods)
    <3>1. slot' = slot /\ cmds' = cmds
          /\ (hooks' = hooks \/ hooks' = Offer(hooks, <<"macro", Macros[Combo(k)]>>, HookCap))
      BY <2>2 DEF RunMacro
    <3>2. <<"macro", Macros[Combo(k)]>> \in HooksOf(slot')
      BY <2>2 DEF MacroPress, IsMacro, HooksOf, HookMsgs
    <3>. QED  BY <3>1, <3>2 DEF Sends, OutInv
  <2>3. CASE Swallow
    BY <2>3 DEF Swallow, Sends, OutInv
  <2>4. CASE Pass(k, TRUE)
    BY <2>4 DEF Pass, Sends, OutInv
  <2>. QED  BY <1>1, <2>1, <2>2, <2>3, <2>4 DEF KeyDown
<1>2. ASSUME NEW d \in Devices, NEW k \in Keys, KeyUp(d, k)
      PROVE  Sends
  BY <1>2, Zenon DEF KeyUp, Pass, Swallow, Sends, OutInv
<1>3. ASSUME UNCHANGED <<slot, cmds, hooks>> PROVE Sends
  BY <1>3 DEF Sends, OutInv
<1>4. ASSUME NEW d \in Devices, NEW k \in Keys, KeyRepeat(d, k) PROVE Sends
  BY <1>3, <1>4, Zenon DEF KeyRepeat, channelVars
<1>5. ASSUME NEW d \in Devices, NEW delta \in Deltas, Move(d, delta) PROVE Sends
  BY <1>3, <1>5, Zenon DEF Move, channelVars
<1>6. ASSUME NEW d \in Devices, Syn(d) PROVE Sends
  BY <1>3, <1>6, Zenon DEF Syn
<1>7. CASE FlushTimer
  BY <1>3, <1>7, Zenon DEF FlushTimer
<1>8. CASE FireRepair
  <2>1. UNCHANGED <<slot, hooks>>
    BY <1>8, Zenon DEF FireRepair
  <2>. QED  BY <1>8, <2>1 DEF Sends, OutInv
<1>9. CASE Others
  BY <1>9, Zenon
     DEF Others, Tick, IntervalPasses, TakeFrame, TakeCmd, TakeHook, TakeRepaint, Rebind,
         routerVars, channelVars, Sends, OutInv
<1>10. CASE UNCHANGED vars
  BY <1>3, <1>10, Zenon DEF vars, routerVars, channelVars
<1>. QED
  BY <1>1, <1>2, <1>4, <1>5, <1>6, <1>7, <1>8, <1>9, <1>10, Zenon DEF Next, Input, Timers

-----------------------------------------------------------------------------
(* The hold of a combo is measured on a key that is down all the while.    *)

HoldInv ==
  /\ down \in [Devices -> SUBSET Keys] /\ since \in [Fkeys -> 0 .. HoldTicks]
  /\ repair \in [slot : Slots, age : 0 .. HoldTicks, fired : BOOLEAN]
  /\ comboHeld # None => comboHeld \in Fkeys /\ \E d \in Devices : comboHeld \in down[d]
  /\ repair.slot # LocalSlot =>
       /\ comboHeld # None /\ FkeySlot[comboHeld] = repair.slot
       /\ repair.age <= since[comboHeld]

\* sync_repair_hold keeps the hold of the combo there was, or starts one.
LEMMA SyncKeepsHold ==
  ASSUME HoldInv, SyncRepairHold,
         down' \in [Devices -> SUBSET Keys], since' \in [Fkeys -> 0 .. HoldTicks],
         comboHeld' # None => comboHeld' \in Fkeys /\ \E d \in Devices : comboHeld' \in down'[d],
         comboHeld' # None /\ comboHeld' = comboHeld => since[comboHeld] <= since'[comboHeld]
  PROVE  HoldInv'
<1>. USE RouterAssumption DEF HoldInv
<1>1. CASE repair' = NoHold
  BY <1>1 DEF NoHold
<1>2. CASE repair' # NoHold
  <2>1. /\ comboHeld' # None /\ FkeySlot[comboHeld'] # LocalSlot
        /\ \/ repair' = repair /\ repair.slot = FkeySlot[comboHeld']
           \/ repair' = [slot |-> FkeySlot[comboHeld'], age |-> 0, fired |-> FALSE]
    BY <1>2 DEF SyncRepairHold
  <2>2. comboHeld' \in Fkeys /\ FkeySlot[comboHeld'] \in Slots
    BY <2>1 DEF Slots
  <2>3. CASE repair' = repair /\ repair.slot = FkeySlot[comboHeld']
    <3>1. comboHeld = comboHeld'
      BY <2>1, <2>2, <2>3, KeysAssumption
    <3>2. since[comboHeld] \in 0 .. HoldTicks /\ since'[comboHeld] \in 0 .. HoldTicks
          /\ repair.age \in 0 .. HoldTicks
      BY <2>2, <3>1
    <3>3. repair.age <= since'[comboHeld']
      BY <2>1, <2>3, <3>1, <3>2
    <3>. QED  BY <2>1, <2>2, <2>3, <3>3
  <2>4. CASE repair' = [slot |-> FkeySlot[comboHeld'], age |-> 0, fired |-> FALSE]
    <3>1. since'[comboHeld'] \in 0 .. HoldTicks
      BY <2>2
    <3>. QED  BY <2>1, <2>2, <2>4, <3>1
  <2>. QED  BY <2>1, <2>3, <2>4
<1>. QED  BY <1>1, <1>2

LEMMA KeyDownKeepsHold ==
  ASSUME HoldInv, NEW d \in Devices, NEW k \in Keys, KeyDown(d, k)
  PROVE  HoldInv'
<1>1. /\ down' = [down EXCEPT ![d] = @ \cup {k}] /\ down \in [Devices -> SUBSET Keys]
      /\ down' \in [Devices -> SUBSET Keys]
  BY DEF KeyDown, HoldInv
<1>2. k \in down'[d] /\ \A e \in Devices : down[e] \subseteq down'[e]
  BY <1>1
<1>3. /\ since' \in [Fkeys -> 0 .. HoldTicks] /\ since \in [Fkeys -> 0 .. HoldTicks]
      /\ \A f \in Fkeys : (f # k \/ \E e \in Devices : f \in down[e]) => since'[f] = since[f]
  BY RouterAssumption DEF KeyDown, Restart, HoldInv
<1>4. comboHeld' = comboHeld \/ (comboHeld' = k /\ k \in Fkeys)
  BY DEF KeyDown, SwitchPress, MacroPress, OtherPress, IsSwitch
<1>5. comboHeld' # None => comboHeld' \in Fkeys /\ \E e \in Devices : comboHeld' \in down'[e]
  BY <1>2, <1>4 DEF HoldInv
<1>6. comboHeld # None => since'[comboHeld] = since[comboHeld] /\ since[comboHeld] \in 0 .. HoldTicks
  BY <1>3 DEF HoldInv
<1>7. comboHeld' # None /\ comboHeld' = comboHeld => since[comboHeld] <= since'[comboHeld]
  BY <1>6, RouterAssumption
<1>8. SyncRepairHold
  BY DEF KeyDown
<1>. QED  BY <1>1, <1>3, <1>5, <1>7, <1>8, SyncKeepsHold

LEMMA KeyUpKeepsHold ==
  ASSUME HoldInv, NEW d \in Devices, NEW k \in Keys, KeyUp(d, k)
  PROVE  HoldInv'
<1>1. /\ down' = [down EXCEPT ![d] = @ \ {k}] /\ down \in [Devices -> SUBSET Keys]
      /\ down' \in [Devices -> SUBSET Keys]
  BY DEF KeyUp, HoldInv
<1>2. \A e \in Devices : down[e] \ {k} \subseteq down'[e]
  BY <1>1
<1>3. /\ since' \in [Fkeys -> 0 .. HoldTicks] /\ since \in [Fkeys -> 0 .. HoldTicks]
      /\ \A f \in Fkeys : f # k => since'[f] = since[f]
  BY RouterAssumption DEF KeyUp, Restart, HoldInv
<1>4. comboHeld' = None \/ (comboHeld' = comboHeld /\ comboHeld # k)
  BY DEF KeyUp, Release
<1>5. comboHeld' # None => comboHeld' \in Fkeys /\ \E e \in Devices : comboHeld' \in down'[e]
  BY <1>2, <1>4 DEF HoldInv
<1>6. comboHeld \in Fkeys \ {k} => since'[comboHeld] = since[comboHeld] /\ since[comboHeld] \in 0 .. HoldTicks
  BY <1>3
<1>7. comboHeld' # None /\ comboHeld' = comboHeld => since[comboHeld] <= since'[comboHeld]
  BY <1>4, <1>5, <1>6, RouterAssumption
<1>8. SyncRepairHold
  BY DEF KeyUp
<1>. QED  BY <1>1, <1>3, <1>5, <1>7, <1>8, SyncKeepsHold

\* A tick makes the hold and its key's time down older by as much.
LEMMA TickKeepsHold == HoldInv /\ Tick => HoldInv'
<1>. SUFFICES ASSUME HoldInv, Tick PROVE HoldInv'
  OBVIOUS
<1>. USE RouterAssumption
<1>1. \A n \in 0 .. HoldTicks : Lesser(n + 1, HoldTicks) \in 0 .. HoldTicks
  BY DEF Lesser
<1>2. UNCHANGED <<comboHeld, down>>
  BY DEF Tick, fsmVars
<1>3. since' \in [Fkeys -> 0 .. HoldTicks]
  BY <1>1 DEF Tick, HoldInv
<1>4. comboHeld # None => since'[comboHeld] = Lesser(since[comboHeld] + 1, HoldTicks)
  BY DEF Tick, HoldInv
<1>5. CASE repair.slot = LocalSlot
  <2>1. repair' = repair
    BY <1>5 DEF Tick
  <2>. QED  BY <1>2, <1>3, <1>5, <2>1 DEF HoldInv
<1>6. CASE repair.slot # LocalSlot
  <2>1. repair' = [repair EXCEPT !.age = Lesser(@ + 1, HoldTicks)]
    BY <1>6 DEF Tick
  <2>2. repair' \in [slot : Slots, age : 0 .. HoldTicks, fired : BOOLEAN]
        /\ repair'.slot = repair.slot /\ repair'.age = Lesser(repair.age + 1, HoldTicks)
    BY <1>1, <2>1 DEF HoldInv
  <2>3. repair.age \in 0 .. HoldTicks /\ since[comboHeld] \in 0 .. HoldTicks
        /\ repair.age <= since[comboHeld]
    BY <1>6 DEF HoldInv
  <2>4. repair'.age <= since'[comboHeld]
    BY <1>4, <1>6, <2>2, <2>3 DEF Lesser, HoldInv
  <2>. QED  BY <1>2, <1>3, <1>6, <2>2, <2>4 DEF HoldInv
<1>. QED  BY <1>5, <1>6

LEMMA HoldInvStep == HoldInv /\ [Next]_vars => HoldInv'
<1>. SUFFICES ASSUME HoldInv, [Next]_vars PROVE HoldInv'
  OBVIOUS
<1>1. ASSUME UNCHANGED <<comboHeld, down, since, repair>> PROVE HoldInv'
  BY <1>1 DEF HoldInv
<1>2. ASSUME UNCHANGED <<comboHeld, down, since>>, SyncRepairHold PROVE HoldInv'
  <2>1. comboHeld # None => since[comboHeld] <= since[comboHeld]
    BY RouterAssumption DEF HoldInv
  <2>. QED  BY <1>2, <2>1, SyncKeepsHold DEF HoldInv
<1>3. ASSUME NEW d \in Devices, NEW k \in Keys, KeyRepeat(d, k) PROVE HoldInv'
  BY <1>2, <1>3, Zenon DEF KeyRepeat, Repeat, fsmVars
<1>4. ASSUME NEW d \in Devices, NEW delta \in Deltas, Move(d, delta) PROVE HoldInv'
  BY <1>2, <1>4, Zenon DEF Move, fsmVars
<1>5. ASSUME NEW d \in Devices, Syn(d) PROVE HoldInv'
  BY <1>2, <1>5, Zenon DEF Syn, fsmVars
<1>6. CASE FlushTimer
  BY <1>1, <1>6, Zenon DEF FlushTimer, fsmVars
<1>7. CASE FireRepair
  BY <1>7 DEF FireRepair, HoldInv, fsmVars, worldVars
<1>8. CASE Others
  BY <1>1, <1>8, TickKeepsHold, Zenon
     DEF Others, IntervalPasses, TakeFrame, TakeCmd, TakeHook, TakeRepaint, Rebind,
         fsmVars, routerVars, worldVars
<1>9. CASE UNCHANGED vars
  BY <1>1, <1>9, Zenon DEF vars, fsmVars, routerVars, worldVars
<1>. QED
  BY <1>3, <1>4, <1>5, <1>6, <1>7, <1>8, <1>9, KeyDownKeepsHold, KeyUpKeepsHold, Zenon
     DEF Next, Input, Timers

-----------------------------------------------------------------------------

\* What one step does to a channel.
LEMMA MessageFacts ==
  ASSUME NEW M, NEW N \in SUBSET M, NEW ch \in Seq(M), NEW next, NEW cap,
         \/ next = ch \/ (ch # <<>> /\ next = Tail(ch))
         \/ \E m \in N : next = Offer(ch, m, cap)
  PROVE  next \in Seq(M) /\ Added(ch, next) \subseteq N
<1>1. ASSUME NEW m \in N, next = Offer(ch, m, cap)
      PROVE  next \in Seq(M) /\ Added(ch, next) \subseteq N
  <2>1. m \in M
    OBVIOUS
  <2>. QED  BY <1>1, <2>1, OfferFacts
<1>2. CASE next = ch
  <2>1. Added(ch, ch) = {}
    BY TakenFacts
  <2>. QED  BY <1>2, <2>1
<1>3. CASE ch # <<>> /\ next = Tail(ch)
  <2>1. Tail(ch) \in Seq(M) /\ Added(ch, Tail(ch)) = {}
    BY <1>3, TakenFacts
  <2>. QED  BY <1>3, <2>1
<1>. QED  BY <1>1, <1>2, <1>3

LEMMA OutInvStep ==
  ASSUME OutInv, HoldInv, [Next]_vars
  PROVE  /\ OutInv' /\ Added(hooks, hooks') \subseteq HooksOf(slot')
         /\ FireRepair \/ Added(cmds, cmds') \subseteq OpenCmds
<1>1. Sends
  BY StepSends
<1>2. hooks' \in Seq(HookMsgs) /\ Added(hooks, hooks') \subseteq HooksOf(slot')
  <2>1. HooksOf(slot') \in SUBSET HookMsgs
    BY DEF HooksOf
  <2>. QED  BY <1>1, <2>1, MessageFacts DEF Sends, OutInv
<1>3. CASE FireRepair
  <2>1. [cmd |-> "repair", slot |-> repair.slot] \in Cmds
    BY DEF Cmds, HoldInv
  <2>2. cmds' = Offer(cmds, [cmd |-> "repair", slot |-> repair.slot], CmdCap)
    BY <1>3 DEF FireRepair
  <2>3. cmds' \in Seq(Cmds)
    BY <2>1, <2>2, OfferFacts DEF OutInv
  <2>. QED  BY <1>1, <1>2, <1>3, <2>3 DEF OutInv, Sends
<1>4. CASE ~FireRepair
  <2>1. OpenCmds \in SUBSET Cmds
    BY DEF OpenCmds, Cmds
  <2>2. cmds' \in Seq(Cmds) /\ Added(cmds, cmds') \subseteq OpenCmds
    BY <1>1, <1>4, <2>1, MessageFacts DEF Sends, OutInv
  <2>. QED  BY <1>1, <1>2, <2>2 DEF OutInv, Sends
<1>. QED  BY <1>3, <1>4

LEMMA InitOut == Init => OutInv /\ HoldInv
<1>. SUFFICES ASSUME Init PROVE OutInv /\ HoldInv
  OBVIOUS
<1>. USE RouterAssumption
<1>1. OutInv
  BY DEF Init, OutInv, Remote
<1>2. repair \in [slot : Slots, age : 0 .. HoldTicks, fired : BOOLEAN] /\ repair.slot = LocalSlot
  BY DEF Init, NoHold
<1>3. down \in [Devices -> SUBSET Keys] /\ since \in [Fkeys -> 0 .. HoldTicks] /\ comboHeld = None
  BY DEF Init, FsmInit
<1>. QED  BY <1>1, <1>2, <1>3 DEF HoldInv

\* Shift's hooks run for the slot a step ends on, whatever a failing uinput or a
\* missing binding made of the switch.
THEOREM HooksFollow == Spec => HooksForActiveSlot
<1>1. OutInv /\ HoldInv /\ [Next]_vars =>
        \A m \in Added(hooks, hooks') : m[1] = "slot" => m[2] = slot' /\ Shifts \cap held # {}
  BY OutInvStep DEF HooksOf, FireHooks
<1>2. OutInv /\ HoldInv /\ [Next]_vars => OutInv' /\ HoldInv'
  BY OutInvStep, HoldInvStep
<1>. QED  BY <1>1, <1>2, InitOut, PTL DEF Spec, HooksForActiveSlot

\* A re-pair is asked for only after the F-key of its slot has been down for the
\* whole hold time, on whichever keyboards, and not after a sum of shorter ones.
THEOREM RepairsAfterHold == Spec => RepairOnlyAfterHold
<1>1. OutInv /\ HoldInv /\ [Next]_vars =>
        \A m \in Added(cmds, cmds') : m.cmd = "repair" =>
          \E f \in Fkeys : /\ FkeySlot[f] = m.slot /\ since[f] = HoldTicks
                           /\ \E d \in Devices : f \in down[d]
  <2>. SUFFICES ASSUME OutInv, HoldInv, [Next]_vars, NEW m \in Added(cmds, cmds'), m.cmd = "repair"
                PROVE  \E f \in Fkeys : /\ FkeySlot[f] = m.slot /\ since[f] = HoldTicks
                                        /\ \E d \in Devices : f \in down[d]
    OBVIOUS
  <2>1. FireRepair
    BY OutInvStep DEF OpenCmds
  <2>2. /\ repair.slot # LocalSlot /\ repair.age = HoldTicks
        /\ cmds' = Offer(cmds, [cmd |-> "repair", slot |-> repair.slot], CmdCap)
    BY <2>1 DEF FireRepair
  <2>3. [cmd |-> "repair", slot |-> repair.slot] \in Cmds
    BY DEF Cmds, HoldInv
  <2>4. m.slot = repair.slot
    BY <2>2, <2>3, OfferFacts DEF OutInv
  <2>5. comboHeld \in Fkeys /\ FkeySlot[comboHeld] = repair.slot /\ HoldTicks <= since[comboHeld]
        /\ since[comboHeld] \in 0 .. HoldTicks /\ \E d \in Devices : comboHeld \in down[d]
    BY <2>2 DEF HoldInv
  <2>6. since[comboHeld] = HoldTicks
    BY <2>5, RouterAssumption
  <2>. QED  BY <2>4, <2>5, <2>6
<1>2. OutInv /\ HoldInv /\ [Next]_vars => OutInv' /\ HoldInv'
  BY OutInvStep, HoldInvStep
<1>. QED  BY <1>1, <1>2, InitOut, PTL DEF Spec, RepairOnlyAfterHold

=============================================================================
