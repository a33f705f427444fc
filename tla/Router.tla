-------------------------------- MODULE Router --------------------------------
(***************************************************************************)
(* The router task (src/router.rs): every input event, in the order the    *)
(* device readers put them on one channel, goes through the hotkey state   *)
(* machine and then to the local session or to the translator of the       *)
(* active remote host.  Its outputs are bounded channels written with      *)
(* try_send: HID frames tagged with the slot they are for, Bluetooth       *)
(* commands, hook events, lighting repaints.                               *)
(*                                                                         *)
(* A device sends key and motion events and then a SYN; between a device's *)
(* event and its SYN other devices' events may arrive ("unsynced").        *)
(* Frames only reach the hosts; their order on the channel is that of the  *)
(* sends, so "host" shows at once what each host will have been told when  *)
(* the channel is drained, and "queued" counts the frames still in it.     *)
(***************************************************************************)
EXTENDS HotkeyFsm, Translator, SequencesExt

CONSTANTS
  Devices, KeysOf,      \* the input devices and the keys of each one
  Movers, Deltas,       \* the devices with a motion axis, and their deltas
  LocalSlot, MacSlots,  \* slot 1; slots with a Mac modifier layout
  FrameCap, CmdCap, HookCap, RepaintCap,  \* channel capacities, 0 for none
  HoldTicks,            \* REPAIR_HOLD, in clock ticks
  SinkMayFail,          \* whether writes to uinput may fail
  MaxMotion             \* bound on accumulated motion (model only)

Slots == {FkeySlot[f] : f \in Fkeys}
Remote == Slots \ {LocalSlot}
Keys == UNION {KeysOf[d] : d \in Devices}

ASSUME RouterAssumption ==
  /\ LocalSlot \in Slots /\ MacSlots \subseteq Remote
  /\ KeysOf \in [Devices -> SUBSET Keys]
  /\ Movers \subseteq Devices /\ Deltas \subseteq Int
  /\ {FrameCap, CmdCap, HookCap, RepaintCap, HoldTicks} \subseteq Nat
  /\ SinkMayFail \in BOOLEAN /\ MaxMotion \in Nat

VARIABLES
  \* the router's own state
  slot,        \* the active slot
  t,           \* the translator
  localHeld,   \* keys forwarded as pressed to the local session
  flushAt,     \* a deferred motion flush is armed
  repair,      \* the combo being held: [slot, age, fired], or NoHold
  \* channels and the bindings watch
  queued,      \* frames in the channel to the Bluetooth manager
  cmds, hooks, \* queued Bluetooth commands and hook events
  repaints,    \* queued lighting repaints
  bound,       \* remote slots with a binding
  \* the physical world and the clock
  down,        \* [Devices -> keys physically down]
  unsynced,    \* devices with events not followed by their SYN yet
  quiet,       \* a mouse interval has passed since the last mouse report
  since,       \* [Fkeys -> ticks this F-key has been down]
  \* history: what the targets were told
  host,        \* [Remote -> what the host shows]
  dropped,     \* slots a frame was dropped for: the channel was full
  unflushed,   \* slots left before a pending release was flushed
  owed,        \* motion made on this host since it is active and not sent to it yet
  localDown,   \* keys down in the local session
  sinkLost     \* keys whose release uinput refused

routerVars == <<slot, t, localHeld, flushAt, repair>>
channelVars == <<queued, cmds, hooks, repaints, bound>>
worldVars == <<down, unsynced, quiet, since>>
historyVars == <<host, dropped, unflushed, owed, localDown, sinkLost>>
vars == <<fsmVars, routerVars, channelVars, worldVars, historyVars>>

NoHold == [slot |-> LocalSlot, age |-> 0, fired |-> FALSE]

Released == [mods |-> {}, keys |-> {}, buttons |-> {}, consumer |-> None]

Init ==
  /\ FsmInit
  /\ bound \in SUBSET Remote
  /\ slot \in bound \cup {LocalSlot}   \* restored from the state file
  /\ t = IdleTranslator(slot \in MacSlots)
  /\ localHeld = {} /\ flushAt = FALSE /\ repair = NoHold
  /\ queued = 0 /\ cmds = <<>> /\ hooks = <<>> /\ repaints = 0
  /\ down = [d \in Devices |-> {}] /\ unsynced = {}
  /\ quiet = TRUE                      \* backdated, router.rs:133
  /\ since = [f \in Fkeys |-> 0]
  /\ host = [s \in Remote |-> Released]
  /\ dropped = {} /\ unflushed = {} /\ owed = 0
  /\ localDown = {} /\ sinkLost = {}

-----------------------------------------------------------------------------
(* Outputs *)

\* try_send on a bounded channel: dropped when full.
Offer(channel, msg, cap) == IF Len(channel) < cap THEN Append(channel, msg) ELSE channel

Lesser(m, n) == IF m < n THEN m ELSE n

\* Mutant: the frame channel has no bound.
AcceptAll(frames) == frames

Accepted(frames) == SubSeq(frames, 1, Lesser(FrameCap - queued, Len(frames)))

Show(shown, frame) ==
  CASE frame.report = "keyboard" -> [shown EXCEPT !.mods = frame.mods, !.keys = frame.keys]
    [] frame.report = "mouse"    -> [shown EXCEPT !.buttons = frame.buttons]
    [] frame.report = "consumer" -> [shown EXCEPT !.consumer = frame.usage]

Travel(frames) ==
  FoldLeft(LAMBDA sum, f : IF f.report = "mouse" THEN sum + f.motion ELSE sum, 0, frames)

\* send_frame for each, tagged with the slot that is active now.
SendFrames(frames) ==
  /\ queued' = queued + Len(Accepted(frames))
  /\ host' = [host EXCEPT ![slot] = FoldLeft(Show, @, Accepted(frames))]
  /\ dropped' = IF Len(Accepted(frames)) < Len(frames) THEN dropped \cup {slot} ELSE dropped

SinkOutcomes == IF SinkMayFail THEN BOOLEAN ELSE {TRUE}

\* One write to the local session.
EmitLocal(k, pressed, ok) ==
  /\ localDown' = IF ~ok THEN localDown
                  ELSE IF pressed THEN localDown \cup {k} ELSE localDown \ {k}
  /\ sinkLost' = IF ok \/ pressed THEN sinkLost ELSE sinkLost \cup {k}

\* release_keys: stops at the first write that fails.
ReleaseLocal(keys, ok) ==
  \/ ok /\ localDown' = localDown \ keys /\ UNCHANGED sinkLost
  \/ ~ok /\ \E written \in SUBSET keys :
         /\ written # keys
         /\ localDown' = localDown \ written
         /\ sinkLost' = sinkLost \cup (keys \ written)

-----------------------------------------------------------------------------
(* Remote reports *)

\* Mutant: paced motion is left without a deferred flush.
FlushUnscheduled(tr) ==
  LET now    == tr.buttonsDirty \/ quiet
      mouse  == IF now THEN FlushMouse(tr) ELSE <<>>
      frames == FlushKeyboard(tr) \o FlushConsumer(tr) \o mouse
  IN  /\ SendFrames(frames)
      /\ owed' = owed - Travel(Accepted(frames))
      /\ t' = IF now THEN MouseFlushed(KeysFlushed(tr)) ELSE KeysFlushed(tr)
      /\ flushAt' = (~now /\ flushAt)
      /\ quiet' = (quiet /\ mouse = <<>>)

\* flush_remote with the translator now being tr: keys at once, motion paced.
FlushRemote(tr) ==
  LET now    == tr.buttonsDirty \/ quiet
      mouse  == IF now THEN FlushMouse(tr) ELSE <<>>
      frames == FlushKeyboard(tr) \o FlushConsumer(tr) \o mouse
  IN  /\ SendFrames(frames)
      /\ owed' = owed - Travel(Accepted(frames))
      /\ t' = IF now THEN MouseFlushed(KeysFlushed(tr)) ELSE KeysFlushed(tr)
      /\ flushAt' = (~now /\ (flushAt \/ MotionPending(tr)))
      /\ quiet' = (quiet /\ mouse = <<>>)

\* Mutant: the combo's modifiers stay on the target.
KeepComboMods(mods, ok) ==
  ok /\ UNCHANGED <<t, localHeld, flushAt, queued, quiet, host, dropped, owed, localDown, sinkLost>>

\* release_combo_mods: let go of a swallowed combo's modifiers on the current
\* target.  ok is FALSE when a local write fails, and the handler stops there.
ReleaseComboMods(mods, ok) ==
  \/ /\ slot = LocalSlot
     /\ localHeld' = localHeld \ mods
     /\ ReleaseLocal(mods \cap localHeld, ok)
     /\ UNCHANGED <<t, flushAt, queued, quiet, host, dropped, owed>>
  \/ /\ slot # LocalSlot /\ ok
     /\ FlushRemote(SetMods(t, t.mods \ mods))
     /\ UNCHANGED <<localHeld, localDown, sinkLost>>

-----------------------------------------------------------------------------
(* The verdicts *)

\* switch_to for the slot we are on: re-assert everything that hangs off it.
Reassert(fire, mods) ==
  \E ok \in SinkOutcomes :
    /\ ReleaseComboMods(mods, ok)
    /\ repaints' = IF ok THEN Lesser(repaints + 1, RepaintCap) ELSE repaints
    /\ hooks' = IF ok /\ fire THEN Offer(hooks, <<"slot", slot>>, HookCap) ELSE hooks
    /\ UNCHANGED <<slot, cmds, unflushed>>

\* switch_to for an unbound slot: ask for a pairing window, stay put.
RequestPairing(s, mods) ==
  /\ cmds' = Offer(cmds, [cmd |-> "open", slot |-> s], CmdCap)
  /\ \E ok \in SinkOutcomes : ReleaseComboMods(mods, ok)
  /\ UNCHANGED <<slot, hooks, repaints, unflushed>>

\* Mutants: nothing is released; hooks run before the releases are known to work.
LeaveLocalHeld(s, fire) ==
  /\ localHeld' = {} /\ slot' = s /\ t' = [t EXCEPT !.mac = s \in MacSlots]
  /\ hooks' = IF fire THEN Offer(hooks, <<"slot", s>>, HookCap) ELSE hooks
  /\ UNCHANGED <<flushAt, queued, cmds, repaints, quiet, historyVars>>

LeaveLocalHooksFirst(s, fire) ==
  \E ok \in SinkOutcomes :
    /\ ReleaseLocal(localHeld, ok)
    /\ localHeld' = {}
    /\ slot' = IF ok THEN s ELSE slot
    /\ t' = IF ok THEN [t EXCEPT !.mac = s \in MacSlots] ELSE t
    /\ hooks' = IF fire THEN Offer(hooks, <<"slot", s>>, HookCap) ELSE hooks
    /\ UNCHANGED <<flushAt, queued, cmds, repaints, quiet, host, dropped, unflushed, owed>>

\* switch_to proper, leaving the local session.
LeaveLocal(s, fire) ==
  \E ok \in SinkOutcomes :
    /\ ReleaseLocal(localHeld, ok)
    /\ localHeld' = {}
    /\ slot' = IF ok THEN s ELSE slot
    /\ t' = IF ok THEN [t EXCEPT !.mac = s \in MacSlots] ELSE t
    /\ hooks' = IF ok /\ fire THEN Offer(hooks, <<"slot", s>>, HookCap) ELSE hooks
    /\ UNCHANGED <<flushAt, queued, cmds, repaints, quiet, host, dropped, unflushed, owed>>

\* A release the host has not been sent yet and that releasing everything will
\* not send either: the translator holds nothing of that report any more.
UnflushedRelease ==
  \/ t.kbdDirty /\ t.mods = {} /\ t.keys = {}
  \/ t.buttonsDirty /\ t.buttons = {}
  \/ t.consumerDirty /\ t.consumer = None

\* Mutant: the next target inherits the layout.
LeaveRemoteKeepsLayout(s, fire) ==
  /\ SendFrames(ReleaseAll(t)) /\ t' = IdleTranslator(t.mac)
  /\ flushAt' = FALSE /\ slot' = s /\ owed' = 0
  /\ hooks' = IF fire THEN Offer(hooks, <<"slot", s>>, HookCap) ELSE hooks
  /\ UNCHANGED <<localHeld, cmds, repaints, quiet, unflushed, localDown, sinkLost>>

\* switch_to proper, leaving a remote host: keys and buttons are released, and
\* motion not sent yet is discarded.
LeaveRemote(s, fire) ==
  /\ SendFrames(ReleaseAll(t))
  /\ t' = IdleTranslator(s \in MacSlots)
  /\ flushAt' = FALSE
  /\ slot' = s
  /\ hooks' = IF fire THEN Offer(hooks, <<"slot", s>>, HookCap) ELSE hooks
  /\ unflushed' = IF UnflushedRelease THEN unflushed \cup {slot} ELSE unflushed
  /\ owed' = 0
  /\ UNCHANGED <<localHeld, cmds, repaints, quiet, localDown, sinkLost>>

SwitchTo(s, fire, mods) ==
  \/ s = slot /\ Reassert(fire, mods)
  \/ s # slot /\ s \notin bound \cup {LocalSlot} /\ RequestPairing(s, mods)
  \/ s # slot /\ s \in bound \cup {LocalSlot} /\ slot = LocalSlot /\ LeaveLocal(s, fire)
  \/ s # slot /\ s \in bound \cup {LocalSlot} /\ slot # LocalSlot /\ LeaveRemote(s, fire)

RunMacro(index, mods) ==
  \E ok \in SinkOutcomes :
    /\ ReleaseComboMods(mods, ok)
    /\ hooks' = IF ok THEN Offer(hooks, <<"macro", index>>, HookCap) ELSE hooks
    /\ UNCHANGED <<slot, cmds, repaints, unflushed>>

Swallow ==
  UNCHANGED <<slot, t, localHeld, flushAt, queued, cmds, hooks, repaints, quiet, historyVars>>

\* Verdict::Pass, to the active target.
Pass(k, pressed) ==
  \/ /\ slot = LocalSlot
     /\ localHeld' = IF pressed THEN localHeld \cup {k} ELSE localHeld \ {k}
     /\ \E ok \in SinkOutcomes : EmitLocal(k, pressed, ok)
     /\ UNCHANGED <<slot, t, flushAt, queued, cmds, hooks, repaints, quiet,
                    host, dropped, unflushed, owed>>
  \/ /\ slot # LocalSlot
     /\ t' = IF pressed THEN KeyPressed(t, k) ELSE KeyReleased(t, k)
     /\ UNCHANGED <<slot, localHeld, flushAt, queued, cmds, hooks, repaints, quiet, historyVars>>

\* Mutants: the hold outlives the combo; every event restarts it.
HoldStays ==
  LET s == IF comboHeld' = None THEN LocalSlot ELSE FkeySlot[comboHeld']
  IN  repair' = IF s \in {LocalSlot, repair.slot} THEN repair
                ELSE [slot |-> s, age |-> 0, fired |-> FALSE]
HoldRestarts ==
  LET s == IF comboHeld' = None THEN LocalSlot ELSE FkeySlot[comboHeld']
  IN  repair' = [slot |-> s, age |-> 0, fired |-> FALSE]

\* sync_repair_hold, after the state machine has taken the event.
SyncRepairHold ==
  LET s == IF comboHeld' = None THEN LocalSlot ELSE FkeySlot[comboHeld']
  IN  repair' = IF s = LocalSlot THEN NoHold
                ELSE IF repair.slot = s THEN repair
                ELSE [slot |-> s, age |-> 0, fired |-> FALSE]

-----------------------------------------------------------------------------
(* Input events.  A device's own events are well formed. *)

Restart(k) == since' = IF k \in Fkeys THEN [since EXCEPT ![k] = 0] ELSE since

KeyDown(d, k) ==
  /\ k \in KeysOf[d] \ down[d]
  /\ down' = [down EXCEPT ![d] = @ \cup {k}]
  /\ unsynced' = unsynced \cup {d}
  /\ IF \E e \in Devices : k \in down[e] THEN UNCHANGED since ELSE Restart(k)
  /\ \/ SwitchPress(k) /\ SwitchTo(FkeySlot[k], FireHooks, SwitchMods)
     \/ MacroPress(k) /\ RunMacro(Macros[Combo(k)], MacroMods)
     \/ OtherPress(k) /\ Swallowed(k) /\ Swallow
     \/ OtherPress(k) /\ ~Swallowed(k) /\ Pass(k, TRUE)
  /\ SyncRepairHold
  /\ UNCHANGED bound

\* Autorepeat: swallowed, passed to a local session that does not change, or
\* ignored by the translator.
KeyRepeat(d, k) ==
  /\ k \in down[d]
  /\ unsynced' = unsynced \cup {d}
  /\ Repeat(k)
  /\ SyncRepairHold
  /\ UNCHANGED <<slot, t, localHeld, flushAt, channelVars, down, quiet, since, historyVars>>

KeyUp(d, k) ==
  /\ k \in down[d]
  /\ down' = [down EXCEPT ![d] = @ \ {k}]
  /\ unsynced' = unsynced \cup {d}
  /\ IF \E e \in Devices \ {d} : k \in down[e] THEN UNCHANGED since ELSE Restart(k)
  /\ Release(k)
  /\ \/ Swallowed(k) /\ Swallow
     \/ ~Swallowed(k) /\ Pass(k, FALSE)
  /\ SyncRepairHold
  /\ UNCHANGED bound

\* A relative-axis event; the local session takes it as it is.
Move(d, delta) ==
  /\ d \in Movers
  /\ unsynced' = unsynced \cup {d}
  /\ t.motion + delta \in -MaxMotion .. MaxMotion
  /\ \/ slot = LocalSlot /\ UNCHANGED <<t, owed>>
     \/ slot # LocalSlot /\ t' = Moved(t, delta) /\ owed' = owed + delta
  /\ UNCHANGED fsmVars
  /\ SyncRepairHold
  /\ UNCHANGED <<slot, localHeld, flushAt, channelVars, down, quiet, since,
                 host, dropped, unflushed, localDown, sinkLost>>

Syn(d) ==
  /\ d \in unsynced
  /\ unsynced' = unsynced \ {d}
  /\ \/ slot = LocalSlot
        /\ UNCHANGED <<t, flushAt, queued, quiet, host, dropped, owed>>
     \/ slot # LocalSlot /\ FlushRemote(t)
  /\ UNCHANGED fsmVars
  /\ SyncRepairHold
  /\ UNCHANGED <<slot, localHeld, cmds, hooks, repaints, bound, down, since,
                 unflushed, localDown, sinkLost>>

-----------------------------------------------------------------------------
(* The router's timers *)

\* flush_mouse_now, when the deferred flush is due.
FlushTimer ==
  /\ flushAt /\ quiet
  /\ LET frames == FlushMouse(t)
     IN  /\ SendFrames(frames)
         /\ owed' = owed - Travel(Accepted(frames))
         /\ quiet' = (frames = <<>>)
  /\ t' = MouseFlushed(t)
  /\ flushAt' = FALSE
  /\ UNCHANGED <<fsmVars, slot, localHeld, repair, cmds, hooks, repaints, bound,
                 down, unsynced, since, unflushed, localDown, sinkLost>>

\* The combo has been held long enough: ask for a re-pair, once per hold.
FireRepair ==
  /\ repair.slot # LocalSlot /\ ~repair.fired /\ repair.age = HoldTicks
  /\ repair' = [repair EXCEPT !.fired = TRUE]
  /\ cmds' = Offer(cmds, [cmd |-> "repair", slot |-> repair.slot], CmdCap)
  /\ UNCHANGED <<fsmVars, slot, t, localHeld, flushAt, queued, hooks, repaints, bound,
                 worldVars, historyVars>>

\* A tick of the clock that REPAIR_HOLD is measured on.
Tick ==
  /\ since' = [f \in Fkeys |-> IF \E d \in Devices : f \in down[d]
                               THEN Lesser(since[f] + 1, HoldTicks) ELSE 0]
  /\ repair' = IF repair.slot = LocalSlot THEN repair
               ELSE [repair EXCEPT !.age = Lesser(@ + 1, HoldTicks)]
  /\ <<since, repair>>' # <<since, repair>>
  /\ UNCHANGED <<fsmVars, slot, t, localHeld, flushAt, channelVars,
                 down, unsynced, quiet, historyVars>>

IntervalPasses ==
  /\ ~quiet
  /\ quiet' = TRUE
  /\ UNCHANGED <<fsmVars, routerVars, channelVars, down, unsynced, since, historyVars>>

-----------------------------------------------------------------------------
(* The tasks at the other ends of the channels *)

TakeFrame ==
  /\ queued > 0
  /\ queued' = queued - 1
  /\ UNCHANGED <<fsmVars, routerVars, cmds, hooks, repaints, bound, worldVars, historyVars>>

TakeCmd ==
  /\ cmds # <<>>
  /\ cmds' = Tail(cmds)
  /\ UNCHANGED <<fsmVars, routerVars, queued, hooks, repaints, bound, worldVars, historyVars>>

TakeHook ==
  /\ hooks # <<>>
  /\ hooks' = Tail(hooks)
  /\ UNCHANGED <<fsmVars, routerVars, queued, cmds, repaints, bound, worldVars, historyVars>>

TakeRepaint ==
  /\ repaints > 0
  /\ repaints' = repaints - 1
  /\ UNCHANGED <<fsmVars, routerVars, queued, cmds, hooks, bound, worldVars, historyVars>>

\* The Bluetooth manager binds a slot, or forgets one: even the active one.
Rebind ==
  /\ \E s \in Remote : bound' \in {bound \cup {s}, bound \ {s}} \ {bound}
  /\ UNCHANGED <<fsmVars, routerVars, queued, cmds, hooks, repaints, worldVars, historyVars>>

Input ==
  \/ \E d \in Devices, k \in Keys : KeyDown(d, k) \/ KeyRepeat(d, k) \/ KeyUp(d, k)
  \/ \E d \in Devices, delta \in Deltas : Move(d, delta)
  \/ \E d \in Devices : Syn(d)

Timers == FlushTimer \/ FireRepair

Others == Tick \/ IntervalPasses \/ TakeFrame \/ TakeCmd \/ TakeHook \/ TakeRepaint \/ Rebind

Next == Input \/ Timers \/ Others

Spec == Init /\ [][Next]_vars

\* The device follows its events with a SYN (kernel evdev); tokio's select!
\* takes each ready branch with positive probability; the clock advances.
Fairness ==
  /\ \A d \in Devices : WF_vars(Syn(d))
  /\ WF_vars(FireRepair) /\ WF_vars(Tick)

FairSpec == Spec /\ Fairness

-----------------------------------------------------------------------------
(* The abstract specification this one implements. *)

\* The keys the active target has been told are down.  With one spelling per
\* mouse button, a bit stands for one button.
Tracked ==
  t.mods \cup t.keys \cup {b \in Buttons : ButtonBit[b] \in t.buttons}
    \cup ({t.consumer} \ {None})

ActiveTarget == IF slot = LocalSlot THEN localHeld ELSE Tracked

HotkeyLayer == INSTANCE Hotkey WITH target <- ActiveTarget

\* The router keeps the promise of the hotkey layer whatever the target is, so
\* what Hotkey.tla proves of "target" holds of the local session and of every
\* remote host in turn.
HotkeySpec == HotkeyLayer!Spec

-----------------------------------------------------------------------------
(* Safety *)

Hosts == [mods : SUBSET AllModifiers, keys : SUBSET PlainKeys,
          buttons : SUBSET Bits, consumer : MediaKeys \cup {None}]

RouterTypeOK ==
  /\ slot \in Slots /\ t \in Translators /\ localHeld \subseteq Keys
  /\ flushAt \in BOOLEAN
  /\ repair \in [slot : Slots, age : 0 .. HoldTicks, fired : BOOLEAN]

TypeOK ==
  /\ held \subseteq Keys /\ suppressed \subseteq Keys /\ comboHeld \in Fkeys \cup {None}
  /\ RouterTypeOK
  /\ queued \in 0 .. FrameCap /\ Len(cmds) <= CmdCap /\ Len(hooks) <= HookCap
  /\ repaints \in 0 .. RepaintCap /\ bound \subseteq Remote
  /\ down \in [Devices -> SUBSET Keys] /\ unsynced \subseteq Devices
  /\ quiet \in BOOLEAN /\ since \in [Fkeys -> 0 .. HoldTicks]
  /\ host \in [Remote -> Hosts] /\ dropped \subseteq Remote /\ unflushed \subseteq Remote
  /\ owed \in Int /\ localDown \subseteq Keys /\ sinkLost \subseteq Keys

\* While the local session is active the remote side is clean: the translator
\* is idle, in the plain layout, and no flush is armed.  Otherwise the next
\* switch would carry held keys or stale motion to another machine.
LocalIsIdle == slot = LocalSlot => t = IdleTranslator(FALSE) /\ ~flushAt

\* While a remote host is active nothing is counted as held locally, and the
\* local session holds down only what is tracked or what uinput refused.
LocalReleased ==
  /\ slot # LocalSlot => localHeld = {}
  /\ localDown \subseteq localHeld \cup sinkLost

\* "Release everything on the target we are leaving" (router.rs:355): a host
\* that is not active holds nothing down.  The two ways the code can fail it
\* are the exceptions: a frame dropped at a full channel, and a release the
\* host had not been sent when the switch cleared it (translate.rs:198-201).
InactiveHostsReleased ==
  \A s \in Remote \ ({slot} \cup dropped \cup unflushed) : host[s] = Released

\* Once every device has sent its SYN, the active host shows what the
\* translator tracks, in that host's own layout: no event is lost on the way,
\* whatever combos, macros or switches came in between.
ActiveHostShowsTracked ==
  slot \in Remote \ (dropped \cup unflushed) /\ unsynced = {} =>
    host[slot] = [mods |-> IF slot \in MacSlots THEN {SwapAltGui(k) : k \in t.mods} ELSE t.mods,
                  keys |-> t.keys, buttons |-> t.buttons, consumer |-> t.consumer]

\* End to end: hands off every keyboard and mouse, nothing is down anywhere.
HandsOff ==
  (\A d \in Devices : down[d] = {}) /\ unsynced = {} =>
    /\ \A s \in Remote \ (dropped \cup unflushed) : host[s] = Released
    /\ localDown \subseteq sinkLost

\* Pacing never loses distance (translate.rs:155): all the motion made on the
\* active host is in a frame sent to it or is still accumulated for it.  Exempt
\* is a host a frame was dropped for at the full channel; and what is pending
\* when a host is left is discarded with it (release_all), not kept.
MotionKept == slot \in Remote \ dropped => owed = t.motion

\* Accumulated motion always has a flush coming once the device's SYN is in.
MotionScheduled ==
  slot # LocalSlot /\ MotionPending(t) /\ unsynced = {} => flushAt

(* What a step may never do *)

Added(old, new) == IF Len(new) > Len(old) THEN {new[Len(new)]} ELSE {}

\* A re-pair, which costs a pairing, is asked for only for a slot whose F-key
\* has been physically down for the whole hold time (router.rs:64-67).
RepairOnlyAfterHold ==
  [][\A m \in Added(cmds, cmds') : m.cmd = "repair" =>
       \E f \in Fkeys : /\ FkeySlot[f] = m.slot /\ since[f] = HoldTicks
                        /\ \E d \in Devices : f \in down[d]]_vars

\* Hooks run only with Shift and only for the slot the step ends on.
HooksForActiveSlot ==
  [][\A m \in Added(hooks, hooks') : m[1] = "slot" =>
       m[2] = slot' /\ Shifts \cap held # {}]_vars

(* Liveness *)

\* Holding the combo long enough asks for the re-pair.
HoldFires ==
  \A s \in Remote :
    (repair.slot = s /\ ~repair.fired) ~> (repair.fired \/ repair.slot # s)

(* What documents say and the code does not do *)

\* "Release everything -- sent to the old target when switching away so no key
\* or button stays stuck" (translate.rs:179-180), with room on the channel.
LeavingReleases == \A s \in Remote \ ({slot} \cup dropped) : host[s] = Released

\* "Pressing the combo for an unbound slot opens a 60 s pairing window"
\* (README.md:10-11), with room on the channel.
UnboundComboPairs ==
  [][\A d \in Devices : \A k \in Fkeys \cap (down'[d] \ down[d]) :
       IsSwitch(k) /\ FkeySlot[k] \in Remote \ bound =>
         cmds' = Offer(cmds, [cmd |-> "open", slot |-> FkeySlot[k]], CmdCap)]_vars

=============================================================================
