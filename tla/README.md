# Verification of km-hub

km-hub takes the keyboards and mice of one machine and switches them between
that machine and other hosts over Bluetooth. These TLA+ modules model its tasks
as the code under `src/src/` has them; TLC checks them on small desks and TLAPS
proves some of the results for every desk.

## The system

| Part | State | Operations | Talks to |
|---|---|---|---|
| Input devices (`input/mod.rs`) | one reader task per grabbed device | read, forward | router, one channel of 256 for all devices |
| Local session (`input/mod.rs`, `LocalSink`) | a uinput device | `emit`, `release_keys`; both may fail | called by the router |
| Hotkey state machine (`input/hotkey.rs`) | `held`, `suppressed`, `combo_held` | `on_key` | called by the router |
| Translator (`hid/translate.rs`) | what the active remote host has been told, dirty flags, motion | `handle_key`, `handle_rel`, the flushes, `release_all` | called by the router |
| Router (`router.rs`) | active slot, local held keys, motion flush deadline, re-pair timer | `handle`, `switch_to`, `run_macro`, `flush_remote`, `fire_repair` | frames, commands, hook events, repaints by `try_send`; slot by `watch`; bindings from a `watch` |
| Bluetooth manager (`bt/mod.rs`) | bindings, pairing window, pending host, advertisement, stuck / kicked / helped / evicted hosts | its select loop of frames, commands, slot changes, attaching hosts, a 1 s poll | transports, BlueZ, lighting, state file |
| Replay buffer (`bt/replay.rs`) | frames held for a reconnecting host | `push`, `take` | called by the manager |
| GATT and L2CAP transports (`bt/gatt.rs`, `bt/transport.rs`) | subscriptions per host and report; connections per host | accept, send, drop, re-register, dial | hosts |
| Lighting (`rgb/`) | animation, idle gate, connection to OpenRGB | events, ticks, enumerate, apply | OpenRGB server |
| Hooks (`hooks.rs`) | commands in flight | spawn, reap, time out | the operating system |
| State file (`state.rs`) | bindings and active slot on disk | load, save | called at start and by the manager |

Configuration parsing, the HID descriptors, the SDP record, the pairing agent, the
lighting wire format and the macro tool keep no state of the running hub and are
not modelled.

What is hard in it: several devices feed one state machine through one channel,
so their events interleave in orders no test writes down; a combo is recognised
only after its modifiers have been forwarded, and the three places that release
them must between them cover every path; every output channel is bounded and
drops when full; a switch hands a stream of frames from one host to another that
takes a second to come back; three timers run in the router and more in the
manager; and the local session and BlueZ can fail at any step. `hazards` in
`PROJECT.json` lists each place in the code where this bites, with the
properties that would catch it.

What makes each part correct:

- hotkey layer: a target holds down only what is physically down, whatever
  combos were pressed on whichever device in between;
- translator: after its flush the host shows what the translator tracks, in the
  host's layout, and no motion is lost by pacing or splitting;
- router: only the active target holds anything; hooks, pairing windows and
  re-pairs happen for the slot and the press the user meant;
- manager: frames of a switch reach the right host in order or are dropped as a
  whole; the adapter is exposed only as long as a window says so, and a window binds
  one host; a host that is away can come back; recovery of silent hosts ends, and
  neither loops nor harms other hosts; on the way down hosts leave before the
  application does;
- lighting and hooks: show the truth in the end, bounded, never in the way.

## Modules

`KeyTables` names the keys: which are modifiers, which F-key selects which slot.

`HotkeyFsm` is `HotkeyFsm::on_key`: `held`, `suppressed` and `comboHeld` are the
struct's fields, with one action per branch: `SwitchPress`, `MacroPress`,
`OtherPress`, `Repeat`, `Release`. The verdict of the last three is Swallow
exactly when the key is in `suppressed` before the event.

`Hotkey` is the abstract specification: the state machine, the devices feeding
it, and `target`, the keys the active machine has been told are down, whichever
machine that is. It says what the router may do to the target on each outcome,
and leaves open what it does not promise (a target may have no room for a key).

`Translator` is `hid::Translator` as a record and operators on it. Keys stand for
their HID usages; the key array is a set of at most `Rollover` keys, since hosts
read no order into it; one motion axis stands for `dx`, `dy` and `wheel`, which
the code treats alike. `ShownMods` is the Mac layout, applied when a frame is
built as in the code.

`Router` composes the state machine and the translator into the router task.
Each event handler is one action: it contains the verdict, the releases, the
frames, and the `sync_repair_hold` that follows every event. A handler that
returns early with `?` stops at that point in the model too (`ok` is FALSE). The
channels are counters or sequences with a capacity; a `try_send` on a full one
drops. Frames act on nothing but the hosts and the channel keeps their order, so
`host` shows at once what each host will have been told when the channel is
drained, and `queued` holds the number still in it. `IntervalPasses` and `Tick`
are the clocks. `Rebind` is the manager binding or forgetting a slot at any time.
History variables (`host`, `dropped`, `unflushed`, `owed`, `localDown`,
`sinkLost`) record what the targets were told; no guard reads them.

| Code | Model |
|---|---|
| `Router::slot`, `translator`, `local_held`, `mouse_flush_at`, `repair_hold` | `slot`, `t`, `localHeld`, `flushAt`, `repair` |
| `mouse_last_sent + mouse_interval` | `quiet`: the interval has passed |
| `handle`, key event of value 1 / 2 / 0 | `KeyDown` / `KeyRepeat` / `KeyUp` |
| `handle`, relative axis / SYN | `Move` / `Syn` |
| `switch_to` | `SwitchTo` = `Reassert`, `RequestPairing`, `LeaveLocal`, `LeaveRemote` |
| `run_macro`, `release_combo_mods`, `flush_remote` | the operators of those names |
| the timers of `run` | `FlushTimer`, `FireRepair` |

Left out of the router: `activity.ping` (it only restarts the lighting's idle
countdown), logging, counters of dropped frames, and the slot watch, which
belongs to the hand-off to the manager.

`Handoff` is what happens at the other end: the frame channel with its slot tags,
the slot watch (a flag, since it keeps the newest value only), the manager's
`active`, its pending host with the replay buffer, and the subscriptions of the
GATT transport. The router is reduced to what the channel sees of it: a report for
the active host, or a switch with its releases. Three points of the manager's loop
are worth telling apart from the code's text:

- `on_slot_change` waits (sends, D-Bus, the advertisement) while router and hosts
  run on, so it is three actions: `BeginSwitch`, then `Drain` per queued frame, then
  `Arm` and `DropOld`. The frame that showed the switch, if it was a frame, is
  carried along in `switching` and routed at the end, as the code does.
- A handler that sends several frames may fail at any of them. The operators from
  `SendTo` to `OnSubscribed` take the state a handler has so far (`Air`) and give the
  set of states it may leave.
- A subscription is `"live"`, or `"dead"` when its session is over and the close
  notice has not been handled: for the code it counts as subscribed until then.

Bindings are fixed and no pairing window is open; a host stands for its slot. That
BlueZ reports a link, and a host coming back at all, is the environment's
(`LinkUp`, `LinkDown`): hosts may connect whenever they like, which is more than the
advertisement allows. `evicted` is a choice of whom the eviction sweep skips. The
stuck-host remedies appear as what they do here, a link that goes down or
subscriptions that end. History: `told` is the last state queued for a host, `behind`,
`cut` and `overtaken` name the reports a property must exempt, and why.

| Code | Model |
|---|---|
| `frame_rx`, `slot_rx.has_changed()` | `frames`, `changed` (the watch's value is `slot`) |
| `Manager::active_slot`, `pending` | `active`, `pending` |
| `ReplayBuffer::frames`, `last_mouse_buttons` | `pending.buffer`, `pending.buttons` |
| `LeTransport::peers`: `subs`, `last_mouse_buttons` | `subs`, `last` |
| `run`'s frame branch | `TakeFrame`, `SwitchByFrame` |
| `run`'s watch, accept and poll branches | `SwitchByWatch`, `Subscribe` and `Closed`, `PollUninvited` and `GiveUp` |

### The manager apart from its frames

Four modules, each extending the one before or beside it:

- `Bluez` is the environment, bluetoothd, the adapter and the hosts, written from how
  the code in `bt/` uses them: pairings with or without a stored key, links, pending
  disconnects, subscriptions as the host sees them, who can see the adapter. It
  links, pairs, drops and forgets by itself. Stock bluetoothd's memory of a host's
  notifications (`swallowed`), for which the stuck-host remedies exist, is part of it,
  and so is a `Connected` that does not show a link (`unseen`): it lags behind a fast
  reconnect (`bt/mod.rs:652-654`), and a read that fails counts as a host that is away
  (`bt/mod.rs:621`, `bt/gatt.rs:617`).
- `Transport` is `gatt.rs` and `transport.rs` as the manager sees them. A subscription
  and the notice of its end carry a generation in the code; all that the code does
  with it is compare, so the model has the notice of the recorded subscription
  (implied by the session not being open) and the notices of replaced ones (`late`).
  On classic, a control channel is parked until an interrupt channel comes.
- `StateFile` is `state.rs`: what is loaded, merged with the configuration, written.
- `BtManager` is the select loop: commands, incoming hosts, notices, the dial, slot
  changes, the poll, the shutdown, crashes and restarts.

Handlers run one at a time, as in the loop. The poll is four actions, because it
reads who is connected once and acts on that snapshot (`connected`) over several
awaits while hosts move on. A re-pair is three (unbound in memory; disconnected and
removed; saved, with a window opened), and so is the shutdown; a crash may come between
any two. The dial is a task of its own: it reads the pairing (`DialReads`), and the loop
acts on what it read later. Clocks count polls, which come once a second.

A call to bluetoothd may fail, with what the code does then:
reading who is paired (part of it is missing), making the adapter pairable or not, visible
or not, registering the advertisement or asking whether it is still there, disconnecting,
removing a pairing, reading whether a host is bonded (a window then binds nobody at this poll,
an attaching host is rejected), paired, connected, or which hosts there are. At most one call fails in one step of a handler (`Fault`, counted by the setup's
`faults`). An advertisement whose handle is dropped stays on air until bluetoothd has
unregistered it (`Unregistered`; `bt/mod.rs:173-175`).

| Code | Model |
|---|---|
| `Manager::pairing` / `advertisement` | `window` / `adv` |
| `stuck`, `kicked`, `helped`, `evicted`, `last_reregister` | `stuck`, `kicked`, `helped`, `evicted`, `cooldown` |
| the dial task: its target, what it read, the back-off | `dialing`, `found`, `redial` |
| the slot and the host of a re-pair under way | `job` |
| `open_window`, `settle_window`, `close_window`, `bind` | `OpenWindow`, `SettleWindow`, `CloseWindow`, `Bind` |
| `repair_slot` | `RepairSlot`, `RemovePairing`, `OpenRepaired` |
| `heal_stale_binding`, `on_incoming_peer`, `on_slot_change` | the definitions of those names |
| `poll_window`, `poll_uninvited`, `poll_stuck_hosts` | the definitions of those names |
| `apply_advertising` at the poll | `PollAdvertising` |
| the end of `run`, the drop of the process, the start of `run` | `Cancel`, `DisconnectAll`, `Exit`; `Crash`; `Start` |
| `SlotBindings`, `from_config`, `state.toml` | `bindings`, `preset`, `file` |

`Local` (0) is the local slot, slot 1 of the code; the remote slots of the model
count from 1. History variables, of which only `excused` is read by a guard:

- `tries`: the re-registrations made for one connection; `forgotten`: hosts whose notes the
  hub dropped while their link stayed;
- `exposed`, `bared`: the adapter left pairable, or discoverable, by a call that failed or by
  a crash;
- `missed`: bound hosts with a link that this tick's reading of `Connected` did not show;
- `excused`: hosts the shutdown did not get rid of, each for one of the four reasons that
  `HostsLeaveFirst` names.

Two bounds on the environment hold in every setup without the habit `race`, and are named:
`Between`, hosts and bluetoothd move between handlers and not amid a poll; and `InTime`, a
second is long enough for a bound host to finish what it is at (`Prompt`). The second is
stricter than the code, whose poll comes whatever hosts do and whose disconnects may take two
seconds; it keeps the other setups small. The setups with `race` have neither. `Exit` waits
until each disconnect the shutdown asked for is answered, by success or by failure, as
`join_all` does; a disconnect asked for earlier (`drop_peer`), of a host the shutdown did
not see, is not waited for, which is why its guard reads `excused`.

`PairingWindows` is the abstract specification of pairing: one window at a time, one
new host per window, a window ends, what was learned survives a restart except where
the configuration says otherwise. `BtManager` implements it (`PairingSpec`); the refinement
mapping is `Phase` for the window and `Kept` for the bindings: amid a re-pair what a
restart would restore, the slot's old host, until the file says that the slot is free.

### The services

- `Lights` is `Lights` in `rgb/mod.rs`: the active slot's color, blink and flash, the
  idle gate with its fade; three timers over one frame, any subset of which a tick may
  find due.
- `Lighting` is the task: connecting, enumerating, applying, waiting. Each wait for a
  reply is a state of its own (`at`), so that the server and the desk may change in it,
  and each error path leads to the retry. The server and what its devices show are the
  environment.
- `Hooks` is the task that runs commands: the channel, the bound on commands in flight,
  time limits, reaping, the stop.
- `Services` composes them as `main.rs` does. The manager in it is `PairingWindows`: each
  step of a window is followed by the `try_send` of `notify_rgb`, which drops when the
  channel is full (`missed` records that). What `BtManager` is shown to implement is thus
  exactly what the lighting is checked against.

| Code | Model |
|---|---|
| `Lights::slot`, `anim`, `gate`, `fade`, the three deadlines | `slot`, `anim`, `level` and `dark`, `armed` |
| `Conn::targets` with `pushed` and the modes remembered, `last_sent` | `targets`, `last` |
| `run`: the connect, `apply` and `select!` of a round | `Connect` to `EnumerationFails`, `Apply`, the actions under "What the loop waits for" |
| `hooks.rs` `run`: `running`, the channel | `busy` and `done`, `requests` |

`MCHotkey`, `MCRouter`, `MCHandoff`, `MCBtManager` and `MCServices` define small desks;
the `.cfg` files choose one.

## Runs

| Run | Desk | Shows |
|---|---|---|
| `hotkey_two_keyboards` | two keyboards sharing some keys, two macros | the three sets agree; nothing stays stuck on the target although one keyboard's release is swallowed; keys only one keyboard has are there only while held and not swallowed |
| `router_keys` | one keyboard, the local slot, a host, a host with a Mac layout, a rollover of one | the local side leaves nothing on the remote side, the host left is released, the active one shows what is tracked, in its layout; the router implements `Hotkey` |
| `router_reports` | media keys, a mouse with a button and motion, two hosts | motion is kept and has a flush coming; buttons and media keys are shown, and nothing is once hands are off |
| `router_repair` | two keyboards sharing an F-key | re-pair after the whole hold, once, and always |
| `router_hooks` | Shift, a macro, uinput failing anywhere | what the local session holds is tracked; hooks only for the active slot |
| `router_unflushed` | keyboard and mouse | a violation: see findings |
| `router_unbound` | one keyboard | a violation: see findings |
| `handoff_replay` | one host, two reports, every fault | a press never arrives without its release, whatever send or subscription fails; what was typed and clicked during a reconnect is shown after it; per-report replay and the motion filter lose no state |
| `handoff_switches` | two hosts and the local slot, one connection at a time or all kept | the old host is released before it is dropped; frames are held for the new host only, however fast the switches come; frames follow their tag |
| `handoff_order` | one host | a violation: see findings |
| `manager` | two hosts, two slots, LE with all hosts or one, classic; seventeen setups | the adapter is pairable, and visible, only while a window says so; a live session is recorded whatever notices come late; bindings go only for a re-pair, a restart or a dial of that host; silent hosts are dealt with, once, and not at the cost of a host that works and is shown; an expected host can come; hosts leave before the application; the manager implements `PairingWindows`; each but for the exemptions it names |
| `services` | two devices, three slots, windows, a server that comes and goes, commands that hang; six setups | every listed device shows the frame when the task waits; it blinks exactly while a window is open; fades and flashes end; the server is found again; commands get their places back |

Bounds. One key of each modifier is enough where the code treats left and right
alike; two slots show local to remote and back, three show remote to remote.
Two devices are enough for every property that speaks of "some device" or
"another device", and `HotkeyProofs` removes that bound for the hotkey layer.
`FrameCap` is 1, 2 or 4 instead of 64, so that the channel fills within a handler
that sends two frames; `HoldTicks` is 2, so that there is a state before, at and
between the ends of a hold; `Chunk` is 1 instead of 127, so that two steps of
motion are already split; `MaxMotion` bounds only what one interval accumulates.
In `Handoff` the frame
channel takes up to 3 and the replay buffer up to 2 frames instead of 64: enough for
a frame that shows a switch with a press and a release behind it, and for a buffer
that must choose what to drop. Reports carry two states, something down and nothing.
`FewAtOnce` leaves out the rest of a behaviour in which frames were reordered
(`handoff_order` shows what comes of it) and a second host on its way out;
`HostSymmetry` is sound since no definition names a host. `Setups` gives the
configurations and the faults a run explores side by side; each behaviour has one.
`Rollover` is 1 where the limit is the question and 6 elsewhere. The constraints
in `MCRouter` cut behaviours where the property has been excused already
(`NothingExcused`, `FewLosses`) or fix who is bound (`HostActive`, `NoneBound`).

In `manager` a window lasts 2 polls instead of 60, silence 1 instead of 3, a
kick is remembered for 4 instead of 30, and the cooldowns of re-registering and of
evictions are 2 instead of 10 and 5: the order of what runs out is kept where it
matters (a kick is remembered longer than a host takes to be silent again and than
the cooldown lasts), and each clock has a state before, at and after its end. Two
slots show one host giving way to the other and one host silent while the other
works. Each setup in `MCBtManager` asks one question (its comment says which) with
the habits, commands, failures and restarts it takes; the habits that no question
combines are not combined, which is what keeps the run at some 200,000 states and two to three
minutes. `Setups`
likewise in `MCServices`: the timers without a server, the server without timers, then
both. A fade takes 2 steps out and 1 in instead of 24 and 7, which leaves a level
between dark and lit to turn round at; a flash has the 3 half-periods after the first that
it has in the code; the lighting's channel holds 2 instead of 8, so that three events fill it; 3
commands run at once instead of 16, so that a slot with two hooks does not fit twice.

Fairness (`FairSpec`, used by `router_repair`). Weak fairness of `Syn`: the kernel
ends every batch of events with a SYN. Of `FireRepair`: it is a branch of a
`tokio::select!` that picks among the ready ones at random, and stays ready until
taken. Of `Tick`: time passes. No fairness is assumed of users, or of the tasks at the other ends of
the channels.

`manager` (`StuckHandled`, `ExpectedHeard`, the window's end in `PairingSpec`): strong
fairness of the poll, an interval branch of a `select!` that is polled again and again
between other handlers; weak fairness, per host, of taking a subscription or a notice
that waits, of a linked host asking for its reports, of a link going down that
bluetoothd was told to disconnect, and of `Connected` showing a link in the end; weak fairness
of ending a re-pair that was begun. The last three of the hosts are assumptions on them and
on bluetoothd;
the failures of a setup are how often they may be broken. Nobody has to connect, pair
or press anything.

`services` (`ComesToRest`, `Reconnects`, `HooksResume`): weak fairness of the steps between
two waits (each wait for a reply has a time limit in the code; `write_all`, `rgb/mod.rs:417-419`, has
none, so that fairness takes the server to read what it is sent, or to close), and of a command ending (it is
killed at its limit) and being reaped. Strong fairness of the fade and animation
timers, of the retry and of what the connection says: `select!` picks at random among
what is ready, so what is ready again and again is taken. Activity does push a frame of
the fade back, but is reported once a second at most and a frame lasts 40 ms. None of the
idle timer, which activity rightly puts off for ever.

## Findings

- `router_unflushed`: `release_all` sends a report only for what is still held and
  then clears the dirty flags, so a release that was tracked but not flushed is
  lost. A mouse button comes up, and before the mouse's SYN a combo on the
  keyboard leaves the host: it keeps the button down. `translate.rs:179-180` says
  "so no key or button stays stuck". The safety properties exempt a host this
  happened to (`unflushed`), and only such a host.
- `router_unbound`: the combo of the active slot is a re-assert even when the slot
  has lost its binding, while `README.md:10-11` says that pressing the combo for an
  unbound slot opens a pairing window.
- `handoff_order`: when a frame for the new slot is taken before the watch, the rest
  of the channel is flushed before anything is held for that slot, so newer frames of
  the new host are dropped (or sent) ahead of the one in hand. With a press and its
  release both queued, the press is held and replayed alone and the key stays down.
  `bt/mod.rs:392-393` means to hold the frame for the new host; `NoStuckKey` exempts
  reports this happened to (`overtaken`), and shows that no other path does it.

Smaller things met while modelling, which no run shows as a violation:

- `rgb/mod.rs:421-423` says a change of the device list that `await_packet` passes over is
  re-read by the next apply. Nothing re-reads it: a list that changes while it is being
  enumerated may stay unknown until a repaint, a reconnect or the next change.
  `LightsShown` exempts exactly that (`since.list = "lost"`).
- `open_window` makes the adapter pairable before it makes the hub visible, and a failure of
  the second leaves it pairable with no window to close it (`exposed`).
- `notify_rgb` drops when the channel is full; if the last event of a window is dropped
  the lights stay wrong until the next (`missed`).
- `heal_stale_binding` is for a device that "is no longer paired in BlueZ"
  (`bt/mod.rs:534-536`), but `dial_active` takes a pairing it could not read for one that is
  gone (`unwrap_or(false)`, `bt/mod.rs:1146-1152`): one failed D-Bus read unbinds a host that is
  still paired, saves that, and opens a window. So does a pairing that was gone when the dial
  read it and is back when the loop acts on it. `OnlyDeadUnbound` names both.
- A re-registration is for when "no other host is subscribed" (`bt/mod.rs:901-902`), but a host
  that `Connected` does not show is taken for gone before its subscription is looked at
  (`bt/mod.rs:923-927`), and `Connected` lags. `ReregisterAlone` exempts such a host (`missed`);
  without that exemption TLC finds a working host that loses its session.
- "One re-registration per host connection" (`bt/mod.rs:136-139`) does not hold where the hub
  forgets a host while its link stays: on a switch away from it, with the user back before
  bluetoothd is done disconnecting (`bt/mod.rs:773`, `782-787`), and at a poll that did not see it
  connected (`bt/mod.rs:923-926`). `OneReregistration` exempts these hosts (`forgotten`); without
  that exemption TLC finds both.
- The shutdown drops the advertisement "so none reconnects" (`bt/mod.rs:424-427`), but it is
  unregistered by a task of its own, later (`bt/mod.rs:173-175`), and a host may come in
  between. `HostsLeaveFirst` exempts it, and the hosts that could not be listed, were not shown or
  whose disconnect failed (`excused`), and no other.
- A classic hub that could not be hidden when its window settled is not hidden when the window
  closes ("a settled window already turned visibility off", `bt/mod.rs:595-599`): it stays
  discoverable. `VisibleOnlyInWindow` exempts it (`bared`).
- A re-registration marks every bound host as helped, those not linked included, so
  that one that links later, and is silent, gets no remedy until it has been away at a poll.
- `hooks.rs` counts finished commands that have not been reaped as in flight.
- `hooks.rs:75` has `main` give the shutdown 3 s; `main.rs` gives it 6 s.
- A host that is re-paired during its recovery keeps its `stuck`, `kicked` and `helped`
  entries. Two setups of `manager` cover this: no property breaks.

What the properties exempt, besides those: `PairableOnlyInWindow` an adapter a crash left
pairable; `VisibleOnlyInWindow` on classic a hub whose process is gone, on LE an advertisement
the hub gave up that is still to be unregistered; `LightsShown` a device that took half an
update, until it is repainted; `MotionKept` a host a frame was dropped for at the full channel,
and what was pending when a host is left, which `release_all` discards
(`translate.rs:196-198`); `NoStuckKey`, `ReleasedBeforeDropped` and `CaughtUp` what the router
dropped at the full channel, since they compare with what it queued.

## Proofs

`HotkeyProofs` proves, for any devices, keys, slots and macros that satisfy the
named assumptions:

- `TypeCorrect`, and `SwallowedHeld`: what is swallowed is held, the combo key
  included. It is inductive as it stands.
- `NothingStaysStuck`: what the target holds is physically down. It is not
  inductive: a key released on one keyboard while it is swallowed stays on the
  target. The strengthening is `SwallowedTwice`: a swallowed key the target still
  holds is down on two devices, since its second press is what made it swallowed
  while the first was still down. A release that is swallowed therefore leaves it
  down somewhere. The abstract module holds both; `GoesDownIsFresh` and
  `FsmPreservesSwallowed` are the lemmas about one key event.
- `NoPhantoms`: of the keys no two devices share, the target holds only those that
  are held and not swallowed. The extra part of its invariant is that a held key is
  down on some device (`HeldIsDown`), so that a press of such a key is always of one
  not held.

`RouterProofs` proves, for the full router, any devices and channel capacities, and
uinput failing anywhere:

- `SessionsSeparate` and `SessionLeftClean`: `LocalIsIdle` and `LocalReleased`. Their
  conjunction is inductive; each way of switching is a lemma, and each other action
  either leaves the six variables concerned alone or touches them on one side only.
- `FlushIsComing`: `MotionScheduled`, which is inductive together with the translator's
  type: what a flush leaves pending arms the timer, and motion is added only with a SYN
  still to come.
- `HooksFollow`: a step adds at most one message to a channel (`Sends`), and what it
  adds to the hooks is for the slot it ends on.
- `RepairsAfterHold`: the invariant is `HoldInv`. While a hold is timed, the combo's key
  is down on some device, it is the one F-key of that slot, and the hold is no older
  than the time the key has been down. The part that is easily got wrong is the second
  keyboard: the key may go up on one and stay down on the other.

`FoldProofs` is what the other proofs use of data. The library's induction theorems take an
operator as a parameter, which the provers cannot instantiate; stated of a set, induction
follows from the well-foundedness of `<` (`Least`, `Induction`). From it `FoldExists`: a fold
of the community modules is a run of as many steps as it has elements, so that what each
step keeps, the fold keeps (`RunType`).

`RouterHostProofs` proves what the frames of a flush do to the hosts, for any desk, any
capacities and motion of any size:

- `HostsLeftReleased` and `ActiveHostIsRight` (`InactiveHostsReleased`,
  `ActiveHostShowsTracked`), from `HostInv`. What is shown while a flush is due is not what
  is tracked, so the invariant is `ActiveAgrees`: every report in which the active host differs
  from the translator is marked as changed. Nothing is marked once every SYN is in (`Clean`),
  and `LayoutKept` has the translator in the layout of the slot it speaks for. The
  lemmas on `Saying` and `Told` carry this over the frames: a batch says only what is so, and a host
  that is told every changed report shows all of it.
- `NothingStuck` (`HandsOff`), from the two above and `LiveInv`: the translator and the local
  session track only keys that are down on some device, on two if the key is swallowed.
- `DistanceKept` (`MotionKept`), from `MotionInv`: `owed`, the motion made on the active host that no
  accepted frame has carried, is exactly the motion accumulated, but for a host a frame was
  dropped for.
  `TravelAll` is the lemma that the reports motion is split into add up to it.
- `RouterTypes` (`TypeOK`), from these and the channels' bounds.

`RouterHotkeyProofs` proves that the router implements `Hotkey`
(`RouterImplementsHotkey`), for every desk on which no two buttons are reported as one
bit (`OneSpelling`: with two spellings of one bit, letting go of one releases the
other's, and "the keys the host holds" is not a function of the translator). Every
step is the corresponding action of `Hotkey` or leaves all `Hotkey` sees alone; the
lemmas say what a press, a release, a flush, a combo's release of its modifiers and
each way of switching do to the active target. What `HotkeyProofs` proves of the
target thus holds of the local session and of each host in turn; that last inference is
by hand, since the prover does not apply the theorems of an instantiated module.

`HandoffProofs` proves, for any hosts, reports, capacities, configurations and faults:

- `HeldOnlyForActive`: `HeldForActive`. Only `Arm` gives `pending` a host, the one that is then active;
  `active` changes only in `BeginSwitch`, which is followed by an `Arm` before anything
  else, and does not change what is held when all hosts stay connected, since then nothing is.
- `NoKeyStuck` and `CatchesUp` (`NoStuckKey`, `CaughtUp`), from `HandInv`. Neither is
  inductive: both speak of a moment when nothing is on its way. The invariant says it of
  every moment (`Newest`): what a host was told last in a report is the newest frame of it in
  the channel; or else the frame carried along by a switch; or else the newest held for a
  replay; or else the host has come to it (`Settled`), or to nothing with a frame noted as
  lost. `Ahead` and `Current` are these alternatives, in the order in which frames reach the host.
- It needs the rest of `HandInv`: `Orderly` for what a handler works on (what is held is for
  one host and for reports it has not subscribed to; a report without a subscription
  shows nothing; the buttons on record, of the transport and of the buffer, are those of
  the newest mouse frame, or the motion filter would drop a release), and `Tagged` (once a
  switch has been seen and the channel flushed, no frame is left of the host being dropped). Most lemmas say what one operator, from
  `Lost` to `OnSubscribed`, keeps of `Orderly` and `Current`; `SendAllFacts` says it of a replay, by
  induction over its frames.
- `DropsReleased` (`ReleasedBeforeDropped`): when the old host is dropped, no frame of it is left
  in the channel, in hand or held, so it has come to what it was told last.
- `HandoffTypes`: `TypeOK`, with both capacities.

For these proofs `HandoffAssumption` has finitely many reports (the code has three), and a replay's
choice of frames is a fold (`Only`), since the provers know nothing of `SelectSeq`.

`BtManagerProofs` proves, for any hosts, slots, configurations and time limits, and for
every failure, stop and crash:

- `SpecPairable` and `SpecVisible`, from `WindowInv`. Neither is inductive: a tick that
  renews the advertisement would leave the hub visible if the one it holds were not
  the discoverable one (`AirFollows`), and binding must find a window of a real slot
  (`WindowOK`). On classic the hiding may fail, and the invariant carries `bared`.
- `SpecRecorded`, from `LiveInv`: an open session is recorded, however the notices of
  earlier ones are delayed. The lemma is on what happens to any other host in a handler.
- `SpecReregistersAlone`, from `ReadInv`: a session that is open when the tick decides
  was open, and its host linked, when the tick read who was connected, since
  subscriptions are taken only between ticks. So the snapshot, though stale, never
  makes the tick overlook a host that works, unless it was wrong when it was taken (`missed`).
- `SpecLeavesFirst`, from `FallInv`: amid the shutdown a host still linked is being
  disconnected, or excused for a reason of its own; a failure that has nothing to do with it
  excuses nobody.
- `SpecUnbinds`, an action property: what a dial read is acted on only while its host is
  still the target, so it unbinds that host's slot and no other.
- `SpecPromised`, the safety part of `PairingSpec`: every step is a step of
  `PairingWindows` or changes nothing it sees. It rests on `PairingInv`: an unsettled window is for
  a slot that is free, and the file agrees with `Kept` wherever the
  configuration says nothing (`FileInv`), which is what a restart after a crash needs. `JobInv`,
  a part of `FileInv`, says that the slot of a re-pair under way is free in memory and of a real host.
- `ManagerTypesHold`: `TypeOK`, in three families of variables that are inductive beside
  `FileInv` and `LiveInv`. What is not obvious in it: a remedy is always for a host
  (`TriggerIsDue`), and a window that ticks is closed before its clock passes zero.
- `ReregistersOnce`: `OneReregistration`, from `OnceInv`: a host that was served and is not
  `forgotten` is still linked and remembered, and each tick has read it as connected, so that
  it does not take it for gone. It holds of every configuration, switches, restarts, a lagging
  `Connected` and hosts that race the tick included; what these make the hub forget is
  `forgotten`, exactly where the code drops its notes.

`ServicesProofs` proves, for any channel capacity, devices, slots, brightness and fade:

- `SpecBlinks`, from `BlinkInv`: the last word in the channel that is not a repaint, or the
  animation when there is none, says whether a window is open. Since it speaks of
  every event with only repaints behind it, it needs no induction over the channel.
- `SpecShown`, from `ShownInv`: outside an enumeration the targets are what the server
  lists, unless it said otherwise; a device that was pushed to shows the last frame, or
  the mode remembered for it would differ and be pushed again (`Remembered`). This is
  what makes skipping a mode packet safe.

Every safety property the passing runs check is the statement of a theorem. Only model-checked
is liveness, which the prover does not handle under fairness: `HoldFires`, `StuckHandled`, `ExpectedHeard`, the window's
end in `PairingSpec`, `ComesToRest`, `Reconnects`, `HooksResume`.

## Not modelled

- A device that is unplugged (`input/mod.rs`): the code does nothing about it.
- Two calls of one handler's step that fail together. The reads of dial, poll and shutdown may
  fail each by itself; that of `Connected` fails, or lags, for one host at a time and for as long
  as bluetoothd likes (`Overlooks`, `SeesAgain`), and so for all that read it in that time.
- State file: a write is whole and succeeds. A torn file fails to parse and the next
  start ends with the error. Addresses that do not parse are skipped.
- HIDP requests on the control channel, which are answered without state; the log
  transport; the attribute tables, report layouts, SDP record.
- The pairing agent, whose callbacks accept and keep nothing: `Bluez.HostPairs` is a
  pairing they accepted.
- The OpenRGB wire format (`proto.rs`), the choice of a mode and of colors,
  configuration parsing (`config.rs`), the macro tool (`macro_cli.rs`).
- The checks before the start, and the 6 s after which `main.rs` exits whatever its tasks do.

## Plan

1. `Handoff` and `BtManager` in one module: what is held for a host while it is
   re-paired, evicted or recovered.
2. A state file whose write may be torn, once the code says what a start makes of it.
