------------------------------ MODULE BtManager ------------------------------
(***************************************************************************)
(* The Bluetooth manager apart from the frames it routes (src/bt/mod.rs):  *)
(* pairing windows, bindings and their file, the advertisement, dialling,  *)
(* uninvited and stuck hosts, and the way down.  Handlers run one at a     *)
(* time; the one-second tick reads who is connected and acts on that       *)
(* snapshot over several awaits, which is why it is several actions.       *)
(* Handoff.tla has the frames and what is held of them during a switch.    *)
(***************************************************************************)
EXTENDS Transport, StateFile

CONSTANTS
  PairingWindow, StuckHostGrace, KickMemory,     \* in ticks of the poll
  ReregisterCooldown, EvictCooldown

ASSUME BtManagerAssumption ==
  {PairingWindow, StuckHostGrace, KickMemory, ReregisterCooldown, EvictCooldown} \subseteq Nat \ {0}

VARIABLES
  bindings, preset,  \* slot -> host, or NoHost; the slots bound by the configuration
  active,            \* the slot the manager believes active
  window,            \* the pairing window
  adv,               \* the advertisement held: "none", "connectable", "discoverable"
  stuck,             \* [Hosts -> ticks connected and silent, or Quiet]
  kicked, evicted,   \* [Hosts -> ticks until that is forgotten]
  helped,            \* hosts a re-registration served, or that are left alone
  cooldown,          \* ticks until the next re-registration
  commands, restarts,  \* commands and switches, starts and crashes still to come
  phase,             \* "idle", a step of the tick, a re-pair or the shutdown
  job,               \* the slot being re-paired and the host it had
  connected,         \* bound hosts connected, as this tick read them
  missed,            \* history: bound hosts with a link that it did not read so
  dialing, found,    \* the host being dialled; what the dial read of its pairing
  redial,            \* a failed dial is backing off
  file,              \* state.toml
  exposed,           \* history: pairable because a call to the adapter failed
  bared,             \* history: discoverable because a call to the adapter failed
  excused            \* history: hosts the shutdown did not get rid of

NoWindow == [slot |-> Local]
NoJob == [slot |-> Local]
Quiet == -1

memoryVars == <<stuck, kicked, evicted, helped, cooldown>>
dialVars == <<dialing, found, redial>>
bindVars == <<bindings, preset, file>>
windowVars == <<window, pairable, exposed>>
advVars == <<adv, aired, bared>>
readVars == <<connected, missed>>
runVars == <<active, phase, job, readVars, restarts, excused>>
managerVars == <<memoryVars, dialVars, bindVars, window, exposed, adv, bared, runVars, commands>>
vars == <<bluezVars, transportVars, managerVars>>

-----------------------------------------------------------------------------
(* Who is who.                                                             *)

Bound(b) == {b[s] : s \in Slots} \ {NoHost}
HostOf(b, s) == IF s = Local THEN NoHost ELSE b[s]
ActiveHost == HostOf(bindings, active)
SlotsOf(h) == {s \in Slots : bindings[s] = h}
Lowest(ss) == CHOOSE s \in ss : \A r \in ss : s <= r
Serves(s) == ~Single \/ s = active
Served == {bindings[s] : s \in {r \in Slots : Serves(r)}} \ {NoHost}
Unsettled(w) == w # NoWindow /\ ~w.bound
ConnectedHosts(b) == (linked \ unseen) \cap Bound(b)
ActiveHostPresent(here) == ActiveHost # NoHost /\ ActiveHost \in here \cup attached

WantsAdvertising(b, a, here) ==
  IF Single THEN HostOf(b, a) \notin here \cup {NoHost} ELSE Bound(b) \ here # {}

-----------------------------------------------------------------------------
(* The advertisement and the adapter.                                      *)

SetAdvertising == adv' = "connectable" /\ aired' = "connectable" /\ UNCHANGED bared

\* Mutant: what bluetoothd has of the advertisement is not looked at.
HeldUnchecked == adv = "connectable"

Held == adv = "connectable" /\ aired # "off"

\* Left to a window that has bound nobody; else as the bound hosts away want.
\* A handle that is dropped is unregistered a little later.
Advertised(b, w, a, here) ==
  \/ (~Le \/ Unsettled(w)) /\ UNCHANGED advVars
  \/ /\ Le /\ ~Unsettled(w) /\ WantsAdvertising(b, a, here)
     /\ IF Held THEN UNCHANGED advVars ELSE SetAdvertising
  \/ /\ Le /\ ~Unsettled(w) /\ ~WantsAdvertising(b, a, here)
     /\ adv' = "none" /\ UNCHANGED <<aired, bared>>

\* Registering it, or finding out that it is not registered, may fail.
ApplyAdvertising(b, w, a, here) ==
  \/ Advertised(b, w, a, here) /\ UNCHANGED faults
  \/ /\ Le /\ ~Unsettled(w) /\ WantsAdvertising(b, a, here) /\ ~Held /\ Fault
     /\ \/ adv' = "none" /\ aired' = "off" /\ UNCHANGED bared
        \/ adv = "connectable" /\ UNCHANGED advVars

\* Visible: on LE the discoverable advertisement, on classic the inquiry scan.
Visible ==
  /\ aired' = "discoverable" /\ bared' = FALSE
  /\ adv' = IF Le THEN "discoverable" ELSE adv

NotVisible ==
  IF Le THEN adv' = "none" /\ aired' = "off" /\ UNCHANGED bared ELSE UNCHANGED advVars

Hidden(b, w, a) ==
  IF Le THEN Advertised(b, w, a, ConnectedHosts(b))
  ELSE aired' = "connectable" /\ bared' = FALSE /\ UNCHANGED adv

StaysVisible == bared' = (aired = "discoverable") /\ UNCHANGED <<adv, aired>>

\* Hides the hub, if the one call that takes comes through.
Hide(b, w, a) ==
  \/ Le /\ ApplyAdvertising(b, w, a, ConnectedHosts(b))
  \/ ~Le /\ Hidden(b, w, a) /\ UNCHANGED faults
  \/ ~Le /\ StaysVisible /\ Fault

-----------------------------------------------------------------------------
(* The pairing window.                                                     *)

WindowFor(s, paired) ==
  [slot |-> s, bound |-> FALSE, left |-> PairingWindow, prePaired |-> paired]

Paired(bonds) == {h \in Hosts : bonds[h] # "new"}

\* A slot that is bound gets none.  Of who is paired a part may not be read;
\* and either call to the adapter may fail: the window is then not there, or
\* still the one before.
OpenWindow(b, s, bonds) ==
  \/ /\ b[s] # NoHost
     /\ UNCHANGED <<windowVars, advVars, faults>>
  \/ /\ b[s] = NoHost
     /\ \/ /\ \/ window' = WindowFor(s, Paired(bonds)) /\ UNCHANGED faults
              \/ Fault /\ \E some \in SUBSET Paired(bonds) : window' = WindowFor(s, some)
           /\ pairable' = TRUE /\ exposed' = FALSE /\ Visible
        \/ /\ Fault /\ UNCHANGED <<windowVars, advVars>>
        \/ /\ Fault /\ pairable' = TRUE
           /\ exposed' = (window = NoWindow)
           /\ NotVisible /\ UNCHANGED window

NotPairable == pairable' = FALSE /\ exposed' = FALSE
StaysPairable == exposed' = pairable /\ UNCHANGED pairable

\* Mutants: the adapter stays pairable; the hub stays visible.
CloseHides(b, a) ==
  \/ window = NoWindow /\ UNCHANGED <<windowVars, advVars, faults>>
  \/ /\ window # NoWindow
     /\ window' = NoWindow /\ UNCHANGED <<pairable, exposed>>
     /\ IF window.bound THEN UNCHANGED <<advVars, faults>> ELSE Hide(b, NoWindow, a)
SettleVisible(b, w) ==
  window' = [w EXCEPT !.bound = TRUE] /\ UNCHANGED <<pairable, exposed, advVars, faults>>

\* A settled window was hidden before.  Hiding may fail, or what follows it.
CloseWindow(b, a) ==
  \/ window = NoWindow /\ UNCHANGED <<windowVars, advVars, faults>>
  \/ /\ window # NoWindow /\ window' = NoWindow /\ NotPairable
     /\ IF window.bound THEN UNCHANGED <<advVars, faults>> ELSE Hide(b, NoWindow, a)
  \/ /\ window # NoWindow /\ window' = NoWindow /\ StaysPairable /\ Fault
     /\ IF window.bound THEN UNCHANGED advVars ELSE Hidden(b, NoWindow, a)

SettleWindow(b, w) ==
  /\ window' = [w EXCEPT !.bound = TRUE]
  /\ Hide(b, window', active)
  /\ UNCHANGED <<pairable, exposed>>

-----------------------------------------------------------------------------
(* Bindings.                                                               *)

Save(b, from, a) == file' = ToStateFile(b, from, a)

Bind(w, h) ==
  /\ bindings' = [bindings EXCEPT ![w.slot] = h] /\ preset' = preset \ {w.slot}
  /\ Save(bindings', preset', active)
  /\ SettleWindow(bindings', w)

Unbind(s) ==
  /\ bindings' = [bindings EXCEPT ![s] = NoHost] /\ preset' = preset \ {s}
  /\ Save(bindings', preset', active)

-----------------------------------------------------------------------------
(* What the user does at the keyboard arrives as commands of the router, at *)
(* any time: its view of the bindings lags.                                *)

Idle == phase = "idle"

Command == Idle /\ commands > 0 /\ commands' = commands - 1

OpenPairingWindow(s) ==
  /\ Command /\ Habit("window")
  /\ OpenWindow(bindings, s, bond)
  /\ UNCHANGED <<setup, hostVars, transportVars, memoryVars, dialVars, bindVars, runVars>>

\* Unbound in memory first.  On a slot with nothing bound, the window its
\* press opened may be there.
RepairSlot(s) ==
  /\ Command /\ Habit("window")
  /\ \/ /\ bindings[s] # NoHost
        /\ phase' = "repairing" /\ job' = [slot |-> s, host |-> bindings[s]]
        /\ bindings' = [bindings EXCEPT ![s] = NoHost] /\ preset' = preset \ {s}
        /\ UNCHANGED <<file, windowVars, advVars, faults>>
     \/ /\ bindings[s] = NoHost
        /\ IF window.slot = s THEN UNCHANGED <<windowVars, advVars, faults>>
           ELSE OpenWindow(bindings, s, bond)
        /\ UNCHANGED <<bindVars, phase, job>>
  /\ UNCHANGED <<setup, hostVars, transportVars, memoryVars, dialVars, active, readVars, restarts, excused>>

\* Disconnected and removed, so that no key of it survives; or one of the two
\* fails, and with the removal the pairing stays.
Forget(h) ==
  \/ /\ bond' = [bond EXCEPT ![h] = "new"] /\ UNCHANGED faults
     /\ Unlinked({h}) /\ swallowed' = swallowed \ {h}
  \/ /\ Fault /\ UNCHANGED bond
     /\ \/ Unlinked({h}) /\ Remembers(h)
        \/ UNCHANGED <<linked, unseen, leaving, session, swallowed, noteVars>>

RemovePairing ==
  /\ phase = "repairing" /\ phase' = "removed"
  /\ Forget(job.host)
  /\ UNCHANGED <<setup, pairable, aired, transportVars, memoryVars, dialVars, bindVars, window, exposed,
                 adv, bared, active, job, readVars, restarts, excused, commands>>

\* Only now is it written that the slot is free.
OpenRepaired ==
  /\ phase = "removed" /\ phase' = "idle" /\ job' = NoJob
  /\ Save(bindings, preset, active) /\ UNCHANGED <<bindings, preset>>
  /\ OpenWindow(bindings, job.slot, bond)
  /\ UNCHANGED <<setup, hostVars, transportVars, memoryVars, dialVars, active, readVars, restarts,
                 excused, commands>>

\* The dialled host is taken to be paired no longer: back to pairing its slot.
HealStaleBinding(s) ==
  /\ Unbind(s)
  /\ OpenWindow(bindings', s, bond)

-----------------------------------------------------------------------------
(* A host attaches.  A bound one is kept, unless its slot is not active    *)
(* and the active host is here; a new one is bound by an open window if it *)
(* is bonded, and dropped otherwise.  have and open are the records and    *)
(* sessions with the new one among them.                                   *)

Known(h) == SlotsOf(h) # {}

Uninvited(h) ==
  /\ Known(h) /\ ~Serves(Lowest(SlotsOf(h))) /\ window = NoWindow
  /\ ActiveHostPresent(ConnectedHosts(bindings))

KeepIncoming(h, have, open) ==
  /\ Known(h) /\ ~Uninvited(h)
  /\ attached' = have /\ session' = open
  /\ UNCHANGED <<bond, linked, unseen, leaving, swallowed, noteVars, evicted, bindVars, windowVars, advVars, faults>>

DropIncoming(h, have, open) ==
  /\ Uninvited(h) \/ (~Known(h) /\ ~Unsettled(window))
  /\ DropPeers(have, open, {h})
  /\ evicted' = IF Known(h) THEN [evicted EXCEPT ![h] = EvictCooldown] ELSE evicted
  /\ UNCHANGED <<bond, linked, unseen, swallowed, noteVars, bindVars, windowVars, advVars, faults>>

\* Not bonded, or that could not be read: removed, unless that fails too.
RejectIncoming(h, have, open) ==
  /\ ~Known(h) /\ Unsettled(window)
  /\ \/ /\ IF bond[h] = "bonded" THEN Fault ELSE UNCHANGED faults
        /\ attached' = have \ {h}
        /\ session' = [open EXCEPT ![h] = "none"]
        /\ bond' = [bond EXCEPT ![h] = "new"] /\ swallowed' = swallowed \ {h}
        /\ linked' = linked \ {h} /\ unseen' = unseen \ {h} /\ leaving' = leaving \ {h}
        /\ tries' = [tries EXCEPT ![h] = 0] /\ forgotten' = forgotten \ {h}
     \/ /\ bond[h] # "bonded" /\ Fault
        /\ DropPeers(have, open, {h})
        /\ UNCHANGED <<bond, linked, unseen, swallowed, noteVars>>
  /\ UNCHANGED <<evicted, bindVars, windowVars, advVars>>

BindIncoming(h, have, open) ==
  /\ ~Known(h) /\ Unsettled(window) /\ bond[h] = "bonded"
  /\ attached' = have /\ session' = open
  /\ Bind(window, h)
  /\ UNCHANGED <<bond, linked, unseen, leaving, swallowed, noteVars, evicted>>

OnIncomingPeer(h, have, open) ==
  \/ KeepIncoming(h, have, open)
  \/ DropIncoming(h, have, open)
  \/ RejectIncoming(h, have, open)
  \/ BindIncoming(h, have, open)

Unmoved == UNCHANGED <<setup, app, stuck, kicked, helped, cooldown, dialVars, runVars, commands>>

\* LE: a subscription; only the first of a peer makes it an incoming host.
Subscribe(h) ==
  /\ Idle /\ HasListeners /\ session[h] \in {"asked", "gone"}
  /\ \/ /\ h \notin attached
        /\ OnIncomingPeer(h, attached \cup {h}, Recorded(h))
        /\ UNCHANGED late
     \/ /\ h \in attached /\ late' = Replaced(h) /\ session' = Recorded(h)
        /\ UNCHANGED <<attached, bond, linked, unseen, leaving, swallowed, noteVars, evicted, bindVars,
                       windowVars, advVars, faults>>
  /\ UNCHANGED parked /\ Unmoved

\* Classic: the interrupt channel that goes with the parked control channel.
Connects(h) ==
  /\ Idle /\ parked = h /\ h \in linked
  /\ parked' = NoHost
  /\ OnIncomingPeer(h, attached \cup {h}, session)
  /\ UNCHANGED late /\ Unmoved

\* The loop takes a notice.
Notice(h) ==
  /\ Idle /\ Closed(h)
  /\ UNCHANGED <<setup, hostVars, pairable, aired, faults, managerVars>>

\* A frame for it does not get through.
Unreachable(h) ==
  /\ Idle /\ SendFails(h)
  /\ UNCHANGED <<setup, bond, linked, unseen, leaving, swallowed, noteVars, pairable, aired, faults, managerVars>>

-----------------------------------------------------------------------------
(* Classic: the loop dials the active slot's host while it is away.  The   *)
(* dial is a task of its own, which first reads whether the host is paired; *)
(* the loop abandons it when the target moves.                             *)

DialTarget == IF CanDial THEN ActiveHost ELSE NoHost

UndialledVars == <<bluezVars, transportVars, memoryVars, bindVars, window, exposed, adv, bared, runVars, commands>>

Dial ==
  /\ Idle /\ DialTarget \notin attached \cup {NoHost} /\ dialing = NoHost /\ ~redial
  /\ dialing' = DialTarget
  /\ UNCHANGED <<found, redial, UndialledVars>>

\* A read that fails says the same as a host that is not paired.
DialReads ==
  /\ dialing # NoHost /\ found = "asking" /\ phase # "down"
  /\ \/ found' = (IF bond[dialing] = "new" THEN "stale" ELSE "paired") /\ UNCHANGED faults
     \/ bond[dialing] # "new" /\ found' = "stale" /\ Fault
  /\ UNCHANGED <<setup, hostVars, pairable, aired, transportVars, memoryVars, dialing, redial, bindVars, window,
                 exposed, adv, bared, runVars, commands>>

Undialled == dialing' = NoHost /\ found' = "asking"

AbandonDial ==
  /\ Idle /\ dialing \notin {NoHost, DialTarget}
  /\ Undialled
  /\ UNCHANGED <<redial, UndialledVars>>

\* Mutant: a result is taken for the present target's.
DialledAnyone == Idle /\ dialing # NoHost /\ DialTarget # NoHost

\* The loop looks at a result only of the dial it still wants.
Dialled == Idle /\ dialing # NoHost /\ dialing = DialTarget

DialConnects ==
  /\ Dialled /\ found = "paired" /\ bond[dialing] # "new"
  /\ attached' = attached \cup {dialing} /\ linked' = linked \cup {dialing}
  /\ Undialled /\ redial' = FALSE
  /\ UNCHANGED <<setup, bond, unseen, leaving, session, swallowed, noteVars, pairable, aired, faults, late, app,
                 parked, memoryVars, bindVars, window, exposed, adv, bared, runVars, commands>>

DialFindsStale ==
  /\ Dialled /\ found = "stale"
  /\ HealStaleBinding(active)
  /\ Undialled /\ redial' = FALSE
  /\ UNCHANGED <<setup, hostVars, transportVars, memoryVars, runVars, commands>>

DialFails ==
  /\ Dialled /\ found = "paired"
  /\ Undialled /\ redial' = TRUE
  /\ UNCHANGED UndialledVars

BackoffEnds ==
  /\ Idle /\ redial /\ redial' = FALSE
  /\ UNCHANGED <<dialing, found, UndialledVars>>

-----------------------------------------------------------------------------
(* The router moved to another slot.                                       *)

ForgetHost(old) ==
  /\ stuck' = [stuck EXCEPT ![old] = Quiet] /\ kicked' = [kicked EXCEPT ![old] = 0]
  /\ helped' = helped \ {old} /\ evicted' = [evicted EXCEPT ![old] = EvictCooldown]

OnSlotChange(s) ==
  /\ Command /\ Habit("switch") /\ s # active
  /\ active' = s /\ Save(bindings, preset, s)
  /\ LET old == ActiveHost  new == HostOf(bindings, s) IN
       \/ ~Single /\ UNCHANGED <<advVars, faults, attached, late, session, leaving, forgotten, memoryVars>>
       \/ /\ Single /\ ApplyAdvertising(bindings, window, s, ConnectedHosts(bindings))
          /\ IF old \in {NoHost, new}
             THEN UNCHANGED <<attached, late, session, leaving, forgotten, memoryVars>>
             ELSE /\ DropPeers(attached, session, {old})
                  /\ late' = late \cup Orphaned(attached, session, {old})
                  /\ ForgetHost(old) /\ forgotten' = forgotten \cup ({old} \cap linked)
                  /\ UNCHANGED cooldown
  /\ UNCHANGED <<setup, bond, linked, unseen, swallowed, tries, pairable, app, parked, dialVars, bindings, preset,
                 window, exposed, phase, job, readVars, restarts, excused>>

-----------------------------------------------------------------------------
(* The one-second tick.                                                    *)

\* Mutant: a clock runs on below zero.
DownAndOn(n) == n - 1

Down(n) == IF n > 0 THEN n - 1 ELSE 0
SecondPasses ==
  /\ stuck' = [h \in Hosts |-> IF stuck[h] \in 0 .. StuckHostGrace - 1 THEN stuck[h] + 1 ELSE stuck[h]]
  /\ kicked' = [h \in Hosts |-> Down(kicked[h])]
  /\ evicted' = [h \in Hosts |-> Down(evicted[h])]
  /\ cooldown' = Down(cooldown)

\* Mutant: a host another slot has is new.
NewlyBonded == {h \in Hosts : bond[h] = "bonded" /\ h \notin window.prePaired}

NewlyPaired ==
  {h \in Hosts : bond[h] = "bonded" /\ h \notin window.prePaired \cup Bound(bindings)}

\* Times the window out, or binds a host that bonded while it is open, unless
\* that could not be read.
PollWindow ==
  /\ Idle /\ phase' = "swept"
  /\ SecondPasses
  /\ LET w == [window EXCEPT !.left = @ - 1] IN
       \/ window = NoWindow /\ UNCHANGED <<windowVars, advVars, bindVars, faults>>
       \/ /\ window # NoWindow /\ w.left = 0
          /\ CloseWindow(bindings, active) /\ UNCHANGED bindVars
       \/ /\ window # NoWindow /\ w.left > 0
          /\ IF window.bound \/ NewlyPaired = {} THEN UNCHANGED faults ELSE Fault
          /\ window' = w /\ UNCHANGED <<pairable, exposed, advVars, bindVars>>
       \/ /\ window # NoWindow /\ w.left > 0 /\ ~window.bound
          /\ \E h \in NewlyPaired : Bind(w, h)
  /\ UNCHANGED <<setup, hostVars, transportVars, helped, dialVars, active, job, readVars, restarts, excused, commands>>

\* Reads who is connected, and sends away whoever is not to be.
PollUninvited ==
  /\ phase = "swept" /\ phase' = "advertise"
  /\ connected' = ConnectedHosts(bindings) /\ missed' = (linked \cap Bound(bindings)) \ connected'
  /\ forgotten' = forgotten \cup ((helped \cap Served \cap linked) \ connected')
  /\ IF ~Single \/ window # NoWindow \/ ~ActiveHostPresent(connected')
     THEN UNCHANGED <<attached, late, session, leaving, evicted>>
     ELSE LET hs == {h \in (connected' \cup attached) \cap {bindings[s] : s \in Slots \ {active}} :
                       evicted[h] = 0} IN
          /\ DropPeers(attached, session, hs)
          /\ late' = late \cup Orphaned(attached, session, hs)
          /\ evicted' = [h \in Hosts |-> IF h \in hs THEN EvictCooldown ELSE evicted[h]]
  /\ UNCHANGED <<setup, bond, linked, unseen, swallowed, tries, pairable, aired, faults, app, parked, stuck,
                 kicked, helped, cooldown, dialVars, bindVars, window, exposed, adv, bared, active, job,
                 restarts, excused, commands>>

PollAdvertising ==
  /\ phase = "advertise" /\ phase' = "stuck"
  /\ ApplyAdvertising(bindings, window, active, connected)
  /\ UNCHANGED <<setup, hostVars, pairable, transportVars, memoryVars, dialVars, bindVars, window,
                 exposed, active, job, readVars, restarts, excused, commands>>

\* Of the hosts served, as this tick saw them: gone, heard, or silent.
Gone == Served \ connected
Heard == Served \cap connected \cap attached
Silent == (Served \cap connected) \ (attached \cup helped)
StillHelped == helped \ Gone
\* Mutant: each tick the silence starts afresh.
SilenceAfresh(h) ==
  IF h \in Gone \cup Heard THEN Quiet ELSE IF h \in Silent THEN 0 ELSE stuck[h]

Silence(h) ==
  IF h \in Gone \cup Heard THEN Quiet ELSE IF h \in Silent /\ stuck[h] = Quiet THEN 0 ELSE stuck[h]
Kicked(h) == kicked[h] > 0 /\ h \notin Heard
Due == {h \in Silent : Silence(h) >= StuckHostGrace}
Trigger == bindings[Lowest({s \in Slots : Serves(s) /\ bindings[s] \in Due})]

Watched(heeded) ==
  stuck' = [h \in Hosts |-> IF h = heeded THEN Quiet ELSE Silence(h)]
KickedBy(h) ==
  kicked' = [g \in Hosts |-> IF g = h THEN KickMemory ELSE IF Kicked(g) THEN kicked[g] ELSE 0]

LeaveStuck ==
  /\ Due # {} => Kicked(Trigger) /\ Heard = {} /\ cooldown > 0
  /\ Watched(NoHost) /\ KickedBy(NoHost) /\ helped' = StillHelped
  /\ UNCHANGED <<hostVars, attached, late, app, cooldown, faults>>

\* First disconnect it, so that it comes back afresh.
KickStuck ==
  /\ Due # {} /\ ~Kicked(Trigger)
  /\ Watched(Trigger) /\ KickedBy(Trigger) /\ helped' = StillHelped
  /\ DropPeers(attached, session, {Trigger})
  /\ UNCHANGED <<bond, linked, unseen, swallowed, noteVars, late, app, cooldown, faults>>

\* Stuck again, but others work: leave it alone.
SpareOthers ==
  /\ Due # {} /\ Kicked(Trigger) /\ Heard # {}
  /\ Watched(Trigger) /\ KickedBy(NoHost) /\ helped' = StillHelped \cup {Trigger}
  /\ UNCHANGED <<hostVars, attached, late, app, cooldown, faults>>

\* Mutants: others do not count; nobody counts as served.
NotTooOften == cooldown = 0
NobodyServed == StillHelped

\* Re-registering is for when nobody works; it serves whoever is bound.
WorthIt == Heard = {} /\ cooldown = 0
NowServed == StillHelped \cup Bound(bindings)

ReregisterStuck ==
  /\ Due # {} /\ Kicked(Trigger) /\ WorthIt
  /\ Reregister
  /\ IF app'
     THEN /\ stuck' = [h \in Hosts |-> Quiet] /\ kicked' = [h \in Hosts |-> 0]
          /\ helped' = NowServed
          /\ cooldown' = ReregisterCooldown
          /\ tries' = [tries EXCEPT ![Trigger] = IF Trigger \in linked /\ @ < 2 THEN @ + 1 ELSE @]
     ELSE /\ Watched(NoHost) /\ KickedBy(NoHost) /\ helped' = StillHelped
          /\ UNCHANGED <<cooldown, tries>>
  /\ UNCHANGED <<bond, linked, unseen, leaving, forgotten, attached, late>>

PollStuckHosts ==
  /\ phase = "stuck" /\ phase' = "idle" /\ connected' = {} /\ missed' = {}
  /\ \/ Le /\ (LeaveStuck \/ KickStuck \/ SpareOthers \/ ReregisterStuck)
     \/ ~Le /\ UNCHANGED <<hostVars, attached, late, app, stuck, kicked, helped, cooldown, faults>>
  /\ UNCHANGED <<setup, pairable, aired, parked, evicted, dialVars, bindVars, window, exposed, adv,
                 bared, active, job, restarts, excused, commands>>

-----------------------------------------------------------------------------
(* The way down and back.  Hosts are disconnected before the application   *)
(* goes, with the advertisement gone before that; a crash does neither.    *)

\* Mutant: the advertisement goes only with the process.
AdvertiseOn == UNCHANGED <<adv, aired>>

\* The window is closed, which may register an advertisement, and the handle
\* to whatever there is is dropped.
StopAdvertising ==
  /\ adv' = IF Le THEN "none" ELSE adv
  /\ aired' = IF Unsettled(window) /\ (~Le \/ WantsAdvertising(bindings, active, ConnectedHosts(bindings)))
              THEN "connectable" ELSE aired

NeverAdvertised ==
  IF Le THEN adv' = "none" /\ aired' = "off" /\ UNCHANGED bared ELSE StaysVisible

Cancel ==
  /\ Idle /\ restarts > 0 /\ phase' = "cancelled" /\ window' = NoWindow
  /\ \/ /\ StopAdvertising /\ bared' = (bared /\ ~Unsettled(window)) /\ UNCHANGED faults
        /\ IF window = NoWindow THEN UNCHANGED <<pairable, exposed>> ELSE NotPairable
     \/ /\ StopAdvertising /\ bared' = (bared /\ ~Unsettled(window)) /\ Fault
        /\ window # NoWindow /\ StaysPairable
     \/ /\ NeverAdvertised /\ Fault
        /\ Unsettled(window) /\ NotPairable
  /\ UNCHANGED <<setup, hostVars, transportVars, memoryVars, dialVars, bindVars, active,
                 job, readVars, restarts, excused, commands>>

\* Whoever Connected shows is told to leave; if the hosts cannot be listed,
\* nobody is.
Tell(hs) ==
  /\ leaving' = IF Le THEN leaving \cup hs ELSE leaving
  /\ excused' = linked \ hs

DisconnectAll ==
  /\ phase = "cancelled" /\ phase' = "leaving"
  /\ \/ Tell(linked \ unseen) /\ UNCHANGED faults
     \/ Tell({}) /\ Fault
  /\ UNCHANGED <<setup, bond, linked, unseen, session, swallowed, noteVars, pairable, aired,
                 transportVars, memoryVars, dialVars, bindVars, window, exposed, adv, bared, active,
                 job, readVars, restarts, commands>>

\* The process is gone, and with it all it kept in memory.
Stopped ==
  /\ phase' = "down" /\ window' = NoWindow /\ exposed' = pairable /\ adv' = "none"
  /\ aired' = IF Le THEN "off" ELSE aired
  /\ app' = FALSE /\ attached' = {} /\ late' = {} /\ parked' = NoHost
  /\ session' = [h \in Hosts |-> "none"] /\ swallowed' = {}
  /\ stuck' = [h \in Hosts |-> Quiet] /\ kicked' = [h \in Hosts |-> 0]
  /\ evicted' = [h \in Hosts |-> 0] /\ helped' = {} /\ cooldown' = 0
  /\ Undialled /\ redial' = FALSE /\ connected' = {} /\ missed' = {} /\ excused' = {}
  /\ forgotten' = forgotten \cup linked
  /\ UNCHANGED <<setup, bond, linked, unseen, leaving, tries, pairable, faults, bindVars, bared, active, job, commands>>

\* Once every disconnect it asked for is answered.
Exit == phase = "leaving" /\ leaving \subseteq excused /\ Stopped /\ UNCHANGED restarts

Crash == phase # "down" /\ restarts > 0 /\ Stopped /\ restarts' = restarts - 1

Loaded(b, from, a) ==
  /\ b = Merge(file, setup.seeds) /\ from = FromConfig(setup.seeds)
  /\ a = RestoreSlot(file.active, b)

Start ==
  /\ phase = "down" /\ restarts > 0
  /\ phase' = "idle" /\ job' = NoJob /\ restarts' = restarts - 1
  /\ Loaded(bindings', preset', active') /\ UNCHANGED file
  /\ app' = Le /\ pairable' = FALSE /\ exposed' = FALSE
  /\ IF Le THEN ApplyAdvertising(bindings', NoWindow, active', ConnectedHosts(bindings'))
     ELSE aired' = "connectable" /\ bared' = FALSE /\ UNCHANGED <<adv, faults>>
  /\ UNCHANGED <<setup, hostVars, attached, late, parked, memoryVars, dialVars, window, readVars, excused, commands>>

-----------------------------------------------------------------------------

Init ==
  /\ setup \in Setups
  /\ file = [active |-> setup.remembered, bindings |-> setup.learned]
  /\ Loaded(bindings, preset, active)
  /\ bond = [h \in Hosts |-> IF h \in Bound(bindings) THEN "bonded" ELSE "new"]
  /\ linked = {} /\ unseen = {} /\ leaving = {} /\ swallowed = {} /\ forgotten = {}
  /\ session = [h \in Hosts |-> "none"] /\ tries = [h \in Hosts |-> 0]
  /\ attached = {} /\ late = {} /\ app = Le /\ parked = NoHost
  /\ window = NoWindow /\ pairable = FALSE /\ exposed = FALSE /\ bared = FALSE /\ excused = {}
  /\ aired = IF ~Le \/ WantsAdvertising(bindings, active, {}) THEN "connectable" ELSE "off"
  /\ adv = IF Le THEN (IF aired = "off" THEN "none" ELSE aired) ELSE "none"
  /\ stuck = [h \in Hosts |-> Quiet] /\ kicked = [h \in Hosts |-> 0]
  /\ evicted = [h \in Hosts |-> 0] /\ helped = {} /\ cooldown = 0
  /\ dialing = NoHost /\ found = "asking" /\ redial = FALSE
  /\ phase = "idle" /\ job = NoJob /\ connected = {} /\ missed = {}
  /\ faults = setup.faults /\ commands = setup.commands /\ restarts = setup.restarts

(* Bounds: unless hosts race the hub, they and bluetoothd move only between *)
(* its handlers, and have all they are at done before a second has passed;  *)
(* but bluetoothd need not be done with a host sent away in that second.    *)
Between == Habit("race") \/ phase \in {"idle", "cancelled", "leaving", "down"}

Prompt == {h \in Bound(bindings) : evicted[h] < EvictCooldown}
InTime == Habit("race") \/ Prompt \cap (Waiting \cup leaving) = {}

\* The advertisement whose handle was dropped is unregistered.
Unregistered ==
  /\ Le /\ adv = "none" /\ aired # "off" /\ aired' = "off"
  /\ UNCHANGED <<setup, hostVars, pairable, faults>>

\* Amid the shutdown: a disconnect that came to nothing, and a host that came
\* while the advertisement was still to be unregistered.
Excuses ==
  excused' = excused \cup (IF phase # "leaving" THEN {}
                          ELSE ((leaving \ leaving') \cap linked')
                                 \cup (IF adv = "none" THEN linked' \ linked ELSE {}))

Environment ==
  /\ Between
  /\ \/ \E h \in Hosts : \/ HostLinks(h) \/ HostPairs(h) \/ LinkDrops(h) \/ Overlooks(h)
                         \/ SeesAgain(h) \/ DisconnectFails(h) \/ Unpaired(h)
     \/ AdvertisementVanishes \/ Unregistered
  /\ Excuses
  /\ UNCHANGED <<transportVars, memoryVars, dialVars, bindVars, window, exposed, adv, bared, active,
                 phase, job, readVars, restarts, commands>>

Channels ==
  /\ Between
  /\ \E h \in Hosts : Asks(h) \/ (phase # "down" /\ (Rings(h) \/ Mismatched(h)))
  /\ UNCHANGED managerVars

Incoming == \E h \in Hosts : Subscribe(h) \/ Connects(h) \/ Notice(h) \/ Unreachable(h)

Dialling == Dial \/ (Between /\ DialReads) \/ AbandonDial \/ DialConnects \/ DialFindsStale \/ DialFails \/ BackoffEnds

HandleCmd ==
  \/ \E s \in Slots : OpenPairingWindow(s) \/ RepairSlot(s)
  \/ RemovePairing \/ OpenRepaired

SlotWatch == \E s \in Slots \cup {Local} : OnSlotChange(s)

Tick == (InTime /\ PollWindow) \/ PollUninvited \/ PollAdvertising \/ PollStuckHosts

Shutdown == Cancel \/ DisconnectAll \/ Exit

Next ==
  \/ Environment \/ Channels
  \/ Incoming \/ Dialling \/ HandleCmd \/ SlotWatch \/ Tick
  \/ Shutdown \/ Crash \/ Start

\* The loop takes what is ready and ends what it began, a second passes whatever
\* the hosts do; bluetoothd drops the links it was told to, and shows the others.
Fairness ==
  /\ SF_vars(Tick) /\ WF_vars(RemovePairing \/ OpenRepaired)
  /\ \A h \in Hosts :
       /\ WF_vars(Subscribe(h)) /\ WF_vars(Notice(h))
       /\ WF_vars(Asks(h) /\ UNCHANGED managerVars)
       /\ WF_vars(h \in leaving /\ LinkDrops(h) /\ UNCHANGED <<transportVars, managerVars>>)
       /\ WF_vars(SeesAgain(h) /\ UNCHANGED <<transportVars, managerVars>>)

Spec == Init /\ [][Next]_vars /\ Fairness

-----------------------------------------------------------------------------

Clock(n) == 0 .. n
HostClocks(n) == [Hosts -> Clock(n)]
Windows ==
  [slot : Slots, bound : BOOLEAN, left : 1 .. PairingWindow, prePaired : SUBSET Hosts]

Jobs == [slot : Slots, host : Hosts]

\* Every variable stays in its type (Manager, bt/mod.rs:121-159).
TypeOK ==
  /\ setup \in Setups
  /\ bond \in [Hosts -> {"new", "paired", "bonded"}]
  /\ linked \subseteq Hosts /\ unseen \cup leaving \subseteq linked
  /\ swallowed \cup forgotten \cup excused \subseteq Hosts
  /\ session \in [Hosts -> {"none", "asked", "gone", "open"}]
  /\ tries \in HostClocks(2)
  /\ {pairable, exposed, bared, app, redial} \subseteq BOOLEAN
  /\ {aired, adv} \subseteq {"off", "none", "connectable", "discoverable"}
  /\ attached \cup late \cup helped \cup connected \cup missed \subseteq Hosts
  /\ {parked, dialing} \subseteq Hosts \cup {NoHost} /\ found \in {"asking", "paired", "stale"}
  /\ bindings \in [Slots -> Hosts \cup {NoHost}] /\ preset \subseteq Slots
  /\ active \in Slots \cup {Local} /\ file \in Files
  /\ window \in {NoWindow} \cup Windows /\ job \in {NoJob} \cup Jobs
  /\ stuck \in [Hosts -> {Quiet} \cup Clock(StuckHostGrace)]
  /\ kicked \in HostClocks(KickMemory) /\ evicted \in HostClocks(EvictCooldown)
  /\ cooldown \in Clock(ReregisterCooldown)
  /\ {faults, commands, restarts} \subseteq Nat
  /\ phase \in {"idle", "swept", "advertise", "stuck", "repairing", "removed",
               "cancelled", "leaving", "down"}

\* The adapter takes pairings only while a window is recorded, whichever way
\* it was opened, replaced, settled or timed out (open_window, close_window).
\* Exempt is an adapter left so by a call that failed or by a crash.
PairableOnlyInWindow == pairable => window # NoWindow \/ exposed

\* New hosts see the hub only while a window has bound no host yet (settle_window,
\* apply_advertising), over every switch, tick and re-pair in between.  Exempt
\* are a classic adapter left so by a call that failed or a process that ended,
\* and on LE an advertisement given up that bluetoothd still has to unregister.
VisibleOnlyInWindow ==
  aired = "discoverable" =>
    \/ Unsettled(window) \/ bared
    \/ Le /\ adv = "none"
    \/ ~Le /\ phase = "down"

\* The loop believes a live session, whatever notices of earlier ones come in
\* late (LeTransport::forget_sub): a host that was heard is never written off.
RecordedIfLive == \A h \in Hosts : session[h] = "open" => h \in attached

\* A slot loses its host only to a re-pair, to a restart, or to a dial of that
\* very host which found it unpaired or could not read whether it is: a dial
\* that outlived its target unbinds nobody (run, the dial branch;
\* heal_stale_binding).
OnlyDeadUnbound ==
  [][\A s \in Slots : bindings[s] # NoHost /\ bindings'[s] # bindings[s] =>
       commands' < commands \/ phase = "down" \/ (dialing = bindings[s] /\ found = "stale")]_vars

\* Re-registering, which costs every host its session, is left alone while a
\* host that is served works (poll_stuck_hosts, remedy 2).  Exempt is a host
\* that Connected did not show this tick: the tick takes it for gone before
\* it looks at its subscription.
ReregisterAlone ==
  [][cooldown' > cooldown =>
       \A s \in Slots : Serves(s) /\ bindings[s] \notin missed \cup {NoHost} => session[bindings[s]] # "open"]_vars

\* No connection is served by re-registration twice (poll_stuck_hosts: a host
\* that ignores Service Changed does not keep the hub re-registering).  Exempt
\* are hosts whose notes went while their link stayed: on a switch away from
\* them, at a tick to which Connected did not show them, with the process.
OneReregistration == \A h \in Hosts \ forgotten : tries[h] < 2

\* On the way down every host is gone before the application is (run, after its
\* loop; LeTransport::shutdown).  Exempt is whom the shutdown could not get rid
\* of: a host Connected did not show, all of them if they could not be listed,
\* one whose disconnect failed, one that came while the advertisement, given up
\* before, was still to be unregistered.
HostsLeaveFirst ==
  [][Le /\ Exit => linked \subseteq excused]_vars

Running == phase \notin {"cancelled", "leaving", "down"}
Unheard(h) == Le /\ Running /\ h \in (Served \cap linked) \ (attached \cup helped)

\* A host that is connected and silent is not left so: it comes back, is
\* heard, or is known to have had its turn (poll_stuck_hosts).
StuckHandled == \A h \in Hosts : Unheard(h) ~> ~Unheard(h)

Expecting ==
  /\ Le /\ Running /\ ~Unsettled(window)
  /\ WantsAdvertising(bindings, active, ConnectedHosts(bindings))

\* While a bound host is away the hub advertises for it again, even after
\* bluetoothd lost the advertisement (apply_advertising, bt/mod.rs:660-664).
ExpectedHeard == Expecting /\ aired = "off" ~> ~Expecting \/ aired # "off"

\* What the file and a restart would make of the bindings: amid a re-pair the
\* slot still has its host.
Kept == IF job = NoJob THEN bindings ELSE [bindings EXCEPT ![job.slot] = job.host]

\* The manager keeps what PairingWindows promises.
Phase ==
  IF window = NoWindow THEN [phase |-> "closed"]
  ELSE [phase |-> IF window.bound THEN "settled" ELSE "open", slot |-> window.slot]

Promise == INSTANCE PairingWindows WITH bindings <- Kept, window <- Phase, seeds <- setup.seeds
PairingSpec == Promise!Spec

=============================================================================
