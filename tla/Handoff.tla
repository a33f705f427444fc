------------------------------- MODULE Handoff -------------------------------
(***************************************************************************)
(* A slot switch as the Bluetooth manager sees it (src/bt/mod.rs,          *)
(* src/bt/replay.rs, src/bt/gatt.rs).  The router tags each frame with its *)
(* slot and announces a switch on a watch, which keeps the newest value    *)
(* only; the manager reads both in whatever order select! takes them.      *)
(* With one connection at a time a switch disconnects the old host and     *)
(* holds the new host's frames until it has subscribed to its reports.     *)
(*                                                                         *)
(* Bindings do not change here, so a host stands for its slot, and no      *)
(* pairing window is open.  Router and hosts run while the manager waits   *)
(* inside on_slot_change, which is therefore three actions.                *)
(***************************************************************************)
EXTENDS Integers, Sequences, SequencesExt, FiniteSets

CONSTANTS
  Hosts, Local,       \* the bound hosts; the local slot
  Reports, Mouse,     \* the input reports; the one that may be motion only
  Pressed, Idle,      \* states a report can carry: something down, nothing
  FrameCap,           \* the frame channel's capacity
  BufferCap,          \* replay::CAPACITY
  Setups              \* the configurations, and which of AllFaults may happen

\* A link too busy for a frame; a host that does not take one; notifications
\* that end on a live link; a subscription that is dead before it is handled.
AllFaults == {"busy", "fail", "unsubscribe", "stale"}

Slots == Hosts \cup {Local}
States == Pressed \cup {Idle}
Frames == [slot : Hosts, report : Reports, state : States]
NoFrame == [slot |-> Local]
NoPending == [host |-> Local, buffer |-> <<>>, buttons |-> Idle]
NoSwitch == [old |-> Local, frame |-> NoFrame, step |-> "none"]

ASSUME HandoffAssumption ==
  /\ Local \notin Hosts /\ Idle \notin Pressed
  /\ FrameCap \in Nat \ {0} /\ BufferCap \in Nat \ {0}
  /\ Setups \subseteq [single : BOOLEAN, faults : SUBSET AllFaults]
  /\ IsFiniteSet(Reports)

VARIABLES
  setup,             \* one of Setups, the same throughout
  \* the router, the frame channel and the slot watch
  slot, tracked,     \* the router's slot; what the translator holds, by report
  frames, changed,   \* queued frames; the watch has a value not seen yet
  \* the manager and the transport
  active,            \* the slot the manager believes active
  pending,           \* the host frames are held for, and its replay buffer
  switching,         \* where on_slot_change is
  subs,              \* [Hosts -> [Reports -> "none", "live" or "dead"]]
  last,              \* [Hosts -> buttons of the last mouse report sent]
  \* the hosts
  link, leaving,     \* connected hosts; those of them told to disconnect
  shown,             \* what each host shows, by report
  \* history
  told,              \* the state in the last frame queued, by host and report
  behind,            \* <<host, report>> of a lost frame, none delivered since
  cut,               \* <<host, report>> whose subscription ended on a live link
  overtaken          \* <<host, report>> of a frame sent ahead of an older one

routerVars == <<slot, tracked, frames, changed, told>>
airVars == <<pending, subs, last, leaving, shown, behind, cut>>
vars == <<setup, routerVars, airVars, active, switching, link, overtaken>>

Single == setup.single   \* connections = "single"
Faults == setup.faults

ByReport(value) == [r \in Reports |-> value]

Init ==
  /\ setup \in Setups
  /\ slot \in Slots /\ active = slot /\ tracked = ByReport(Idle)
  /\ frames = <<>> /\ changed = FALSE
  /\ pending = IF Single /\ active # Local THEN [NoPending EXCEPT !.host = active] ELSE NoPending
  /\ switching = NoSwitch
  /\ subs = [h \in Hosts |-> ByReport("none")] /\ last = [h \in Hosts |-> Idle]
  /\ link \in SUBSET Hosts /\ leaving = {}
  /\ shown = [h \in Hosts |-> ByReport(Idle)]
  /\ told = [h \in Hosts |-> ByReport(Idle)]
  /\ behind = {} /\ cut = {} /\ overtaken = {}

-----------------------------------------------------------------------------
(* The router *)

Key(f) == <<f.slot, f.report>>

\* try_send of frames for the active slot, dropped when the channel is full.
Queue(batch) ==
  LET room == FrameCap - Len(frames)
      sent == SubSeq(batch, 1, IF Len(batch) < room THEN Len(batch) ELSE room)
  IN  /\ frames' = frames \o sent
      /\ told' = FoldLeft(LAMBDA tl, f : [tl EXCEPT ![f.slot][f.report] = f.state], told, sent)
      /\ overtaken' = overtaken \ {Key(sent[i]) : i \in DOMAIN sent}

\* A report for the active host: a change of state, or motion.
Report(r, state) ==
  /\ slot \in Hosts
  /\ state # tracked[r] \/ r = Mouse
  /\ tracked' = [tracked EXCEPT ![r] = state]
  /\ Queue(<<[slot |-> slot, report |-> r, state |-> state]>>)
  /\ UNCHANGED <<slot, changed, airVars, active, switching, link>>

\* switch_to: releases for the host being left, then the watch.
SwitchTo(s) ==
  /\ s # slot
  /\ Queue(SetToSeq({[slot |-> slot, report |-> r, state |-> Idle] :
                       r \in {q \in Reports : tracked[q] # Idle}}))
  /\ tracked' = ByReport(Idle)
  /\ slot' = s /\ changed' = TRUE
  /\ UNCHANGED <<airVars, active, switching, link>>

-----------------------------------------------------------------------------
(* The transport and the replay buffer, as operators from what a handler    *)
(* has so far ("air") to the possible outcomes.                             *)

Air == [pending |-> pending, subs |-> subs, last |-> last, leaving |-> leaving,
        shown |-> shown, behind |-> behind, cut |-> cut]

Holding(a, p) == [pending |-> p, subs |-> a.subs, last |-> a.last, leaving |-> a.leaving,
                  shown |-> a.shown, behind |-> a.behind, cut |-> a.cut]

Becomes(a) ==
  /\ pending' = a.pending /\ subs' = a.subs /\ last' = a.last
  /\ leaving' = a.leaving /\ shown' = a.shown
  /\ behind' = a.behind /\ cut' = a.cut

Unsubscribed(a, h) == \A r \in Reports : a.subs[h][r] = "none"

\* Mutant: every mouse report is taken for motion.
MouseIsMotion(f, buttons) == f.report = Mouse

\* is_motion_only
MotionOnly(f, buttons) == f.report = Mouse /\ f.state = buttons

Lost(a, lost) == [a EXCEPT !.behind = @ \cup {Key(lost[i]) : i \in DOMAIN lost}]

\* forget_sub; the peer's entry goes with its last subscription.
ForgetSub(a, h, r) ==
  LET rest == [a.subs[h] EXCEPT ![r] = "none"]
  IN  [a EXCEPT !.subs[h] = rest,
                !.last[h] = IF \A q \in Reports : rest[q] = "none" THEN Idle ELSE @,
                !.cut = IF h \in link THEN @ \cup {<<h, r>>} ELSE @]

Shows(a, f) ==
  [a EXCEPT !.shown[f.slot][f.report] = f.state,
            !.last[f.slot] = IF f.report = Mouse THEN f.state ELSE @,
            !.behind = @ \ {Key(f)}, !.cut = @ \ {Key(f)}]

\* send_to: dropped, refused by a dead writer, sent, or not taken in time; under
\* back-pressure mere motion is dropped.
SendTo(a, f) ==
  LET sub == a.subs[f.slot][f.report]
  IN  IF sub = "none" THEN {Lost(a, <<f>>)}
      ELSE (IF sub = "live" THEN {Shows(a, f)} ELSE {})
           \cup (IF sub = "dead" \/ "fail" \in Faults
                 THEN {Lost(ForgetSub(a, f.slot, f.report), <<f>>)} ELSE {})
           \cup (IF sub = "live" /\ "busy" \in Faults /\ MotionOnly(f, a.last[f.slot]) THEN {a} ELSE {})

\* Mutant: replayed from the newest.
SendNewestFirst(a, batch) ==
  FoldRight(LAMBDA f, outcomes : UNION {SendTo(x, f) : x \in outcomes}, batch, {a})

\* One after the other, on whatever the last one left.
SendAll(a, batch) ==
  FoldLeft(LAMBDA outcomes, f : UNION {SendTo(x, f) : x \in outcomes}, {a}, batch)

\* Mutant: the buffer has no bound.
KeepAll(a, f) ==
  IF MotionOnly(f, a.pending.buttons) THEN a
  ELSE [a EXCEPT !.pending.buffer = Append(@, f),
                 !.pending.buttons = IF f.report = Mouse THEN f.state ELSE @]

\* ReplayBuffer::push: motion is not kept, and a full buffer loses its oldest.
Push(a, f) ==
  LET buffer == a.pending.buffer
      full   == Len(buffer) >= BufferCap
      kept   == [a EXCEPT !.pending.buffer = Append(IF full THEN Tail(buffer) ELSE buffer, f),
                          !.pending.buttons = IF f.report = Mouse THEN f.state ELSE @]
  IN  IF MotionOnly(f, a.pending.buttons) THEN a
      ELSE IF full THEN Lost(kept, <<Head(buffer)>>) ELSE kept

\* Mutant: the slot's tag ignored.
RouteToActive(a, f) ==
  IF active = Local THEN {a} ELSE SendTo(a, [f EXCEPT !.slot = active])

\* route_frame: to the host of the frame's own slot, or held for it.
RouteFrame(a, f) ==
  IF a.pending.host = f.slot /\ a.subs[f.slot][f.report] = "none"
  THEN {Push(a, f)}
  ELSE SendTo(a, f)

\* Mutant: what is held for one host stays when the next one needs nothing held.
KeepPending(a) == Lost(a, a.pending.buffer)

Discard(a) == [Lost(a, a.pending.buffer) EXCEPT !.pending = NoPending]

Attached(a, h) == \A r \in Reports : a.subs[h][r] # "none"

\* arm_pending, with nothing held.
ArmPending(a) ==
  IF ~Single \/ active = Local \/ Attached(a, active) THEN a
  ELSE [a EXCEPT !.pending = [NoPending EXCEPT !.host = active]]

\* drop_peer; bluetoothd takes up to two seconds over the link.
DropPeers(a, gone) ==
  [a EXCEPT !.subs = [h \in Hosts |-> IF h \in gone THEN ByReport("none") ELSE a.subs[h]],
            !.last = [h \in Hosts |-> IF h \in gone THEN Idle ELSE a.last[h]],
            !.leaving = @ \cup (gone \cap link)]

\* Those of the frames that are of one of these reports (a fold, where the
\* provers know nothing of SelectSeq).
Only(batch, reports) ==
  FoldLeft(LAMBDA kept, f : IF f.report \in reports THEN Append(kept, f) ELSE kept, <<>>, batch)

\* Mutant: the host counts as attached with its first report.
OneReportAttaches(a, h, r) ==
  IF a.pending.host # h \/ a.subs[h][r] = "none" THEN {a}
  ELSE LET mine == Only(a.pending.buffer, {r})
       IN  {Holding(x, NoPending) : x \in SendAll(a, mine)}

\* on_subscribed: replay that report's frames; with all reports enabled, stop holding.
OnSubscribed(a, h, r) ==
  IF a.pending.host # h \/ a.subs[h][r] = "none" THEN {a}
  ELSE LET mine == Only(a.pending.buffer, {r})
           rest == Only(a.pending.buffer, Reports \ {r})
       IN  {Holding(x, IF Attached(x, h) THEN NoPending ELSE [a.pending EXCEPT !.buffer = rest]) :
              x \in SendAll(a, mine)}

\* active_host_present
ActivePresent(a) == active # Local /\ (active \in link \/ ~Unsubscribed(a, active))

-----------------------------------------------------------------------------
(* The manager's select loop *)

Idling == switching = NoSwitch

TakeFrame ==
  /\ Idling /\ frames # <<>>
  /\ Head(frames).slot = active \/ ~changed
  /\ frames' = Tail(frames)
  /\ \E a \in RouteFrame(Air, Head(frames)) : Becomes(a)
  /\ UNCHANGED <<slot, tracked, changed, told, active, switching, link, overtaken>>

\* on_slot_change, up to where it may wait: with several hosts connected that
\* is all of it, and the frame that showed the switch is routed at once.
BeginSwitch(frame) ==
  /\ changed' = FALSE
  /\ active' = slot
  /\ \/ /\ Single
        /\ switching' = [old |-> active, frame |-> frame, step |-> "drain"]
        /\ UNCHANGED airVars
     \/ /\ ~Single /\ UNCHANGED switching
        /\ IF frame = NoFrame THEN UNCHANGED airVars
           ELSE \E a \in RouteFrame(Air, frame) : Becomes(a)
  /\ UNCHANGED <<slot, tracked, told, link, overtaken>>

\* A frame for another slot shows the switch before the watch does.
SwitchByFrame ==
  /\ Idling /\ frames # <<>> /\ changed
  /\ Head(frames).slot # active
  /\ frames' = Tail(frames)
  /\ BeginSwitch(Head(frames))

SwitchByWatch ==
  /\ Idling /\ changed
  /\ UNCHANGED frames
  /\ BeginSwitch(NoFrame)

\* "flush what the router already queued"
Drain ==
  /\ switching.step = "drain" /\ frames # <<>>
  /\ frames' = Tail(frames)
  /\ \E a \in RouteFrame(Air, Head(frames)) : Becomes(a)
  /\ overtaken' = IF switching.frame # NoFrame /\ Key(switching.frame) = Key(Head(frames))
                  THEN overtaken \cup {Key(Head(frames))} ELSE overtaken
  /\ UNCHANGED <<slot, tracked, changed, told, active, switching, link>>

\* Mutant: the new host's frames are held before the old ones are flushed.
ArmFirst ==
  /\ switching.step = "drain"
  /\ Becomes(ArmPending(Discard(Air)))
  /\ switching' = [switching EXCEPT !.step = "drop"]
  /\ UNCHANGED <<routerVars, active, link, overtaken>>

Arm ==
  /\ switching.step = "drain" /\ frames = <<>>
  /\ Becomes(ArmPending(Discard(Air)))
  /\ switching' = [switching EXCEPT !.step = "drop"]
  /\ UNCHANGED <<routerVars, active, link, overtaken>>

\* Disconnect the old host; then the frame that showed the switch is routed.
DropOld ==
  /\ switching.step = "drop"
  /\ LET gone == DropPeers(Air, {switching.old} \ {Local, active})
         outcomes == IF switching.frame = NoFrame THEN {gone} ELSE RouteFrame(gone, switching.frame)
     IN  \E a \in outcomes : Becomes(a)
  /\ switching' = NoSwitch
  /\ UNCHANGED <<routerVars, active, link, overtaken>>

\* A host enabled a report (accept_incoming, on_incoming_peer, on_subscribed).
\* The writer is dead already when the link went down in the meantime.
Subscribe(h, r) ==
  /\ Idling
  /\ \E sub \in (IF h \in link THEN {"live"} ELSE {}) \cup (IF "stale" \in Faults THEN {"dead"} ELSE {}) :
       LET a == [Air EXCEPT !.subs[h][r] = sub]
           uninvited == Unsubscribed(Air, h) /\ Single /\ h # active /\ ActivePresent(Air)
       IN  \E x \in OnSubscribed(IF uninvited THEN DropPeers(a, {h}) ELSE a, h, r) : Becomes(x)
  /\ UNCHANGED <<routerVars, active, switching, link, overtaken>>

\* A closed session is noticed (forget_sub, of this generation).
Closed(h, r) ==
  /\ Idling /\ subs[h][r] = "dead"
  /\ Becomes(ForgetSub(Air, h, r))
  /\ UNCHANGED <<routerVars, active, switching, link, overtaken>>

\* poll_uninvited; a host told to go a moment ago (EVICT_COOLDOWN) is not told again.
PollUninvited ==
  /\ Idling /\ Single /\ ActivePresent(Air)
  /\ \E evict \in SUBSET {h \in Hosts \ {active} : h \in link \/ ~Unsubscribed(Air, h)} :
       Becomes(DropPeers(Air, evict))
  /\ UNCHANGED <<routerVars, active, switching, link, overtaken>>

\* poll_pending, after REPLAY_WINDOW.
GiveUp ==
  /\ Idling /\ pending # NoPending
  /\ Becomes(Discard(Air))
  /\ UNCHANGED <<routerVars, active, switching, link, overtaken>>

-----------------------------------------------------------------------------
(* The hosts *)

LinkUp(h) ==
  /\ h \notin link
  /\ link' = link \cup {h}
  /\ UNCHANGED <<routerVars, airVars, active, switching, overtaken>>

Dying(h) == [r \in Reports |-> IF subs[h][r] = "live" THEN "dead" ELSE subs[h][r]]

\* A host releases everything when its keyboard goes away.
LinkDown(h) ==
  /\ h \in link
  /\ link' = link \ {h} /\ leaving' = leaving \ {h}
  /\ shown' = [shown EXCEPT ![h] = ByReport(Idle)]
  /\ subs' = [subs EXCEPT ![h] = Dying(h)]
  /\ behind' = behind \cup {<<h, r>> : r \in Reports}
  /\ cut' = {c \in cut : c[1] # h}
  /\ UNCHANGED <<routerVars, pending, last, active, switching, overtaken>>

\* Notifications end while the link stays: the host stops them, or the
\* application is registered anew (reregister).
SubscriptionsEnd(h) ==
  /\ "unsubscribe" \in Faults
  /\ h \in link /\ \E r \in Reports : subs[h][r] = "live"
  /\ subs' = [subs EXCEPT ![h] = Dying(h)]
  /\ cut' = cut \cup {<<h, r>> : r \in {q \in Reports : subs[h][q] = "live"}}
  /\ UNCHANGED <<routerVars, pending, last, leaving, shown, behind, active, switching, link, overtaken>>

Router == (\E r \in Reports, state \in States : Report(r, state)) \/ (\E s \in Slots : SwitchTo(s))

Manager ==
  \/ TakeFrame \/ SwitchByFrame \/ SwitchByWatch \/ Drain \/ Arm \/ DropOld
  \/ \E h \in Hosts, r \in Reports : Subscribe(h, r) \/ Closed(h, r)
  \/ PollUninvited \/ GiveUp

Desk == \E h \in Hosts : LinkUp(h) \/ LinkDown(h) \/ SubscriptionsEnd(h)

Next == (Router \/ Manager \/ Desk) /\ UNCHANGED setup

Spec == Init /\ [][Next]_vars

-----------------------------------------------------------------------------

TypeOK ==
  /\ setup \in Setups
  /\ slot \in Slots /\ active \in Slots /\ changed \in BOOLEAN
  /\ tracked \in [Reports -> States] /\ told \in [Hosts -> [Reports -> States]]
  /\ frames \in Seq(Frames) /\ Len(frames) <= FrameCap
  /\ pending \in [host : Slots, buffer : Seq(Frames), buttons : States]
  /\ Len(pending.buffer) <= BufferCap
  /\ switching \in [old : Slots, frame : Frames \cup {NoFrame}, step : {"none", "drain", "drop"}]
  /\ subs \in [Hosts -> [Reports -> {"none", "live", "dead"}]]
  /\ last \in [Hosts -> States] /\ link \subseteq Hosts /\ leaving \subseteq link
  /\ shown \in [Hosts -> [Reports -> States]]
  /\ behind \cup cut \cup overtaken \subseteq Hosts \X Reports

\* A frame of this report is still on its way to the host.
OnItsWay(h, r) ==
  \/ \E i \in DOMAIN frames : Key(frames[i]) = <<h, r>>
  \/ \E i \in DOMAIN pending.buffer : Key(pending.buffer[i]) = <<h, r>>
  \/ switching.frame # NoFrame /\ Key(switching.frame) = <<h, r>>

\* The host holds something down that it has not been told to hold last, and
\* nothing on its way, nor the end of its connection, will put that right.
Stuck(h, r) ==
  h \in link \ leaving /\ shown[h][r] \notin {Idle, told[h][r]} /\ ~OnItsWay(h, r)

\* "A dropped release is worse than a dropped press: the host keeps the key
\* down" (replay.rs:6-8).  Frames may be lost at a full buffer, on giving up,
\* or on switching away in the middle of a reconnect, but a press never arrives
\* without its release, save where the host's subscription ended under it, or
\* where a switch let newer frames overtake an older one.  What counts is what
\* the router queued (told): a release it dropped at the full channel does not.
NoStuckKey ==
  \A h \in Hosts, r \in Reports : Stuck(h, r) => <<h, r>> \in cut \cup overtaken

\* Once the active host has subscribed and everything queued has been handled,
\* it shows what the router told it last: what was typed during the reconnect
\* is not missing, unless it was lost on a path that says so.
CaughtUp ==
  (Idling /\ ~changed /\ active \in Hosts \ leaving) =>
    \A r \in Reports :
      (subs[active][r] = "live" /\ ~OnItsWay(active, r)
        /\ <<active, r>> \notin behind \cup cut \cup overtaken)
      => shown[active][r] = told[active][r]

\* Frames are held only with one connection at a time, and only for the host the
\* manager believes active: a switch leaves no buffer behind that a later
\* subscription of its host would replay (bt/mod.rs:758-764).
HeldForActive ==
  /\ pending.host # Local => Single
  /\ switching.step # "drain" => pending.host \in {Local, active}

\* "disconnect the old host ... so the release notifications go out first"
\* (bt/mod.rs:740-742): it is dropped with nothing down, if the router has not
\* moved again in the meantime; exempt is what the router itself dropped at the
\* full channel.
ReleasedBeforeDropped ==
  [][switching.step = "drop" /\ switching' = NoSwitch /\ ~changed
       /\ switching.old \notin {Local, active} \cup leaving =>
     \A r \in Reports :
       \/ shown[switching.old][r] = Idle
       \/ <<switching.old, r>> \in cut \cup overtaken
       \/ told[switching.old][r] # Idle]_vars

(* What comments say and the code does not do *)

\* "Take the switch first, so the frame is held for the new host"
\* (bt/mod.rs:388-394), behind no other: no press arrives without its release.
HeldInOrder == \A h \in Hosts, r \in Reports : Stuck(h, r) => <<h, r>> \in cut

=============================================================================
