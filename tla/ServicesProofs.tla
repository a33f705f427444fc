---------------------------- MODULE ServicesProofs ----------------------------
(***************************************************************************)
(* Proofs about Services.tla, for every number of slots, hosts, devices    *)
(* and commands, and every capacity of the channels.                       *)
(***************************************************************************)
EXTENDS Services, TLAPS

-----------------------------------------------------------------------------
(* The blink follows the window.  What is still in the channel decides: the *)
(* last of it that is no repaint, or, if there is none, what is shown now.  *)

Told == {"PairingOpen", "PairingClosed", "Bound", "Repaint"}
IsOpen == window.phase = "open"
OpenSlots == Slots \ {0}

EventsOK ==
  /\ events \in Seq(Told)
  /\ anim \in [kind : {"steady", "pairing", "flash"}, lit : BOOLEAN, left : Int]
  /\ window \in [phase : {"closed"}] \cup [phase : {"open", "settled"}, slot : OpenSlots]

LastWord(i) ==
  /\ i \in 1..Len(events) /\ events[i] # "Repaint"
  /\ \A j \in 1..Len(events) : j > i => events[j] = "Repaint"

Follows ==
  (at # "stopped" /\ ~missed) =>
    /\ (\A i \in 1..Len(events) : events[i] = "Repaint") => (anim.kind = "pairing" <=> IsOpen)
    /\ \A i \in 1..Len(events) : LastWord(i) => (events[i] = "PairingOpen" <=> IsOpen)

BlinkInv == EventsOK /\ Follows

LEMMA InitBlinkInv == Init => BlinkInv
<1>. SUFFICES ASSUME Init PROVE BlinkInv
  OBVIOUS
<1>1. events = <<>> /\ anim = Steady /\ window = [phase |-> "closed"]
  BY DEF Init, LightingInit, LightsInit, Manager!Init, Manager!Closed
<1>. QED  BY <1>1, LightsAssumption DEF BlinkInv, EventsOK, Follows, IsOpen, Steady, LastWord

\* The manager tells of every change of the window, after it.
LEMMA NotifyRgbFollows ==
  ASSUME BlinkInv, NEW e \in Told \ {"Repaint"}, NotifyRgb(e), EventsOK',
         (e = "PairingOpen") <=> IsOpen'
  PROVE  BlinkInv'
<1>. USE DEF BlinkInv, EventsOK, Told
<1>1. UNCHANGED <<at, anim>> /\ missed' = (Len(events) >= EventCap)
  BY DEF NotifyRgb, lightsVars
<1>2. CASE at = "stopped" \/ Len(events) >= EventCap
  BY <1>1, <1>2 DEF Follows
<1>3. CASE at # "stopped" /\ Len(events) < EventCap
  <2>1. events' = Append(events, e)
    BY <1>3 DEF NotifyRgb, Notify, On
  <2>2. /\ Len(events') = Len(events) + 1 /\ events'[Len(events) + 1] = e
        /\ e # "Repaint"
    BY <2>1
  <2>3. ~ \A i \in 1..Len(events') : events'[i] = "Repaint"
    BY <2>2
  <2>4. \A i \in 1..Len(events') : LastWord(i)' => i = Len(events) + 1
    BY <2>2 DEF LastWord
  <2>. QED  BY <2>2, <2>3, <2>4 DEF Follows
<1>. QED  BY <1>1, <1>2, <1>3, LightingAssumption

LEMMA ManagerFollows ==
  ASSUME BlinkInv, OpensWindow \/ SettlesWindow \/ ClosesWindow
  PROVE  BlinkInv'
<1>0. ASSUME NEW e \in Told, Notify(e)
      PROVE  events' \in Seq(Told)
  BY <1>0 DEF Notify, BlinkInv, EventsOK
<1>1. UNCHANGED anim
  BY DEF OpensWindow, SettlesWindow, ClosesWindow, NotifyRgb, lightsVars
<1>2. CASE OpensWindow
  <2>1. \E s \in OpenSlots : window' = [phase |-> "open", slot |-> s]
    <3>1. PICK s \in setup.windows \cap (Slots \ {0}) : Manager!Open(s) \/ (Manager!Unbind(s) /\ window' # window)
      BY <1>2 DEF OpensWindow
    <3>. QED  BY <3>1 DEF Manager!Open, Manager!Unbind, OpenSlots
  <2>2. NotifyRgb("PairingOpen") /\ events' \in Seq(Told)
    BY <1>2, <1>0 DEF OpensWindow, NotifyRgb, Told
  <2>3. EventsOK' /\ IsOpen'
    BY <1>1, <2>1, <2>2 DEF BlinkInv, EventsOK, IsOpen
  <2>. QED  BY <2>2, <2>3, NotifyRgbFollows DEF Told
<1>3. CASE SettlesWindow
  <2>1. window.phase = "open" /\ window' = [window EXCEPT !.phase = "settled"]
    BY <1>3 DEF SettlesWindow, Manager!Settle
  <2>2. NotifyRgb("Bound") /\ events' \in Seq(Told)
    BY <1>3, <1>0 DEF SettlesWindow, NotifyRgb, Told
  <2>3. window \in [phase : {"open", "settled"}, slot : OpenSlots]
    BY <2>1 DEF BlinkInv, EventsOK
  <2>4. window' \in [phase : {"open", "settled"}, slot : OpenSlots] /\ ~IsOpen'
    BY <2>1, <2>3 DEF IsOpen
  <2>5. EventsOK'
    BY <1>1, <2>2, <2>4 DEF BlinkInv, EventsOK
  <2>. QED  BY <2>2, <2>4, <2>5, NotifyRgbFollows DEF Told
<1>4. CASE ClosesWindow
  <2>1. window' = [phase |-> "closed"]
    BY <1>4 DEF ClosesWindow, Manager!Close, Manager!Closed
  <2>2. NotifyRgb("PairingClosed") /\ events' \in Seq(Told)
    BY <1>4, <1>0 DEF ClosesWindow, NotifyRgb, Told
  <2>3. EventsOK' /\ ~IsOpen'
    BY <1>1, <2>1, <2>2 DEF BlinkInv, EventsOK, IsOpen
  <2>. QED  BY <2>2, <2>3, NotifyRgbFollows DEF Told
<1>. QED  BY <1>2, <1>3, <1>4

\* A repaint is nobody's last word.
LEMMA RepaintFollows ==
  ASSUME BlinkInv, AsksRepaint
  PROVE  BlinkInv'
<1>. USE DEF BlinkInv, EventsOK, Told
<1>1. UNCHANGED <<at, anim, window, missed>>
  BY DEF AsksRepaint, lightsVars, managerVars
<1>2. CASE UNCHANGED events
  BY <1>1, <1>2 DEF Follows, IsOpen, LastWord
<1>3. CASE events' = Append(events, "Repaint")
  <2>1. /\ events' \in Seq(Told) /\ Len(events') = Len(events) + 1
        /\ \A i \in 1..Len(events) : events'[i] = events[i]
        /\ events'[Len(events) + 1] = "Repaint"
    BY <1>3
  <2>2. \A i \in 1..Len(events') : LastWord(i)' => i \in 1..Len(events) /\ LastWord(i)
    BY <2>1 DEF LastWord
  <2>3. (\A i \in 1..Len(events') : events'[i] = "Repaint") => \A i \in 1..Len(events) : events[i] = "Repaint"
    BY <2>1
  <2>. QED  BY <1>1, <2>1, <2>2, <2>3 DEF Follows, IsOpen
<1>. QED  BY <1>2, <1>3 DEF AsksRepaint, Notify

\* Taking an event from the channel shows what it says; a repaint says nothing.
LEMMA EventTakenFollows ==
  ASSUME BlinkInv, EventTaken, UNCHANGED <<window, missed>>
  PROVE  BlinkInv'
<1>. USE DEF BlinkInv, EventsOK, Told
<1>1. /\ at = "select" /\ at' # "stopped" /\ events # <<>> /\ events' = Tail(events)
      /\ \/ events[1] # "Repaint" /\ OnEvent(events[1])
         \/ events[1] = "Repaint" /\ UNCHANGED anim
  BY DEF EventTaken, Selected, Enumerate, lightsVars
<1>2. /\ events' \in Seq(Told) /\ Len(events') = Len(events) - 1
      /\ \A i \in 1..Len(events') : events'[i] = events[i + 1]
      /\ Len(events) \in Nat \ {0} /\ events[1] \in Told
  BY <1>1
<1>3. anim' \in [kind : {"steady", "pairing", "flash"}, lit : BOOLEAN, left : Int]
  <2>1. Flashes \in Nat
    BY LightsAssumption
  <2>2. anim' \in {anim, Blink, Steady, Flash}
    BY <1>1 DEF OnEvent
  <2>3. {Blink, Steady, Flash} \subseteq [kind : {"steady", "pairing", "flash"}, lit : BOOLEAN, left : Int]
    BY <2>1 DEF Blink, Steady, Flash
  <2>. QED  BY <2>2, <2>3
<1>4. \A i \in 1..Len(events') : LastWord(i)' => i + 1 \in 1..Len(events) /\ LastWord(i + 1)
  <2>. SUFFICES ASSUME NEW i \in 1..Len(events'), LastWord(i)'
                PROVE  i + 1 \in 1..Len(events) /\ LastWord(i + 1)
    OBVIOUS
  <2>1. i + 1 \in 1..Len(events) /\ events[i + 1] # "Repaint"
    BY <1>2 DEF LastWord
  <2>2. ASSUME NEW j \in 1..Len(events), j > i + 1
        PROVE  events[j] = "Repaint"
    <3>1. j - 1 \in 1..Len(events') /\ j - 1 > i /\ (j - 1) + 1 = j
      BY <1>2, <2>2
    <3>2. events'[j - 1] = "Repaint"
      BY <3>1 DEF LastWord
    <3>. QED  BY <1>2, <3>1, <3>2
  <2>. QED  BY <2>1, <2>2 DEF LastWord
<1>5. ASSUME \A i \in 1..Len(events') : events'[i] = "Repaint", ~missed
      PROVE  anim'.kind = "pairing" <=> IsOpen
  <2>1. \A j \in 1..Len(events) : j > 1 => events[j] = "Repaint"
    <3>. SUFFICES ASSUME NEW j \in 1..Len(events), j > 1 PROVE events[j] = "Repaint"
      OBVIOUS
    <3>1. j - 1 \in 1..Len(events') /\ (j - 1) + 1 = j
      BY <1>2
    <3>2. events'[j - 1] = "Repaint"
      BY <1>5, <3>1
    <3>. QED  BY <1>2, <3>1, <3>2
  <2>2. CASE events[1] # "Repaint"
    <3>1. LastWord(1)
      BY <1>2, <2>1, <2>2 DEF LastWord
    <3>2. events[1] = "PairingOpen" <=> IsOpen
      BY <1>1, <1>2, <1>5, <3>1 DEF Follows
    <3>3. anim'.kind = "pairing" <=> events[1] = "PairingOpen"
      BY <1>1, <2>2 DEF OnEvent, Blink, Steady, Flash
    <3>. QED  BY <3>2, <3>3
  <2>3. CASE events[1] = "Repaint"
    BY <1>1, <1>2, <1>5, <2>1, <2>3 DEF Follows
  <2>. QED  BY <2>2, <2>3
<1>. QED  BY <1>1, <1>2, <1>3, <1>4, <1>5 DEF Follows, IsOpen

\* An animation that ticks becomes no other, but for a flash that ends.
LEMMA TimerFollows ==
  ASSUME BlinkInv, NEW due, TimerDue(due), UNCHANGED <<window, missed>>
  PROVE  BlinkInv'
<1>. USE DEF BlinkInv, EventsOK
<1>1. at = "select" /\ at' = "loop" /\ UNCHANGED events
  BY DEF TimerDue, Selected, inputVars
<1>2. anim' = anim \/ anim' = TickAnim
  BY DEF TimerDue, LightsTick
<1>3. /\ TickAnim \in [kind : {"steady", "pairing", "flash"}, lit : BOOLEAN, left : Int]
      /\ TickAnim.kind = "pairing" <=> anim.kind = "pairing"
  <2>1. CASE anim.kind = "steady" \/ (anim.kind = "flash" /\ anim.left = 0)
    BY <2>1 DEF TickAnim, Steady
  <2>2. CASE anim.kind = "pairing"
    <3>1. TickAnim = [anim EXCEPT !.lit = ~anim.lit]
      BY <2>2 DEF TickAnim
    <3>. QED  BY <2>2, <3>1
  <2>3. CASE anim.kind = "flash" /\ anim.left # 0
    <3>1. TickAnim = [anim EXCEPT !.lit = ~anim.lit, !.left = anim.left - 1]
      BY <2>3 DEF TickAnim
    <3>2. TickAnim = [kind |-> "flash", lit |-> ~anim.lit, left |-> anim.left - 1]
      BY <2>3, <3>1
    <3>. QED  BY <2>3, <3>2
  <2>. QED  BY <2>1, <2>2, <2>3
<1>. QED  BY <1>1, <1>2, <1>3 DEF Follows, LastWord, IsOpen

LEMMA StepBlinkInv == BlinkInv /\ [Next]_vars => BlinkInv'
<1>. SUFFICES ASSUME BlinkInv, [Next]_vars PROVE BlinkInv'
  OBVIOUS
\* The rest changes neither what is shown, nor the channel, nor the window.
<1>1. ASSUME UNCHANGED <<events, anim, window, missed>>, at = "stopped" => at' = "stopped"
      PROVE  BlinkInv'
  BY <1>1 DEF BlinkInv, EventsOK, Follows, LastWord, IsOpen
<1>2. CASE OpensWindow \/ SettlesWindow \/ ClosesWindow
  BY <1>2, ManagerFollows
<1>3. CASE AsksRepaint
  BY <1>3, RepaintFollows
<1>4. CASE Surroundings
  BY <1>1, <1>4 DEF Surroundings, Touch, RouterSwitches, ServerStarts, ServerStops, Plug, Garble,
                    lightsVars, inputVars, managerVars
<1>5. CASE AsksForCommand \/ Spawns \/ Ends \/ Reaps \/ Cancel \/ Hooked(HooksStop) \/ UNCHANGED vars
  BY <1>1, <1>5 DEF AsksForCommand, Spawns, Ends, Reaps, Cancel, Hooked, vars,
                    lightsVars, lightingVars, inputVars, managerVars
<1>6. CASE Proceeds
  BY <1>1, <1>6 DEF Proceeds, Lit, Connect, ConnectDue, Connected, ConnectFails, Enumerate, EnumerationEnds,
                    EnumerationFails, Apply, GoOn, lightsVars, inputVars, managerVars
<1>7. CASE Selects
  <2>1. CASE \E t \in {"idle", "fade", "anim"} : TimerRings(t)
    BY <2>1, TimerFollows DEF TimerRings, Lit, managerVars
  <2>2. CASE Lit(EventTaken)
    BY <2>2, EventTakenFollows DEF Lit, managerVars
  <2>3. CASE Lit(SlotChanged \/ ActivitySeen \/ Rescan) \/ Recovers
    BY <1>1, <2>3 DEF Recovers, Lit, SlotChanged, SetSlot, ActivitySeen, OnActivity, Rescan, ListChanged, Enumerate,
                      Closed, Retry, Selected, lightsVars, inputVars, managerVars
  <2>. QED  BY <1>7, <2>1, <2>2, <2>3 DEF Selects, Lit
<1>8. CASE Lit(LightingStops)
  BY <1>1, <1>8 DEF Lit, LightingStops, lightsVars, inputVars, managerVars
<1>. QED  BY <1>2, <1>3, <1>4, <1>5, <1>6, <1>7, <1>8 DEF Next, Stops

\* The lights blink if and only if a pairing window waits for a host, once they
\* have taken all they were told and unless the last of it was dropped.
THEOREM SpecBlinks == Spec => []BlinksWhileOpen
<1>1. BlinkInv => BlinksWhileOpen
  BY DEF BlinkInv, EventsOK, Follows, BlinksWhileOpen, IsOpen
<1>. QED  BY <1>1, InitBlinkInv, StepBlinkInv, PTL DEF Spec
-----------------------------------------------------------------------------
(* What the devices show.  Ready is the task with a connection and a list  *)
(* it may trust; what it remembers of each device is then what was sent.   *)

Resting == at \in {"loop", "apply", "select"}
Ready == conn = "open" /\ Resting /\ ~announced /\ since.list # "lost"

Typed ==
  /\ setup \in Setups /\ slot \in Slots /\ routerSlot \in Slots
  /\ present \subseteq Devices
  /\ display = [d \in Devices |-> [color |-> display[d].color, brightness |-> display[d].brightness]]
  /\ since \in [list : {"current", "moving", "lost"}, damaged : SUBSET Devices]

ListRead ==
  /\ conn = "open" => serving
  /\ conn = "open" /\ at = "enumerating" /\ since.list = "current" => found = present
  /\ conn = "open" /\ since.list = "moving" => at = "enumerating"
  /\ Ready => DOMAIN targets = present

Remembered(d) ==
  /\ targets[d].pushed /\ targets[d].mode.brightness = display[d].brightness
  /\ d \in Dimmable => display[d].brightness = last.brightness
  /\ d \notin PerLed => targets[d].mode.color = last.color
  /\ d \notin since.damaged => display[d].color = last.color

Painting ==
  /\ Ready => \A d \in present : IF last = NoFrame THEN ~targets[d].pushed ELSE Remembered(d)
  /\ at = "select" /\ conn = "open" => last = Frame

ShownInv == Typed /\ ListRead /\ Painting

LEMMA FrameIsSome == Typed => Frame # NoFrame
BY LightsAssumption DEF Typed, Frame, NoFrame

LEMMA InitShownInv == Init => ShownInv
<1>. SUFFICES ASSUME Init PROVE ShownInv
  OBVIOUS
<1>1. setup \in Setups /\ slot \in Slots /\ routerSlot \in Slots
  BY ServicesAssumption DEF Init, LightingInit, LightsInit
<1>2. conn = "none" /\ since = Fresh /\ present \subseteq Devices
  BY <1>1, ServicesAssumption DEF Init, LightingInit
<1>3. display = [d \in Devices |-> [color |-> Own, brightness |-> 0]]
  BY DEF Init, LightingInit
<1>. QED  BY <1>1, <1>2, <1>3 DEF ShownInv, Typed, ListRead, Painting, Ready, Fresh

\* Without a connection there is nothing to show.
LEMMA Unconnected ==
  ASSUME ShownInv, conn' # "open", UNCHANGED <<setup, slot, routerSlot, present, display, since>>
  PROVE  ShownInv'
BY DEF ShownInv, Typed, ListRead, Painting, Ready

\* What touches neither the frame, nor the server, nor what is known of it.
LEMMA Untouched ==
  ASSUME ShownInv, UNCHANGED <<setup, slot, connVars, serving, present, display, found, since>>,
         announced => announced', routerSlot' \in Slots,
         \/ UNCHANGED at /\ UNCHANGED <<anim, level>>
         \/ at \in {"loop", "apply", "select"} /\ at' \in {"loop", "apply", "stopped"}
  PROVE  ShownInv'
<1>1. Typed' /\ ListRead'
  BY DEF ShownInv, Typed, ListRead, Ready, Resting, connVars
<1>2. Painting'
  BY DEF ShownInv, Painting, Ready, Resting, Remembered, connVars, Frame, Color
<1>. QED  BY <1>1, <1>2 DEF ShownInv

LEMMA ConnectsShown ==
  ASSUME ShownInv, Connect \/ Connected \/ ConnectFails \/ GoOn, UNCHANGED setup
  PROVE  ShownInv'
<1>1. CASE Connect
  BY <1>1, Unconnected DEF Connect, ConnectDue, connVars, serverVars, inputVars, lightsVars
<1>2. CASE Connected
  BY <1>2 DEF Connected, Enumerate, Fresh, inputVars, lightsVars, ShownInv, Typed, ListRead, Painting, Ready, Resting
<1>3. CASE ConnectFails
  BY <1>3, Unconnected DEF ConnectFails, Lost, inputVars, lightsVars
<1>4. CASE GoOn
  BY <1>4, Untouched DEF GoOn, serverVars, inputVars, lightsVars, ShownInv, Typed
<1>. QED  BY <1>1, <1>2, <1>3, <1>4

LEMMA EnumeratesShown ==
  ASSUME ShownInv, EnumerationEnds \/ EnumerationFails, UNCHANGED setup
  PROVE  ShownInv'
<1>1. CASE EnumerationFails
  BY <1>1, Unconnected DEF EnumerationFails, Lost, inputVars, lightsVars
<1>2. CASE EnumerationEnds
  <2>1. /\ at = "enumerating" /\ at' = "loop" /\ conn = "open" /\ conn' = "open" /\ last' = NoFrame
        /\ targets' = [d \in found |-> [pushed |-> FALSE, mode |-> display[d]]]
        /\ since' = [since EXCEPT !.list = IF @ = "moving" THEN "lost" ELSE @]
        /\ UNCHANGED <<setup, slot, routerSlot, serving, present, display, found>>
    BY <1>2 DEF EnumerationEnds, Enumerated, inputVars, lightsVars
  <2>2. /\ since' \in [list : {"current", "moving", "lost"}, damaged : SUBSET Devices]
        /\ since'.list # "moving" /\ (since'.list # "lost" => since.list = "current")
    BY <2>1 DEF ShownInv, Typed
  <2>3. since'.list # "lost" => DOMAIN targets' = present'
    BY <2>1, <2>2 DEF ShownInv, ListRead
  <2>4. \A d \in DOMAIN targets' : ~targets'[d].pushed
    BY <2>1
  <2>. QED  BY <2>1, <2>2, <2>3, <2>4 DEF ShownInv, Typed, ListRead, Painting, Ready
<1>. QED  BY <1>1, <1>2

\* What an apply leaves on a device: the frame, whether the mode packet had to
\* be sent, or the LEDs were, or neither.
LEMMA PaintedShows ==
  ASSUME ShownInv, Ready, NEW d \in present, NEW f, last # f,
         targets' = [e \in DOMAIN targets |-> [pushed |-> TRUE, mode |-> ModeFor(e, f)]],
         last' = f, display'[d] = Painted(d, f), UNCHANGED since
  PROVE  Remembered(d)'
<1>1. d \in DOMAIN targets
  BY DEF ShownInv, ListRead
<1>2. targets'[d].pushed /\ targets'[d].mode = ModeFor(d, f)
  BY <1>1
<1>3. CASE PushMode(d, f)
  BY <1>2, <1>3 DEF Painted, ModeFor, Remembered
<1>4. CASE ~PushMode(d, f)
  <2>1. targets[d].pushed /\ ModeFor(d, f) = targets[d].mode
    BY <1>4 DEF PushMode
  <2>2. Remembered(d)
    BY <2>1 DEF ShownInv, Painting
  <2>3. display'[d].brightness = display[d].brightness /\ (d \in PerLed => display'[d].color = f.color)
        /\ (d \notin PerLed => display'[d].color = display[d].color)
    BY <1>4 DEF Painted
  <2>4. /\ d \in Dimmable => targets[d].mode.brightness = f.brightness
        /\ d \notin PerLed => targets[d].mode.color = f.color
    BY <2>1 DEF ModeFor
  <2>. QED  BY <1>2, <2>1, <2>2, <2>3, <2>4 DEF Remembered
<1>. QED  BY <1>3, <1>4

LEMMA ApplyShown ==
  ASSUME ShownInv, Apply, UNCHANGED setup
  PROVE  ShownInv'
<1>1. /\ at = "apply" /\ at' = "select"
      /\ UNCHANGED <<setup, slot, routerSlot, serving, present, announced, found, since, Frame>>
  BY DEF Apply, inputVars, lightsVars, Frame, Color
<1>2. CASE UNCHANGED <<connVars, display, faults>> /\ (conn = "none" \/ last = Frame)
  BY <1>1, <1>2 DEF connVars, ShownInv, Typed, ListRead, Painting, Ready, Resting, Remembered
<1>3. CASE /\ Lost /\ display' = [e \in Devices |-> display'[e]]
           /\ \A d \in Devices : display'[d] \in {display[d], Painted(d, Frame)}
  <2>1. ASSUME NEW d \in Devices
        PROVE  display'[d] = [color |-> display'[d].color, brightness |-> display'[d].brightness]
    <3>1. display[d] = [color |-> display[d].color, brightness |-> display[d].brightness]
      BY DEF ShownInv, Typed
    <3>. QED  BY <1>3, <3>1 DEF Painted
  <2>2. display' = [d \in Devices |-> [color |-> display'[d].color, brightness |-> display'[d].brightness]]
    BY <1>3, <2>1
  <2>. QED  BY <1>1, <1>3, <2>2 DEF Lost, ShownInv, Typed, ListRead, Painting, Ready
<1>4. CASE /\ conn # "none" /\ last # Frame /\ last' = Frame /\ UNCHANGED conn
           /\ targets' = [d \in DOMAIN targets |-> [pushed |-> TRUE, mode |-> ModeFor(d, Frame)]]
           /\ display' = [d \in Devices |->
                IF conn = "open" /\ d \in DOMAIN targets \cap present THEN Painted(d, Frame) ELSE display[d]]
  <2>1. display' = [d \in Devices |-> [color |-> display'[d].color, brightness |-> display'[d].brightness]]
    <3>1. ASSUME NEW d \in Devices
          PROVE  display'[d] = [color |-> display'[d].color, brightness |-> display'[d].brightness]
      <4>1. display[d] = [color |-> display[d].color, brightness |-> display[d].brightness]
        BY DEF ShownInv, Typed
      <4>. QED  BY <1>4, <4>1 DEF Painted
    <3>. QED  BY <1>4, <3>1
  <2>2. Typed' /\ ListRead'
    BY <1>1, <1>4, <2>1 DEF ShownInv, Typed, ListRead, Ready, Resting
  <2>3. ASSUME Ready', NEW d \in present
        PROVE  Remembered(d)'
    <3>1. Ready /\ d \in DOMAIN targets /\ d \in Devices
      BY <1>1, <1>4, <2>3 DEF Ready, Resting, ShownInv, ListRead, Typed
    <3>2. display'[d] = Painted(d, Frame)
      BY <1>4, <3>1 DEF Ready
    <3>. QED  BY <1>1, <1>4, <3>1, <3>2, PaintedShows
  <2>4. last' # NoFrame /\ last' = Frame'
    BY <1>1, <1>4, FrameIsSome DEF ShownInv
  <2>. QED  BY <1>1, <2>2, <2>3, <2>4 DEF ShownInv, Painting
<1>5. CASE conn = "broken" /\ Lost /\ UNCHANGED display
  BY <1>1, <1>5, Unconnected DEF Lost
<1>6. CASE Lost /\ \E ds \in SUBSET (DOMAIN targets \cap present) :
             display' = [d \in Devices |-> IF d \in ds THEN Painted(d, Frame) ELSE display[d]]
  BY <1>3, <1>6
<1>. QED  BY <1>2, <1>4, <1>5, <1>6 DEF Apply

LEMMA SelectsShown ==
  ASSUME ShownInv, Selects
  PROVE  ShownInv'
<1>0. routerSlot \in Slots /\ UNCHANGED setup
  BY DEF Selects, TimerRings, Recovers, Lit, ShownInv, Typed
<1>1. CASE \E t \in {"idle", "fade", "anim"} : TimerRings(t)
  BY <1>0, <1>1, Untouched DEF TimerRings, Lit, TimerDue, Selected, LightsTick, serverVars, inputVars
<1>2. CASE Lit(EventTaken)
  <2>1. CASE at' = "loop" /\ OnEvent(Head(events)) /\ UNCHANGED <<found, since>>
    BY <1>0, <1>2, <2>1, Untouched DEF Lit, EventTaken, Selected, OnEvent
  <2>2. CASE conn = "none" /\ at' = "loop" /\ UNCHANGED <<found, since>> /\ UNCHANGED lightsVars
    BY <1>0, <1>2, <2>2, Untouched DEF Lit, EventTaken, Selected, lightsVars
  <2>3. CASE Enumerate /\ UNCHANGED lightsVars
    BY <1>0, <1>2, <2>3 DEF Lit, EventTaken, Selected, Enumerate, Fresh, lightsVars, connVars, ShownInv, Typed, ListRead,
       Painting, Ready, Resting
  <2>. QED  BY <1>2, <2>1, <2>2, <2>3 DEF Lit, EventTaken
<1>3. CASE Lit(SlotChanged)
  <2>1. /\ at = "select" /\ at' = "loop" /\ slot' \in Slots
        /\ UNCHANGED <<conn, targets, last, serving, present, announced, display, found, since, routerSlot>>
    BY <1>0, <1>3 DEF Lit, SlotChanged, Selected, SetSlot, connVars, serverVars, inputVars
  <2>. QED  BY <1>0, <2>1 DEF ShownInv, Typed, ListRead, Painting, Ready, Resting, Remembered
<1>4. CASE Lit(ActivitySeen)
  BY <1>0, <1>4, Untouched DEF Lit, ActivitySeen, Selected, OnActivity, serverVars
<1>5. CASE Lit(Rescan)
  <2>1. CASE conn = "broken" /\ Lost
    BY <1>0, <1>5, <2>1, Unconnected DEF Lit, Rescan, Lost, lightsVars, inputVars
  <2>2. CASE /\ conn = "open" /\ present' \in {present, Devices} /\ announced' = TRUE
             /\ UNCHANGED connVars
    BY <1>0, <1>5, <2>2 DEF Lit, Rescan, Selected, lightsVars, inputVars, connVars, ShownInv, Typed, ListRead, Painting,
       Ready, Resting
  <2>. QED  BY <1>5, <2>1, <2>2 DEF Lit, Rescan
<1>6. CASE Lit(ListChanged)
  BY <1>0, <1>6 DEF Lit, ListChanged, Enumerate, Fresh, lightsVars, inputVars, connVars, ShownInv, Typed, ListRead,
     Painting, Ready, Resting
<1>7. CASE Lit(Closed \/ Retry)
  BY <1>0, <1>7, Unconnected DEF Lit, Closed, Retry, Lost, lightsVars, inputVars, serverVars
<1>. QED  BY <1>1, <1>2, <1>3, <1>4, <1>5, <1>6, <1>7 DEF Selects, Recovers, Lit

\* A server that changes says so, or is gone.
LEMMA SurroundingsShown ==
  ASSUME ShownInv, Surroundings
  PROVE  ShownInv'
<1>0. UNCHANGED <<setup, slot, anim, level, at>> /\ routerSlot' \in Slots /\ setup.lists \subseteq SUBSET Devices
  <2>1. setup \in Setups
    BY DEF ShownInv, Typed
  <2>. QED  BY <2>1, ServicesAssumption DEF Surroundings, Touch, RouterSwitches, ServerStarts, ServerStops, Plug, Garble,
               lightsVars, inputVars, ShownInv, Typed
<1>. USE DEF ShownInv, Typed
<1>1. CASE Touch \/ \E s \in setup.slots : RouterSwitches(s)
  BY <1>0, <1>1, Untouched DEF Touch, RouterSwitches, serverVars
<1>2. CASE ServerStarts
  BY <1>0, <1>2 DEF ServerStarts, connVars, ListRead, Painting, Ready
<1>3. CASE ServerStops
  BY <1>0, <1>3 DEF ServerStops, ListRead, Painting, Ready
<1>4. ASSUME NEW d \in Devices, Plug(d)
      PROVE  ShownInv'
  <2>1. /\ present' \subseteq Devices /\ since'.list = IF at = "enumerating" THEN "moving" ELSE since.list
        /\ since' \in [list : {"current", "moving", "lost"}, damaged : SUBSET Devices]
        /\ serving' /\ (conn = "open" => announced')
    BY <1>4 DEF Plug
  <2>2. display' = [e \in Devices |-> [color |-> display'[e].color, brightness |-> display'[e].brightness]]
    <3>1. \A e \in Devices : display'[e] = [color |-> display'[e].color, brightness |-> display'[e].brightness]
      BY <1>4 DEF Plug
    <3>. QED  BY <1>4, <3>1 DEF Plug
  <2>. QED  BY <1>0, <1>4, <2>1, <2>2 DEF Plug, connVars, ListRead, Painting, Ready, Frame, Color
<1>5. ASSUME NEW d \in Devices, Garble(d)
      PROVE  ShownInv'
  <2>1. /\ since'.list = since.list /\ since'.damaged = since.damaged \cup {d}
        /\ since' \in [list : {"current", "moving", "lost"}, damaged : SUBSET Devices]
    BY <1>5 DEF Garble
  <2>2. \A e \in Devices : /\ display'[e].brightness = display[e].brightness
                           /\ e # d => display'[e] = display[e]
                           /\ display'[e] = [color |-> display'[e].color, brightness |-> display'[e].brightness]
    BY <1>5 DEF Garble
  <2>3. display' = [e \in Devices |-> [color |-> display'[e].color, brightness |-> display'[e].brightness]]
    BY <1>5, <2>2 DEF Garble
  <2>4. UNCHANGED <<targets, last, conn, announced, serving, present, found>>
    BY <1>5 DEF Garble, connVars
  <2>5. Typed' /\ ListRead'
    BY <1>0, <2>1, <2>3, <2>4 DEF ListRead, Ready, Resting
  <2>6. \A e \in present : Remembered(e) => Remembered(e)'
    BY <2>1, <2>2, <2>4 DEF Remembered
  <2>7. Ready' = Ready /\ UNCHANGED Frame
    BY <1>0, <2>1, <2>4 DEF Ready, Resting, Frame, Color
  <2>. QED  BY <1>0, <2>4, <2>5, <2>6, <2>7 DEF Painting
<1>. QED  BY <1>1, <1>2, <1>3, <1>4, <1>5 DEF Surroundings

LEMMA StepShownInv == ShownInv /\ [Next]_vars => ShownInv'
<1>. SUFFICES ASSUME ShownInv, [Next]_vars PROVE ShownInv'
  OBVIOUS
<1>0. routerSlot \in Slots
  BY DEF ShownInv, Typed
<1>1. CASE OpensWindow \/ SettlesWindow \/ ClosesWindow \/ AsksRepaint
  BY <1>0, <1>1, Untouched DEF OpensWindow, SettlesWindow, ClosesWindow, NotifyRgb, AsksRepaint, serverVars, lightsVars
<1>2. CASE AsksForCommand \/ Spawns \/ Ends \/ Reaps \/ Cancel \/ Hooked(HooksStop) \/ UNCHANGED vars
  BY <1>0, <1>2, Untouched DEF AsksForCommand, Spawns, Ends, Reaps, Cancel, Hooked, vars, lightingVars, serverVars,
     inputVars, lightsVars
<1>3. CASE Surroundings
  BY <1>3, SurroundingsShown
<1>4. CASE Proceeds
  BY <1>4, ConnectsShown, EnumeratesShown, ApplyShown DEF Proceeds, Lit
<1>5. CASE Selects
  BY <1>5, SelectsShown
<1>6. CASE Lit(LightingStops)
  BY <1>0, <1>6, Unconnected DEF Lit, LightingStops, serverVars, inputVars, lightsVars
<1>. QED  BY <1>1, <1>2, <1>3, <1>4, <1>5, <1>6 DEF Next, Stops

\* As the task comes to wait, what it may trust of the server shows the frame.
THEOREM SpecShown == Spec => []LightsShown
<1>1. ShownInv => LightsShown
  <2>. SUFFICES ASSUME ShownInv, at = "select", conn = "open", ~announced, since.list # "lost",
                       NEW d \in present \ since.damaged
                PROVE  Shows(d)
    BY DEF LightsShown
  <2>1. Ready /\ last = Frame /\ last # NoFrame
    BY FrameIsSome DEF ShownInv, Painting, Ready, Resting
  <2>. QED  BY <2>1 DEF ShownInv, Painting, Remembered, Shows
<1>. QED  BY <1>1, InitShownInv, StepShownInv, PTL DEF Spec

=============================================================================
