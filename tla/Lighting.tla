------------------------------- MODULE Lighting -------------------------------
(***************************************************************************)
(* The lighting task (run and Conn in src/rgb/mod.rs) with the OpenRGB     *)
(* server it talks to.  Its loop connects if that is due, applies the      *)
(* frame, and waits for whatever comes first; it waits inside, too, for    *)
(* the replies to what it asks the server, and the server and the desk     *)
(* move on meanwhile.                                                      *)
(***************************************************************************)
EXTENDS Lights

CONSTANTS
  Devices,
  PerLed,              \* devices whose mode takes a color per LED; else the mode has it
  Dimmable,            \* devices whose mode has a brightness
  EventCap             \* of the channel from the manager and the router

ASSUME LightingAssumption == EventCap \in Nat \ {0}

VARIABLES
  at,                  \* "loop", "connecting", "enumerating", "apply", "select", "stopped"
  conn,                \* "none", "open", or "broken": the server is gone
  waiting,             \* a reconnect is not due yet
  targets,             \* [the devices driven -> what of their mode the hub remembers]
  last,                \* the frame applied last
  events,              \* the channel
  routerSlot, touched, \* the slot watch; the activity watch has news
  serving, present,    \* the server runs; the devices it lists
  announced,           \* a DEVICE_LIST_UPDATED packet has not been taken
  display,             \* what the devices show
  found,               \* the list as the enumeration under way was told
  since,               \* history: what has befallen the list, and devices, since it was asked for
  faults

connVars == <<conn, waiting, targets, last>>
serverVars == <<serving, present, announced, display, found, since, faults>>
inputVars == <<events, routerSlot, touched>>
lightingVars == <<at, connVars, serverVars, inputVars>>

NoFrame == [color |-> Off, brightness |-> -1]
Own == [of |-> "own", slot |-> 0, level |-> 0]
Garbled == [of |-> "garbled", slot |-> 0, level |-> 0]
Fresh == [list |-> "current", damaged |-> {}]
NoTargets == [d \in {} |-> TRUE]

Mishap == faults > 0 /\ faults' = faults - 1

LightingInit ==
  /\ LightsInit
  /\ at = (IF setup.rgb THEN "loop" ELSE "stopped")
  /\ conn = "none" /\ waiting = FALSE /\ targets = NoTargets /\ last = NoFrame
  /\ events = <<>> /\ routerSlot = slot /\ touched = FALSE
  /\ serving \in setup.server
  /\ present \in (IF serving THEN setup.lists ELSE {{}})
  /\ announced = FALSE /\ since = Fresh /\ found = {}
  /\ display = [d \in Devices |-> [color |-> Own, brightness |-> 0]]
  /\ faults = setup.faults

-----------------------------------------------------------------------------
(* The connection.                                                         *)

Lost == conn' = "none" /\ waiting' = TRUE /\ targets' = NoTargets /\ last' = NoFrame

\* Mutants: nothing is pushed to the new list by itself; the retry is forgotten.
EnumeratedQuietly == targets' = [d \in found |-> [pushed |-> FALSE, mode |-> display[d]]] /\ UNCHANGED last
NeverDue == FALSE

Enumerated ==
  /\ targets' = [d \in found |-> [pushed |-> FALSE, mode |-> display[d]]]
  /\ last' = NoFrame

RetryDue == waiting

ConnectDue == at = "loop" /\ conn = "none" /\ ~waiting

Connect ==
  /\ ConnectDue /\ at' = "connecting"
  /\ UNCHANGED <<connVars, serverVars, inputVars, lightsVars>>

\* The server is asked for its list: once connected, or again.
Enumerate ==
  /\ found' = present /\ since' = Fresh /\ at' = "enumerating"

Connected ==
  /\ at = "connecting" /\ serving
  /\ Enumerate /\ conn' = "open" /\ announced' = FALSE
  /\ UNCHANGED <<waiting, targets, last, serving, present, display, faults, inputVars, lightsVars>>

ConnectFails ==
  /\ at = "connecting" /\ at' = "loop" /\ Lost
  /\ \/ ~serving /\ UNCHANGED faults
     \/ serving /\ Mishap
  /\ UNCHANGED <<serving, present, announced, display, found, since, inputVars, lightsVars>>

\* The last reply: whatever the server announced before it has been passed over.
EnumerationEnds ==
  /\ at = "enumerating" /\ conn = "open" /\ at' = "loop"
  /\ Enumerated /\ announced' = FALSE
  /\ since' = [since EXCEPT !.list = IF @ = "moving" THEN "lost" ELSE @]
  /\ UNCHANGED <<conn, waiting, serving, present, display, found, faults, inputVars, lightsVars>>

\* The server is gone, its devices are no longer those it counted, or it does
\* not answer in time.
EnumerationFails ==
  /\ at = "enumerating" /\ at' = "loop" /\ Lost
  /\ \/ (conn = "broken" \/ since.list = "moving") /\ UNCHANGED faults
     \/ Mishap
  /\ UNCHANGED <<serving, present, announced, display, found, since, inputVars, lightsVars>>

\* What a device's mode is to be, and whether it must be told.
ModeFor(d, f) ==
  [color |-> IF d \in PerLed THEN targets[d].mode.color ELSE f.color,
   brightness |-> IF d \in Dimmable THEN f.brightness ELSE targets[d].mode.brightness]
PushMode(d, f) == ~targets[d].pushed \/ ModeFor(d, f) # targets[d].mode

Painted(d, f) ==
  [color |-> IF d \in PerLed \/ PushMode(d, f) THEN f.color ELSE display[d].color,
   brightness |-> IF PushMode(d, f) THEN ModeFor(d, f).brightness ELSE display[d].brightness]

\* Into a connection that is gone packets may seem to go, or not.
Apply ==
  /\ at = "apply" /\ at' = "select"
  /\ \/ (conn = "none" \/ last = Frame) /\ UNCHANGED <<connVars, display, faults>>
     \/ /\ conn # "none" /\ last # Frame
        /\ last' = Frame
        /\ targets' = [d \in DOMAIN targets |-> [pushed |-> TRUE, mode |-> ModeFor(d, Frame)]]
        /\ display' = [d \in Devices |->
             IF conn = "open" /\ d \in DOMAIN targets \cap present THEN Painted(d, Frame) ELSE display[d]]
        /\ UNCHANGED <<conn, waiting, faults>>
     \/ /\ conn = "broken" /\ last # Frame /\ Lost
        /\ UNCHANGED <<display, faults>>
     \/ /\ conn = "open" /\ last # Frame /\ Mishap /\ Lost
        /\ \E ds \in SUBSET (DOMAIN targets \cap present) :
             display' = [d \in Devices |-> IF d \in ds THEN Painted(d, Frame) ELSE display[d]]
  /\ UNCHANGED <<serving, present, announced, found, since, inputVars, lightsVars>>

GoOn ==
  /\ at = "loop" /\ ~ConnectDue /\ at' = "apply"
  /\ UNCHANGED <<connVars, serverVars, inputVars, lightsVars>>

-----------------------------------------------------------------------------
(* What the loop waits for.                                                *)

Selected == at = "select"

SlotChanged ==
  /\ Selected /\ at' = "loop" /\ slot # routerSlot /\ SetSlot(routerSlot)
  /\ UNCHANGED <<connVars, serverVars, inputVars>>

ActivitySeen ==
  /\ Selected /\ at' = "loop" /\ touched /\ touched' = FALSE /\ OnActivity
  /\ UNCHANGED <<connVars, serverVars, events, routerSlot>>

EventTaken ==
  /\ Selected /\ events # <<>> /\ events' = Tail(events)
  /\ \/ /\ Head(events) # "Repaint" /\ at' = "loop" /\ OnEvent(Head(events))
        /\ UNCHANGED <<found, since>>
     \/ /\ Head(events) = "Repaint"
        /\ IF conn = "none" THEN at' = "loop" /\ UNCHANGED <<found, since>> ELSE Enumerate
        /\ UNCHANGED lightsVars
  /\ UNCHANGED <<connVars, serving, present, announced, display, faults, routerSlot, touched>>

TimerDue(due) ==
  /\ Selected /\ at' = "loop" /\ LightsTick(due)
  /\ UNCHANGED <<connVars, serverVars, inputVars>>

ListChanged ==
  /\ Selected /\ conn # "none" /\ announced /\ announced' = FALSE /\ Enumerate
  /\ UNCHANGED <<connVars, serving, present, display, faults, inputVars, lightsVars>>

Closed ==
  /\ Selected /\ conn = "broken" /\ ~announced /\ at' = "loop" /\ Lost
  /\ UNCHANGED <<serverVars, inputVars, lightsVars>>

\* With nothing to drive, the server is asked to look again.
Rescan ==
  /\ Selected /\ conn # "none" /\ DOMAIN targets = {} /\ at' = "loop"
  /\ \/ conn = "open" /\ present' \in {present, Devices} /\ announced' = TRUE /\ UNCHANGED connVars
     \/ conn = "broken" /\ Lost /\ UNCHANGED <<present, announced>>
  /\ UNCHANGED <<serving, display, found, since, faults, inputVars, lightsVars>>

Retry ==
  /\ Selected /\ conn = "none" /\ RetryDue /\ waiting' = FALSE /\ at' = "loop"
  /\ UNCHANGED <<conn, targets, last, serverVars, inputVars, lightsVars>>

LightingStops ==
  /\ Selected /\ at' = "stopped" /\ conn' = "none"
  /\ UNCHANGED <<waiting, targets, last, serverVars, inputVars, lightsVars>>

-----------------------------------------------------------------------------
(* The others: the router's watches, the channel, the server, the desk.    *)

On == at # "stopped"

RouterSwitches(s) ==
  /\ On /\ s # routerSlot /\ routerSlot' = s
  /\ UNCHANGED <<at, connVars, serverVars, events, touched, lightsVars>>

Touch ==
  /\ On /\ touched' = TRUE
  /\ UNCHANGED <<at, connVars, serverVars, events, routerSlot, lightsVars>>

\* try_send: dropped when the channel is full.
Notify(e) ==
  IF On /\ Len(events) < EventCap THEN events' = Append(events, e) ELSE UNCHANGED events

\* A device comes or goes; the server says so to whoever is connected.
Plug(d) ==
  /\ On /\ serving /\ Mishap
  /\ present' = IF d \in present THEN present \ {d} ELSE present \cup {d}
  /\ display' = [display EXCEPT ![d] = [color |-> Own, brightness |-> 0]]
  /\ announced' = (announced \/ conn = "open")
  /\ since' = [since EXCEPT !.list = IF at = "enumerating" THEN "moving" ELSE @]
  /\ UNCHANGED <<at, connVars, serving, found, inputVars, lightsVars>>

ServerStarts ==
  /\ On /\ ~serving /\ serving' = TRUE /\ present' \in setup.lists
  /\ UNCHANGED <<at, connVars, announced, display, found, since, faults, inputVars, lightsVars>>

ServerStops ==
  /\ On /\ serving /\ Mishap /\ serving' = FALSE /\ present' = {}
  /\ conn' = IF conn = "open" THEN "broken" ELSE conn
  /\ UNCHANGED <<at, waiting, targets, last, announced, display, found, since, inputVars, lightsVars>>

\* A device takes half an update.
Garble(d) ==
  /\ On /\ d \in present /\ Mishap
  /\ display' = [display EXCEPT ![d].color = Garbled]
  /\ since' = [since EXCEPT !.damaged = @ \cup {d}]
  /\ UNCHANGED <<at, connVars, serving, present, announced, found, inputVars, lightsVars>>

=============================================================================
