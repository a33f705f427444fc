------------------------------- MODULE Services -------------------------------
(***************************************************************************)
(* The optional services beside the hub, as main (src/main.rs) starts and  *)
(* stops them: the lighting task, fed by the manager's pairing windows and *)
(* by the router, and the task that runs commands.  The manager is what    *)
(* PairingWindows promises of it.  Each is told with try_send, and waits   *)
(* for nobody.                                                             *)
(***************************************************************************)
EXTENDS Lighting, Hooks

CONSTANTS Hosts, NoHost, Setups

ASSUME ServicesAssumption ==
  \A s \in Setups : s.slots \subseteq Slots /\ s.lists \subseteq SUBSET Devices

VARIABLES
  bindings, window, seeds,  \* the manager's
  missed,                   \* history: the last the manager had to tell was dropped
  cancelled

managerVars == <<bindings, window, seeds>>
vars == <<setup, lightsVars, lightingVars, hookVars, managerVars, missed, cancelled>>

Manager == INSTANCE PairingWindows WITH Slots <- Slots \ {0}

Init ==
  /\ setup \in Setups
  /\ LightingInit /\ HooksInit(setup.hooks)
  /\ Manager!Init /\ bindings = [s \in Slots \ {0} |-> NoHost] /\ seeds = bindings
  /\ missed = FALSE /\ cancelled = FALSE

-----------------------------------------------------------------------------
(* What the tasks are told.  A setup says which of it happens.             *)

Happens(habit) == habit \in setup.habits /\ ~cancelled

\* notify_rgb, at the end of what the manager does to a window.
NotifyRgb(e) ==
  /\ Notify(e) /\ missed' = (Len(events) >= EventCap)
  /\ UNCHANGED <<setup, at, connVars, serverVars, routerSlot, touched, lightsVars, hookVars, cancelled>>

OpensWindow ==
  /\ Happens("pair")
  /\ \E s \in setup.windows \cap (Slots \ {0}) :
       \/ Manager!Open(s)
       \/ Manager!Unbind(s) /\ window' # window
  /\ NotifyRgb("PairingOpen")

SettlesWindow ==
  /\ Happens("pair") /\ \E h \in Hosts : Manager!Settle(h)
  /\ NotifyRgb("Bound")

\* At the deadline, or as the manager stops.
ClosesWindow == Manager!Close /\ NotifyRgb("PairingClosed")

\* The slot key of the slot that is active already.
AsksRepaint ==
  /\ Happens("repaint") /\ Notify("Repaint")
  /\ UNCHANGED <<setup, at, connVars, serverVars, routerSlot, touched, lightsVars,
                 hookVars, managerVars, missed, cancelled>>

Surroundings ==
  /\ \/ Happens("type") /\ Touch
     \/ Happens("switch") /\ \E s \in setup.slots : RouterSwitches(s)
     \/ Happens("server") /\ (ServerStarts \/ ServerStops \/ \E d \in Devices : Plug(d) \/ Garble(d))
  /\ UNCHANGED <<setup, hookVars, managerVars, missed, cancelled>>

AsksForCommand ==
  /\ Happens("hook") /\ \E r \in DOMAIN CommandsOf : AskFor(r)
  /\ UNCHANGED <<setup, lightsVars, lightingVars, managerVars, missed, cancelled>>

-----------------------------------------------------------------------------
(* What they do.                                                           *)

Lit(A) == A /\ UNCHANGED <<setup, hookVars, managerVars, missed, cancelled>>
Hooked(A) == A /\ UNCHANGED <<setup, lightsVars, lightingVars, managerVars, missed, cancelled>>

\* Between two waits of its select.
Proceeds ==
  Lit(Connect \/ Connected \/ ConnectFails \/ EnumerationEnds \/ EnumerationFails \/ Apply \/ GoOn)

\* The timers that run out together.
TimerRings(t) == Lit(\E due \in SUBSET armed : t \in due /\ TimerDue(due))

\* The connection has something to say, or it is time to try again.
Recovers == Lit(ListChanged \/ Closed \/ Retry)

Selects ==
  \/ \E t \in {"idle", "fade", "anim"} : TimerRings(t)
  \/ Lit(EventTaken \/ SlotChanged \/ ActivitySeen \/ Rescan)
  \/ Recovers

Spawns == Hooked(SpawnMatching)
Ends == Hooked(TimeOut)
Reaps == Hooked(Reap)

Cancel ==
  /\ Happens("stop") /\ cancelled' = TRUE
  /\ UNCHANGED <<setup, lightsVars, lightingVars, hookVars, managerVars, missed>>

Stops == cancelled /\ (Lit(LightingStops) \/ Hooked(HooksStop))

Next ==
  \/ OpensWindow \/ SettlesWindow \/ ClosesWindow \/ AsksRepaint
  \/ Surroundings \/ AsksForCommand
  \/ Proceeds \/ Selects
  \/ Spawns \/ Ends \/ Reaps
  \/ Cancel \/ Stops

\* The tasks go on: each wait for a reply has its time limit, and a write, which
\* has none, returns under a server that reads or has closed.  select! picks among
\* what is ready at random, so nothing that is ready again and again is
\* passed over for ever.  The idle timer is not among them: activity puts it off.
\* It puts a frame of a fade off too, but it is reported once a second at most,
\* and a frame lasts 40 ms.
Fairness ==
  /\ WF_vars(Proceeds) /\ SF_vars(Recovers)
  /\ SF_vars(TimerRings("fade")) /\ SF_vars(TimerRings("anim"))
  /\ WF_vars(Ends) /\ WF_vars(Reaps)

Spec == Init /\ [][Next]_vars /\ Fairness

-----------------------------------------------------------------------------
(* Properties.                                                             *)

Shows(d) ==
  /\ display[d].color = Frame.color
  /\ d \in Dimmable => display[d].brightness = Frame.brightness

\* As the task comes to wait, every device of the server's list shows the frame:
\* those excepted that took half an update since the list was last read, for a
\* repaint puts them right, and a list that changed while it was read, for
\* await_packet passes that announcement over.
LightsShown ==
  (at = "select" /\ conn = "open" /\ ~announced /\ since.list # "lost") =>
    \A d \in present \ since.damaged : Shows(d)

\* Once the lighting has taken all it was told, it blinks if and only if a
\* window waits for a host: opened, replaced, settled, closed in any order, with
\* a flash in between; unless the channel was full for the last of it.
BlinksWhileOpen ==
  (at # "stopped" /\ events = <<>> /\ ~missed) => (anim.kind = "pairing" <=> window.phase = "open")

\* Wherever a fade is turned round, and whatever blinks meanwhile, the gate ends
\* up dark or fully lit, and a flash ends, or another host is bound meanwhile.
ComesToRest ==
  /\ <>[](dark /\ ~cancelled) => <>[](level = 0)
  /\ <>[](~dark /\ ~cancelled) => <>[](level = Full)
  /\ (anim.kind = "flash") ~> (anim.kind # "flash" \/ cancelled \/ \E i \in DOMAIN events : events[i] = "Bound")

\* While a server is there, the lighting is connected to it again and again
\* drives what it lists.
Reconnects ==
  <>[](serving /\ ~cancelled /\ setup.rgb) => []<>(at = "select" /\ conn = "open" /\ last = Frame)

\* Commands that hang take up every place for their time limit only.
HooksResume == (InFlight = MaxInFlight) ~> (InFlight < MaxInFlight)

=============================================================================
