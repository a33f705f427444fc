--------------------------- MODULE BtManagerProofs ---------------------------
(***************************************************************************)
(* Proofs about BtManager.tla, for every set of hosts and slots, every     *)
(* setup, and every length of the windows and memories.                    *)
(***************************************************************************)
EXTENDS BtManager, FoldProofs

-----------------------------------------------------------------------------
(* Bindings and their file: what is learned is what is written, so that a  *)
(* restart at any point finds it again.  A slot being re-paired is free    *)
(* already, but not yet in the file.                                       *)

JobInv ==
  /\ job \in {NoJob} \cup Jobs
  /\ phase \in {"repairing", "removed"} => job # NoJob
  /\ job # NoJob => phase \in {"repairing", "removed", "down"} /\ bindings[job.slot] = NoHost

FileInv ==
  /\ setup \in Setup /\ commands \in Int
  /\ bindings \in [Slots -> Hosts \cup {NoHost}]
  /\ active \in Slots \cup {Local}
  /\ file \in Files
  /\ preset \subseteq FromConfig(setup.seeds)
  /\ \A s \in Slots : setup.seeds[s] = NoHost => file.bindings[s] = Kept[s]
  /\ JobInv

LEMMA JobIsNot == \A j \in Jobs : j # NoJob
BY BluezAssumption DEF Jobs, NoJob

LEMMA MergeType ==
  ASSUME NEW f \in Files, NEW seeds \in [Slots -> Hosts \cup {NoHost}]
  PROVE  /\ Merge(f, seeds) \in [Slots -> Hosts \cup {NoHost}]
         /\ RestoreSlot(f.active, Merge(f, seeds)) \in Slots \cup {Local}
BY DEF Merge, RestoreSlot, Files

LEMMA InitFileInv == Init => FileInv
<1>. SUFFICES ASSUME Init PROVE FileInv
  OBVIOUS
<1>1. setup \in Setup /\ commands \in Int
  BY BluezAssumption DEF Init, Setup
<1>2. file \in Files /\ Loaded(bindings, preset, active)
  BY <1>1 DEF Init, Setup, Files
<1>3. setup.seeds \in [Slots -> Hosts \cup {NoHost}]
  BY <1>1 DEF Setup
<1>4. job = NoJob /\ phase = "idle"
  BY DEF Init
<1>. QED  BY <1>1, <1>2, <1>3, <1>4, MergeType DEF FileInv, JobInv, Kept, Loaded, FromConfig, Merge

\* A step that leaves the bindings, the file and what is being re-paired alone.
LEMMA FileStays ==
  ASSUME FileInv, UNCHANGED <<setup, bindVars, active, job>>, commands' \in Int,
         \/ UNCHANGED phase \/ phase' = "down"
         \/ job = NoJob /\ phase' \notin {"repairing", "removed"}
         \/ job # NoJob /\ phase' \in {"repairing", "removed"}
  PROVE  FileInv'
<1>1. UNCHANGED Kept
  BY DEF Kept, bindVars
<1>2. JobInv'
  BY DEF FileInv, JobInv, bindVars
<1>. QED  BY <1>1, <1>2 DEF FileInv, bindVars

LEMMA SaveKeeps ==
  ASSUME FileInv, UNCHANGED setup, commands' \in Int, bindings' \in [Slots -> Hosts \cup {NoHost}],
         active' \in Slots \cup {Local}, preset' \subseteq preset, Save(bindings', preset', active'),
         job' = NoJob, phase' \notin {"repairing", "removed"}
  PROVE  FileInv'
<1>1. file' \in Files
  BY DEF Save, ToStateFile, Files
<1>2. ASSUME NEW s \in Slots, setup.seeds[s] = NoHost
      PROVE  file'.bindings[s] = Kept'[s]
  <2>1. s \notin preset'
    BY <1>2 DEF FileInv, FromConfig
  <2>. QED  BY <2>1 DEF Save, ToStateFile, Kept
<1>. QED  BY <1>1, <1>2 DEF FileInv, JobInv

LEMMA BindKeepsFile ==
  ASSUME FileInv, NEW w, NEW h \in Hosts, Bind(w, h), UNCHANGED <<setup, active, commands, job>>,
         Idle, phase' \in {"idle", "swept"}
  PROVE  FileInv'
<1>1. bindings' \in [Slots -> Hosts \cup {NoHost}] /\ preset' \subseteq preset
  BY DEF Bind, FileInv
<1>2. job = NoJob
  BY DEF Idle, FileInv, JobInv
<1>. QED  BY <1>1, <1>2, SaveKeeps DEF Bind, FileInv

LEMMA UnbindKeepsFile ==
  ASSUME FileInv, NEW s, Unbind(s), UNCHANGED <<setup, active, phase, job>>, commands' \in Int, Idle
  PROVE  FileInv'
<1>1. bindings' \in [Slots -> Hosts \cup {NoHost}] /\ preset' \subseteq preset
  BY DEF Unbind, FileInv
<1>2. job = NoJob /\ phase' \notin {"repairing", "removed"}
  BY DEF Idle, FileInv, JobInv
<1>. QED  BY <1>1, <1>2, SaveKeeps DEF Unbind, FileInv

\* The slot is free in memory; what the file has of it is what it had.
LEMMA RepairKeepsFile ==
  ASSUME FileInv, NEW s \in Slots, RepairSlot(s)
  PROVE  FileInv'
<1>1. commands' \in Int /\ UNCHANGED <<setup, active>> /\ Idle
  BY DEF RepairSlot, Command, FileInv
<1>2. CASE UNCHANGED <<bindVars, phase, job>>
  BY <1>1, <1>2, FileStays
<1>3. CASE /\ bindings[s] # NoHost
           /\ phase' = "repairing" /\ job' = [slot |-> s, host |-> bindings[s]]
           /\ bindings' = [bindings EXCEPT ![s] = NoHost] /\ preset' = preset \ {s}
           /\ UNCHANGED file
  <2>1. job = NoJob /\ Kept = bindings
    BY <1>1 DEF Idle, FileInv, JobInv, Kept
  <2>2. /\ bindings' \in [Slots -> Hosts \cup {NoHost}] /\ bindings'[s] = NoHost
        /\ bindings \in [Slots -> Hosts \cup {NoHost}]
    BY <1>3 DEF FileInv
  <2>3. job' \in Jobs /\ job' # NoJob
    BY <1>3, <2>2, JobIsNot DEF Jobs
  <2>4. Kept' = bindings
    BY <1>3, <2>2, <2>3 DEF Kept
  <2>5. JobInv'
    BY <1>3, <2>2, <2>3 DEF JobInv
  <2>. QED  BY <1>1, <1>3, <2>1, <2>2, <2>4, <2>5 DEF FileInv
<1>. QED  BY <1>2, <1>3 DEF RepairSlot

LEMMA StepFileInv == FileInv /\ [Next]_vars => FileInv'
<1>. SUFFICES ASSUME FileInv, [Next]_vars PROVE FileInv'
  OBVIOUS
<1>. USE DEF Command
<1>c. commands \in Int
  BY DEF FileInv
<1>0. ASSUME UNCHANGED <<setup, bindVars, active, job, phase>>, commands' \in Int
      PROVE  FileInv'
  BY <1>0, FileStays
<1>1. CASE Environment
  BY <1>c, <1>0, <1>1 DEF Environment, HostLinks, HostPairs, LinkDrops, Overlooks, SeesAgain, DisconnectFails,
     Unpaired, AdvertisementVanishes, Unregistered
<1>2. CASE Channels
  BY <1>c, <1>0, <1>2 DEF Channels, Asks, Rings, Mismatched, managerVars, runVars
<1>3. CASE Incoming
  <2>1. PICK h \in Hosts : Subscribe(h) \/ Connects(h) \/ Notice(h) \/ Unreachable(h)
    BY <1>3 DEF Incoming
  <2>2. UNCHANGED <<setup, active, commands, job, phase>> /\ Idle
    BY <2>1 DEF Subscribe, Connects, Notice, Unreachable, Unmoved, managerVars, runVars
  <2>3. CASE \E have, open : OnIncomingPeer(h, have, open)
    BY <1>c, <1>0, <2>2, <2>3, BindKeepsFile DEF OnIncomingPeer, KeepIncoming, DropIncoming, RejectIncoming, BindIncoming, Idle
  <2>. QED  BY <1>c, <1>0, <2>1, <2>2, <2>3 DEF Subscribe, Connects, Notice, Unreachable, managerVars
<1>4. CASE Dialling
  <2>1. CASE DialFindsStale
    BY <1>c, <2>1, UnbindKeepsFile DEF DialFindsStale, HealStaleBinding, Dialled, runVars
  <2>. QED  BY <1>c, <1>0, <1>4, <2>1 DEF Dialling, Dial, DialReads, AbandonDial, DialConnects, DialFails, BackoffEnds,
       UndialledVars, bluezVars, runVars
<1>5. CASE HandleCmd
  <2>1. CASE \E s \in Slots : OpenPairingWindow(s)
    BY <1>c, <1>0, <2>1 DEF OpenPairingWindow, runVars
  <2>2. CASE RemovePairing
    <3>1. UNCHANGED <<setup, bindVars, active, commands, job>> /\ phase = "repairing" /\ phase' = "removed"
      BY <2>2 DEF RemovePairing
    <3>. QED  BY <1>c, <3>1, FileStays DEF FileInv, JobInv
  <2>3. CASE OpenRepaired
    BY <1>c, <2>3, SaveKeeps DEF OpenRepaired, FileInv
  <2>. QED  BY <1>5, <2>1, <2>2, <2>3, RepairKeepsFile DEF HandleCmd
<1>6. CASE SlotWatch
  <2>1. PICK s \in Slots \cup {Local} : OnSlotChange(s)
    BY <1>6 DEF SlotWatch
  <2>2. /\ active' = s /\ UNCHANGED <<setup, bindings, preset, job, phase>>
        /\ commands' \in Int /\ Save(bindings', preset', active') /\ Idle
    BY <1>c, <2>1 DEF OnSlotChange, Save
  <2>3. job = NoJob
    BY <2>2 DEF Idle, FileInv, JobInv
  <2>. QED  BY <2>2, <2>3, SaveKeeps DEF FileInv, Idle
<1>7. CASE Tick
  <2>1. /\ UNCHANGED <<setup, active, commands, job>> /\ phase \in {"idle", "swept", "advertise", "stuck"}
        /\ phase' \in {"idle", "swept", "advertise", "stuck"}
    BY <1>7 DEF Tick, PollWindow, PollUninvited, PollAdvertising, PollStuckHosts, Idle
  <2>2. CASE PollWindow /\ \E w : \E h \in Hosts : Bind(w, h)
    BY <2>1, <2>2, BindKeepsFile DEF PollWindow
  <2>3. CASE UNCHANGED bindVars
    <3>1. job = NoJob
      BY <2>1 DEF FileInv, JobInv
    <3>. QED  BY <1>c, <2>1, <2>3, <3>1, FileStays
  <2>. QED  BY <1>7, <2>2, <2>3 DEF Tick, PollWindow, PollUninvited, PollAdvertising, PollStuckHosts, NewlyPaired
<1>8. CASE Shutdown \/ Crash
  <2>1. UNCHANGED <<setup, bindVars, active, commands, job>>
    BY <1>8 DEF Shutdown, Cancel, DisconnectAll, Exit, Crash, Stopped
  <2>2. phase' = "down" \/ (phase \in {"idle", "cancelled"} /\ phase' \in {"cancelled", "leaving"})
    BY <1>8 DEF Shutdown, Cancel, DisconnectAll, Exit, Crash, Stopped, Idle
  <2>. QED  BY <1>c, <2>1, <2>2, FileStays DEF FileInv, JobInv
<1>9. CASE Start
  <2>1. /\ UNCHANGED <<setup, file, commands>> /\ Loaded(bindings', preset', active')
        /\ job' = NoJob /\ phase' = "idle"
    BY <1>9 DEF Start
  <2>2. setup.seeds \in [Slots -> Hosts \cup {NoHost}] /\ file \in Files
    BY DEF FileInv, Setup
  <2>. QED  BY <2>1, <2>2, MergeType DEF FileInv, JobInv, Kept, Loaded, FromConfig, Merge
<1>10. CASE UNCHANGED vars
  BY <1>c, <1>0, <1>10 DEF vars, bluezVars, managerVars, runVars
<1>. QED  BY <1>1, <1>2, <1>3, <1>4, <1>5, <1>6, <1>7, <1>8, <1>9, <1>10 DEF Next

-----------------------------------------------------------------------------
(* The pairing window: what the adapter lets in, and who sees it.  On LE   *)
(* the adapter is discoverable by the advertisement held for a window, or  *)
(* by one given up and still to be unregistered.                           *)

OpenWindows == [slot : Slots, bound : BOOLEAN, left : Int, prePaired : SUBSET Hosts]

WindowOK == window \in {NoWindow} \cup OpenWindows
AirFollows == (Le /\ aired = "discoverable") => adv \in {"discoverable", "none"}

WindowInv == WindowOK /\ PairableOnlyInWindow /\ VisibleOnlyInWindow /\ AirFollows

\* What the handlers of hosts, dials and clocks leave alone.
WindowAlone == UNCHANGED <<setup, window, pairable, exposed, aired, adv, bared>>

LEMMA OpenIsNot == \A w \in OpenWindows : w # NoWindow
BY BluezAssumption DEF OpenWindows, NoWindow

LEMMA WindowAloneKeeps ==
  ASSUME WindowInv, WindowAlone, phase = "down" => phase' = "down"
  PROVE  WindowInv'
BY DEF WindowInv, WindowAlone, WindowOK, AirFollows, PairableOnlyInWindow, VisibleOnlyInWindow,
       Unsettled, Le

LEMMA InitWindowInv == Init => WindowInv
BY DEF Init, WindowInv, WindowOK, AirFollows, PairableOnlyInWindow, VisibleOnlyInWindow, Unsettled

\* With no window that waits, what an advertisement shows is nothing new.
LEMMA AdvertisedHides ==
  ASSUME WindowInv, Le, NEW b, NEW w, NEW a, NEW here, ~Unsettled(w), Advertised(b, w, a, here)
  PROVE  aired' = "discoverable" => adv' = "none"
BY DEF WindowInv, AirFollows, Advertised, Held, SetAdvertising, advVars

LEMMA ApplyHides ==
  ASSUME WindowInv, Le, NEW b, NEW w, NEW a, NEW here, ~Unsettled(w), ApplyAdvertising(b, w, a, here)
  PROVE  aired' = "discoverable" => adv' = "none"
BY AdvertisedHides DEF WindowInv, AirFollows, ApplyAdvertising, Held, advVars

\* Hiding hides, unless on classic the one call it takes fails.
LEMMA HideHides ==
  ASSUME WindowInv, NEW b, NEW w, NEW a, ~Unsettled(w), UNCHANGED setup, Hide(b, w, a) \/ Hidden(b, w, a)
  PROVE  aired' = "discoverable" => IF Le THEN adv' = "none" ELSE bared' = TRUE
BY ApplyHides, AdvertisedHides DEF Hide, Hidden, StaysVisible

\* The advertisement is set as the hosts away want, unless the window has it.
LEMMA ApplyKeeps ==
  ASSUME WindowInv, NEW b, NEW a, NEW here, ApplyAdvertising(b, window, a, here),
         UNCHANGED <<setup, window, pairable, exposed>>, phase # "down"
  PROVE  WindowInv'
<1>. USE DEF WindowInv, WindowOK, AirFollows, PairableOnlyInWindow, VisibleOnlyInWindow, Unsettled, Le
<1>1. CASE UNCHANGED advVars
  BY <1>1 DEF advVars
<1>2. CASE Le /\ ~Unsettled(window)
  BY <1>2, ApplyHides
<1>. QED  BY <1>1, <1>2 DEF ApplyAdvertising, Advertised

LEMMA OpenWindowKeeps ==
  ASSUME WindowInv, NEW b, NEW s \in Slots, NEW bonds, OpenWindow(b, s, bonds),
         UNCHANGED setup, phase # "down"
  PROVE  WindowInv'
<1>. USE DEF WindowInv, WindowOK, AirFollows, PairableOnlyInWindow, VisibleOnlyInWindow, Le
<1>1. CASE UNCHANGED <<windowVars, advVars>>
  BY <1>1 DEF windowVars, advVars, Unsettled
<1>2. CASE Visible /\ \E some \in SUBSET Paired(bonds) : window' = WindowFor(s, some)
  <2>1. window' \in OpenWindows /\ ~window'.bound
    <3>1. PairingWindow \in Int /\ Paired(bonds) \subseteq Hosts
      BY BtManagerAssumption DEF Paired
    <3>. QED  BY <1>2, <3>1 DEF WindowFor, OpenWindows
  <2>2. Unsettled(window')
    BY <2>1, OpenIsNot DEF Unsettled
  <2>. QED  BY <1>2, <2>1, <2>2, OpenIsNot DEF Visible, Unsettled
<1>3. CASE exposed' = (window = NoWindow) /\ NotVisible /\ UNCHANGED window
  BY <1>3 DEF NotVisible, advVars, Unsettled
<1>. QED  BY <1>1, <1>2, <1>3 DEF OpenWindow

LEMMA CloseWindowKeeps ==
  ASSUME WindowInv, NEW b, NEW a, CloseWindow(b, a), UNCHANGED setup, phase # "down"
  PROVE  WindowInv'
<1>. USE DEF WindowInv, WindowOK, AirFollows, PairableOnlyInWindow, VisibleOnlyInWindow, Le
<1>1. CASE UNCHANGED <<windowVars, advVars>>
  BY <1>1 DEF windowVars, advVars, Unsettled
<1>2. CASE window' = NoWindow /\ (NotPairable \/ StaysPairable)
  <2>1. ~Unsettled(NoWindow) /\ PairableOnlyInWindow'
    BY <1>2 DEF Unsettled, NotPairable, StaysPairable
  <2>2. CASE window # NoWindow /\ window.bound /\ UNCHANGED advVars
    BY <1>2, <2>1, <2>2 DEF advVars, Unsettled
  <2>3. CASE Hide(b, NoWindow, a) \/ Hidden(b, NoWindow, a)
    BY <1>2, <2>1, <2>3, HideHides
  <2>. QED  BY <1>1, <1>2, <2>2, <2>3 DEF CloseWindow
<1>. QED  BY <1>1, <1>2 DEF CloseWindow

LEMMA BindKeeps ==
  ASSUME WindowInv, NEW w \in OpenWindows, NEW h, Bind(w, h), UNCHANGED setup, window # NoWindow
  PROVE  WindowInv'
<1>. USE DEF WindowInv, WindowOK, AirFollows, PairableOnlyInWindow, VisibleOnlyInWindow, Le
<1>1. /\ window' = [w EXCEPT !.bound = TRUE]
      /\ Hide(bindings', window', active) /\ UNCHANGED <<pairable, exposed>>
  BY DEF Bind, SettleWindow
<1>2. window' \in OpenWindows /\ window'.bound
  BY <1>1 DEF OpenWindows
<1>3. aired' = "discoverable" => IF Le THEN adv' = "none" ELSE bared' = TRUE
  BY <1>1, <1>2, HideHides DEF Unsettled
<1>. QED  BY <1>1, <1>2, <1>3, OpenIsNot

LEMMA IncomingKeepsWindow ==
  ASSUME WindowInv, NEW h, NEW have, NEW open, OnIncomingPeer(h, have, open),
         UNCHANGED setup, UNCHANGED phase, phase # "down"
  PROVE  WindowInv'
<1>1. CASE UNCHANGED <<windowVars, advVars>>
  BY <1>1, WindowAloneKeeps DEF windowVars, advVars, WindowAlone
<1>2. CASE BindIncoming(h, have, open)
  BY <1>2, BindKeeps DEF BindIncoming, Unsettled, WindowInv, WindowOK
<1>. QED  BY <1>1, <1>2 DEF OnIncomingPeer, KeepIncoming, DropIncoming, RejectIncoming

LEMMA TickKeepsWindow ==
  ASSUME WindowInv, Tick
  PROVE  WindowInv'
<1>1. CASE PollWindow
  <2>1. UNCHANGED setup /\ phase # "down" /\ phase' # "down"
    BY <1>1 DEF PollWindow, Idle
  <2>2. CASE UNCHANGED <<windowVars, advVars>>
    BY <2>1, <2>2, WindowAloneKeeps DEF windowVars, advVars, WindowAlone
  <2>3. CASE CloseWindow(bindings, active)
    BY <2>1, <2>3, CloseWindowKeeps
  <2>. DEFINE w == [window EXCEPT !.left = @ - 1]
  <2>4. ASSUME window # NoWindow
        PROVE  w \in OpenWindows /\ w.bound = window.bound
    BY <2>4 DEF WindowInv, WindowOK, OpenWindows
  <2>5. CASE window # NoWindow /\ window' = w /\ UNCHANGED <<pairable, exposed, advVars>>
    BY <2>1, <2>4, <2>5, OpenIsNot
    DEF advVars, WindowInv, WindowOK, AirFollows, PairableOnlyInWindow, VisibleOnlyInWindow, Unsettled, Le
  <2>6. CASE window # NoWindow /\ \E h \in NewlyPaired : Bind(w, h)
    BY <2>1, <2>4, <2>6, BindKeeps
  <2>. QED  BY <1>1, <2>2, <2>3, <2>5, <2>6 DEF PollWindow
<1>2. CASE PollUninvited \/ PollStuckHosts
  BY <1>2, WindowAloneKeeps DEF PollUninvited, PollStuckHosts, WindowAlone
<1>3. CASE PollAdvertising
  BY <1>3, ApplyKeeps DEF PollAdvertising
<1>. QED  BY <1>1, <1>2, <1>3 DEF Tick

\* On the way down there is no window; what is left of one is bared or given up.
LEMMA DownKeepsWindow ==
  ASSUME WindowInv, Shutdown \/ Crash
  PROVE  WindowInv'
<1>. USE DEF WindowInv, WindowOK, AirFollows, PairableOnlyInWindow, VisibleOnlyInWindow, Unsettled, Le
<1>1. CASE Cancel
  <2>1. UNCHANGED setup /\ window' = NoWindow /\ phase # "down"
    BY <1>1 DEF Cancel, Idle
  <2>2. PairableOnlyInWindow'
    <3>1. CASE NotPairable
      BY <2>1, <3>1 DEF NotPairable
    <3>2. CASE StaysPairable
      BY <2>1, <3>2 DEF StaysPairable
    <3>3. CASE window = NoWindow /\ UNCHANGED <<pairable, exposed>>
      BY <2>1, <3>3
    <3>. QED  BY <1>1, <3>1, <3>2, <3>3 DEF Cancel
  <2>3. CASE StopAdvertising /\ bared' = (bared /\ ~Unsettled(window))
    BY <2>1, <2>2, <2>3 DEF StopAdvertising
  <2>4. CASE NeverAdvertised
    BY <2>1, <2>2, <2>4 DEF NeverAdvertised, StaysVisible
  <2>. QED  BY <1>1, <2>3, <2>4 DEF Cancel
<1>2. CASE DisconnectAll
  BY <1>2, WindowAloneKeeps DEF DisconnectAll, WindowAlone
<1>3. CASE Stopped
  BY <1>3 DEF Stopped
<1>. QED  BY <1>1, <1>2, <1>3 DEF Shutdown, Exit, Crash

LEMMA StepWindowInv == FileInv /\ WindowInv /\ [Next]_vars => WindowInv'
<1>. SUFFICES ASSUME FileInv, WindowInv, [Next]_vars PROVE WindowInv'
  OBVIOUS
<1>1. CASE Environment
  <2>1. UNCHANGED <<setup, window, pairable, exposed, adv, bared, phase>>
    BY <1>1 DEF Environment, HostLinks, HostPairs, LinkDrops, Overlooks, SeesAgain, DisconnectFails, Unpaired,
       AdvertisementVanishes, Unregistered
  <2>2. aired' \in {aired, "off"}
    BY <1>1 DEF Environment, HostLinks, HostPairs, LinkDrops, Overlooks, SeesAgain, DisconnectFails, Unpaired,
       AdvertisementVanishes, Unregistered
  <2>. QED  BY <2>1, <2>2 DEF WindowInv, WindowOK, AirFollows, PairableOnlyInWindow, VisibleOnlyInWindow, Unsettled, Le
<1>2. CASE Channels
  BY <1>2, WindowAloneKeeps DEF Channels, Asks, Rings, Mismatched, managerVars, runVars, WindowAlone
<1>3. CASE Incoming
  <2>1. PICK h \in Hosts : Subscribe(h) \/ Connects(h) \/ Notice(h) \/ Unreachable(h)
    BY <1>3 DEF Incoming
  <2>2. UNCHANGED setup /\ UNCHANGED phase /\ phase # "down"
    BY <2>1 DEF Subscribe, Connects, Notice, Unreachable, Unmoved, managerVars, runVars, Idle
  <2>3. CASE \E have, open : OnIncomingPeer(h, have, open)
    BY <2>2, <2>3, IncomingKeepsWindow
  <2>4. CASE WindowAlone
    BY <2>2, <2>4, WindowAloneKeeps
  <2>. QED  BY <2>1, <2>3, <2>4 DEF Subscribe, Connects, Notice, Unreachable, Unmoved, managerVars,
                                    windowVars, advVars, WindowAlone
<1>4. CASE Dialling
  <2>1. CASE DialFindsStale
    <3>1. active \in Slots
      BY <2>1 DEF FileInv, DialFindsStale, Dialled, DialTarget, ActiveHost, HostOf
    <3>. QED  BY <2>1, <3>1, OpenWindowKeeps DEF DialFindsStale, HealStaleBinding, Dialled, Idle
  <2>2. CASE Dial \/ DialReads \/ AbandonDial \/ DialConnects \/ DialFails \/ BackoffEnds
    <3>1. WindowAlone /\ UNCHANGED phase
      BY <2>2 DEF Dial, DialReads, AbandonDial, DialConnects, DialFails, BackoffEnds, UndialledVars, bluezVars, runVars, WindowAlone
    <3>. QED  BY <3>1, WindowAloneKeeps
  <2>. QED  BY <1>4, <2>1, <2>2 DEF Dialling
<1>5. CASE HandleCmd
  <2>1. CASE RemovePairing
    BY <2>1, WindowAloneKeeps DEF RemovePairing, WindowAlone
  <2>2. CASE OpenRepaired
    <3>1. job.slot \in Slots
      BY <2>2 DEF OpenRepaired, FileInv, JobInv, Jobs
    <3>. QED  BY <2>2, <3>1, OpenWindowKeeps DEF OpenRepaired
  <2>3. ASSUME NEW s \in Slots, OpenPairingWindow(s) \/ RepairSlot(s)
        PROVE  WindowInv'
    <3>1. phase # "down" /\ phase' # "down" /\ UNCHANGED setup
      BY <2>3 DEF OpenPairingWindow, RepairSlot, Command, Idle, runVars
    <3>2. CASE UNCHANGED <<windowVars, advVars>>
      BY <3>1, <3>2, WindowAloneKeeps DEF windowVars, advVars, WindowAlone
    <3>. QED  BY <2>3, <3>1, <3>2, OpenWindowKeeps DEF OpenPairingWindow, RepairSlot
  <2>. QED  BY <1>5, <2>1, <2>2, <2>3 DEF HandleCmd
<1>6. CASE SlotWatch
  <2>1. PICK s \in Slots \cup {Local} : OnSlotChange(s)
    BY <1>6 DEF SlotWatch
  <2>2. phase # "down" /\ UNCHANGED <<setup, phase, window, pairable, exposed>>
    BY <2>1 DEF OnSlotChange, Command, Idle
  <2>3. CASE UNCHANGED advVars
    BY <2>2, <2>3, WindowAloneKeeps DEF advVars, WindowAlone
  <2>. QED  BY <2>1, <2>2, <2>3, ApplyKeeps DEF OnSlotChange
<1>7. CASE Tick
  BY <1>7, TickKeepsWindow
<1>8. CASE Shutdown \/ Crash
  BY <1>8, DownKeepsWindow
<1>9. CASE Start
  <2>1. pairable' = FALSE /\ UNCHANGED <<setup, window>> /\ ~Unsettled(NoWindow)
    BY <1>9 DEF Start, Unsettled
  <2>2. aired' = "discoverable" => Le /\ adv' = "none"
    BY <1>9, <2>1, ApplyHides DEF Start
  <2>. QED  BY <2>1, <2>2 DEF WindowInv, WindowOK, AirFollows, PairableOnlyInWindow, VisibleOnlyInWindow, Le
<1>10. CASE UNCHANGED vars
  BY <1>10, WindowAloneKeeps DEF vars, bluezVars, managerVars, advVars, runVars, WindowAlone
<1>. QED  BY <1>1, <1>2, <1>3, <1>4, <1>5, <1>6, <1>7, <1>8, <1>9, <1>10 DEF Next

\* However windows are opened, replaced, settled, timed out or left by a failing
\* call, the adapter takes pairings only while there is one.  Exempt is an
\* adapter that a failed call or a crash left pairable.
THEOREM SpecPairable == Spec => []PairableOnlyInWindow
BY InitFileInv, StepFileInv, InitWindowInv, StepWindowInv, PTL DEF Spec, WindowInv

\* Whatever is done about the advertisement meanwhile, new hosts see the hub
\* only while a window waits for one.  Exempt are a classic adapter that a failed
\* call or an ended process left discoverable, and on LE an advertisement given
\* up that is still to be unregistered.
THEOREM SpecVisible == Spec => []VisibleOnlyInWindow
BY InitFileInv, StepFileInv, InitWindowInv, StepWindowInv, PTL DEF Spec, WindowInv

-----------------------------------------------------------------------------
(* The record of a session and the session.                                *)

Sessions == [Hosts -> {"none", "asked", "gone", "open"}]
LiveInv == session \in Sessions /\ RecordedIfLive

LEMMA DropPeersKeepsLive ==
  ASSUME NEW have, NEW open \in Sessions, NEW hs, \A h \in Hosts : open[h] = "open" => h \in have,
         DropPeers(have, open, hs)
  PROVE  LiveInv'
BY DEF DropPeers, LiveInv, RecordedIfLive, Sessions

\* Whatever comes of a peer: kept, dropped, rejected or bound.
LEMMA IncomingKeepsLive ==
  ASSUME NEW p \in Hosts, NEW have, NEW open \in Sessions, \A h \in Hosts : open[h] = "open" => h \in have,
         OnIncomingPeer(p, have, open)
  PROVE  LiveInv'
<1>1. CASE attached' = have /\ session' = open
  BY <1>1 DEF LiveInv, RecordedIfLive
<1>2. CASE \E hs : DropPeers(have, open, hs)
  BY <1>2, DropPeersKeepsLive
<1>3. CASE attached' = have \ {p} /\ session' = [open EXCEPT ![p] = "none"]
  BY <1>3 DEF LiveInv, RecordedIfLive, Sessions
<1>. QED  BY <1>1, <1>2, <1>3 DEF OnIncomingPeer, KeepIncoming, DropIncoming, RejectIncoming, BindIncoming

LEMMA StepLiveInv == LiveInv /\ [Next]_vars => LiveInv'
<1>. SUFFICES ASSUME LiveInv, [Next]_vars PROVE LiveInv'
  OBVIOUS
<1>. USE DEF LiveInv, RecordedIfLive, Sessions
<1>0. CASE UNCHANGED <<session, attached>>
  BY <1>0
<1>1. ASSUME NEW hs, Unlinked(hs), UNCHANGED attached
      PROVE  LiveInv'
  BY <1>1 DEF Unlinked
<1>2. CASE Environment
  BY <1>0, <1>1, <1>2 DEF Environment, HostLinks, HostPairs, LinkDrops, Overlooks, SeesAgain, DisconnectFails, Unpaired,
     AdvertisementVanishes, Unregistered, transportVars, hostVars
<1>3. CASE Channels
  BY <1>0, <1>3 DEF Channels, Asks, Rings, Mismatched, transportVars, hostVars
<1>4. CASE Incoming
  <2>1. PICK h \in Hosts : Subscribe(h) \/ Connects(h) \/ Notice(h) \/ Unreachable(h)
    BY <1>4 DEF Incoming
  <2>2. CASE Subscribe(h)
    <3>1. Recorded(h) \in Sessions /\ \A g \in Hosts : Recorded(h)[g] = "open" => g \in attached \cup {h}
      BY DEF Recorded
    <3>2. CASE OnIncomingPeer(h, attached \cup {h}, Recorded(h))
      BY <3>1, <3>2, IncomingKeepsLive
    <3>3. CASE h \in attached /\ session' = Recorded(h) /\ UNCHANGED attached
      BY <3>1, <3>3
    <3>. QED  BY <2>2, <3>2, <3>3 DEF Subscribe
  <2>3. CASE Connects(h)
    BY <2>3, IncomingKeepsLive DEF Connects
  <2>4. CASE Notice(h)
    BY <2>4 DEF Notice, Closed, ForgetSub, hostVars
  <2>5. CASE Unreachable(h)
    BY <2>5 DEF Unreachable, SendFails
  <2>. QED  BY <2>1, <2>2, <2>3, <2>4, <2>5
<1>5. CASE Dialling
  <2>1. CASE DialConnects
    BY <2>1 DEF DialConnects
  <2>. QED  BY <1>0, <1>5, <2>1 DEF Dialling, Dial, DialReads, AbandonDial, DialFindsStale, DialFails, BackoffEnds,
     UndialledVars, bluezVars, hostVars, transportVars
<1>6. CASE HandleCmd
  <2>1. CASE RemovePairing
    BY <1>0, <1>1, <2>1 DEF RemovePairing, Forget, transportVars
  <2>. QED  BY <1>0, <1>6, <2>1 DEF HandleCmd, OpenPairingWindow, RepairSlot, OpenRepaired, hostVars, transportVars
<1>7. CASE SlotWatch
  <2>1. PICK s \in Slots \cup {Local} : OnSlotChange(s)
    BY <1>7 DEF SlotWatch
  <2>. QED  BY <1>0, <2>1, DropPeersKeepsLive DEF OnSlotChange
<1>8. CASE Tick
  <2>1. CASE PollWindow \/ PollAdvertising
    BY <1>0, <2>1 DEF PollWindow, PollAdvertising, hostVars, transportVars
  <2>2. CASE PollUninvited
    BY <1>0, <2>2, DropPeersKeepsLive DEF PollUninvited
  <2>3. CASE PollStuckHosts
    <3>1. CASE KickStuck
      BY <3>1, DropPeersKeepsLive DEF KickStuck
    <3>2. CASE ReregisterStuck
      BY <3>2 DEF ReregisterStuck, Reregister
    <3>. QED  BY <1>0, <2>3, <3>1, <3>2 DEF PollStuckHosts, LeaveStuck, SpareOthers, hostVars
  <2>. QED  BY <1>8, <2>1, <2>2, <2>3 DEF Tick
<1>9. CASE Shutdown \/ Crash
  BY <1>0, <1>9 DEF Shutdown, Cancel, DisconnectAll, Exit, Crash, Stopped, hostVars, transportVars
<1>10. CASE Start
  BY <1>0, <1>10 DEF Start, hostVars
<1>11. CASE UNCHANGED vars
  BY <1>0, <1>11 DEF vars, bluezVars, hostVars, transportVars
<1>. QED  BY <1>2, <1>3, <1>4, <1>5, <1>6, <1>7, <1>8, <1>9, <1>10, <1>11 DEF Next

\* The record of a live session is never lost to a notice, an eviction, a kick or
\* a rejection that concerns another one, or another host.
THEOREM SpecRecorded == Spec => []RecordedIfLive
<1>1. Init => LiveInv
  BY DEF Init, LiveInv, RecordedIfLive, Sessions
<1>. QED  BY <1>1, StepLiveInv, PTL DEF Spec, LiveInv

-----------------------------------------------------------------------------
(* What the tick knows of sessions by the time it re-registers: none began *)
(* since it read who is connected, and there is none without a link; so a  *)
(* session that is open it read, or missed.                                *)

Linked == \A h \in Hosts : session[h] \in {"asked", "open"} => h \in linked
Read ==
  phase \in {"advertise", "stuck"} =>
    \A h \in Bound(bindings) \cap Hosts : session[h] = "open" => h \in connected \cup missed

ReadInv == LiveInv /\ Linked /\ Read /\ cooldown \in Nat

\* No session comes to be, and the tick is not about to act on what it read.
LEMMA NoNewSession ==
  ASSUME ReadInv, LiveInv', cooldown' \in Nat,
         \A h \in Hosts : session'[h] \in {"asked", "open"} => session[h] = session'[h] /\ (h \in linked => h \in linked'),
         \/ phase' \notin {"advertise", "stuck"}
         \/ phase \in {"advertise", "stuck"} /\ UNCHANGED <<bindings, readVars>>
  PROVE  ReadInv'
BY DEF ReadInv, Linked, Read, Bound, readVars

LEMMA UnlinkedIsNoSession ==
  ASSUME ReadInv, NEW hs, Unlinked(hs)
  PROVE  \A h \in Hosts : session'[h] \in {"asked", "open"} => session[h] = session'[h] /\ (h \in linked => h \in linked')
BY DEF Unlinked, ReadInv, LiveInv, Sessions

LEMMA IncomingKeepsRead ==
  ASSUME ReadInv, LiveInv', NEW p \in Hosts, NEW have, NEW open \in Sessions, OnIncomingPeer(p, have, open),
         \A h \in Hosts : open[h] \in {"asked", "open"} => h \in linked,
         UNCHANGED cooldown, phase' \notin {"advertise", "stuck"}
  PROVE  ReadInv'
<1>1. \A h \in Hosts : session'[h] \in {"asked", "open"} => h \in linked'
  <2>1. CASE KeepIncoming(p, have, open) \/ BindIncoming(p, have, open)
    BY <2>1 DEF KeepIncoming, BindIncoming
  <2>2. CASE DropPeers(have, open, {p}) /\ UNCHANGED linked
    BY <2>2 DEF DropPeers
  <2>3. CASE session' = [open EXCEPT ![p] = "none"] /\ linked' = linked \ {p}
    BY <2>3 DEF Sessions
  <2>. QED  BY <2>1, <2>2, <2>3 DEF OnIncomingPeer, DropIncoming, RejectIncoming
<1>. QED  BY <1>1 DEF ReadInv, Linked, Read

LEMMA StepReadInv == ReadInv /\ [Next]_vars => ReadInv'
<1>. SUFFICES ASSUME ReadInv, [Next]_vars PROVE ReadInv'
  OBVIOUS
<1>l. LiveInv' /\ LiveInv
  BY StepLiveInv DEF ReadInv
<1>. USE DEF Idle
<1>0. CASE UNCHANGED <<session, linked, cooldown, phase, bindings, readVars>>
  BY <1>l, <1>0 DEF ReadInv, Linked, Read, Bound, readVars
<1>1. CASE Environment
  <2>1. UNCHANGED <<cooldown, phase, bindings, readVars>>
    BY <1>1 DEF Environment, bindVars, memoryVars
  <2>2. CASE \E hs : Unlinked(hs)
    BY <1>l, <2>1, <2>2, UnlinkedIsNoSession, NoNewSession DEF ReadInv
  <2>3. CASE UNCHANGED session /\ linked \subseteq linked'
    BY <1>l, <2>1, <2>3, NoNewSession DEF ReadInv
  <2>. QED  BY <1>1, <2>2, <2>3 DEF Environment, HostLinks, HostPairs, LinkDrops, Overlooks, SeesAgain, DisconnectFails,
       Unpaired, AdvertisementVanishes, Unregistered, hostVars
<1>2. CASE Channels
  <2>1. UNCHANGED <<cooldown, phase, bindings, readVars, linked>>
    BY <1>2 DEF Channels, Asks, Rings, Mismatched, hostVars, managerVars, runVars, bindVars, memoryVars
  <2>2. CASE \E h \in Hosts : Asks(h)
    BY <1>l, <2>1, <2>2 DEF Asks, MayAsk, ReadInv, Linked, Read, LiveInv, Sessions, readVars
  <2>. QED  BY <1>0, <1>2, <2>1, <2>2 DEF Channels, Rings, Mismatched, hostVars
<1>3. CASE Incoming
  <2>1. PICK h \in Hosts : Subscribe(h) \/ Connects(h) \/ Notice(h) \/ Unreachable(h)
    BY <1>3 DEF Incoming
  <2>2. UNCHANGED <<cooldown, phase>> /\ phase = "idle"
    BY <2>1 DEF Subscribe, Connects, Notice, Unreachable, Unmoved, managerVars, runVars, memoryVars
  <2>3. CASE Subscribe(h)
    <3>1. Recorded(h) \in Sessions /\ \A g \in Hosts : Recorded(h)[g] \in {"asked", "open"} => g \in linked
      BY DEF Recorded, ReadInv, Linked, LiveInv, Sessions
    <3>2. CASE OnIncomingPeer(h, attached \cup {h}, Recorded(h))
      BY <1>l, <2>2, <3>1, <3>2, IncomingKeepsRead
    <3>3. CASE session' = Recorded(h) /\ UNCHANGED linked
      BY <1>l, <2>2, <3>1, <3>3 DEF ReadInv, Linked, Read
    <3>. QED  BY <2>3, <3>2, <3>3 DEF Subscribe
  <2>4. CASE Connects(h)
    BY <1>l, <2>2, <2>4, IncomingKeepsRead DEF Connects, ReadInv, Linked, LiveInv
  <2>5. CASE Notice(h) \/ Unreachable(h)
    BY <1>l, <2>2, <2>5, NoNewSession DEF Notice, Unreachable, SendFails, hostVars, ReadInv, LiveInv, Sessions
  <2>. QED  BY <2>1, <2>3, <2>4, <2>5
<1>4. CASE Dialling
  <2>1. UNCHANGED <<session, cooldown, bindings, readVars, phase>> \/ (UNCHANGED <<session, cooldown>> /\ phase' = "idle")
    BY <1>4 DEF Dialling, Dial, DialReads, AbandonDial, DialConnects, DialFindsStale, DialFails, BackoffEnds, Dialled,
       UndialledVars, bluezVars, hostVars, memoryVars, bindVars, runVars
  <2>2. linked \subseteq linked'
    BY <1>4 DEF Dialling, Dial, DialReads, AbandonDial, DialConnects, DialFindsStale, DialFails, BackoffEnds,
       UndialledVars, bluezVars, hostVars
  <2>. QED  BY <1>l, <2>1, <2>2, NoNewSession DEF ReadInv
<1>5. CASE HandleCmd
  <2>1. UNCHANGED cooldown /\ phase' \in {"idle", "repairing", "removed"}
    BY <1>5 DEF HandleCmd, OpenPairingWindow, RepairSlot, RemovePairing, OpenRepaired, Command, memoryVars, runVars
  <2>2. CASE \E hs : Unlinked(hs)
    BY <1>l, <2>1, <2>2, UnlinkedIsNoSession, NoNewSession DEF ReadInv
  <2>3. CASE UNCHANGED <<session, linked>>
    BY <1>l, <2>1, <2>3, NoNewSession DEF ReadInv
  <2>. QED  BY <1>5, <2>2, <2>3 DEF HandleCmd, OpenPairingWindow, RepairSlot, RemovePairing, OpenRepaired, Forget, hostVars
<1>6. CASE SlotWatch
  <2>1. PICK s \in Slots \cup {Local} : OnSlotChange(s)
    BY <1>6 DEF SlotWatch
  <2>2. UNCHANGED <<cooldown, phase, linked>> /\ phase = "idle"
    BY <2>1 DEF OnSlotChange, Command, memoryVars
  <2>3. \A h \in Hosts : session'[h] \in {"asked", "open"} => session[h] = session'[h]
    BY <2>1, <1>l DEF OnSlotChange, DropPeers, LiveInv, Sessions
  <2>. QED  BY <1>l, <2>2, <2>3, NoNewSession DEF ReadInv
<1>7. CASE PollWindow
  <2>1. cooldown' \in Nat /\ UNCHANGED <<session, linked>> /\ phase' = "swept"
    BY <1>7 DEF PollWindow, SecondPasses, Down, hostVars, ReadInv
  <2>. QED  BY <1>l, <2>1, NoNewSession
<1>8. CASE PollUninvited
  <2>1. /\ linked \cap Bound(bindings) \subseteq connected' \cup missed' /\ UNCHANGED <<cooldown, linked, bindings>>
        /\ \A h \in Hosts : session'[h] \in {"asked", "open"} => session[h] = session'[h]
    BY <1>8, <1>l DEF PollUninvited, DropPeers, LiveInv, Sessions, bindVars
  <2>. QED  BY <1>l, <2>1 DEF ReadInv, Linked, Read, Bound
<1>9. CASE PollAdvertising
  BY <1>l, <1>9, NoNewSession DEF PollAdvertising, hostVars, memoryVars, bindVars, ReadInv
<1>10. CASE PollStuckHosts
  <2>1. phase' = "idle" /\ UNCHANGED linked
    BY <1>10 DEF PollStuckHosts, LeaveStuck, KickStuck, SpareOthers, ReregisterStuck, hostVars
  <2>2. cooldown' \in Nat
    <3>1. ReregisterCooldown \in Nat /\ cooldown \in Nat
      BY BtManagerAssumption DEF ReadInv
    <3>. QED  BY <1>10, <3>1 DEF PollStuckHosts, LeaveStuck, KickStuck, SpareOthers, ReregisterStuck
  <2>3. \A h \in Hosts : session'[h] \in {"asked", "open"} => session[h] = session'[h]
    BY <1>10, <1>l DEF PollStuckHosts, LeaveStuck, KickStuck, SpareOthers, ReregisterStuck, Reregister, DropPeers,
       hostVars, LiveInv, Sessions
  <2>. QED  BY <1>l, <2>1, <2>2, <2>3, NoNewSession
<1>11. CASE Shutdown \/ Crash
  <2>1. CASE Stopped
    BY <1>l, <2>1, NoNewSession DEF Stopped, LiveInv, Sessions
  <2>2. CASE Cancel \/ DisconnectAll
    BY <1>l, <2>2, NoNewSession DEF Cancel, DisconnectAll, hostVars, memoryVars, ReadInv
  <2>. QED  BY <1>11, <2>1, <2>2 DEF Shutdown, Exit, Crash
<1>12. CASE Start
  BY <1>l, <1>12, NoNewSession DEF Start, hostVars, memoryVars, ReadInv
<1>13. CASE UNCHANGED vars
  BY <1>0, <1>13 DEF vars, bluezVars, hostVars, managerVars, runVars, memoryVars, bindVars
<1>. QED  BY <1>1, <1>2, <1>3, <1>4, <1>5, <1>6, <1>7, <1>8, <1>9, <1>10, <1>11, <1>12, <1>13 DEF Next, Tick

\* The clock of re-registrations is set by one alone, and one is made only while
\* no host served is heard.
LEMMA StepReregisters ==
  ASSUME FileInv, ReadInv, Next, cooldown' > cooldown, NEW s \in Slots, Serves(s),
         bindings[s] \notin missed \cup {NoHost}
  PROVE  session[bindings[s]] # "open"
<1>1. CASE PollStuckHosts
  <2>1. ReregisterStuck /\ Heard = {} /\ phase = "stuck"
    BY <1>1 DEF PollStuckHosts, LeaveStuck, KickStuck, SpareOthers, ReregisterStuck, WorthIt, ReadInv
  <2>2. bindings[s] \in Hosts /\ bindings[s] \in Served /\ bindings[s] \in Bound(bindings)
    BY DEF FileInv, Served, Bound
  <2>. QED  BY <2>1, <2>2 DEF Heard, ReadInv, Read, LiveInv, RecordedIfLive
<1>2. CASE PollWindow
  BY <1>2 DEF PollWindow, SecondPasses, Down, ReadInv
<1>3. CASE Shutdown \/ Crash
  BY <1>3 DEF Shutdown, Cancel, DisconnectAll, Exit, Crash, Stopped, memoryVars, ReadInv
<1>4. ASSUME UNCHANGED cooldown
      PROVE  FALSE
  BY <1>4 DEF ReadInv
<1>5. CASE Environment \/ Channels \/ Incoming
  BY <1>4, <1>5 DEF Environment, Channels, Incoming, Subscribe, Connects, Notice, Unreachable, Unmoved,
     managerVars, memoryVars
<1>6. CASE Dialling \/ HandleCmd \/ PollUninvited \/ PollAdvertising \/ Start
  BY <1>4, <1>6 DEF Dialling, Dial, DialReads, AbandonDial, DialConnects, DialFindsStale, DialFails, BackoffEnds,
     UndialledVars, HandleCmd, OpenPairingWindow, RepairSlot, RemovePairing, OpenRepaired, PollUninvited,
     PollAdvertising, Start, memoryVars
<1>7. CASE SlotWatch
  BY <1>4, <1>7 DEF SlotWatch, OnSlotChange, memoryVars
<1>. QED  BY <1>1, <1>2, <1>3, <1>5, <1>6, <1>7 DEF Next, Tick

\* Re-registering never costs a host that is served a session that works, unless
\* the tick's reading of Connected missed that host.
THEOREM SpecReregistersAlone == Spec => ReregisterAlone
<1>. DEFINE Alone == cooldown' > cooldown =>
                       \A s \in Slots : Serves(s) /\ bindings[s] \notin missed \cup {NoHost} => session[bindings[s]] # "open"
<1>1. Init => ReadInv
  BY DEF Init, ReadInv, LiveInv, RecordedIfLive, Sessions, Linked, Read
<1>2. FileInv /\ ReadInv /\ [Next]_vars => [Alone]_vars
  BY StepReregisters
<1>. QED  BY <1>1, <1>2, InitFileInv, StepFileInv, StepReadInv, PTL DEF Spec, ReregisterAlone

-----------------------------------------------------------------------------
(* The way down: the advertisement is given up first, and every host that  *)
(* has a link is on its way out, or is one the shutdown did not get rid of.*)

Falling == Le /\ phase \in {"cancelled", "leaving"}

FallInv ==
  /\ Falling => adv = "none"
  /\ Le /\ phase = "leaving" => linked \subseteq leaving \cup excused

\* The setup is the same throughout.
LEMMA SetupStays == [Next]_vars => UNCHANGED setup
<1>. SUFFICES ASSUME [Next]_vars PROVE UNCHANGED setup
  OBVIOUS
<1>1. CASE Environment \/ Channels \/ Incoming
  BY <1>1 DEF Environment, Channels, Incoming, HostLinks, HostPairs, LinkDrops, Overlooks, SeesAgain, DisconnectFails,
     Unpaired, AdvertisementVanishes, Unregistered, Asks, Rings, Mismatched, Subscribe, Connects, Notice, Unreachable, Unmoved
<1>2. CASE Dialling \/ HandleCmd \/ SlotWatch
  BY <1>2 DEF Dialling, Dial, DialReads, AbandonDial, DialConnects, DialFindsStale, DialFails, BackoffEnds, UndialledVars,
     bluezVars, HandleCmd, OpenPairingWindow, RepairSlot, RemovePairing, OpenRepaired, SlotWatch, OnSlotChange
<1>3. CASE Tick \/ Shutdown \/ Crash \/ Start
  BY <1>3 DEF Tick, PollWindow, PollUninvited, PollAdvertising, PollStuckHosts, Shutdown, Cancel, DisconnectAll, Exit,
     Crash, Stopped, Start
<1>. QED  BY <1>1, <1>2, <1>3 DEF Next, vars, bluezVars

LEMMA StepFallInv == FallInv /\ [Next]_vars => FallInv'
<1>. SUFFICES ASSUME FallInv, [Next]_vars PROVE FallInv'
  OBVIOUS
<1>0. UNCHANGED setup
  BY SetupStays
<1>1. CASE phase' \notin {"cancelled", "leaving"}
  BY <1>1 DEF FallInv, Falling
<1>2. CASE ~Le
  BY <1>0, <1>2 DEF FallInv, Falling, Le
<1>. USE DEF FallInv, Falling, Le
<1>3. CASE UNCHANGED <<adv, phase, linked, leaving, excused>>
  BY <1>0, <1>3
<1>4. CASE Environment
  <2>1. UNCHANGED <<phase, adv>> /\ Excuses
    BY <1>4 DEF Environment
  <2>. QED  BY <1>0, <2>1 DEF Excuses
<1>5. CASE Channels \/ UNCHANGED vars
  BY <1>3, <1>5 DEF Channels, Asks, Rings, Mismatched, hostVars, managerVars, runVars, advVars, vars, bluezVars
<1>6. CASE DialReads
  BY <1>3, <1>6 DEF DialReads, hostVars, runVars
<1>7. CASE Le /\ Cancel
  BY <1>0, <1>7 DEF Cancel, StopAdvertising, NeverAdvertised
<1>8. CASE Le /\ DisconnectAll
  BY <1>0, <1>8 DEF DisconnectAll, Tell
<1>9. CASE Incoming \/ (Dialling /\ ~DialReads) \/ HandleCmd \/ SlotWatch \/ Tick \/ Exit \/ Crash \/ Start
  <2>1. CASE Incoming \/ (Dialling /\ ~DialReads)
    BY <1>1, <2>1 DEF Incoming, Subscribe, Connects, Notice, Unreachable, Unmoved, Dialling, Dial, AbandonDial, DialConnects,
       DialFindsStale, DialFails, BackoffEnds, UndialledVars, Dialled, Idle, managerVars, runVars
  <2>2. CASE HandleCmd \/ SlotWatch
    BY <1>1, <2>2 DEF HandleCmd, OpenPairingWindow, RepairSlot, RemovePairing, OpenRepaired, Command, Idle, SlotWatch,
       OnSlotChange, runVars
  <2>3. CASE Tick \/ Exit \/ Crash \/ Start
    BY <1>1, <2>3 DEF Tick, PollWindow, PollUninvited, PollAdvertising, PollStuckHosts, Exit, Crash, Stopped, Start
  <2>. QED  BY <1>9, <2>1, <2>2, <2>3
<1>. QED  BY <1>2, <1>4, <1>5, <1>6, <1>7, <1>8, <1>9 DEF Next, Shutdown, Dialling

\* By the time the application goes no host has a link but those the shutdown
\* could not get rid of: not shown, not listed, not disconnected, or let in by
\* an advertisement that was still to be unregistered.
THEOREM SpecLeavesFirst == Spec => HostsLeaveFirst
<1>. DEFINE First == Le /\ Exit => linked \subseteq excused
<1>1. Init => FallInv
  BY DEF Init, FallInv, Falling
<1>2. FallInv /\ [Next]_vars => [First]_vars
  BY DEF FallInv, Exit
<1>. QED  BY <1>1, <1>2, StepFallInv, PTL DEF Spec, HostsLeaveFirst

-----------------------------------------------------------------------------
(* What is promised of pairing (PairingWindows.tla).  A window that waits  *)
(* for a host has a free slot, and there is none while the process is down.*)

SlotFree ==
  /\ Unsettled(window) => bindings[window.slot] = NoHost
  /\ phase = "down" => window = NoWindow

PairingInv == FileInv /\ WindowInv /\ SlotFree

Promised == [Promise!Next]_<<Kept, Phase, setup.seeds>>

LEMMA InitSlotFree == Init => SlotFree
BY DEF Init, SlotFree, Unsettled

\* Between handlers no slot is being re-paired.
LEMMA IdleKeeps == FileInv /\ phase \notin {"repairing", "removed", "down"} => job = NoJob /\ Kept = bindings
BY DEF FileInv, JobInv, Kept

LEMMA NothingPromised ==
  ASSUME PairingInv, UNCHANGED <<setup, bindings, job, window>>, phase' = "down" => window = NoWindow
  PROVE  Promised /\ SlotFree'
BY DEF PairingInv, Promised, SlotFree, Phase, Unsettled, Kept

LEMMA OpenPromised ==
  ASSUME PairingInv, NEW s \in Slots, NEW bonds, OpenWindow(bindings, s, bonds),
         UNCHANGED <<setup, bindings, job, phase>>, Idle
  PROVE  Promised /\ SlotFree'
<1>0. Kept = bindings /\ UNCHANGED Kept
  BY IdleKeeps DEF PairingInv, Idle, Kept
<1>1. CASE UNCHANGED window
  BY <1>1, NothingPromised DEF PairingInv, SlotFree
<1>2. CASE bindings[s] = NoHost /\ \E some : window' = WindowFor(s, some)
  <2>1. window' # NoWindow /\ ~window'.bound /\ window'.slot = s
    BY <1>2, BluezAssumption DEF WindowFor, NoWindow
  <2>2. Phase' = [phase |-> "open", slot |-> s]
    BY <2>1 DEF Phase
  <2>. QED  BY <1>0, <1>2, <2>1, <2>2 DEF Promised, Promise!Next, Promise!Open, SlotFree, Unsettled, Idle
<1>. QED  BY <1>1, <1>2 DEF OpenWindow, windowVars

\* A slot set free gets a window, or keeps whatever there was.
LEMMA FreePromised ==
  ASSUME PairingInv, NEW s \in Slots, NEW bonds, Kept[s] # NoHost, Kept' = [Kept EXCEPT ![s] = NoHost],
         bindings' = Kept', OpenWindow(bindings', s, bonds), UNCHANGED setup, phase # "down", phase' # "down",
         Kept \in [Slots -> Hosts \cup {NoHost}],
         Unsettled(window) => Kept'[window.slot] = NoHost
  PROVE  Promised /\ SlotFree'
<1>1. bindings'[s] = NoHost
  OBVIOUS
<1>2. CASE UNCHANGED window
  <2>1. UNCHANGED Phase
    BY <1>2 DEF Phase
  <2>. QED  BY <1>2, <2>1 DEF Promised, Promise!Next, Promise!Unbind, SlotFree, Unsettled
<1>3. CASE \E some : window' = WindowFor(s, some)
  <2>1. window' # NoWindow /\ ~window'.bound /\ window'.slot = s
    BY <1>3, BluezAssumption DEF WindowFor, NoWindow
  <2>2. Phase' = [phase |-> "open", slot |-> s]
    BY <2>1 DEF Phase
  <2>. QED  BY <1>1, <2>1, <2>2 DEF Promised, Promise!Next, Promise!Unbind, SlotFree, Unsettled
<1>. QED  BY <1>2, <1>3 DEF OpenWindow, windowVars

LEMMA UnbindPromised ==
  ASSUME PairingInv, NEW s \in Slots, NEW bonds, bindings[s] # NoHost, Unbind(s),
         OpenWindow(bindings', s, bonds), UNCHANGED <<setup, phase, job>>, Idle
  PROVE  Promised /\ SlotFree'
<1>1. job = NoJob /\ Kept = bindings /\ Kept' = bindings'
  BY IdleKeeps DEF PairingInv, Idle, Kept
<1>2. bindings' = [bindings EXCEPT ![s] = NoHost] /\ bindings \in [Slots -> Hosts \cup {NoHost}]
  BY DEF Unbind, PairingInv, FileInv
<1>3. Unsettled(window) => bindings'[window.slot] = NoHost
  BY <1>2, OpenIsNot DEF PairingInv, SlotFree, Unsettled, WindowInv, WindowOK, OpenWindows
<1>. QED  BY <1>1, <1>2, <1>3, FreePromised DEF Idle

\* A re-pair frees its slot for good only at its end.
LEMMA RepairPromised ==
  ASSUME PairingInv, NEW s \in Slots, RepairSlot(s)
  PROVE  Promised /\ SlotFree'
<1>1. Idle /\ UNCHANGED setup /\ job = NoJob /\ Kept = bindings
  BY IdleKeeps DEF RepairSlot, Command, Idle, PairingInv
<1>2. CASE UNCHANGED <<bindVars, phase, job>>
  BY <1>1, <1>2, OpenPromised, NothingPromised DEF RepairSlot, bindVars, windowVars, PairingInv, SlotFree
<1>3. CASE /\ bindings[s] # NoHost /\ phase' = "repairing" /\ job' = [slot |-> s, host |-> bindings[s]]
           /\ bindings' = [bindings EXCEPT ![s] = NoHost] /\ UNCHANGED windowVars
  <2>1. bindings \in [Slots -> Hosts \cup {NoHost}]
    BY DEF PairingInv, FileInv
  <2>2. job' # NoJob
    <3>1. job' \in Jobs
      BY <1>3, <2>1 DEF Jobs
    <3>. QED  BY <3>1, JobIsNot
  <2>3. Kept' = bindings
    BY <1>3, <2>1, <2>2 DEF Kept
  <2>4. UNCHANGED Phase
    BY <1>3 DEF Phase, windowVars
  <2>5. Unsettled(window) => bindings'[window.slot] = NoHost
    BY <1>3, <2>1, OpenIsNot DEF PairingInv, SlotFree, Unsettled, WindowInv, WindowOK, OpenWindows
  <2>. QED  BY <1>1, <1>3, <2>3, <2>4, <2>5 DEF Promised, SlotFree, windowVars, Unsettled
<1>. QED  BY <1>2, <1>3 DEF RepairSlot

LEMMA RepairedPromised ==
  ASSUME PairingInv, OpenRepaired
  PROVE  Promised /\ SlotFree'
<1>1. job \in Jobs /\ job # NoJob /\ bindings[job.slot] = NoHost /\ bindings \in [Slots -> Hosts \cup {NoHost}]
  BY DEF PairingInv, FileInv, JobInv, OpenRepaired
<1>2. Kept = [bindings EXCEPT ![job.slot] = job.host] /\ Kept' = bindings /\ bindings' = bindings
  BY <1>1 DEF Kept, OpenRepaired
<1>3. job.slot \in Slots /\ job.host \in Hosts
  BY <1>1 DEF Jobs
<1>4. Kept' = [Kept EXCEPT ![job.slot] = NoHost] /\ Kept[job.slot] # NoHost /\ Kept \in [Slots -> Hosts \cup {NoHost}]
  BY <1>1, <1>2, <1>3, BluezAssumption
<1>5. Unsettled(window) => Kept'[window.slot] = NoHost
  BY <1>2 DEF PairingInv, SlotFree
<1>6. UNCHANGED setup /\ phase # "down" /\ phase' # "down" /\ OpenWindow(bindings', job.slot, bond)
  BY <1>2 DEF OpenRepaired
<1>. QED  BY <1>2, <1>3, <1>4, <1>5, <1>6, FreePromised

LEMMA ClosePromised ==
  ASSUME PairingInv, window' \in {window, NoWindow}, UNCHANGED <<setup, bindings, job>>,
         phase' = "down" => window' = NoWindow
  PROVE  Promised /\ SlotFree'
<1>1. CASE window' = window
  BY <1>1, NothingPromised
<1>2. CASE window' = NoWindow /\ window # NoWindow
  <2>1. Phase' = Promise!Closed /\ Phase # Promise!Closed /\ UNCHANGED Kept
    BY <1>2 DEF Phase, Promise!Closed, Kept
  <2>. QED  BY <1>2, <2>1 DEF Promised, Promise!Next, Promise!Close, SlotFree, Unsettled
<1>. QED  BY <1>1, <1>2

\* A host is bound only to the window's slot, only while it waits, and only if
\* no slot has it.
LEMMA SettlePromised ==
  ASSUME PairingInv, NEW w \in OpenWindows, w.slot = window.slot, NEW h \in Hosts, Unsettled(window),
         ~Known(h), Bind(w, h), UNCHANGED <<setup, job>>, Idle, phase' # "down"
  PROVE  Promised /\ SlotFree'
<1>0. Kept = bindings /\ Kept' = bindings'
  BY IdleKeeps DEF PairingInv, Idle, Kept
<1>1. window \in OpenWindows /\ window # NoWindow /\ ~window.bound /\ bindings[window.slot] = NoHost
  BY DEF PairingInv, WindowInv, WindowOK, SlotFree, Unsettled
<1>2. /\ bindings' = [bindings EXCEPT ![window.slot] = h]
      /\ window' = [w EXCEPT !.bound = TRUE]
  BY DEF Bind, SettleWindow
<1>3. window' \in OpenWindows /\ window'.bound /\ window'.slot = window.slot
  BY <1>2 DEF OpenWindows
<1>4. Phase = [phase |-> "open", slot |-> window.slot] /\ Phase' = [phase |-> "settled", slot |-> window.slot]
  BY <1>1, <1>3, OpenIsNot DEF Phase
<1>5. \A s \in Slots : bindings[s] # h
  BY DEF Known, SlotsOf
<1>6. Phase' = [Phase EXCEPT !.phase = "settled"]
  BY <1>4
<1>7. Promise!Settle(h)
  BY <1>0, <1>1, <1>2, <1>4, <1>5, <1>6 DEF Promise!Settle
<1>. QED  BY <1>3, <1>7 DEF Promised, Promise!Next, SlotFree, Unsettled

LEMMA IncomingPromised ==
  ASSUME PairingInv, NEW h \in Hosts, NEW have, NEW open, OnIncomingPeer(h, have, open),
         UNCHANGED <<setup, phase, job>>, Idle
  PROVE  Promised /\ SlotFree'
<1>1. CASE UNCHANGED <<bindings, window>>
  BY <1>1, NothingPromised DEF Idle
<1>2. CASE BindIncoming(h, have, open)
  <2>1. window \in OpenWindows
    BY <1>2 DEF BindIncoming, Unsettled, PairingInv, WindowInv, WindowOK
  <2>. QED  BY <1>2, <2>1, SettlePromised DEF BindIncoming, Idle
<1>. QED  BY <1>1, <1>2 DEF OnIncomingPeer, KeepIncoming, DropIncoming, RejectIncoming, bindVars, windowVars

LEMMA PollPromised ==
  ASSUME PairingInv, PollWindow
  PROVE  Promised /\ SlotFree'
<1>1. UNCHANGED <<setup, job>> /\ phase' # "down" /\ Idle
  BY DEF PollWindow
<1>. DEFINE w == [window EXCEPT !.left = @ - 1]
<1>2. CASE UNCHANGED windowVars /\ UNCHANGED bindVars
  BY <1>1, <1>2, NothingPromised DEF windowVars, bindVars
<1>3. CASE CloseWindow(bindings, active) /\ UNCHANGED bindVars
  BY <1>1, <1>3, ClosePromised DEF CloseWindow, windowVars, bindVars
<1>4. ASSUME window # NoWindow
      PROVE  w \in OpenWindows /\ w.bound = window.bound /\ w.slot = window.slot
  BY <1>4 DEF PairingInv, WindowInv, WindowOK, OpenWindows
<1>5. CASE window # NoWindow /\ window' = w /\ UNCHANGED bindVars
  <2>1. window' # NoWindow
    BY <1>4, <1>5, OpenIsNot
  <2>. QED  BY <1>1, <1>4, <1>5, <2>1 DEF Promised, Phase, Kept, SlotFree, PairingInv, Unsettled, bindVars
<1>6. CASE window # NoWindow /\ ~window.bound /\ \E h \in NewlyPaired : Bind(w, h)
  <2>1. PICK h \in NewlyPaired : Bind(w, h)
    BY <1>6
  <2>2. h \in Hosts /\ ~Known(h)
    <3>1. h \in Hosts /\ h \notin Bound(bindings)
      BY DEF NewlyPaired
    <3>. QED  BY <3>1, BluezAssumption DEF Bound, Known, SlotsOf
  <2>. QED  BY <1>1, <1>4, <1>6, <2>1, <2>2, SettlePromised DEF Unsettled
<1>. QED  BY <1>2, <1>3, <1>5, <1>6 DEF PollWindow

\* What was learned is found again, unless the configuration has the slot.
LEMMA StartPromised ==
  ASSUME PairingInv, Start
  PROVE  Promised /\ SlotFree'
<1>1. /\ bindings' = Merge(file, setup.seeds) /\ UNCHANGED <<setup, window>>
      /\ phase = "down" /\ phase' = "idle" /\ job' = NoJob
  BY DEF Start, Loaded
<1>2. window = NoWindow
  BY <1>1 DEF PairingInv, SlotFree
<1>3. Kept' = [s \in Slots |-> IF setup.seeds[s] = NoHost THEN Kept[s] ELSE setup.seeds[s]]
  BY <1>1 DEF Merge, PairingInv, FileInv, Kept
<1>4. Phase = Promise!Closed /\ UNCHANGED Phase
  BY <1>1, <1>2 DEF Phase, Promise!Closed
<1>. QED  BY <1>1, <1>2, <1>3, <1>4 DEF Promised, Promise!Next, Promise!Restart, SlotFree, Unsettled

LEMMA StepPromised == PairingInv /\ [Next]_vars => Promised /\ SlotFree'
<1>. SUFFICES ASSUME PairingInv, [Next]_vars PROVE Promised /\ SlotFree'
  OBVIOUS
<1>0. ASSUME UNCHANGED <<setup, bindings, job, window, phase>>
      PROVE  Promised /\ SlotFree'
  BY <1>0, NothingPromised DEF PairingInv, SlotFree
<1>1. CASE Environment
  BY <1>0, <1>1, SetupStays DEF Environment, bindVars
<1>2. CASE Channels
  BY <1>0, <1>2, SetupStays DEF Channels, managerVars, runVars, bindVars
<1>3. CASE Incoming
  <2>1. PICK h \in Hosts : Subscribe(h) \/ Connects(h) \/ Notice(h) \/ Unreachable(h)
    BY <1>3 DEF Incoming
  <2>2. UNCHANGED <<setup, phase, job>> /\ Idle
    BY <2>1 DEF Subscribe, Connects, Notice, Unreachable, Unmoved, managerVars, runVars
  <2>3. CASE \E have, open : OnIncomingPeer(h, have, open)
    BY <2>2, <2>3, IncomingPromised
  <2>. QED  BY <1>0, <2>1, <2>2, <2>3 DEF Subscribe, Connects, Notice, Unreachable, managerVars, bindVars, windowVars
<1>4. CASE Dialling
  <2>1. CASE DialFindsStale
    <3>1. active \in Slots /\ bindings[active] # NoHost
      BY <2>1 DEF PairingInv, FileInv, DialFindsStale, Dialled, DialTarget, ActiveHost, HostOf
    <3>. QED  BY <2>1, <3>1, UnbindPromised DEF DialFindsStale, HealStaleBinding, Dialled, runVars
  <2>. QED  BY <1>0, <1>4, <2>1, SetupStays DEF Dialling, Dial, DialReads, AbandonDial, DialConnects, DialFails,
       BackoffEnds, UndialledVars, bluezVars, bindVars, runVars
<1>5. CASE HandleCmd
  <2>1. CASE \E s \in Slots : OpenPairingWindow(s)
    BY <2>1, OpenPromised DEF OpenPairingWindow, Command, bindVars, runVars
  <2>2. CASE RemovePairing
    BY <2>2, NothingPromised DEF RemovePairing, bindVars
  <2>. QED  BY <1>5, <2>1, <2>2, RepairPromised, RepairedPromised DEF HandleCmd
<1>6. CASE SlotWatch
  BY <1>0, <1>6 DEF SlotWatch, OnSlotChange
<1>7. CASE Tick
  <2>1. CASE PollUninvited \/ PollAdvertising \/ PollStuckHosts
    BY <2>1, NothingPromised DEF PollUninvited, PollAdvertising, PollStuckHosts, bindVars
  <2>. QED  BY <1>7, <2>1, PollPromised DEF Tick
<1>8. CASE Shutdown \/ Crash
  BY <1>8, NothingPromised, ClosePromised DEF Shutdown, Cancel, DisconnectAll, Exit, Crash, Stopped, bindVars
<1>9. CASE Start
  BY <1>9, StartPromised
<1>10. CASE UNCHANGED vars
  BY <1>0, <1>10 DEF vars, bluezVars, managerVars, bindVars, runVars
<1>. QED  BY <1>1, <1>2, <1>3, <1>4, <1>5, <1>6, <1>7, <1>8, <1>9, <1>10 DEF Next

\* A binding goes by no step of a tick, of a peer that attaches, of a window or
\* of another host's dial.
LEMMA StepUnbinds ==
  ASSUME PairingInv, Next, NEW s \in Slots, bindings[s] # NoHost, bindings'[s] # bindings[s]
  PROVE  commands' < commands \/ phase = "down" \/ (dialing = bindings[s] /\ found = "stale")
<1>0. bindings \in [Slots -> Hosts \cup {NoHost}] /\ commands \in Int
  BY DEF PairingInv, FileInv
<1>1. CASE Environment \/ Channels
  BY <1>1 DEF Environment, Channels, managerVars, bindVars
<1>2. CASE \E w, h : Bind(w, h) /\ Unsettled(window) /\ w.slot = window.slot
  BY <1>0, <1>2 DEF Bind, PairingInv, SlotFree
<1>3. CASE Incoming
  BY <1>2, <1>3 DEF Incoming, Subscribe, Connects, Notice, Unreachable, OnIncomingPeer, KeepIncoming,
     DropIncoming, RejectIncoming, BindIncoming, managerVars, bindVars
<1>4. CASE Dialling
  <2>1. CASE DialFindsStale
    <3>1. found = "stale" /\ dialing = bindings[active] /\ Unbind(active)
      BY <2>1 DEF DialFindsStale, HealStaleBinding, Dialled, DialTarget, ActiveHost, HostOf
    <3>. QED  BY <1>0, <3>1 DEF Unbind
  <2>. QED  BY <1>4, <2>1 DEF Dialling, Dial, DialReads, AbandonDial, DialConnects, DialFails, BackoffEnds, UndialledVars, bindVars
<1>5. CASE HandleCmd \/ SlotWatch
  BY <1>0, <1>5 DEF HandleCmd, SlotWatch, OpenPairingWindow, RepairSlot, RemovePairing, OpenRepaired, OnSlotChange, Command, bindVars
<1>6. CASE PollWindow
  <2>. DEFINE w == [window EXCEPT !.left = @ - 1]
  <2>1. CASE window # NoWindow /\ ~window.bound /\ \E h \in NewlyPaired : Bind(w, h)
    <3>1. w.slot = window.slot
      BY <2>1 DEF PairingInv, WindowInv, WindowOK, OpenWindows
    <3>. QED  BY <1>2, <2>1, <3>1 DEF Unsettled
  <2>. QED  BY <1>6, <2>1 DEF PollWindow, bindVars
<1>7. CASE PollUninvited \/ PollAdvertising \/ PollStuckHosts \/ Shutdown \/ Crash
  BY <1>7 DEF PollUninvited, PollAdvertising, PollStuckHosts, Shutdown, Cancel, DisconnectAll, Exit, Crash,
     Stopped, bindVars
<1>8. CASE Start
  BY <1>8 DEF Start
<1>. QED  BY <1>1, <1>3, <1>4, <1>5, <1>6, <1>7, <1>8 DEF Next, Tick

LEMMA SpecPairingInv == Spec => []PairingInv
<1>1. Init => PairingInv
  BY InitFileInv, InitWindowInv, InitSlotFree DEF PairingInv
<1>2. PairingInv /\ [Next]_vars => PairingInv'
  BY StepFileInv, StepWindowInv, StepPromised DEF PairingInv
<1>. QED  BY <1>1, <1>2, PTL DEF Spec

\* A slot's host is lost to the user, to a restart, or to a dial of that host
\* that found it unpaired, or could not read whether it is.
THEOREM SpecUnbinds == Spec => OnlyDeadUnbound
<1>. DEFINE Allowed == \A s \in Slots : bindings[s] # NoHost /\ bindings'[s] # bindings[s] =>
                         commands' < commands \/ phase = "down" \/ (dialing = bindings[s] /\ found = "stale")
<1>1. PairingInv /\ [Next]_vars => [Allowed]_vars
  BY StepUnbinds
<1>. QED  BY <1>1, SpecPairingInv, PTL DEF Spec, OnlyDeadUnbound

\* The manager does what is promised of pairing, whatever else it is about:
\* every step of it opens, settles, frees, closes or restarts, or none of these.
THEOREM SpecPromised == Spec => Promise!Init /\ [][Promise!Next]_<<Kept, Phase, setup.seeds>>
<1>1. Init => Promise!Init
  BY InitFileInv DEF Init, FileInv, Setup, Promise!Init, Promise!Closed, Phase, Kept
<1>2. PairingInv /\ [Next]_vars => [Promise!Next]_<<Kept, Phase, setup.seeds>>
  BY StepPromised DEF Promised
<1>. QED  BY <1>1, <1>2, SpecPairingInv, PTL DEF Spec

-----------------------------------------------------------------------------
(* Types.  Three families of variables, each inductive by itself but for   *)
(* the bindings, the active slot and the sessions, typed above.            *)

HostTypes ==
  /\ bond \in [Hosts -> {"new", "paired", "bonded"}]
  /\ linked \subseteq Hosts /\ unseen \subseteq linked /\ leaving \subseteq linked
  /\ swallowed \subseteq Hosts /\ forgotten \subseteq Hosts
  /\ tries \in HostClocks(2)
  /\ attached \subseteq Hosts /\ late \subseteq Hosts /\ parked \in Hosts \cup {NoHost}

AirTypes ==
  /\ pairable \in BOOLEAN /\ exposed \in BOOLEAN /\ bared \in BOOLEAN /\ app \in BOOLEAN
  /\ {aired, adv} \subseteq {"off", "none", "connectable", "discoverable"}
  /\ window \in {NoWindow} \cup Windows
  /\ faults \in Nat /\ commands \in Nat /\ restarts \in Nat

MemoryTypes ==
  /\ stuck \in [Hosts -> {Quiet} \cup Clock(StuckHostGrace)]
  /\ kicked \in HostClocks(KickMemory) /\ evicted \in HostClocks(EvictCooldown)
  /\ cooldown \in Clock(ReregisterCooldown)
  /\ helped \subseteq Hosts /\ connected \subseteq Hosts /\ missed \subseteq Hosts /\ excused \subseteq Hosts
  /\ dialing \in Hosts \cup {NoHost} /\ found \in {"asking", "paired", "stale"} /\ redial \in BOOLEAN
  /\ phase \in {"idle", "swept", "advertise", "stuck", "repairing", "removed", "cancelled", "leaving", "down"}

ManagerTypes == FileInv /\ LiveInv /\ setup \in Setups /\ HostTypes /\ AirTypes /\ MemoryTypes

\* Together they are the types.
LEMMA TypesAreOK == ManagerTypes => TypeOK
BY DEF ManagerTypes, FileInv, JobInv, LiveInv, HostTypes, AirTypes, MemoryTypes, TypeOK, Sessions, FromConfig

\* Sending a host away leaves the links as they are.
LEMMA DropPeersKeepsHosts ==
  ASSUME HostTypes, NEW have \in SUBSET Hosts, NEW open, NEW hs, DropPeers(have, open, hs)
  PROVE  attached' \subseteq Hosts /\ leaving' \subseteq linked
BY DEF DropPeers, HostTypes

\* Hosts whose link is gone are no longer leaving.
LEMMA UnlinkedKeepsHosts ==
  ASSUME HostTypes, NEW hs, Unlinked(hs)
  PROVE  /\ linked' \subseteq Hosts /\ unseen' \subseteq linked' /\ leaving' \subseteq linked'
         /\ tries' \in HostClocks(2) /\ forgotten' \subseteq Hosts
BY DEF Unlinked, HostTypes, HostClocks, Clock

\* A host that comes in is kept, dropped, rejected or bound.
LEMMA IncomingKeepsHosts ==
  ASSUME HostTypes, NEW h \in Hosts, NEW have \in SUBSET Hosts, NEW open, OnIncomingPeer(h, have, open),
         late' \subseteq Hosts, parked' \in Hosts \cup {NoHost}
  PROVE  HostTypes'
<1>1. CASE attached' = have /\ UNCHANGED <<bond, linked, unseen, leaving, swallowed, noteVars>>
  BY <1>1 DEF HostTypes, noteVars
<1>2. CASE DropPeers(have, open, {h}) /\ UNCHANGED <<bond, linked, unseen, swallowed, noteVars>>
  BY <1>2, DropPeersKeepsHosts DEF HostTypes, noteVars
<1>3. CASE /\ attached' = have \ {h} /\ bond' = [bond EXCEPT ![h] = "new"] /\ swallowed' = swallowed \ {h}
           /\ linked' = linked \ {h} /\ unseen' = unseen \ {h} /\ leaving' = leaving \ {h}
           /\ tries' = [tries EXCEPT ![h] = 0] /\ forgotten' = forgotten \ {h}
  BY <1>3 DEF HostTypes, HostClocks, Clock
<1>. QED  BY <1>1, <1>2, <1>3 DEF OnIncomingPeer, KeepIncoming, BindIncoming, DropIncoming, RejectIncoming

\* No step takes what is recorded of hosts out of its types.
LEMMA StepHostTypes == FileInv /\ HostTypes /\ MemoryTypes /\ [Next]_vars => HostTypes'
<1>. SUFFICES ASSUME FileInv, HostTypes, MemoryTypes, [Next]_vars PROVE HostTypes'
  OBVIOUS
<1>0. ASSUME UNCHANGED <<hostVars, attached, late, parked>>
      PROVE  HostTypes'
  BY <1>0 DEF HostTypes, hostVars, noteVars
<1>1. CASE Environment
  <2>1. UNCHANGED <<attached, late, parked>>
    BY <1>1 DEF Environment, transportVars
  <2>2. CASE \E h \in Hosts : HostLinks(h) \/ HostPairs(h) \/ Overlooks(h) \/ SeesAgain(h) \/ DisconnectFails(h)
    BY <2>1, <2>2 DEF HostLinks, HostPairs, Overlooks, SeesAgain, DisconnectFails, HostTypes, noteVars
  <2>3. CASE \E h \in Hosts : LinkDrops(h)
    BY <2>1, <2>3, UnlinkedKeepsHosts DEF LinkDrops, Remembers, HostTypes
  <2>4. CASE \E h \in Hosts : Unpaired(h)
    BY <2>1, <2>4, UnlinkedKeepsHosts DEF Unpaired, HostTypes
  <2>5. CASE AdvertisementVanishes \/ Unregistered
    BY <1>0, <2>1, <2>5 DEF AdvertisementVanishes, Unregistered
  <2>. QED  BY <1>1, <2>2, <2>3, <2>4, <2>5 DEF Environment
<1>2. CASE Channels
  BY <1>0, <1>2 DEF Channels, Asks, Rings, Mismatched, HostTypes, transportVars, hostVars, noteVars
<1>3. CASE Incoming
  <2>1. PICK h \in Hosts : Subscribe(h) \/ Connects(h) \/ Notice(h) \/ Unreachable(h)
    BY <1>3 DEF Incoming
  <2>2. attached \cup {h} \in SUBSET Hosts
    BY DEF HostTypes
  <2>3. CASE Subscribe(h)
    <3>1. CASE OnIncomingPeer(h, attached \cup {h}, Recorded(h)) /\ UNCHANGED late
      BY <2>2, <2>3, <3>1, IncomingKeepsHosts DEF Subscribe, HostTypes
    <3>2. CASE late' = Replaced(h) /\ UNCHANGED <<attached, bond, linked, unseen, leaving, swallowed, noteVars>>
      BY <2>3, <3>2 DEF Subscribe, Replaced, HostTypes, noteVars
    <3>. QED  BY <2>3, <3>1, <3>2 DEF Subscribe
  <2>4. CASE Connects(h)
    BY <2>2, <2>4, IncomingKeepsHosts DEF Connects, HostTypes
  <2>5. CASE Notice(h)
    BY <2>5 DEF Notice, Closed, ForgetSub, HostTypes, hostVars, noteVars
  <2>6. CASE Unreachable(h)
    BY <2>6 DEF Unreachable, SendFails, HostTypes, noteVars
  <2>. QED  BY <2>1, <2>3, <2>4, <2>5, <2>6
<1>4. CASE Dialling
  <2>1. CASE DialConnects
    <3>1. dialing \in Hosts
      BY <2>1 DEF DialConnects, Dialled, MemoryTypes
    <3>. QED  BY <2>1, <3>1 DEF DialConnects, HostTypes, noteVars
  <2>. QED  BY <1>0, <1>4, <2>1 DEF Dialling, Dial, DialReads, AbandonDial, DialFindsStale, DialFails, BackoffEnds,
       UndialledVars, bluezVars, transportVars
<1>5. CASE HandleCmd
  <2>1. UNCHANGED <<attached, late, parked>>
    BY <1>5 DEF HandleCmd, OpenPairingWindow, RepairSlot, RemovePairing, OpenRepaired, transportVars
  <2>2. CASE RemovePairing
    <3>1. CASE Unlinked({job.host}) /\ swallowed' \in {swallowed, swallowed \ {job.host}}
               /\ bond' \in {bond, [bond EXCEPT ![job.host] = "new"]}
      BY <2>1, <3>1, UnlinkedKeepsHosts DEF HostTypes
    <3>2. CASE UNCHANGED <<bond, linked, unseen, leaving, session, swallowed, noteVars>>
      BY <1>0, <2>1, <3>2 DEF hostVars
    <3>. QED  BY <2>2, <3>1, <3>2 DEF RemovePairing, Forget, Remembers
  <2>. QED  BY <1>0, <1>5, <2>1, <2>2 DEF HandleCmd, OpenPairingWindow, RepairSlot, OpenRepaired
<1>6. CASE SlotWatch
  <2>1. PICK s \in Slots \cup {Local} : OnSlotChange(s)
    BY <1>6 DEF SlotWatch
  <2>2. UNCHANGED <<bond, linked, unseen, swallowed, tries, parked>>
    BY <2>1 DEF OnSlotChange
  <2>3. CASE UNCHANGED <<attached, late, leaving, forgotten>>
    BY <2>2, <2>3 DEF HostTypes
  <2>4. CASE \E old : /\ DropPeers(attached, session, {old}) /\ late' = late \cup Orphaned(attached, session, {old})
                      /\ forgotten' = forgotten \cup ({old} \cap linked)
    BY <2>2, <2>4, DropPeersKeepsHosts DEF Orphaned, HostTypes
  <2>. QED  BY <2>1, <2>3, <2>4 DEF OnSlotChange
<1>7. CASE PollWindow \/ PollAdvertising
  BY <1>0, <1>7 DEF PollWindow, PollAdvertising, transportVars
<1>8. CASE PollUninvited
  <2>1. UNCHANGED <<bond, linked, unseen, swallowed, tries, parked>> /\ forgotten' \subseteq forgotten \cup linked
    BY <1>8 DEF PollUninvited
  <2>2. CASE \E hs : DropPeers(attached, session, hs) /\ late' = late \cup Orphaned(attached, session, hs)
    BY <2>1, <2>2, DropPeersKeepsHosts DEF Orphaned, HostTypes
  <2>3. CASE UNCHANGED <<attached, late, leaving>>
    BY <2>1, <2>3 DEF HostTypes
  <2>. QED  BY <1>8, <2>2, <2>3 DEF PollUninvited
<1>9. CASE PollStuckHosts
  <2>1. CASE KickStuck
    BY <1>9, <2>1, DropPeersKeepsHosts DEF PollStuckHosts, KickStuck, HostTypes, noteVars
  <2>2. CASE ReregisterStuck
    BY <1>9, <2>2 DEF PollStuckHosts, ReregisterStuck, Reregister, HostTypes, HostClocks, Clock
  <2>. QED  BY <1>0, <1>9, <2>1, <2>2 DEF PollStuckHosts, LeaveStuck, SpareOthers
<1>10. CASE Shutdown \/ Crash
  <2>1. CASE DisconnectAll
    BY <2>1 DEF DisconnectAll, Tell, HostTypes, transportVars, noteVars
  <2>2. CASE Stopped
    BY <2>2 DEF Stopped, HostTypes
  <2>. QED  BY <1>0, <1>10, <2>1, <2>2 DEF Shutdown, Cancel, Exit, Crash, transportVars
<1>11. CASE Start
  BY <1>0, <1>11 DEF Start
<1>12. CASE UNCHANGED vars
  BY <1>0, <1>12 DEF vars, bluezVars, transportVars
<1>. QED  BY <1>1, <1>2, <1>3, <1>4, <1>5, <1>6, <1>7, <1>8, <1>9, <1>10, <1>11, <1>12 DEF Next, Tick

-----------------------------------------------------------------------------

Airs == {aired, adv} \subseteq {"off", "none", "connectable", "discoverable"} /\ bared \in BOOLEAN

\* Every call that airs or opens something leaves all of it in its type.
LEMMA AdvertisedKeepsAir ==
  ASSUME AirTypes, NEW b, NEW w, NEW a, NEW here, Advertised(b, w, a, here)
  PROVE  Airs'
BY DEF Airs, Advertised, SetAdvertising, AirTypes, advVars

LEMMA ApplyKeepsAir ==
  ASSUME AirTypes, NEW b, NEW w, NEW a, NEW here, ApplyAdvertising(b, w, a, here)
  PROVE  Airs' /\ faults' \in Nat
BY AdvertisedKeepsAir DEF Airs, ApplyAdvertising, Fault, AirTypes, advVars

\* Hiding the hub renews the advertisement or takes it off.
LEMMA HiddenKeepsAir ==
  ASSUME AirTypes, NEW b, NEW w, NEW a, Hidden(b, w, a)
  PROVE  Airs'
BY AdvertisedKeepsAir DEF Airs, Hidden, AirTypes

LEMMA HideKeepsAir ==
  ASSUME AirTypes, NEW b, NEW w, NEW a, Hide(b, w, a)
  PROVE  Airs' /\ faults' \in Nat
<1>1. CASE StaysVisible /\ Fault
  BY <1>1 DEF StaysVisible, Airs, Fault, AirTypes
<1>. QED  BY <1>1, ApplyKeepsAir, HiddenKeepsAir DEF Hide, AirTypes

\* A window opened is a window.
LEMMA OpenWindowKeepsAir ==
  ASSUME AirTypes, NEW b, NEW s \in Slots, NEW bonds, OpenWindow(b, s, bonds),
         app' \in BOOLEAN, commands' \in Nat, restarts' \in Nat
  PROVE  AirTypes'
<1>f. faults \in Nat /\ (Fault => faults' \in Nat)
  BY DEF AirTypes, Fault
<1>1. CASE UNCHANGED <<windowVars, advVars>> /\ faults' \in Nat
  BY <1>1 DEF AirTypes, windowVars, advVars
<1>2. CASE /\ \E some \in SUBSET Paired(bonds) : window' = WindowFor(s, some)
           /\ pairable' = TRUE /\ exposed' = FALSE /\ Visible /\ faults' \in Nat
  <2>1. window' \in Windows
    BY <1>2, BtManagerAssumption DEF WindowFor, Windows, Paired
  <2>. QED  BY <1>2, <2>1 DEF Visible, AirTypes
<1>3. CASE pairable' = TRUE /\ exposed' = (window = NoWindow) /\ NotVisible /\ UNCHANGED window /\ faults' \in Nat
  <2>1. exposed' \in BOOLEAN
    BY <1>3
  <2>. QED  BY <1>3, <2>1 DEF NotVisible, AirTypes, advVars
<1>. QED  BY <1>f, <1>1, <1>2, <1>3 DEF OpenWindow

\* Binding settles the window.
LEMMA BindKeepsAir ==
  ASSUME AirTypes, NEW w \in Windows, NEW h, Bind(w, h), UNCHANGED <<app, commands, restarts>>
  PROVE  AirTypes'
<1>1. window' \in Windows /\ UNCHANGED <<pairable, exposed>>
  BY DEF Bind, SettleWindow, Windows
<1>2. Hide(bindings', window', active)
  BY DEF Bind, SettleWindow
<1>. QED  BY <1>1, <1>2, HideKeepsAir DEF AirTypes, Airs

\* Closing leaves none.
LEMMA CloseWindowKeepsAir ==
  ASSUME AirTypes, NEW b, NEW a, CloseWindow(b, a), UNCHANGED <<app, commands, restarts>>
  PROVE  AirTypes'
<1>f. faults \in Nat /\ (Fault => faults' \in Nat)
  BY DEF AirTypes, Fault
<1>1. CASE UNCHANGED <<windowVars, advVars, faults>>
  BY <1>1 DEF AirTypes, windowVars, advVars
<1>2. CASE window' = NoWindow /\ (NotPairable \/ StaysPairable)
  <2>1. pairable' \in BOOLEAN /\ exposed' \in BOOLEAN
    BY <1>2 DEF NotPairable, StaysPairable, AirTypes
  <2>2. CASE UNCHANGED advVars /\ faults' \in Nat
    BY <1>2, <2>1, <2>2 DEF AirTypes, advVars
  <2>3. CASE Hide(b, NoWindow, a)
    BY <1>2, <2>1, <2>3, HideKeepsAir DEF AirTypes, Airs
  <2>4. CASE Hidden(b, NoWindow, a) /\ faults' \in Nat
    BY <1>2, <2>1, <2>4, HiddenKeepsAir DEF AirTypes, Airs
  <2>. QED  BY <1>f, <1>1, <2>2, <2>3, <2>4 DEF CloseWindow
<1>. QED  BY <1>1, <1>2 DEF CloseWindow

\* A host that comes in may settle the window, no more.
LEMMA IncomingKeepsAir ==
  ASSUME AirTypes, NEW h, NEW have, NEW open, OnIncomingPeer(h, have, open),
         UNCHANGED <<app, commands, restarts>>
  PROVE  AirTypes'
<1>1. CASE UNCHANGED <<windowVars, advVars>> /\ faults' \in Nat
  BY <1>1 DEF AirTypes, windowVars, advVars
<1>2. CASE BindIncoming(h, have, open)
  BY <1>2, BindKeepsAir DEF BindIncoming, Unsettled, AirTypes
<1>3. faults \in Nat /\ (Fault => faults' \in Nat)
  BY DEF AirTypes, Fault
<1>. QED  BY <1>1, <1>2, <1>3 DEF OnIncomingPeer, KeepIncoming, DropIncoming, RejectIncoming

\* No step takes the window or the advertisement out of its types.
LEMMA StepAirTypes == FileInv /\ AirTypes /\ [Next]_vars => AirTypes'
<1>. SUFFICES ASSUME FileInv, AirTypes, [Next]_vars PROVE AirTypes'
  OBVIOUS
<1>f. faults \in Nat /\ (Fault => faults' \in Nat)
  BY DEF AirTypes, Fault
<1>c. Command => commands' \in Nat
  BY DEF Command, AirTypes
<1>0. ASSUME UNCHANGED <<windowVars, advVars, app>>, faults' \in Nat, commands' \in Nat, restarts' \in Nat
      PROVE  AirTypes'
  BY <1>0 DEF AirTypes, windowVars, advVars
<1>n. faults \in Nat /\ commands \in Nat /\ restarts \in Nat
  BY DEF AirTypes
<1>1. CASE Environment
  <2>1. UNCHANGED <<window, exposed, adv, bared, app, commands, restarts, pairable>>
    BY <1>1 DEF Environment, transportVars, HostLinks, HostPairs, LinkDrops, Overlooks, SeesAgain, DisconnectFails,
       Unpaired, AdvertisementVanishes, Unregistered
  <2>2. faults' \in Nat
    BY <1>1, <1>f DEF Environment, HostLinks, HostPairs, LinkDrops, Overlooks, SeesAgain, DisconnectFails, Unpaired,
       AdvertisementVanishes, Unregistered
  <2>3. aired' \in {aired, "off"}
    BY <1>1 DEF Environment, HostLinks, HostPairs, LinkDrops, Overlooks, SeesAgain, DisconnectFails, Unpaired,
       AdvertisementVanishes, Unregistered
  <2>. QED  BY <2>1, <2>2, <2>3 DEF AirTypes
<1>2. CASE Channels
  BY <1>0, <1>n, <1>2 DEF Channels, Asks, Rings, Mismatched, managerVars, transportVars, runVars, windowVars, advVars
<1>3. CASE Incoming
  <2>1. PICK h \in Hosts : Subscribe(h) \/ Connects(h) \/ Notice(h) \/ Unreachable(h)
    BY <1>3 DEF Incoming
  <2>2. UNCHANGED <<app, commands, restarts>>
    BY <2>1 DEF Subscribe, Connects, Notice, Unreachable, Unmoved, managerVars, runVars, Closed, SendFails
  <2>3. CASE \E have, open : OnIncomingPeer(h, have, open)
    BY <2>2, <2>3, IncomingKeepsAir
  <2>4. CASE UNCHANGED <<windowVars, advVars, faults>>
    BY <1>0, <1>n, <2>2, <2>4
  <2>. QED  BY <2>1, <2>3, <2>4 DEF Subscribe, Connects, Notice, Unreachable, managerVars, windowVars, advVars
<1>4. CASE Dialling
  <2>1. CASE DialFindsStale
    <3>1. active \in Slots
      BY <2>1 DEF DialFindsStale, Dialled, DialTarget, ActiveHost, HostOf, FileInv
    <3>. QED  BY <2>1, <3>1, OpenWindowKeepsAir DEF DialFindsStale, HealStaleBinding, transportVars, runVars, AirTypes
  <2>2. CASE Dial \/ DialReads \/ AbandonDial \/ DialConnects \/ DialFails \/ BackoffEnds
    <3>1. UNCHANGED <<windowVars, advVars, app, commands, restarts>>
      BY <2>2 DEF Dial, DialReads, AbandonDial, DialConnects, DialFails, BackoffEnds, UndialledVars, bluezVars,
         transportVars, runVars, windowVars, advVars
    <3>2. faults' \in Nat
      BY <1>f, <2>2 DEF Dial, DialReads, AbandonDial, DialConnects, DialFails, BackoffEnds, UndialledVars, bluezVars
    <3>. QED  BY <1>0, <1>n, <3>1, <3>2
  <2>. QED  BY <1>4, <2>1, <2>2 DEF Dialling
<1>5. CASE HandleCmd
  <2>1. UNCHANGED <<app, restarts>> /\ commands' \in Nat /\ app \in BOOLEAN /\ restarts \in Nat
    BY <1>c, <1>5 DEF HandleCmd, OpenPairingWindow, RepairSlot, RemovePairing, OpenRepaired, transportVars, runVars, AirTypes
  <2>2. CASE \E s \in Slots : \E b, bonds : OpenWindow(b, s, bonds)
    BY <2>1, <2>2, OpenWindowKeepsAir
  <2>3. CASE UNCHANGED <<windowVars, advVars, faults>>
    BY <1>0, <1>n, <2>1, <2>3
  <2>4. CASE RemovePairing
    <3>1. faults' \in Nat
      BY <1>f, <2>4 DEF RemovePairing, Forget
    <3>. QED  BY <1>0, <2>1, <2>4, <3>1 DEF RemovePairing, windowVars, advVars
  <2>5. CASE OpenRepaired
    <3>1. job.slot \in Slots
      BY <2>5 DEF OpenRepaired, FileInv, JobInv, Jobs
    <3>. QED  BY <2>2, <2>5, <3>1 DEF OpenRepaired
  <2>. QED  BY <1>5, <2>2, <2>3, <2>4, <2>5 DEF HandleCmd, OpenPairingWindow, RepairSlot
<1>6. CASE SlotWatch
  <2>1. UNCHANGED <<window, pairable, exposed, app, restarts>> /\ commands' \in Nat
    BY <1>c, <1>6 DEF SlotWatch, OnSlotChange
  <2>2. CASE \E b, w, a, here : ApplyAdvertising(b, w, a, here)
    BY <2>1, <2>2, ApplyKeepsAir DEF AirTypes, Airs
  <2>3. CASE UNCHANGED <<advVars, faults>>
    BY <2>1, <2>3 DEF AirTypes, advVars
  <2>. QED  BY <1>6, <2>2, <2>3 DEF SlotWatch, OnSlotChange
<1>7. CASE PollWindow
  <2>1. UNCHANGED <<app, commands, restarts>>
    BY <1>7 DEF PollWindow, transportVars
  <2>. DEFINE w == [window EXCEPT !.left = @ - 1]
  <2>2. ASSUME window # NoWindow, w.left > 0
        PROVE  w \in Windows
    BY <2>2, BtManagerAssumption DEF AirTypes, Windows
  <2>3. CASE CloseWindow(bindings, active)
    BY <2>1, <2>3, CloseWindowKeepsAir
  <2>4. CASE window # NoWindow /\ w.left > 0 /\ \E h : Bind(w, h)
    BY <2>1, <2>2, <2>4, BindKeepsAir
  <2>5. CASE UNCHANGED <<windowVars, advVars, faults>>
    BY <1>0, <1>n, <2>1, <2>5
  <2>6. CASE /\ window # NoWindow /\ w.left > 0 /\ window' = w
             /\ UNCHANGED <<pairable, exposed, advVars>> /\ (UNCHANGED faults \/ Fault)
    <3>1. faults' \in Nat
      BY <1>f, <2>6
    <3>. QED  BY <2>1, <2>2, <2>6, <3>1 DEF AirTypes, advVars
  <2>. QED  BY <1>7, <2>3, <2>4, <2>5, <2>6 DEF PollWindow
<1>8. CASE PollUninvited
  BY <1>0, <1>n, <1>8 DEF PollUninvited, windowVars, advVars
<1>9. CASE PollAdvertising
  BY <1>9, ApplyKeepsAir DEF PollAdvertising, AirTypes, Airs, transportVars
<1>10. CASE PollStuckHosts
  <2>1. UNCHANGED <<window, pairable, exposed, aired, adv, bared, commands, restarts>>
    BY <1>10 DEF PollStuckHosts
  <2>2. app' \in BOOLEAN /\ faults' \in Nat
    <3>1. app \in BOOLEAN
      BY DEF AirTypes
    <3>. QED  BY <1>10, <1>f, <3>1 DEF PollStuckHosts, LeaveStuck, KickStuck, SpareOthers, ReregisterStuck, Reregister
  <2>. QED  BY <2>1, <2>2 DEF AirTypes
<1>11. CASE Shutdown \/ Crash
  <2>1. CASE Cancel
    <3>1. pairable' \in BOOLEAN /\ exposed' \in BOOLEAN
      BY <2>1 DEF Cancel, NotPairable, StaysPairable, AirTypes
    <3>2. Airs'
      <4>1. CASE StopAdvertising /\ bared' = (bared /\ ~Unsettled(window))
        BY <4>1 DEF StopAdvertising, AirTypes, Airs
      <4>2. CASE NeverAdvertised
        BY <4>2 DEF NeverAdvertised, StaysVisible, AirTypes, Airs
      <4>. QED  BY <2>1, <4>1, <4>2 DEF Cancel
    <3>3. faults' \in Nat /\ UNCHANGED <<app, commands, restarts>> /\ window' = NoWindow
      BY <1>f, <2>1 DEF Cancel, transportVars
    <3>. QED  BY <3>1, <3>2, <3>3 DEF AirTypes, Airs
  <2>2. CASE DisconnectAll
    <3>1. faults' \in Nat
      BY <1>f, <2>2 DEF DisconnectAll
    <3>. QED  BY <1>0, <1>n, <2>2, <3>1 DEF DisconnectAll, transportVars, windowVars, advVars
  <2>3. CASE Exit \/ Crash
    <3>1. restarts' \in Nat
      BY <2>3 DEF Exit, Crash, AirTypes
    <3>. QED  BY <2>3, <3>1 DEF Exit, Crash, Stopped, AirTypes
  <2>. QED  BY <1>11, <2>1, <2>2, <2>3 DEF Shutdown
<1>12. CASE Start
  <2>1. restarts' \in Nat /\ app' \in BOOLEAN /\ pairable' = FALSE /\ exposed' = FALSE
    BY <1>12 DEF Start, AirTypes, Le
  <2>2. Airs' /\ faults' \in Nat
    BY <1>12, ApplyKeepsAir DEF Start, AirTypes, Airs
  <2>. QED  BY <1>12, <2>1, <2>2 DEF Start, AirTypes, Airs
<1>13. CASE UNCHANGED vars
  BY <1>0, <1>n, <1>13 DEF vars, bluezVars, transportVars, managerVars, runVars, windowVars, advVars
<1>. QED  BY <1>1, <1>2, <1>3, <1>4, <1>5, <1>6, <1>7, <1>8, <1>9, <1>10, <1>11, <1>12, <1>13 DEF Next, Tick

-----------------------------------------------------------------------------

\* The slot a remedy is for is one of those served, so its host is one.
LEMMA TriggerIsDue ==
  ASSUME bindings \in [Slots -> Hosts \cup {NoHost}], Due # {}
  PROVE  Trigger \in Due /\ Trigger \in Hosts
<1>. DEFINE Ss == {s \in Slots : Serves(s) /\ bindings[s] \in Due}
<1>1. PICK h \in Due : h \in Served
  BY DEF Due, Silent
<1>2. Ss # {} /\ Ss \subseteq Nat
  BY <1>1, BluezAssumption DEF Served
<1>3. Lowest(Ss) \in Ss
  BY <1>2, Least DEF Lowest
<1>4. NoHost \notin Due
  BY DEF Due, Silent, Served
<1>. QED  BY <1>3, <1>4 DEF Trigger

\* No step takes a memory of hosts or a clock out of its types.
LEMMA StepMemoryTypes == FileInv /\ HostTypes /\ MemoryTypes /\ [Next]_vars => MemoryTypes'
<1>. SUFFICES ASSUME FileInv, HostTypes, MemoryTypes, [Next]_vars PROVE MemoryTypes'
  OBVIOUS
<1>n. {StuckHostGrace, KickMemory, EvictCooldown, ReregisterCooldown} \subseteq Nat \ {0}
  BY BtManagerAssumption
<1>0. ASSUME UNCHANGED <<memoryVars, dialVars, readVars>>, excused' \subseteq Hosts,
             phase' \in {phase, "idle", "repairing", "removed", "stuck", "cancelled", "leaving"}
      PROVE  MemoryTypes'
  BY <1>0 DEF MemoryTypes, memoryVars, dialVars, readVars
<1>e. excused \subseteq Hosts
  BY DEF MemoryTypes
<1>1. CASE Environment
  <2>1. UNCHANGED <<memoryVars, dialVars, readVars, phase>> /\ excused' \subseteq excused \cup linked'
    BY <1>1 DEF Environment, Excuses
  <2>2. linked' \subseteq Hosts
    BY StepHostTypes DEF HostTypes
  <2>. QED  BY <1>0, <1>e, <2>1, <2>2
<1>1a. CASE Channels \/ HandleCmd
  BY <1>0, <1>e, <1>1a DEF Channels, HandleCmd, OpenPairingWindow, RepairSlot, RemovePairing, OpenRepaired, managerVars, runVars
<1>2. CASE Incoming
  <2>1. PICK h \in Hosts : Subscribe(h) \/ Connects(h) \/ Notice(h) \/ Unreachable(h)
    BY <1>2 DEF Incoming
  <2>2. UNCHANGED <<stuck, kicked, helped, cooldown, dialVars, readVars, excused, phase>>
    BY <2>1 DEF Subscribe, Connects, Notice, Unreachable, Unmoved, managerVars, memoryVars, runVars
  <2>3. evicted' \in {evicted, [evicted EXCEPT ![h] = EvictCooldown]}
    BY <2>1 DEF Subscribe, Connects, Notice, Unreachable, managerVars, memoryVars,
       OnIncomingPeer, KeepIncoming, DropIncoming, RejectIncoming, BindIncoming
  <2>. QED  BY <1>n, <2>2, <2>3 DEF MemoryTypes, dialVars, readVars, HostClocks, Clock
<1>3. CASE Dialling
  <2>1. UNCHANGED <<memoryVars, readVars, excused, phase>>
    BY <1>3 DEF Dialling, Dial, DialReads, AbandonDial, DialConnects, DialFindsStale, DialFails, BackoffEnds, UndialledVars, runVars
  <2>2. /\ dialing' \in {dialing, NoHost, DialTarget} /\ redial' \in {redial, TRUE, FALSE}
        /\ found' \in {found, "asking", "paired", "stale"}
    BY <1>3 DEF Dialling, Dial, DialReads, AbandonDial, DialConnects, DialFindsStale, DialFails, BackoffEnds, Undialled
  <2>3. DialTarget \in Hosts \cup {NoHost}
    BY DEF DialTarget, ActiveHost, HostOf, FileInv
  <2>. QED  BY <2>1, <2>2, <2>3 DEF MemoryTypes, memoryVars, readVars
<1>4. CASE SlotWatch
  <2>1. UNCHANGED <<dialVars, readVars, excused, phase>>
    BY <1>4 DEF SlotWatch, OnSlotChange
  <2>2. CASE \E old : ForgetHost(old) /\ UNCHANGED cooldown
    <3>1. PICK old : ForgetHost(old) /\ UNCHANGED cooldown
      BY <2>2
    <3>2. stuck' \in [Hosts -> {Quiet} \cup Clock(StuckHostGrace)]
      BY <3>1 DEF ForgetHost, MemoryTypes
    <3>. /\ 0 \in Clock(KickMemory) /\ EvictCooldown \in Clock(EvictCooldown)
      BY <1>n DEF Clock
    <3>3. kicked' \in HostClocks(KickMemory)
      BY <3>1 DEF ForgetHost, MemoryTypes, HostClocks
    <3>4. evicted' \in HostClocks(EvictCooldown)
      BY <3>1 DEF ForgetHost, MemoryTypes, HostClocks
    <3>5. helped' \subseteq Hosts
      BY <3>1 DEF ForgetHost, MemoryTypes
    <3>. QED  BY <2>1, <3>1, <3>2, <3>3, <3>4, <3>5 DEF MemoryTypes, dialVars, readVars
  <2>. QED  BY <1>0, <1>e, <1>4, <2>1, <2>2 DEF SlotWatch, OnSlotChange
<1>5. CASE PollWindow
  <2>1. UNCHANGED <<helped, dialVars, readVars, excused>> /\ phase' = "swept" /\ SecondPasses
    BY <1>5 DEF PollWindow
  <2>2. \A k \in Nat : \A n \in Clock(k) : Down(n) \in Clock(k)
    BY DEF Clock, Down
  <2>3. stuck' \in [Hosts -> {Quiet} \cup Clock(StuckHostGrace)]
    BY <1>n, <2>1 DEF SecondPasses, MemoryTypes, Clock, Quiet
  <2>4. /\ kicked' \in HostClocks(KickMemory) /\ evicted' \in HostClocks(EvictCooldown)
        /\ cooldown' \in Clock(ReregisterCooldown)
    BY <1>n, <2>1, <2>2 DEF SecondPasses, MemoryTypes, HostClocks
  <2>. QED  BY <2>1, <2>3, <2>4 DEF MemoryTypes, dialVars, readVars
<1>6. CASE PollUninvited
  <2>1. /\ UNCHANGED <<stuck, kicked, helped, cooldown, dialVars, excused>> /\ phase' = "advertise"
        /\ connected' \subseteq linked /\ missed' \subseteq linked
    BY <1>6 DEF PollUninvited, ConnectedHosts
  <2>2. evicted' \in HostClocks(EvictCooldown)
    <3>1. CASE \E hs : evicted' = [h \in Hosts |-> IF h \in hs THEN EvictCooldown ELSE evicted[h]]
      BY <1>n, <3>1 DEF MemoryTypes, HostClocks, Clock
    <3>. QED  BY <1>6, <3>1 DEF PollUninvited, MemoryTypes
  <2>. QED  BY <2>1, <2>2 DEF MemoryTypes, HostTypes, dialVars
<1>7. CASE PollAdvertising
  BY <1>0, <1>e, <1>7 DEF PollAdvertising
<1>8. CASE PollStuckHosts
  <2>1. UNCHANGED <<evicted, dialVars, excused>> /\ phase' = "idle" /\ connected' = {} /\ missed' = {}
    BY <1>8 DEF PollStuckHosts
  <2>2. stuck' \in [Hosts -> {Quiet} \cup Clock(StuckHostGrace)]
    <3>1. \A h \in Hosts : Silence(h) \in {Quiet} \cup Clock(StuckHostGrace)
      BY <1>n DEF Silence, MemoryTypes, Clock
    <3>2. ASSUME NEW g, Watched(g) PROVE stuck' \in [Hosts -> {Quiet} \cup Clock(StuckHostGrace)]
      BY <3>1, <3>2 DEF Watched
    <3>. QED  BY <1>8, <3>2 DEF PollStuckHosts, LeaveStuck, KickStuck, SpareOthers, ReregisterStuck, MemoryTypes
  <2>3. kicked' \in HostClocks(KickMemory)
    <3>1. ASSUME NEW g, KickedBy(g) PROVE kicked' \in HostClocks(KickMemory)
      BY <1>n, <3>1 DEF KickedBy, MemoryTypes, HostClocks, Clock
    <3>. QED  BY <1>8, <1>n, <3>1 DEF PollStuckHosts, LeaveStuck, KickStuck, SpareOthers, ReregisterStuck, MemoryTypes, HostClocks, Clock
  <2>4. cooldown' \in Clock(ReregisterCooldown)
    BY <1>8, <1>n DEF PollStuckHosts, LeaveStuck, KickStuck, SpareOthers, ReregisterStuck, MemoryTypes, Clock
  <2>5. helped' \subseteq Hosts
    <3>1. StillHelped \subseteq Hosts
      BY DEF StillHelped, MemoryTypes
    <3>2. Bound(bindings) \subseteq Hosts
      BY DEF Bound, FileInv
    <3>3. SpareOthers => Trigger \in Hosts
      BY TriggerIsDue DEF SpareOthers, FileInv
    <3>. QED  BY <1>8, <3>1, <3>2, <3>3 DEF PollStuckHosts, LeaveStuck, KickStuck, SpareOthers, ReregisterStuck, NowServed, MemoryTypes
  <2>. QED  BY <2>1, <2>2, <2>3, <2>4, <2>5 DEF MemoryTypes, dialVars
<1>9. CASE Shutdown \/ Crash
  <2>1. CASE Stopped
    <3>1. /\ stuck' \in [Hosts -> {Quiet} \cup Clock(StuckHostGrace)]
          /\ kicked' \in HostClocks(KickMemory) /\ evicted' \in HostClocks(EvictCooldown)
          /\ cooldown' \in Clock(ReregisterCooldown)
      BY <1>n, <2>1 DEF Stopped, HostClocks, Clock
    <3>2. redial' \in BOOLEAN
      BY <2>1 DEF Stopped
    <3>. QED  BY <2>1, <3>1, <3>2 DEF Stopped, Undialled, MemoryTypes
  <2>2. CASE DisconnectAll
    <3>1. excused' \subseteq Hosts
      BY <2>2 DEF DisconnectAll, Tell, HostTypes
    <3>. QED  BY <1>0, <2>2, <3>1 DEF DisconnectAll
  <2>. QED  BY <1>0, <1>e, <1>9, <2>1, <2>2 DEF Shutdown, Cancel, Exit, Crash
<1>10. CASE Start
  BY <1>0, <1>e, <1>10 DEF Start
<1>11. CASE UNCHANGED vars
  BY <1>0, <1>e, <1>11 DEF vars, managerVars, runVars
<1>. QED  BY <1>1, <1>1a, <1>2, <1>3, <1>4, <1>5, <1>6, <1>7, <1>8, <1>9, <1>10, <1>11 DEF Next, Tick

\* What the manager starts with has its types.
LEMMA InitManagerTypes == Init => ManagerTypes
<1>. SUFFICES ASSUME Init PROVE ManagerTypes
  OBVIOUS
<1>1. FileInv
  BY InitFileInv
<1>2. setup \in Setups /\ setup \in Setup
  BY BluezAssumption DEF Init
<1>3. LiveInv
  BY DEF Init, LiveInv, RecordedIfLive, Sessions
<1>4. HostTypes
  BY <1>2 DEF Init, HostTypes, HostClocks, Clock
<1>5. AirTypes
  <2>1. app \in BOOLEAN /\ pairable = FALSE /\ exposed = FALSE /\ bared = FALSE /\ window = NoWindow
    BY DEF Init, Le
  <2>2. {aired, adv} \subseteq {"off", "none", "connectable", "discoverable"}
    BY DEF Init
  <2>3. faults \in Nat /\ commands \in Nat /\ restarts \in Nat
    BY <1>2 DEF Init, Setup
  <2>. QED  BY <2>1, <2>2, <2>3 DEF AirTypes
<1>6. MemoryTypes
  <2>1. {StuckHostGrace, KickMemory, EvictCooldown, ReregisterCooldown} \subseteq Nat \ {0}
    BY BtManagerAssumption
  <2>2. /\ stuck \in [Hosts -> {Quiet} \cup Clock(StuckHostGrace)]
        /\ kicked \in HostClocks(KickMemory) /\ evicted \in HostClocks(EvictCooldown)
        /\ cooldown \in Clock(ReregisterCooldown)
    BY <2>1 DEF Init, HostClocks, Clock
  <2>3. redial \in BOOLEAN
    BY DEF Init
  <2>. QED  BY <2>2, <2>3 DEF Init, MemoryTypes
<1>. QED  BY <1>1, <1>2, <1>3, <1>4, <1>5, <1>6 DEF ManagerTypes

\* The manager's state stays in its types over every command, tick, host and
\* crash: no clock passes its bound, no host is remembered that is none.
THEOREM ManagerTypesHold == Spec => []TypeOK
<1>1. ManagerTypes /\ [Next]_vars => ManagerTypes'
  BY StepFileInv, StepLiveInv, StepHostTypes, StepAirTypes, StepMemoryTypes, SetupStays DEF ManagerTypes
<1>. QED  BY <1>1, InitManagerTypes, TypesAreOK, PTL DEF Spec

-----------------------------------------------------------------------------
(* Re-registering serves a connection once.  What the manager remembers of *)
(* it goes with the process, with a switch away from the host, and at a    *)
(* tick to which Connected does not show the host; else it is kept as long *)
(* as the link is.                                                         *)

\* Of h, whose link stays or who has had no turn: the manager knows it had one.
OnceInv ==
  /\ \A h \in Hosts : tries[h] = 0 \/ h \in forgotten \/ (tries[h] = 1 /\ h \in linked \cap helped)
  /\ phase \in {"advertise", "stuck"} =>
       \A h \in Hosts : tries[h] = 0 \/ h \in forgotten \/ h \in connected \/ h \notin Served

\* The connection of h stays, with what is noted of it, or ends.
SameOrNew(h) ==
  \/ tries'[h] = 0
  \/ tries'[h] = tries[h] /\ (h \in linked => h \in linked') /\ (h \in forgotten => h \in forgotten')

\* A step that forgets no host, serves none, and is no part of the tick after
\* the reading.
LEMMA OnceKept ==
  ASSUME OnceInv, UNCHANGED helped, \A h \in Hosts : SameOrNew(h),
         phase' \notin {"advertise", "stuck"} \/ UNCHANGED <<setup, phase, connected, bindings, active>>
  PROVE  OnceInv'
<1>1. \A h \in Hosts : tries'[h] = 0 \/ h \in forgotten' \/ (tries'[h] = 1 /\ h \in linked' \cap helped')
  BY DEF OnceInv, SameOrNew
<1>2. ASSUME phase' \in {"advertise", "stuck"}, NEW h \in Hosts
      PROVE  tries'[h] = 0 \/ h \in forgotten' \/ h \in connected' \/ h \notin Served'
  <2>1. Served' = Served
    BY <1>2 DEF Served, Serves, Single, Le
  <2>. QED  BY <1>2, <2>1 DEF OnceInv, SameOrNew
<1>. QED  BY <1>1, <1>2 DEF OnceInv

LEMMA StepOnce == ManagerTypes /\ OnceInv /\ [Next]_vars => OnceInv'
<1>. SUFFICES ASSUME ManagerTypes, OnceInv, [Next]_vars PROVE OnceInv'
  OBVIOUS
<1>0. UNCHANGED setup
  BY SetupStays
<1>s. ASSUME UNCHANGED <<tries, forgotten>>, linked \subseteq linked' PROVE \A h \in Hosts : SameOrNew(h)
  BY <1>s DEF SameOrNew
<1>u. ASSUME NEW hs, Unlinked(hs) PROVE \A h \in Hosts : SameOrNew(h)
  BY <1>u DEF Unlinked, SameOrNew
<1>1. CASE Environment
  <2>1. UNCHANGED <<helped, phase, connected, bindings, active>>
    BY <1>1 DEF Environment, memoryVars, bindVars, readVars
  <2>2. \A h \in Hosts : SameOrNew(h)
    BY <1>1, <1>s, <1>u DEF Environment, HostLinks, HostPairs, LinkDrops, Overlooks, SeesAgain, DisconnectFails, Unpaired,
       AdvertisementVanishes, Unregistered, hostVars, noteVars
  <2>. QED  BY <1>0, <2>1, <2>2, OnceKept
<1>2. CASE Channels \/ UNCHANGED vars
  <2>1. UNCHANGED <<helped, phase, connected, bindings, active>>
    BY <1>2 DEF Channels, managerVars, runVars, readVars, memoryVars, bindVars, vars
  <2>2. UNCHANGED <<tries, forgotten, linked>>
    BY <1>2 DEF Channels, Asks, Rings, Mismatched, hostVars, noteVars, vars, bluezVars
  <2>. QED  BY <1>0, <1>s, <2>1, <2>2, OnceKept
<1>3. CASE Incoming
  <2>1. PICK h \in Hosts : Subscribe(h) \/ Connects(h) \/ Notice(h) \/ Unreachable(h)
    BY <1>3 DEF Incoming
  <2>2. UNCHANGED helped /\ phase' = "idle"
    BY <2>1 DEF Subscribe, Connects, Notice, Unreachable, Unmoved, managerVars, runVars, memoryVars, Idle
  <2>3. \A p \in Hosts : SameOrNew(p)
    <3>1. CASE tries' = [tries EXCEPT ![h] = 0] /\ linked' = linked \ {h} /\ forgotten' = forgotten \ {h}
      BY <3>1 DEF ManagerTypes, HostTypes, HostClocks, SameOrNew
    <3>2. CASE UNCHANGED <<noteVars, linked>>
      BY <1>s, <3>2 DEF noteVars
    <3>3. ASSUME NEW have, NEW open, OnIncomingPeer(h, have, open)
          PROVE  \/ UNCHANGED <<noteVars, linked>>
                 \/ tries' = [tries EXCEPT ![h] = 0] /\ linked' = linked \ {h} /\ forgotten' = forgotten \ {h}
      BY <3>3 DEF OnIncomingPeer, KeepIncoming, DropIncoming, RejectIncoming, BindIncoming
    <3>. QED  BY <2>1, <3>1, <3>2, <3>3 DEF Subscribe, Connects, Notice, Unreachable, hostVars
  <2>. QED  BY <2>2, <2>3, OnceKept
<1>4. CASE Dialling
  <2>1. UNCHANGED <<tries, forgotten>> /\ linked \subseteq linked'
    BY <1>4 DEF Dialling, Dial, DialReads, AbandonDial, DialConnects, DialFindsStale, DialFails, BackoffEnds, UndialledVars,
       bluezVars, hostVars, noteVars
  <2>2. UNCHANGED helped /\ (phase' = "idle" \/ UNCHANGED <<phase, connected, bindings, active>>)
    BY <1>4 DEF Dialling, Dial, DialReads, AbandonDial, DialConnects, DialFindsStale, DialFails, BackoffEnds, UndialledVars,
       Dialled, Idle, memoryVars, runVars, readVars, bindVars
  <2>. QED  BY <1>0, <1>s, <2>1, <2>2, OnceKept
<1>5. CASE HandleCmd
  <2>1. UNCHANGED helped /\ phase' \in {"idle", "repairing", "removed"}
    BY <1>5 DEF HandleCmd, OpenPairingWindow, RepairSlot, RemovePairing, OpenRepaired, Command, Idle, memoryVars, runVars
  <2>2. \A h \in Hosts : SameOrNew(h)
    BY <1>5, <1>s, <1>u DEF HandleCmd, OpenPairingWindow, RepairSlot, RemovePairing, OpenRepaired, Forget, hostVars, noteVars
  <2>. QED  BY <2>1, <2>2, OnceKept
<1>6. CASE SlotWatch
  <2>1. PICK s \in Slots \cup {Local} : OnSlotChange(s)
    BY <1>6 DEF SlotWatch
  <2>2. phase' = "idle" /\ UNCHANGED <<tries, linked>>
    BY <2>1 DEF OnSlotChange, Command, Idle
  <2>3. \/ UNCHANGED <<forgotten, helped>>
        \/ \E old : helped' = helped \ {old} /\ forgotten' = forgotten \cup ({old} \cap linked)
    BY <2>1 DEF OnSlotChange, ForgetHost, memoryVars
  <2>. QED  BY <2>2, <2>3 DEF OnceInv
<1>7. CASE PollWindow
  <2>1. UNCHANGED <<helped, tries, forgotten, linked>> /\ phase' = "swept"
    BY <1>7 DEF PollWindow, hostVars, noteVars
  <2>. QED  BY <1>s, <2>1, OnceKept
<1>8. CASE PollUninvited
  <2>1. /\ UNCHANGED <<helped, tries, linked>> /\ Served' = Served
        /\ forgotten' = forgotten \cup ((helped \cap Served \cap linked) \ connected')
    BY <1>8 DEF PollUninvited, bindVars, Served, Serves, Single, Le
  <2>. QED  BY <2>1 DEF OnceInv
<1>9. CASE PollAdvertising
  <2>1. UNCHANGED <<helped, tries, forgotten, linked, connected>> /\ Served' = Served /\ phase = "advertise"
    BY <1>9 DEF PollAdvertising, hostVars, noteVars, memoryVars, readVars, bindVars, Served, Serves, Single, Le
  <2>. QED  BY <2>1 DEF OnceInv
<1>10. CASE PollStuckHosts
  <2>1. phase = "stuck" /\ phase' = "idle"
    BY <1>10 DEF PollStuckHosts
  <2>2. \A h \in Hosts : tries[h] = 0 \/ h \in forgotten \/ (tries[h] = 1 /\ h \in linked /\ h \in StillHelped)
    BY <2>1 DEF OnceInv, StillHelped, Gone
  <2>3. UNCHANGED <<linked, forgotten>>
    BY <1>10 DEF PollStuckHosts, LeaveStuck, KickStuck, SpareOthers, ReregisterStuck, hostVars, noteVars
  <2>4. CASE UNCHANGED tries /\ (StillHelped \subseteq helped' \/ helped' = helped)
    BY <2>1, <2>2, <2>3, <2>4 DEF OnceInv
  <2>5. CASE /\ ReregisterStuck
             /\ tries' = [tries EXCEPT ![Trigger] = IF Trigger \in linked /\ @ < 2 THEN @ + 1 ELSE @]
             /\ helped' = NowServed
    <3>1. Trigger \in Silent /\ Trigger \in Bound(bindings)
      <4>1. Due # {} /\ bindings \in [Slots -> Hosts \cup {NoHost}]
        BY <2>5 DEF ReregisterStuck, ManagerTypes, FileInv
      <4>2. Trigger \in Due
        BY <4>1, TriggerIsDue
      <4>3. Due \subseteq Silent /\ Silent \subseteq Bound(bindings)
        BY DEF Due, Silent, Served, Bound
      <4>. QED  BY <4>2, <4>3
    <3>2. (tries[Trigger] = 0 \/ Trigger \in forgotten) /\ Trigger \in Hosts
      BY <2>1, <2>2, <3>1 DEF Silent, StillHelped, Bound, ManagerTypes, FileInv
    <3>3. \A h \in Hosts : tries'[h] = 0 \/ h \in forgotten' \/ (tries'[h] = 1 /\ h \in linked' \cap helped')
      BY <2>2, <2>3, <2>5, <3>1, <3>2 DEF NowServed, ManagerTypes, HostTypes, HostClocks
    <3>. QED  BY <2>1, <3>3 DEF OnceInv
  <2>. QED
    BY <1>10, <2>4, <2>5 DEF PollStuckHosts, LeaveStuck, KickStuck, SpareOthers, ReregisterStuck, hostVars, noteVars
<1>11. CASE Shutdown \/ Crash
  <2>1. CASE Stopped
    BY <2>1 DEF Stopped, OnceInv
  <2>2. CASE Cancel \/ DisconnectAll
    <3>1. UNCHANGED <<helped, tries, forgotten, linked>> /\ phase' \in {"cancelled", "leaving"}
      BY <2>2 DEF Cancel, DisconnectAll, hostVars, noteVars, memoryVars
    <3>. QED  BY <1>s, <3>1, OnceKept
  <2>. QED  BY <1>11, <2>1, <2>2 DEF Shutdown, Exit, Crash
<1>12. CASE Start
  <2>1. UNCHANGED <<helped, tries, forgotten, linked>> /\ phase' = "idle"
    BY <1>12 DEF Start, hostVars, noteVars, memoryVars
  <2>. QED  BY <1>s, <2>1, OnceKept
<1>. QED  BY <1>1, <1>2, <1>3, <1>4, <1>5, <1>6, <1>7, <1>8, <1>9, <1>10, <1>11, <1>12 DEF Next, Tick

\* No connection is served by re-registration twice (poll_stuck_hosts), however
\* hosts race the tick and whatever fails, crashes or is switched, but for the
\* hosts whose notes the manager dropped while their link stayed.
THEOREM ReregistersOnce == Spec => []OneReregistration
<1>1. Init => OnceInv
  BY DEF Init, OnceInv
<1>2. ManagerTypes /\ [Next]_vars => ManagerTypes'
  BY StepFileInv, StepLiveInv, StepHostTypes, StepAirTypes, StepMemoryTypes, SetupStays DEF ManagerTypes
<1>3. OnceInv => OneReregistration
  BY DEF OnceInv, OneReregistration
<1>. QED  BY <1>1, <1>2, <1>3, InitManagerTypes, StepOnce, PTL DEF Spec

=============================================================================
