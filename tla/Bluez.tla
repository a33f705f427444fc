-------------------------------- MODULE Bluez --------------------------------
(***************************************************************************)
(* What the Bluetooth manager relies on of bluetoothd, the adapter and the *)
(* hosts (none of it in this repository): pairings, links, who is being    *)
(* disconnected, and what the adapter offers.  Its actions are the moves   *)
(* the environment makes by itself, at any time.                           *)
(***************************************************************************)
EXTENDS Integers, FiniteSets

CONSTANTS
  Hosts, NoHost,   \* the devices that may pair with the hub; none of them
  Slots,           \* the remote slots, 1 to their number
  Setups           \* the configurations and what may happen in each

Local == 0
NoneBound == [s \in Slots |-> NoHost]

Transports == {"le", "l2cap"}

\* Hosts pair; are unpaired behind the hub's back; find that bluetoothd takes
\* their notifications to be on; take no reports; the user asks for windows,
\* or switches; hosts act amid a tick, or keep the hub waiting beyond one;
\* bluetoothd's Connected lags behind a link, or cannot be read.
Habits == {"pair", "unpair", "stuck", "deaf", "window", "switch", "race", "lag"}

Setup == [kind : Transports, single : BOOLEAN, about : SUBSET Hosts, habits : SUBSET Habits,
          seeds : [Slots -> Hosts \cup {NoHost}], learned : [Slots -> Hosts \cup {NoHost}],
          remembered : Slots \cup {Local},
          commands : Nat, faults : Nat, restarts : Nat]

ASSUME BluezAssumption ==
  /\ NoHost \notin Hosts /\ Local \notin Slots /\ Slots \subseteq Nat
  /\ Setups \subseteq Setup

VARIABLES
  setup,      \* one of Setups, the same throughout
  bond,       \* [Hosts -> "new", "paired" or "bonded": with a stored key]
  linked,     \* hosts with a link to the hub
  unseen,     \* linked hosts that Device1.Connected does not show
  leaving,    \* linked hosts bluetoothd was told to disconnect
  session,    \* [Hosts -> input report: "none", "asked" of the hub, "gone" since, "open"]
  swallowed,  \* hosts whose notifications bluetoothd takes to be on already
  pairable,   \* Adapter1.Pairable
  aired,      \* who can see the adapter: "off", "connectable", "discoverable"
  faults,     \* failures still to come
  tries,      \* history: [Hosts -> re-registrations for the sake of its connection]
  forgotten   \* history: hosts whose notes the hub dropped amid their connection

noteVars == <<tries, forgotten>>
hostVars == <<bond, linked, unseen, leaving, session, swallowed, noteVars>>
bluezVars == <<setup, hostVars, pairable, aired, faults>>

Le == setup.kind = "le"
Single == Le /\ setup.single
Habit(h) == h \in setup.habits

Fault == faults > 0 /\ faults' = faults - 1

\* A host connects to whatever it can see; a bonded one does so by itself.
HostLinks(h) ==
  /\ h \in setup.about \ linked /\ aired # "off"
  /\ bond[h] # "new" \/ Habit("pair")
  /\ linked' = linked \cup {h}
  /\ UNCHANGED <<setup, bond, unseen, leaving, session, swallowed, noteVars, pairable, aired, faults>>

\* Connected does not show a link, or no longer: it lags behind a reconnect,
\* and a read that fails counts as a host that is away; later it does.
Overlooks(h) ==
  /\ Habit("lag") /\ h \in linked \ unseen /\ Fault
  /\ unseen' = unseen \cup {h}
  /\ UNCHANGED <<setup, bond, linked, leaving, session, swallowed, noteVars, pairable, aired>>

SeesAgain(h) ==
  /\ h \in unseen /\ unseen' = unseen \ {h}
  /\ UNCHANGED <<setup, bond, linked, leaving, session, swallowed, noteVars, pairable, aired, faults>>

\* Just-Works pairing over a link; the key is stored only if we are pairable.
HostPairs(h) ==
  /\ Habit("pair") /\ h \in linked /\ bond[h] # "bonded"
  /\ \/ bond[h] = "new" /\ bond' = [bond EXCEPT ![h] = "paired"]
     \/ pairable /\ bond' = [bond EXCEPT ![h] = "bonded"]
  /\ UNCHANGED <<setup, linked, unseen, leaving, session, swallowed, noteVars, pairable, aired, faults>>

\* The link drops; stock bluetoothd may remember that notifications were on.
Unlinked(hs) ==
  /\ linked' = linked \ hs /\ unseen' = unseen \ hs /\ leaving' = leaving \ hs
  /\ session' = [h \in Hosts |->
       IF h \in hs THEN IF session[h] \in {"asked", "gone"} THEN "gone" ELSE "none"
       ELSE session[h]]
  /\ tries' = [h \in Hosts |-> IF h \in hs THEN 0 ELSE tries[h]]
  /\ forgotten' = forgotten \ hs

Remembers(h) ==
  \/ swallowed' = swallowed \ {h}
  \/ Habit("stuck") /\ swallowed' = swallowed

LinkDrops(h) ==
  /\ h \in linked /\ Unlinked({h}) /\ Remembers(h)
  /\ IF h \in leaving THEN UNCHANGED faults ELSE Fault
  /\ UNCHANGED <<setup, bond, pairable, aired>>

\* A disconnect bluetoothd was asked for comes to nothing.
DisconnectFails(h) ==
  /\ h \in leaving /\ leaving' = leaving \ {h} /\ Fault
  /\ UNCHANGED <<setup, bond, linked, unseen, session, swallowed, noteVars, pairable, aired>>

\* The pairing is removed with bluetoothctl, or on the host.
Unpaired(h) ==
  /\ Habit("unpair") /\ bond[h] # "new" /\ Fault
  /\ bond' = [bond EXCEPT ![h] = "new"]
  /\ Unlinked({h}) /\ swallowed' = swallowed \ {h}
  /\ UNCHANGED <<setup, pairable, aired>>

\* bluetoothd drops an advertisement it could not re-add.
AdvertisementVanishes ==
  /\ Le /\ aired # "off" /\ aired' = "off" /\ Fault
  /\ UNCHANGED <<setup, hostVars, pairable>>

=============================================================================
