------------------------------ MODULE Transport ------------------------------
(***************************************************************************)
(* The transports as the manager sees them (src/bt/transport.rs and        *)
(* src/bt/gatt.rs): who is attached, subscriptions and the late notices of *)
(* their end on LE, control and interrupt channels on classic.             *)
(*                                                                         *)
(* One input report stands for the three.  A subscription carries a        *)
(* generation and so does the notice of its end; what matters of the two   *)
(* is whether they are equal: a notice of the recorded subscription is on  *)
(* its way exactly when that one is not open, the others are in late.      *)
(***************************************************************************)
EXTENDS Bluez

VARIABLES
  attached,   \* peers with a subscription recorded; on classic, connections
  late,       \* hosts with a notice queued for a subscription replaced since
  app,        \* the GATT application is registered and listened to
  parked      \* the peer whose control channel waits for its interrupt channel

transportVars == <<attached, late, app, parked>>

\* Channels and subscriptions are taken while there is something to listen on.
HasListeners == ~Le \/ app

CanDial == ~Le

\* A host that re-enables notifications bluetoothd takes to be on is not heard.
MayAsk(h) ==
  Le /\ app /\ h \in linked /\ bond[h] # "new" /\ session[h] = "none" /\ h \notin swallowed

Asks(h) ==
  /\ MayAsk(h)
  /\ session' = [session EXCEPT ![h] = "asked"]
  /\ swallowed' = swallowed \cup {h}
  /\ UNCHANGED <<setup, bond, linked, unseen, leaving, noteVars, pairable, aired, faults, transportVars>>

\* Hosts with something for the loop to hear, or about to have it.
Waiting ==
  {h \in Hosts : HasListeners /\
                 (\/ MayAsk(h) \/ session[h] \in {"asked", "gone"} \/ h \in late
                  \/ Le /\ h \in attached /\ session[h] # "open")}

\* The record a subscription leaves; the writer is dead if the host left.
Recorded(h) == [session EXCEPT ![h] = IF @ = "asked" THEN "open" ELSE "none"]
Replaced(h) == IF h \in attached THEN late \cup {h} ELSE late

\* Mutant: a notice drops whatever subscription there is.
ForgetAny(h, current) == attached' = attached \ {h}

\* A notice drops the subscription it is about, never a newer one.
ForgetSub(h, current) ==
  attached' = IF current THEN attached \ {h} ELSE attached

Closed(h) ==
  /\ HasListeners
  /\ \/ /\ h \in late /\ late' = late \ {h}
        /\ ForgetSub(h, FALSE)
     \/ /\ Le /\ h \in attached /\ session[h] # "open"
        /\ ForgetSub(h, TRUE)
        /\ UNCHANGED late
  /\ UNCHANGED <<app, parked>>

\* A report that cannot be sent costs the subscription, or the connection.
SendFails(h) ==
  /\ h \in attached
  /\ IF Le THEN session[h] # "open" \/ Habit("deaf") ELSE h \notin linked
  /\ attached' = attached \ {h}
  /\ late' = IF Le /\ session[h] # "open" THEN late \cup {h} ELSE late
  /\ session' = IF session[h] = "open" THEN [session EXCEPT ![h] = "none"] ELSE session
  /\ UNCHANGED <<app, parked>>

\* drop_peer on each of hs, with the records in have and the sessions in open.
DropPeers(have, open, hs) ==
  /\ attached' = have \ hs
  /\ session' = [h \in Hosts |-> IF h \in hs /\ open[h] = "open" THEN "none" ELSE open[h]]
  /\ leaving' = IF Le THEN leaving \cup (hs \cap linked) ELSE leaving

\* Notices of the records hs loses, queued before it lost them.
Orphaned(have, open, hs) == IF Le THEN {h \in hs \cap have : open[h] # "open"} ELSE {}

\* The old sessions die with the old attributes; their notices are to come.
Reregister ==
  /\ session' = [h \in Hosts |-> "none"]
  /\ swallowed' = {}
  /\ \/ app' = TRUE /\ UNCHANGED faults
     \/ app' = FALSE /\ Fault

-----------------------------------------------------------------------------
(* Classic: an accepted control channel is parked until an interrupt       *)
(* channel comes.  If that is another peer's both are dropped, and the     *)
(* control channel that peer opened before it is the next one taken.       *)

Rings(h) ==
  /\ ~Le /\ parked = NoHost /\ h \in linked /\ bond[h] # "new"
  /\ parked' = h
  /\ UNCHANGED <<setup, hostVars, pairable, aired, faults, attached, late, app>>

Mismatched(h) ==
  /\ ~Le /\ parked \notin {NoHost, h} /\ h \in linked /\ bond[h] # "new"
  /\ parked' = h
  /\ UNCHANGED <<setup, hostVars, pairable, aired, faults, attached, late, app>>

=============================================================================
