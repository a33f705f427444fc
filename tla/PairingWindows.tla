---------------------------- MODULE PairingWindows ----------------------------
(***************************************************************************)
(* What the manager promises of pairing (src/bt/mod.rs): one window at a   *)
(* time, which binds at most one host, new to every slot, to the slot it   *)
(* was opened for last; a window ends; what was learned outlives a         *)
(* restart, except where the configuration says otherwise.                 *)
(***************************************************************************)
CONSTANTS Hosts, NoHost, Slots

VARIABLES
  bindings,  \* [Slots -> Hosts or NoHost]
  window,    \* the pairing window: closed, open for a slot, or settled
  seeds      \* the bindings of the configuration, the same throughout

Closed == [phase |-> "closed"]

Init ==
  /\ bindings \in [Slots -> Hosts \cup {NoHost}] /\ window = Closed
  /\ seeds \in [Slots -> Hosts \cup {NoHost}]

\* For a slot with no host; whatever window there was is replaced.
Open(s) ==
  /\ bindings[s] = NoHost
  /\ window' = [phase |-> "open", slot |-> s]
  /\ UNCHANGED <<bindings, seeds>>

Settle(h) ==
  /\ window.phase = "open" /\ bindings[window.slot] = NoHost
  /\ \A s \in Slots : bindings[s] # h
  /\ bindings' = [bindings EXCEPT ![window.slot] = h]
  /\ window' = [window EXCEPT !.phase = "settled"]
  /\ UNCHANGED seeds

\* A slot is set free, and gets a window unless none can be had.
Unbind(s) ==
  /\ bindings[s] # NoHost
  /\ bindings' = [bindings EXCEPT ![s] = NoHost]
  /\ window' \in {window, [phase |-> "open", slot |-> s]}
  /\ UNCHANGED seeds

Close ==
  /\ window # Closed /\ window' = Closed
  /\ UNCHANGED <<bindings, seeds>>

Restart ==
  /\ window = Closed
  /\ bindings' = [s \in Slots |-> IF seeds[s] = NoHost THEN bindings[s] ELSE seeds[s]]
  /\ UNCHANGED <<window, seeds>>

Next ==
  \/ \E s \in Slots : Open(s) \/ Unbind(s)
  \/ \E h \in Hosts : Settle(h)
  \/ Close \/ Restart

Spec == Init /\ [][Next]_<<bindings, window, seeds>> /\ WF_<<bindings, window, seeds>>(Close)

=============================================================================
