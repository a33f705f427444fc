------------------------------ MODULE StateFile ------------------------------
(***************************************************************************)
(* What is kept across restarts (src/state.rs): the learned bindings and   *)
(* the active slot.  A binding is an address; names are left out.          *)
(***************************************************************************)
EXTENDS Bluez

\* A file: the slot that was active, and a host for each slot it mentions.
Files == [active : Slots \cup {Local}, bindings : [Slots -> Hosts \cup {NoHost}]]

\* Pre-seeds stay in the configuration; everything else is written.
ToStateFile(bindings, preset, active) ==
  [active |-> active,
   bindings |-> [s \in Slots |-> IF s \in preset THEN NoHost ELSE bindings[s]]]

\* Pre-seeds win over what was learned for the same slot.
Merge(file, seeds) ==
  [s \in Slots |-> IF seeds[s] # NoHost THEN seeds[s] ELSE file.bindings[s]]

FromConfig(seeds) == {s \in Slots : seeds[s] # NoHost}

\* The slot to start on: the remembered one if it still has a host.
RestoreSlot(remembered, bindings) ==
  IF remembered # Local /\ bindings[remembered] = NoHost THEN Local ELSE remembered

=============================================================================
