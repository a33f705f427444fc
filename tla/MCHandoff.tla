------------------------------ MODULE MCHandoff ------------------------------
(* Small hand-offs for TLC. *)
EXTENDS Handoff

\* One connection at a time, and all that may go wrong.
Unreliable == {[single |-> TRUE, faults |-> AllFaults]}

\* One connection at a time on good links; or every host connected.
BothModes == {[single |-> TRUE, faults |-> {}], [single |-> FALSE, faults |-> AllFaults]}

Reliable == {[single |-> TRUE, faults |-> {}]}

\* Nothing in the module tells two hosts apart.
HostSymmetry == Permutations(Hosts)

\* One host on its way out at a time, and no more of frames out of order.
FewAtOnce == overtaken = {} /\ Cardinality(leaving) <= 1

=============================================================================
