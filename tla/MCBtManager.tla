----------------------------- MODULE MCBtManager -----------------------------
(***************************************************************************)
(* Small hubs for TLC: two slots, two hosts.  A setup is a configuration,  *)
(* what its environment does, and how often.                               *)
(***************************************************************************)
EXTENDS BtManager

CONSTANTS A, B

MCSlots == {1, 2}
OnlyA == [s \in MCSlots |-> IF s = 1 THEN A ELSE NoHost]
OnlyB == [s \in MCSlots |-> IF s = 2 THEN B ELSE NoHost]
Both == [s \in MCSlots |-> IF s = 1 THEN A ELSE B]
Neither == [s \in MCSlots |-> NoHost]

Base == [kind |-> "le", single |-> FALSE, about |-> {A, B}, habits |-> {}, seeds |-> Neither,
         learned |-> OnlyA, remembered |-> 1, commands |-> 0, faults |-> 0, restarts |-> 0]

Pairing == [Base EXCEPT !.habits = {"pair", "window"}, !.commands = 2]
Stuck == [Base EXCEPT !.learned = Both, !.habits = {"stuck"}]
Single1 == [Base EXCEPT !.single = TRUE, !.habits = {"switch"}, !.commands = 2]
Classic == [Base EXCEPT !.kind = "l2cap", !.habits = {"window"}, !.commands = 2, !.faults = 1]

\* One question each, explored side by side.
MCSetups == {
  \* pairing: a host unpaired meanwhile, two new hosts, hosts faster than the tick
  [Pairing EXCEPT !.habits = @ \cup {"unpair"}, !.about = {B}, !.faults = 1],
  [Pairing EXCEPT !.learned = Neither, !.commands = 1],
  [Pairing EXCEPT !.learned = Neither, !.habits = @ \cup {"race"}, !.about = {B}, !.commands = 1, !.faults = 1],
  \* a crash or a stop at any point, with a slot the configuration binds
  [Pairing EXCEPT !.seeds = OnlyB, !.about = {A}, !.commands = 1, !.faults = 1, !.restarts = 2],
  \* stops with hosts that are connected and not shown to be
  [Base EXCEPT !.learned = Both, !.habits = {"lag"}, !.faults = 1, !.restarts = 2],
  \* stuck hosts: two of them, one not shown at times, one faster than the tick
  [Stuck EXCEPT !.habits = @ \cup {"lag"}, !.faults = 2],
  [Stuck EXCEPT !.learned = OnlyA, !.about = {A}, !.habits = @ \cup {"race", "lag"}, !.faults = 1],
  \* a stuck host, and one of two, re-paired at any point
  [Stuck EXCEPT !.learned = OnlyA, !.about = {A}, !.habits = @ \cup {"pair", "window"}, !.commands = 1, !.faults = 1],
  [Stuck EXCEPT !.habits = @ \cup {"pair", "window"}, !.commands = 1],
  \* one connection at a time: stuck hosts, deaf hosts, windows, hosts not shown
  [Single1 EXCEPT !.learned = Both, !.habits = @ \cup {"stuck"}, !.commands = 1],
  [Single1 EXCEPT !.learned = Both, !.habits = @ \cup {"deaf"}, !.about = {A}],
  [Single1 EXCEPT !.habits = @ \cup {"pair", "window"}, !.about = {B}],
  [Single1 EXCEPT !.learned = Both, !.habits = @ \cup {"lag"}, !.commands = 1, !.faults = 1],
  [Single1 EXCEPT !.habits = @ \cup {"race", "stuck"}, !.about = {A}],
  \* classic: dialling, pairing, a stop
  [Classic EXCEPT !.learned = Both, !.habits = {"unpair", "switch"}, !.about = {A}],
  [Classic EXCEPT !.habits = @ \cup {"pair"}, !.about = {B}, !.commands = 1],
  [Classic EXCEPT !.about = {A}, !.commands = 1, !.restarts = 1] }

=============================================================================
