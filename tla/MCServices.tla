----------------------------- MODULE MCServices -----------------------------
(***************************************************************************)
(* Small services for TLC: the timers without a server, a server without   *)
(* timers, both together, and commands.                                    *)
(***************************************************************************)
EXTENDS Services

CONSTANTS Keyboard, Mouse

MCSlots == {0, 1, 2}
MCBrightness == [s \in MCSlots |-> IF s = 0 THEN 1 ELSE 2]
MCCommandsOf == [r \in {"slot", "macro"} |-> IF r = "slot" THEN 2 ELSE 1]

Base == [rgb |-> TRUE, hooks |-> FALSE, idles |-> FALSE, server |-> {FALSE}, lists |-> {Devices},
         slots |-> {0}, windows |-> {}, faults |-> 0, habits |-> {}]

MCSetups == {
  \* events under the idle gate; two windows, and the channel full
  [Base EXCEPT !.idles = TRUE, !.server = {TRUE}, !.windows = {1}, !.habits = {"pair", "type"}],
  [Base EXCEPT !.windows = {1, 2}, !.habits = {"pair", "repaint"}],
  [Base EXCEPT !.server = {TRUE}, !.windows = {1}, !.habits = {"pair", "stop"}],
  \* a server that comes and goes, under switches and under the idle gate
  [Base EXCEPT !.server = BOOLEAN, !.lists = {{}, Devices}, !.slots = {0, 1}, !.faults = 2,
                !.habits = {"server", "switch", "repaint"}],
  [Base EXCEPT !.idles = TRUE, !.server = {TRUE}, !.lists = {{}, Devices}, !.faults = 1, !.habits = {"server", "type"}],
  \* commands
  [Base EXCEPT !.rgb = FALSE, !.hooks = TRUE, !.habits = {"hook", "stop"}] }

=============================================================================
