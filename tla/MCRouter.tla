------------------------------- MODULE MCRouter -------------------------------
(* Small desks for Router.tla: which devices, keys, slots and macros there are. *)
EXTENDS Router

MCCtrls == {"lctrl"}
MCAlts == {"lalt"}
MCShifts == {"lshift"}
MCSupers == {"lmeta"}

TwoSlots == [f1 |-> 1, f2 |-> 2]
ThreeSlots == [f1 |-> 1, f2 |-> 2, f3 |-> 3]

NoMacros == [c \in {} |-> 0]
OneMacro == [c \in {[mods |-> {"ctrl"}, key |-> "f2"]} |-> 0]

NoButtons == [b \in {} |-> 0]
OneButton == [left |-> 0]

\* One keyboard; an F-key is a plain key without Ctrl+Alt.
LocalKeyboard == [d \in Devices |-> {"lctrl", "lalt", "f1", "f2"}]
OneKeyboard == [d \in Devices |-> {"lctrl", "lalt", "f1", "f2", "f3"}]
\* A keyboard and a mouse.
KeyboardAndMouse ==
  [d \in Devices |-> IF d = "kbd" THEN {"lctrl", "lalt", "f1", "f2"} ELSE {"left"}]
\* Two media keys, and a mouse that moves.
ReportDesk ==
  [d \in Devices |-> IF d = "kbd" THEN {"lctrl", "lalt", "f2", "mute", "stop"} ELSE {"left"}]
\* Two keyboards that share an F-key, modifiers on the first.
TwoKeyboards ==
  [d \in Devices |-> IF d = "kbd" THEN {"lctrl", "lalt", "f2", "f3"} ELSE {"f2"}]
\* Shift for the hooks; Ctrl+F2 is a macro.
HookKeyboard == [d \in Devices |-> {"lctrl", "lalt", "lshift", "f1", "f2"}]

\* Explore no further once a host is excused from what the invariants say.
NothingExcused == dropped \cup unflushed = {}

\* At most one key lost by the local session.
FewLosses == NothingExcused /\ Cardinality(sinkLost) <= 1

\* No binding comes or goes: every slot is bound, with a host active, or none is.
HostActive == bound = Remote /\ slot \in Remote /\ NothingExcused
NoneBound == bound = {}

Steps == {1}
NoSteps == {}

=============================================================================
