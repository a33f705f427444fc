-------------------------------- MODULE Hotkey --------------------------------
(***************************************************************************)
(* What the hotkey layer promises the machine being typed on, whichever it *)
(* is: the abstract specification the router implements (Router.tla).      *)
(*                                                                         *)
(* Several keyboards and mice feed one state machine (input/mod.rs: one    *)
(* reader task per device, one channel).  "down" is what each device holds *)
(* as far as the events read from it say.  "target" is the set of keys the *)
(* active machine has been told are down.  A target may have no room or no *)
(* code for a key (six-key rollover, unmapped keys), so a passed event     *)
(* tells it about at most that key; a switch that leaves a target releases *)
(* all of it; a combo that stays releases the modifiers that formed it.    *)
(***************************************************************************)
EXTENDS HotkeyFsm

CONSTANTS
  Devices,
  KeysOf     \* [Devices -> the keys each one has]

VARIABLES
  down,      \* [Devices -> keys physically down]
  target     \* keys the active target holds down

vars == <<held, suppressed, comboHeld, down, target>>

Keys == UNION {KeysOf[d] : d \in Devices}

ASSUME DevicesAssumption == KeysOf \in [Devices -> SUBSET Keys]

Init ==
  /\ FsmInit
  /\ down = [d \in Devices |-> {}]
  /\ target = {}

GoesDown(d, k) ==
  /\ k \in KeysOf[d] \ down[d]
  /\ down' = [down EXCEPT ![d] = @ \cup {k}]

\* "leave" is the router's: the combo selects another slot it can switch to.
SwitchDown(d, k, leave) ==
  /\ GoesDown(d, k)
  /\ SwitchPress(k)
  /\ target' = IF leave THEN {} ELSE target \ SwitchMods

\* Mutant: a macro leaves its modifiers to the target.
MacroKeepsMods(d, k) == GoesDown(d, k) /\ MacroPress(k) /\ UNCHANGED target

MacroDown(d, k) ==
  /\ GoesDown(d, k)
  /\ MacroPress(k)
  /\ target' = target \ MacroMods

OtherDown(d, k) ==
  /\ GoesDown(d, k)
  /\ OtherPress(k)
  /\ target' \in IF Swallowed(k) THEN {target} ELSE SUBSET (target \cup {k})

Up(d, k) ==
  /\ k \in down[d]
  /\ down' = [down EXCEPT ![d] = @ \ {k}]
  /\ Release(k)
  /\ target' \in IF Swallowed(k) THEN {target} ELSE SUBSET (target \ {k})

Next ==
  \E d \in Devices : \E k \in KeysOf[d] :
    \/ \E leave \in BOOLEAN : SwitchDown(d, k, leave)
    \/ MacroDown(d, k)
    \/ OtherDown(d, k)
    \/ Up(d, k)

Spec == Init /\ [][Next]_vars

-----------------------------------------------------------------------------

TypeOK ==
  /\ held \subseteq Keys
  /\ suppressed \subseteq Keys
  /\ comboHeld \in Fkeys \cup {None}
  /\ down \in [Devices -> SUBSET Keys]
  /\ \A d \in Devices : down[d] \subseteq KeysOf[d]
  /\ target \subseteq Keys

\* The state machine swallows only keys it knows to be held, and the combo
\* F-key is one of them: hotkey.rs keeps three sets that must agree, or a key
\* let go of would stay swallowed at its next press (or a finished combo go on
\* counting as held and re-pair a slot).
SwallowedAreHeld ==
  /\ suppressed \subseteq held
  /\ comboHeld # None => comboHeld \in suppressed

\* Nothing stays stuck, however many keyboards share a key (README "nothing
\* stays stuck"): what the active target holds down, some device holds down.
\* The hard case is a key passed from one keyboard that becomes a combo trigger
\* on another: the release of the first is swallowed.
NoStuckKeys == \A k \in target : \E d \in Devices : k \in down[d]

\* The part of the inductive invariant behind NoStuckKeys: a swallowed key the
\* target still holds is down on two devices, so its next release, which will
\* be swallowed, is not its last.
SwallowedTwice ==
  \A k \in target \cap suppressed :
    \E d, e \in Devices : d # e /\ k \in down[d] /\ k \in down[e]

\* What the state machine takes to be held is down somewhere.
HeldIsDown == \A k \in held : \E d \in Devices : k \in down[d]

\* On one device only.
Private(k) == \A d, e \in Devices : k \in KeysOf[d] \cap KeysOf[e] => d = e

\* No phantom keys (hotkey.rs:37-48): of the keys that no two devices share, the
\* target holds down only those the state machine knows to be held and is not
\* swallowing: a combo's modifiers are gone from it the moment the combo fires.
NoPhantomKeys == \A k \in target : Private(k) => k \in held \ suppressed

=============================================================================
