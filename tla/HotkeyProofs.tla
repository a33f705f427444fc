---------------------------- MODULE HotkeyProofs ----------------------------
(***************************************************************************)
(* Proofs about Hotkey.tla, for every set of devices, keys and macros.     *)
(***************************************************************************)
EXTENDS Hotkey, TLAPS

-----------------------------------------------------------------------------
(* Lemmas about the state machine alone, whoever runs it. *)

\* The swallowed keys are held and the combo key is swallowed, as a predicate
\* every action of HotkeyFsm preserves (hotkey.rs:77-142).
LEMMA FsmPreservesSwallowed ==
  ASSUME NEW k, SwallowedAreHeld,
         \/ SwitchPress(k) \/ MacroPress(k) \/ OtherPress(k)
         \/ Release(k) \/ UNCHANGED fsmVars
  PROVE  SwallowedAreHeld'
<1>1. CASE SwitchPress(k)
  BY <1>1 DEF SwitchPress, SwitchMods, SwallowedAreHeld
<1>2. CASE MacroPress(k)
  BY <1>2 DEF MacroPress, MacroMods, SwallowedAreHeld
<1>3. CASE OtherPress(k)
  BY <1>3 DEF OtherPress, SwallowedAreHeld
<1>4. CASE Release(k)
  BY <1>4 DEF Release, SwallowedAreHeld
<1>5. CASE UNCHANGED fsmVars
  BY <1>5 DEF fsmVars, SwallowedAreHeld
<1>. QED  BY <1>1, <1>2, <1>3, <1>4, <1>5

\* Every step is an event of one key of one device, or leaves everything alone.
LEMMA StepIsKeyEvent ==
  ASSUME [Next]_vars
  PROVE  \/ \E d \in Devices : \E k \in KeysOf[d] :
              \/ \E leave \in BOOLEAN : SwitchDown(d, k, leave)
              \/ MacroDown(d, k) \/ OtherDown(d, k) \/ Up(d, k)
         \/ UNCHANGED vars
BY DEF Next

-----------------------------------------------------------------------------

\* Type correctness of the hotkey layer.
THEOREM TypeCorrect == Spec => []TypeOK
<1>. USE DevicesAssumption DEF TypeOK
<1>1. Init => TypeOK
  BY DEF Init, FsmInit
<1>2. TypeOK /\ [Next]_vars => TypeOK'
  <2>. SUFFICES ASSUME TypeOK, [Next]_vars PROVE TypeOK'
    OBVIOUS
  <2>1. ASSUME NEW d \in Devices, NEW k \in KeysOf[d], NEW leave \in BOOLEAN,
               SwitchDown(d, k, leave)
        PROVE  TypeOK'
    <3>1. k \in Keys
      BY DEF Keys
    <3>2. k \in Fkeys
      BY <2>1 DEF SwitchDown, SwitchPress, IsSwitch
    <3>. QED
      BY <2>1, <3>1, <3>2 DEF SwitchDown, GoesDown, SwitchPress, SwitchMods
  <2>2. ASSUME NEW d \in Devices, NEW k \in KeysOf[d], MacroDown(d, k)
        PROVE  TypeOK'
    <3>1. k \in Keys
      BY DEF Keys
    <3>. QED
      BY <2>2, <3>1 DEF MacroDown, GoesDown, MacroPress, MacroMods
  <2>3. ASSUME NEW d \in Devices, NEW k \in KeysOf[d], OtherDown(d, k)
        PROVE  TypeOK'
    <3>1. k \in Keys
      BY DEF Keys
    <3>. QED
      BY <2>3, <3>1 DEF OtherDown, GoesDown, OtherPress
  <2>4. ASSUME NEW d \in Devices, NEW k \in KeysOf[d], Up(d, k)
        PROVE  TypeOK'
    BY <2>4 DEF Up, Release
  <2>5. CASE UNCHANGED vars
    BY <2>5 DEF vars
  <2>. QED
    BY <2>1, <2>2, <2>3, <2>4, <2>5, StepIsKeyEvent
<1>. QED  BY <1>1, <1>2, PTL DEF Spec

\* The three sets of the state machine agree, on every sequence of events from
\* any number of keyboards.
THEOREM SwallowedHeld == Spec => []SwallowedAreHeld
<1>1. Init => SwallowedAreHeld
  BY DEF Init, FsmInit, SwallowedAreHeld
<1>2. SwallowedAreHeld /\ [Next]_vars => SwallowedAreHeld'
  <2>. SUFFICES ASSUME SwallowedAreHeld, [Next]_vars PROVE SwallowedAreHeld'
    OBVIOUS
  <2>1. CASE UNCHANGED vars
    BY <2>1 DEF vars, SwallowedAreHeld
  <2>2. ASSUME NEW d \in Devices, NEW k \in KeysOf[d],
               \/ \E leave \in BOOLEAN : SwitchDown(d, k, leave)
               \/ MacroDown(d, k) \/ OtherDown(d, k) \/ Up(d, k)
        PROVE  SwallowedAreHeld'
    BY <2>2, FsmPreservesSwallowed DEF SwitchDown, MacroDown, OtherDown, Up
  <2>. QED  BY <2>1, <2>2, StepIsKeyEvent
<1>. QED  BY <1>1, <1>2, PTL DEF Spec

-----------------------------------------------------------------------------
(* Nothing stays stuck, for any number of keyboards that share keys. *)

StuckInv == TypeOK /\ NoStuckKeys /\ SwallowedTwice

\* The inductive step.  A key the target holds can only be swallowed by a
\* press of that key on a second device (SwallowedTwice): the release that is
\* swallowed is then not the last one.
LEMMA StuckInvStep == StuckInv /\ TypeOK' /\ [Next]_vars => StuckInv'
<1>. SUFFICES ASSUME StuckInv, TypeOK', [Next]_vars
              PROVE  NoStuckKeys' /\ SwallowedTwice'
  BY DEF StuckInv
<1>. USE DEF StuckInv, TypeOK, NoStuckKeys, SwallowedTwice
<1>1. ASSUME NEW d \in Devices, NEW k \in KeysOf[d], GoesDown(d, k)
      PROVE  /\ k \notin down[d]
             /\ \A e \in Devices : down'[e] = IF e = d THEN down[e] \cup {k} ELSE down[e]
  BY <1>1 DEF GoesDown
<1>2. ASSUME NEW d \in Devices, NEW k \in KeysOf[d], NEW leave \in BOOLEAN,
             SwitchDown(d, k, leave)
      PROVE  NoStuckKeys' /\ SwallowedTwice'
  <2>1. target' \subseteq target \ SwitchMods
    BY <1>2 DEF SwitchDown
  <2>2. suppressed' = suppressed \cup {k} \cup SwitchMods
    BY <1>2 DEF SwitchDown, SwitchPress
  <2>3. NoStuckKeys'
    BY <1>1, <1>2, <2>1 DEF SwitchDown
  <2>4. ASSUME NEW x \in target' \cap suppressed'
        PROVE  \E e, f \in Devices : e # f /\ x \in down'[e] /\ x \in down'[f]
    <3>1. x \in suppressed \/ x = k
      BY <2>1, <2>2
    <3>2. CASE x \in suppressed
      BY <3>2, <2>1, <1>1, <1>2 DEF SwitchDown
    <3>3. CASE x = k
      BY <3>3, <2>1, <1>1, <1>2 DEF SwitchDown
    <3>. QED  BY <3>1, <3>2, <3>3
  <2>. QED  BY <2>3, <2>4
<1>3. ASSUME NEW d \in Devices, NEW k \in KeysOf[d], MacroDown(d, k)
      PROVE  NoStuckKeys' /\ SwallowedTwice'
  <2>1. target' = target \ MacroMods
    BY <1>3 DEF MacroDown
  <2>2. suppressed' = suppressed \cup {k} \cup MacroMods
    BY <1>3 DEF MacroDown, MacroPress
  <2>3. NoStuckKeys'
    BY <1>1, <1>3, <2>1 DEF MacroDown
  <2>4. ASSUME NEW x \in target' \cap suppressed'
        PROVE  \E e, f \in Devices : e # f /\ x \in down'[e] /\ x \in down'[f]
    <3>1. x \in suppressed \/ x = k
      BY <2>1, <2>2
    <3>2. CASE x \in suppressed
      BY <3>2, <2>1, <1>1, <1>3 DEF MacroDown
    <3>3. CASE x = k
      BY <3>3, <2>1, <1>1, <1>3 DEF MacroDown
    <3>. QED  BY <3>1, <3>2, <3>3
  <2>. QED  BY <2>3, <2>4
<1>4. ASSUME NEW d \in Devices, NEW k \in KeysOf[d], OtherDown(d, k)
      PROVE  NoStuckKeys' /\ SwallowedTwice'
  <2>1. suppressed' = suppressed
    BY <1>4 DEF OtherDown, OtherPress
  <2>2. /\ target' \subseteq target \cup {k}
        /\ k \in suppressed => target' = target
    BY <1>4 DEF OtherDown, Swallowed
  <2>3. NoStuckKeys'
    BY <1>1, <1>4, <2>2 DEF OtherDown
  <2>4. SwallowedTwice'
    BY <1>1, <1>4, <2>1, <2>2 DEF OtherDown
  <2>. QED  BY <2>3, <2>4
<1>5. ASSUME NEW d \in Devices, NEW k \in KeysOf[d], Up(d, k)
      PROVE  NoStuckKeys' /\ SwallowedTwice'
  <2>1. \A e \in Devices : down'[e] = IF e = d THEN down[e] \ {k} ELSE down[e]
    BY <1>5 DEF Up
  <2>2. suppressed' = suppressed \ {k}
    BY <1>5 DEF Up, Release
  <2>3. /\ target' \subseteq target
        /\ k \notin suppressed => k \notin target'
    BY <1>5 DEF Up, Swallowed
  <2>4. ASSUME NEW x \in target'
        PROVE  \E e \in Devices : x \in down'[e]
    <3>1. CASE x = k
      \* k is swallowed, so another device holds it too
      BY <3>1, <2>1, <2>3
    <3>2. CASE x # k
      BY <3>2, <2>1, <2>3
    <3>. QED  BY <3>1, <3>2
  <2>5. SwallowedTwice'
    BY <2>1, <2>2, <2>3
  <2>. QED  BY <2>4, <2>5
<1>6. CASE UNCHANGED vars
  BY <1>6 DEF vars
<1>. QED
  BY <1>2, <1>3, <1>4, <1>5, <1>6, StepIsKeyEvent

\* A key the active target holds down is physically down on some device, so a
\* target never keeps a key the user has let go of everywhere, whatever combos
\* were pressed in between and on however many keyboards.
THEOREM NothingStaysStuck == Spec => []NoStuckKeys
<1>1. Init => StuckInv
  BY DEF Init, FsmInit, StuckInv, TypeOK, NoStuckKeys, SwallowedTwice
<1>2. StuckInv => NoStuckKeys
  BY DEF StuckInv
<1>. QED
  BY <1>1, <1>2, StuckInvStep, TypeCorrect, PTL DEF Spec

-----------------------------------------------------------------------------
(* Keys no two devices share: the stronger NoPhantomKeys. *)

PhantomInv == TypeOK /\ SwallowedAreHeld /\ HeldIsDown /\ NoPhantomKeys

\* A key that goes down on the only device that has it was not held: a combo
\* trigger that is private is never a key the target already has.
LEMMA GoesDownIsFresh ==
  ASSUME TypeOK, HeldIsDown,
         NEW d \in Devices, NEW k \in KeysOf[d], GoesDown(d, k), Private(k)
  PROVE  k \notin held
<1>1. SUFFICES ASSUME NEW e \in Devices, k \in down[e] PROVE FALSE
  BY DEF HeldIsDown
<1>2. k \in KeysOf[e]
  BY <1>1 DEF TypeOK
<1>3. e = d
  BY <1>2 DEF Private
<1>. QED  BY <1>1, <1>3 DEF GoesDown

LEMMA PhantomInvStep ==
  PhantomInv /\ TypeOK' /\ SwallowedAreHeld' /\ [Next]_vars => PhantomInv'
<1>. SUFFICES ASSUME PhantomInv, [Next]_vars PROVE HeldIsDown' /\ NoPhantomKeys'
  BY DEF PhantomInv
<1>. USE DEF PhantomInv, TypeOK, HeldIsDown, NoPhantomKeys
<1>0. \A k : Private(k)' <=> Private(k)
  BY DEF Private
<1>1. ASSUME NEW d \in Devices, NEW k \in KeysOf[d], GoesDown(d, k)
      PROVE  /\ Private(k) => k \notin held
             /\ \A e \in Devices : down'[e] = IF e = d THEN down[e] \cup {k} ELSE down[e]
  BY <1>1, GoesDownIsFresh DEF GoesDown
<1>2. ASSUME NEW d \in Devices, NEW k \in KeysOf[d], NEW leave \in BOOLEAN,
             SwitchDown(d, k, leave)
      PROVE  HeldIsDown' /\ NoPhantomKeys'
  <2>1. /\ \A x \in target' : x \in target /\ x \notin SwitchMods
        /\ suppressed' = suppressed \cup {k} \cup SwitchMods
        /\ held' = held \cup {k}
    BY <1>2 DEF SwitchDown, SwitchPress
  <2>2. HeldIsDown'
    BY <1>1, <1>2, <2>1 DEF SwitchDown
  <2>3. ASSUME NEW x \in target', Private(x) PROVE x \in held' \ suppressed'
    <3>1. x \in held \ suppressed
      BY <2>1, <2>3
    <3>2. x # k
      BY <1>1, <1>2, <2>3, <3>1 DEF SwitchDown
    <3>. QED  BY <2>1, <2>3, <3>1, <3>2
  <2>. QED  BY <1>0, <2>2, <2>3
<1>3. ASSUME NEW d \in Devices, NEW k \in KeysOf[d], MacroDown(d, k)
      PROVE  HeldIsDown' /\ NoPhantomKeys'
  <2>1. /\ \A x \in target' : x \in target /\ x \notin MacroMods
        /\ suppressed' = suppressed \cup {k} \cup MacroMods
        /\ held' = held \cup {k}
    BY <1>3 DEF MacroDown, MacroPress
  <2>2. HeldIsDown'
    BY <1>1, <1>3, <2>1 DEF MacroDown
  <2>3. ASSUME NEW x \in target', Private(x) PROVE x \in held' \ suppressed'
    <3>1. x \in held \ suppressed
      BY <2>1, <2>3
    <3>2. x # k
      BY <1>1, <1>3, <2>3, <3>1 DEF MacroDown
    <3>. QED  BY <2>1, <2>3, <3>1, <3>2
  <2>. QED  BY <1>0, <2>2, <2>3
<1>4. ASSUME NEW d \in Devices, NEW k \in KeysOf[d], OtherDown(d, k)
      PROVE  HeldIsDown' /\ NoPhantomKeys'
  <2>1. /\ target' \subseteq target \cup {k}
        /\ k \in suppressed => target' = target
        /\ held' = held \cup {k} /\ suppressed' = suppressed
    BY <1>4 DEF OtherDown, OtherPress, Swallowed
  <2>2. HeldIsDown'
    BY <1>1, <1>4, <2>1 DEF OtherDown
  <2>3. NoPhantomKeys'
    BY <1>0, <2>1
  <2>. QED  BY <2>2, <2>3
<1>5. ASSUME NEW d \in Devices, NEW k \in KeysOf[d], Up(d, k)
      PROVE  HeldIsDown' /\ NoPhantomKeys'
  <2>1. /\ target' \subseteq target
        /\ k \notin suppressed => k \notin target'
        /\ k \in suppressed => target' = target
        /\ held' = held \ {k} /\ suppressed' = suppressed \ {k}
    BY <1>5 DEF Up, Release, Swallowed
  <2>2. HeldIsDown'
    BY <1>5, <2>1 DEF Up
  <2>3. NoPhantomKeys'
    \* a swallowed key that is private is not on the target
    BY <1>0, <2>1
  <2>. QED  BY <2>2, <2>3
<1>6. CASE UNCHANGED vars
  BY <1>0, <1>6 DEF vars
<1>. QED
  BY <1>2, <1>3, <1>4, <1>5, <1>6, StepIsKeyEvent

\* Of the keys that no two devices share, the target holds exactly what the
\* state machine tracks as held and does not swallow, and never more: the
\* modifiers of a combo are released on it in the very step that fires the combo.
THEOREM NoPhantoms == Spec => []NoPhantomKeys
<1>1. Init => PhantomInv
  BY DevicesAssumption DEF Init, FsmInit, PhantomInv, TypeOK, SwallowedAreHeld, HeldIsDown, NoPhantomKeys
<1>2. PhantomInv => NoPhantomKeys
  BY DEF PhantomInv
<1>. QED
  BY <1>1, <1>2, PhantomInvStep, TypeCorrect, SwallowedHeld, PTL DEF Spec

=============================================================================
