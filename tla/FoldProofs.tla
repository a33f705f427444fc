------------------------------ MODULE FoldProofs ------------------------------
(***************************************************************************)
(* Induction on the naturals, as facts about sets, and what the fold of    *)
(* the community modules computes: one step for each element.  The proofs  *)
(* about frames and replays rest on these lemmas.                          *)
(***************************************************************************)
EXTENDS Integers, SequencesExt, WellFoundedInduction, TLAPS

\* Every set of naturals with a member has a least one.
LEMMA Least ==
  ASSUME NEW T, T \subseteq Nat, T # {}
  PROVE  \E n \in T : \A m \in T : n <= m
<1>1. PICK n \in T : \A m \in T : <<m, n>> \notin OpToRel(<, Nat)
  BY NatLessThanWellFounded, WFMin
<1>2. ASSUME NEW m \in Nat, NEW k \in Nat, m < k PROVE <<m, k>> \in OpToRel(<, Nat)
  <2>1. <<m, k>> \in Nat \X Nat
    OBVIOUS
  <2>2. <<m, k>>[1] < <<m, k>>[2]
    BY <1>2
  <2>. QED  BY <2>1, <2>2, Zenon DEF OpToRel
<1>3. \A m \in T : ~(m < n)
  BY <1>1, <1>2, Zenon
<1>. QED  BY <1>3

\* A set with 0 and the successor of each of its members has every natural.
LEMMA Induction ==
  ASSUME NEW S, 0 \in S, \A n \in Nat : n \in S => n + 1 \in S
  PROVE  \A n \in Nat : n \in S
<1>. SUFFICES ASSUME NEW k \in Nat, k \notin S PROVE FALSE
  OBVIOUS
<1>. DEFINE T == {n \in Nat : n \notin S}
<1>1. PICK n \in T : \A m \in T : n <= m
  BY Least
<1>2. n # 0 /\ n - 1 \in Nat /\ n - 1 \notin T
  BY <1>1
<1>. QED  BY <1>1, <1>2

\* Up to a bound.
LEMMA BoundedInduction ==
  ASSUME NEW S, NEW L \in Nat, 0 \in S, \A n \in 1 .. L : n - 1 \in S => n \in S
  PROVE  \A n \in 0 .. L : n \in S
<1>. DEFINE T == {n \in Nat : n <= L => n \in S}
<1>1. 0 \in T
  OBVIOUS
<1>2. ASSUME NEW n \in Nat, n \in T PROVE n + 1 \in T
  BY <1>2
<1>3. \A n \in Nat : n \in T
  BY <1>1, <1>2, Induction
<1>. QED  BY <1>3

-----------------------------------------------------------------------------

\* The community modules' Max is the greatest member.
LEMMA MaxIs ==
  ASSUME NEW s, s \subseteq Int, NEW m \in s, \A k \in s : k <= m
  PROVE  Max(s) = m
<1>1. m \in s /\ \A k \in s : m >= k
  OBVIOUS
<1>2. \A n \in s : (\A k \in s : n >= k) => n = m
  OBVIOUS
<1>. QED  BY <1>1, <1>2, Zenon DEF Max

\* A non-empty set of indices has its Max as a member.
LEMMA MaxIn ==
  ASSUME NEW L \in Nat, NEW s \in SUBSET (1 .. L), s # {}
  PROVE  Max(s) \in s
<1>. DEFINE T == {n \in 0 .. L : L - n \in s}
<1>0. \A k \in s : k \in 1 .. L /\ L - k \in 0 .. L /\ L - (L - k) = k
  OBVIOUS
<1>1. T \subseteq Nat /\ T # {}
  <2>1. PICK k \in s : TRUE
    OBVIOUS
  <2>2. L - k \in T
    BY <1>0
  <2>3. T \subseteq Nat
    OBVIOUS
  <2>. QED
    <3>. HIDE DEF T
    <3>. QED  BY <2>2, <2>3
<1>2. PICK n \in T : \A m \in T : n <= m
  <2>. HIDE DEF T
  <2>. QED  BY <1>1, Least
<1>3. ASSUME NEW k \in s PROVE k <= L - n
  <2>1. L - k \in T
    BY <1>0
  <2>2. n <= L - k
    BY <1>2, <2>1
  <2>. QED  BY <1>0, <2>2
<1>4. s \subseteq Int /\ L - n \in s
  OBVIOUS
<1>. QED  BY <1>3, <1>4, MaxIs

\* The function a fold defines: on a set of indices, the last of them is folded
\* into what the others give.
FoldsTo(it, G, base, D) ==
  it = [s \in SUBSET D |-> IF s = {} THEN base ELSE G[<<Max(s), it[s \ {Max(s)}]>>]]

\* It exists, for an operation given as a function.
LEMMA FoldExists ==
  ASSUME NEW S, NEW base \in S, NEW L \in Nat, NEW G \in [(1 .. L) \X S -> S]
  PROVE  \E it \in [SUBSET (1 .. L) -> S] : FoldsTo(it, G, base, 1 .. L)
<1>. DEFINE P(n) == \E it \in [SUBSET (1 .. n) -> S] : FoldsTo(it, G, base, 1 .. n)
<1>1. P(0)
  <2>. DEFINE it == [s \in SUBSET (1 .. 0) |-> base]
  <2>1. 1 .. 0 = {}
    OBVIOUS
  <2>2. it \in [SUBSET (1 .. 0) -> S]
    OBVIOUS
  <2>3. FoldsTo(it, G, base, 1 .. 0)
    BY <2>1 DEF FoldsTo
  <2>. QED  BY <2>2, <2>3
<1>2. ASSUME NEW n \in Nat, n + 1 <= L, P(n) PROVE P(n + 1)
  <2>1. PICK old \in [SUBSET (1 .. n) -> S] : FoldsTo(old, G, base, 1 .. n)
    BY <1>2
  <2>. DEFINE it == [s \in SUBSET (1 .. n+1) |->
                       IF n + 1 \in s THEN G[<<n + 1, old[s \ {n + 1}]>>] ELSE old[s]]
  <2>2. ASSUME NEW s \in SUBSET (1 .. n+1)
        PROVE  (n + 1 \in s => s \ {n + 1} \in SUBSET (1 .. n))
               /\ (n + 1 \notin s => s \in SUBSET (1 .. n))
    OBVIOUS
  <2>3. it \in [SUBSET (1 .. n+1) -> S]
    <3>1. ASSUME NEW s \in SUBSET (1 .. n+1), n + 1 \in s PROVE it[s] \in S
      <4>1. old[s \ {n + 1}] \in S
        BY <2>1, <2>2, <3>1
      <4>2. <<n + 1, old[s \ {n + 1}]>> \in (1 .. L) \X S
        BY <1>2, <4>1
      <4>. QED  BY <3>1, <4>2
    <3>2. ASSUME NEW s \in SUBSET (1 .. n+1), n + 1 \notin s PROVE it[s] \in S
      BY <2>1, <2>2, <3>2
    <3>. QED  BY <3>1, <3>2
  <2>4. ASSUME NEW s \in SUBSET (1 .. n+1)
        PROVE  it[s] = IF s = {} THEN base ELSE G[<<Max(s), it[s \ {Max(s)}]>>]
    <3>1. CASE n + 1 \in s
      <4>1. Max(s) = n + 1
        <5>1. s \subseteq Int /\ n + 1 \in s /\ \A k \in s : k <= n + 1
          BY <3>1
        <5>. QED  BY <5>1, MaxIs
      <4>2. it[s \ {n + 1}] = old[s \ {n + 1}]
        BY <2>2, <3>1
      <4>. QED  BY <3>1, <4>1, <4>2
    <3>2. CASE n + 1 \notin s
      <4>1. s \in SUBSET (1 .. n) /\ it[s] = old[s]
        BY <2>2, <3>2
      <4>2. old[s] = IF s = {} THEN base ELSE G[<<Max(s), old[s \ {Max(s)}]>>]
        BY <2>1, <4>1 DEF FoldsTo
      <4>3. s \ {Max(s)} \in SUBSET (1 .. n+1) /\ n + 1 \notin s \ {Max(s)}
        BY <3>2
      <4>. QED  BY <4>1, <4>2, <4>3
    <3>. QED  BY <3>1, <3>2
  <2>5. FoldsTo(it, G, base, 1 .. n+1)
    <3>. HIDE DEF it
    <3>1. it = [s \in SUBSET (1 .. n+1) |-> it[s]]
      BY <2>3
    <3>. QED  BY <2>4, <3>1 DEF FoldsTo
  <2>. QED  BY <2>3, <2>5
<1>3. P(L)
  <2>. HIDE DEF P
  <2>. DEFINE T == {n \in Nat : n <= L => P(n)}
  <2>1. 0 \in T /\ \A n \in Nat : n \in T => n + 1 \in T
    BY <1>1, <1>2
  <2>2. L \in T
    <3>. HIDE DEF T
    <3>. QED  BY <2>1, Induction
  <2>. QED  BY <2>2
<1>. QED  BY <1>3

\* On a whole sequence the indices are folded in their order.
LEMMA Intervals ==
  ASSUME NEW L \in Nat
  PROVE  /\ 1 .. 0 = {}
         /\ \A n \in 1 .. L : /\ 1 .. n \in SUBSET (1 .. L) /\ 1 .. n # {}
                               /\ Max(1 .. n) = n
                               /\ (1 .. n) \ {n} = 1 .. n-1
<1>1. 1 .. 0 = {}
  OBVIOUS
<1>2. ASSUME NEW n \in 1 .. L
      PROVE  /\ 1 .. n \subseteq Int /\ n \in 1 .. n /\ \A k \in 1 .. n : k <= n
             /\ 1 .. n \in SUBSET (1 .. L) /\ 1 .. n # {}
             /\ (1 .. n) \ {n} = 1 .. n-1
  OBVIOUS
<1>3. ASSUME NEW n \in 1 .. L PROVE Max(1 .. n) = n
  BY <1>2, MaxIs
<1>. QED  BY <1>1, <1>2, <1>3

\* What holds of the base and is kept by each step holds all along.
LEMMA RunType ==
  ASSUME NEW S, NEW L \in Nat, NEW acc, acc[0] \in S,
         \A n \in 1 .. L : acc[n-1] \in S => acc[n] \in S
  PROVE  \A n \in 0 .. L : acc[n] \in S
<1>. DEFINE T == {n \in 0 .. L : acc[n] \in S}
<1>1. 0 \in T /\ \A n \in 1 .. L : n - 1 \in T => n \in T
  OBVIOUS
<1>2. \A n \in 0 .. L : n \in T
  <2>. HIDE DEF T
  <2>. QED  BY <1>1, BoundedInduction
<1>. QED  BY <1>2

=============================================================================
