---------------------------- MODULE HandoffProofs ----------------------------
(***************************************************************************)
(* Of a slot switch, for any hosts, reports, capacities and faults: frames *)
(* are held only for the host the manager believes active; no host is left *)
(* with a key down that it was told to release; and the host being left is *)
(* released before it is dropped.                                          *)
(***************************************************************************)
EXTENDS Handoff, FoldProofs, FiniteSetTheorems

-----------------------------------------------------------------------------
(* For whom frames are held.                                              *)

\* With several hosts connected a switch is one step; otherwise it is at one
\* of its two waiting points.
SwitchShape ==
  /\ switching.step \in {"none", "drain", "drop"}
  /\ ~Single => switching.step = "none"

\* All the proofs need to know of the records involved.
Shaped(a) == "pending" \in DOMAIN a
HasHost(p) == "host" \in DOMAIN p

\* Sending a frame changes nothing about what is held.
LEMMA SendToKeepsPending ==
  ASSUME NEW a, Shaped(a), NEW f, NEW b \in SendTo(a, f)
  PROVE  b.pending = a.pending
<1>1. b \in {a, Shows(a, f), Lost(a, <<f>>), Lost(ForgetSub(a, f.slot, f.report), <<f>>)}
  BY DEF SendTo
<1>2. Shows(a, f).pending = a.pending
  BY DEF Shaped, Shows
<1>3. Lost(a, <<f>>).pending = a.pending
  BY DEF Shaped, Lost
<1>4. /\ Shaped(ForgetSub(a, f.slot, f.report))
      /\ ForgetSub(a, f.slot, f.report).pending = a.pending
  BY DEF Shaped, ForgetSub
<1>5. Lost(ForgetSub(a, f.slot, f.report), <<f>>).pending = a.pending
  BY <1>4 DEF Shaped, Lost
<1>. QED  BY <1>1, <1>2, <1>3, <1>5

\* Routing a frame may fill the buffer, but for the same host.
LEMMA RouteFrameKeepsHost ==
  ASSUME NEW a, Shaped(a), HasHost(a.pending), NEW f, NEW b \in RouteFrame(a, f)
  PROVE  HasHost(b.pending) /\ b.pending.host = a.pending.host
<1>1. CASE b = Push(a, f)
  <2>1. HasHost(Push(a, f).pending) /\ Push(a, f).pending.host = a.pending.host
    BY DEF Push, Lost, Shaped, HasHost
  <2>. QED  BY <1>1, <2>1
<1>2. CASE b \in SendTo(a, f)
  BY <1>2, SendToKeepsPending
<1>. QED  BY <1>1, <1>2 DEF RouteFrame

\* A handler starts from the variables as they are.
LEMMA AirShaped == Shaped(Air) /\ Air.pending = pending
BY DEF Shaped, Air

\* Pending only ever gets a host by being armed.
LEMMA OnSubscribedKeepsHost ==
  ASSUME NEW a, Shaped(a), HasHost(a.pending),
         NEW h, NEW r, NEW b \in OnSubscribed(a, h, r)
  PROVE  HasHost(b.pending) /\ b.pending.host \in {a.pending.host, Local}
<1>1. CASE b = a
  BY <1>1
<1>2. CASE \E x, rest : b = Holding(x, IF Attached(x, h) THEN NoPending
                                       ELSE [a.pending EXCEPT !.buffer = rest])
  <2>1. PICK x, rest : b = Holding(x, IF Attached(x, h) THEN NoPending
                                      ELSE [a.pending EXCEPT !.buffer = rest])
    BY <1>2
  <2>2. b.pending = IF Attached(x, h) THEN NoPending ELSE [a.pending EXCEPT !.buffer = rest]
    BY <2>1 DEF Holding
  <2>. QED  BY <2>2 DEF NoPending, HasHost
<1>. QED  BY <1>1, <1>2 DEF OnSubscribed

\* Arming holds frames for the active host only, and only with one connection.
LEMMA ArmPendingHost ==
  ASSUME NEW a, Shaped(a), a.pending = NoPending
  PROVE  /\ HasHost(ArmPending(a).pending)
         /\ ArmPending(a).pending.host \in {Local, active}
         /\ ArmPending(a).pending.host # Local => Single
BY DEF ArmPending, Shaped, NoPending, HasHost

\* After discarding nothing is held.
LEMMA DiscardHoldsNothing ==
  ASSUME NEW a, Shaped(a)
  PROVE  Shaped(Discard(a)) /\ Discard(a).pending = NoPending
BY DEF Discard, Lost, Shaped

IInv == HeldForActive /\ SwitchShape /\ HasHost(pending)

\* At the start the manager holds frames for the active host, if it holds any.
THEOREM InitHolds == Init => IInv
BY HandoffAssumption
   DEF Init, IInv, HeldForActive, SwitchShape, HasHost, NoPending, NoSwitch, Slots

\* A step that leaves the switch and the active slot as they are, and what is
\* held with its host or not at all.
LEMMA HostKept ==
  ASSUME IInv, UNCHANGED <<active, switching, Single>>,
         HasHost(pending'), pending'.host \in {pending.host, Local}
  PROVE  IInv'
BY HandoffAssumption DEF IInv, HeldForActive, SwitchShape, HasHost

\* No step holds a frame for another host than the active one, outside a switch.
LEMMA StepKeeps == IInv /\ [Next]_vars => IInv'
<1>. SUFFICES ASSUME IInv, [Next]_vars PROVE IInv'
  OBVIOUS
<1>a. Shaped(Air) /\ Air.pending = pending /\ HasHost(Air.pending)
  BY AirShaped DEF IInv
<1>b. UNCHANGED Single
  BY DEF Next, vars, Single
<1>1. CASE Router
  <2>1. UNCHANGED <<pending, active, switching>>
    BY <1>1 DEF Router, Report, SwitchTo, airVars
  <2>. QED  BY <1>b, <2>1, HostKept DEF IInv
<1>2. CASE TakeFrame
  <2>1. PICK b \in RouteFrame(Air, Head(frames)) : Becomes(b)
    BY <1>2 DEF TakeFrame
  <2>2. HasHost(pending') /\ pending'.host = pending.host
    BY <1>a, <2>1, RouteFrameKeepsHost DEF Becomes
  <2>3. UNCHANGED <<active, switching>>
    BY <1>2 DEF TakeFrame
  <2>. QED  BY <1>b, <2>2, <2>3, HostKept
<1>3. ASSUME NEW frame, BeginSwitch(frame) PROVE IInv'
  <2>1. CASE Single
    <3>1. /\ switching'.step = "drain"
          /\ pending' = pending
      BY <1>3, <2>1 DEF BeginSwitch, airVars
    <3>. QED  BY <1>b, <3>1, <2>1 DEF IInv, HeldForActive, SwitchShape
  <2>2. CASE ~Single
    <3>1. UNCHANGED switching
      BY <1>3, <2>2 DEF BeginSwitch
    <3>2. HasHost(pending') /\ pending'.host = pending.host
      <4>1. CASE pending' = pending
        BY <4>1 DEF IInv
      <4>2. CASE \E b \in RouteFrame(Air, frame) : Becomes(b)
        BY <1>a, <4>2, RouteFrameKeepsHost DEF Becomes
      <4>. QED  BY <1>3, <2>2, <4>1, <4>2 DEF BeginSwitch, airVars
    <3>3. pending.host = Local
      BY <2>2 DEF IInv, HeldForActive
    <3>. QED  BY <1>b, <2>2, <3>1, <3>2, <3>3 DEF IInv, HeldForActive, SwitchShape
  <2>. QED  BY <2>1, <2>2
<1>4. CASE SwitchByFrame \/ SwitchByWatch
  BY <1>3, <1>4 DEF SwitchByFrame, SwitchByWatch
<1>5. CASE Drain
  <2>1. PICK b \in RouteFrame(Air, Head(frames)) : Becomes(b)
    BY <1>5 DEF Drain
  <2>2. HasHost(pending') /\ pending'.host = pending.host
    BY <1>a, <2>1, RouteFrameKeepsHost DEF Becomes
  <2>3. UNCHANGED <<active, switching>>
    BY <1>5 DEF Drain
  <2>. QED  BY <1>b, <2>2, <2>3, HostKept
<1>6. CASE Arm
  <2>1. /\ pending' = ArmPending(Discard(Air)).pending
        /\ switching' = [switching EXCEPT !.step = "drop"]
        /\ switching.step = "drain"
        /\ active' = active
    BY <1>6 DEF Arm, Becomes
  <2>2. /\ HasHost(pending')
        /\ pending'.host \in {Local, active}
        /\ pending'.host # Local => Single
    BY <1>a, <2>1, DiscardHoldsNothing, ArmPendingHost
  <2>3. SwitchShape'
    BY <1>b, <2>1 DEF IInv, SwitchShape
  <2>. QED  BY <1>b, <2>1, <2>2, <2>3 DEF IInv, HeldForActive
<1>7. CASE DropOld
  <2>1. LET gone == DropPeers(Air, {switching.old} \ {Local, active})
        IN  Shaped(gone) /\ gone.pending = pending
    BY <1>a DEF DropPeers, Shaped
  <2>2. HasHost(pending') /\ pending'.host = pending.host
    <3>. DEFINE gone == DropPeers(Air, {switching.old} \ {Local, active})
    <3>1. CASE pending' = gone.pending
      BY <2>1, <3>1 DEF IInv
    <3>2. CASE \E b \in RouteFrame(gone, switching.frame) : Becomes(b)
      <4>. HIDE DEF gone
      <4>. QED  BY <1>a, <2>1, <3>2, RouteFrameKeepsHost DEF Becomes, gone
    <3>. QED  BY <1>7, <3>1, <3>2 DEF DropOld, Becomes
  <2>3. switching.step = "drop" /\ switching'.step = "none" /\ active' = active
    BY <1>7 DEF DropOld, NoSwitch
  <2>. QED  BY <1>b, <2>2, <2>3 DEF IInv, HeldForActive, SwitchShape
<1>8. ASSUME NEW h \in Hosts, NEW r \in Reports, Subscribe(h, r) PROVE IInv'
  <2>1. PICK a, b : /\ Shaped(a) /\ a.pending = pending
                    /\ b \in OnSubscribed(a, h, r) /\ Becomes(b)
    <3>1. \A sub : LET a == [Air EXCEPT !.subs[h][r] = sub]
                   IN  Shaped(a) /\ a.pending = pending
      BY <1>a DEF Shaped
    <3>2. \A a : Shaped(a) => Shaped(DropPeers(a, {h})) /\ DropPeers(a, {h}).pending = a.pending
      BY DEF Shaped, DropPeers
    <3>. QED  BY <1>8, <3>1, <3>2 DEF Subscribe
  <2>2. HasHost(pending') /\ pending'.host \in {pending.host, Local}
    BY <1>a, <2>1, OnSubscribedKeepsHost DEF Becomes
  <2>3. UNCHANGED <<active, switching>>
    BY <1>8 DEF Subscribe
  <2>. QED  BY <1>b, <2>2, <2>3, HostKept
<1>9. ASSUME NEW h \in Hosts, NEW r \in Reports, Closed(h, r) PROVE IInv'
  <2>1. ForgetSub(Air, h, r).pending = pending
    BY <1>a DEF ForgetSub, Shaped
  <2>2. UNCHANGED <<pending, active, switching>>
    BY <1>9, <2>1 DEF Closed, Becomes
  <2>. QED  BY <1>b, <2>2, HostKept DEF IInv
<1>10. CASE PollUninvited
  <2>1. \A evict : DropPeers(Air, evict).pending = pending
    BY <1>a DEF DropPeers, Shaped
  <2>2. UNCHANGED <<pending, active, switching>>
    BY <1>10, <2>1 DEF PollUninvited, Becomes
  <2>. QED  BY <1>b, <2>2, HostKept DEF IInv
<1>11. CASE GiveUp
  <2>1. pending' = NoPending /\ UNCHANGED <<active, switching>>
    BY <1>a, <1>11, DiscardHoldsNothing DEF GiveUp, Becomes
  <2>2. HasHost(pending') /\ pending'.host = Local
    BY <2>1 DEF NoPending, HasHost
  <2>. QED  BY <1>b, <2>1, <2>2, HostKept
<1>12. CASE Desk
  <2>1. UNCHANGED <<pending, active, switching>>
    BY <1>12 DEF Desk, LinkUp, LinkDown, SubscriptionsEnd, airVars
  <2>. QED  BY <1>b, <2>1, HostKept DEF IInv
<1>13. CASE UNCHANGED vars
  <2>1. UNCHANGED <<pending, active, switching>>
    BY <1>13 DEF vars, airVars
  <2>. QED  BY <1>b, <2>1, HostKept DEF IInv
<1>. QED
  BY <1>1, <1>2, <1>4, <1>5, <1>6, <1>7, <1>8, <1>9, <1>10, <1>11, <1>12, <1>13
     DEF Next, Manager

\* Frames are held only with one connection at a time and, outside a switch,
\* only for the host the manager believes active.
THEOREM HeldOnlyForActive == Spec => []HeldForActive
<1>1. IInv => HeldForActive
  BY DEF IInv
<1>. QED  BY InitHolds, StepKeeps, <1>1, PTL DEF Spec

-----------------------------------------------------------------------------
(* The newest of the frames of one report of one host, in a sequence.      *)

Without(fs, h, r) == \A i \in DOMAIN fs : Key(fs[i]) # <<h, r>>
LastIs(fs, h, r, v) ==
  \E i \in DOMAIN fs : /\ Key(fs[i]) = <<h, r>> /\ fs[i].state = v
                       /\ \A j \in DOMAIN fs : j > i => Key(fs[j]) # <<h, r>>

\* An empty sequence has no frame of any report.
LEMMA EmptyHasNone == ASSUME NEW h, NEW r PROVE Without(<<>>, h, r)
BY DEF Without

\* An appended frame is the newest of its report, and of no other.
LEMMA AppendNewest ==
  ASSUME NEW fs \in Seq(Frames), NEW f \in Frames, NEW h, NEW r
  PROVE  /\ Without(Append(fs, f), h, r) <=> Key(f) # <<h, r>> /\ Without(fs, h, r)
         /\ Key(f) = <<h, r>> => LastIs(Append(fs, f), h, r, f.state)
         /\ Key(f) # <<h, r>> => \A v : LastIs(Append(fs, f), h, r, v) <=> LastIs(fs, h, r, v)
<1>. DEFINE gs == Append(fs, f)
            L == Len(fs)
<1>1. /\ L \in Nat /\ DOMAIN fs = 1 .. L /\ DOMAIN gs = 1 .. L+1
      /\ gs[L+1] = f /\ \A i \in 1 .. L : gs[i] = fs[i]
  OBVIOUS
<1>. HIDE DEF gs, L
<1>2. Without(gs, h, r) <=> Key(f) # <<h, r>> /\ Without(fs, h, r)
  <2>1. \A i \in 1 .. L+1 : i \in 1 .. L \/ i = L+1
    BY <1>1
  <2>2. L+1 \in 1 .. L+1 /\ \A i \in 1 .. L : i \in 1 .. L+1
    BY <1>1
  <2>. QED  BY <1>1, <2>1, <2>2, Zenon DEF Without
<1>3. ASSUME Key(f) = <<h, r>> PROVE LastIs(gs, h, r, f.state)
  <2>1. L+1 \in DOMAIN gs /\ \A j \in DOMAIN gs : ~(j > L+1)
    BY <1>1
  <2>. QED  BY <1>1, <1>3, <2>1 DEF LastIs
<1>4. ASSUME Key(f) # <<h, r>>, NEW v, LastIs(fs, h, r, v) PROVE LastIs(gs, h, r, v)
  <2>1. PICK i \in 1 .. L : /\ Key(fs[i]) = <<h, r>> /\ fs[i].state = v
                            /\ \A j \in 1 .. L : j > i => Key(fs[j]) # <<h, r>>
    BY <1>1, <1>4 DEF LastIs
  <2>2. i \in DOMAIN gs /\ gs[i] = fs[i]
    BY <1>1
  <2>3. ASSUME NEW j \in DOMAIN gs, j > i PROVE Key(gs[j]) # <<h, r>>
    <3>1. CASE j = L+1
      BY <1>1, <1>4, <3>1
    <3>2. CASE j \in 1 .. L
      BY <1>1, <2>1, <2>3, <3>2
    <3>. QED  BY <1>1, <3>1, <3>2
  <2>. QED  BY <2>1, <2>2, <2>3 DEF LastIs
<1>5. ASSUME Key(f) # <<h, r>>, NEW v, LastIs(gs, h, r, v) PROVE LastIs(fs, h, r, v)
  <2>1. PICK i \in 1 .. L+1 : /\ Key(gs[i]) = <<h, r>> /\ gs[i].state = v
                              /\ \A j \in 1 .. L+1 : j > i => Key(gs[j]) # <<h, r>>
    BY <1>1, <1>5 DEF LastIs
  <2>2. i # L+1
    BY <1>1, <1>5, <2>1
  <2>3. i \in 1 .. L /\ gs[i] = fs[i]
    BY <1>1, <2>2
  <2>4. ASSUME NEW j \in 1 .. L, j > i PROVE Key(fs[j]) # <<h, r>>
    BY <1>1, <2>1, <2>4
  <2>. QED  BY <1>1, <2>1, <2>3, <2>4 DEF LastIs
<1>. QED  BY <1>2, <1>3, <1>4, <1>5 DEF gs

\* Taking the head leaves every newest frame in, unless it was the head itself.
LEMMA TakeNewest ==
  ASSUME NEW fs \in Seq(Frames), fs # <<>>, NEW h, NEW r
  PROVE  /\ Head(fs) \in Frames /\ Tail(fs) \in Seq(Frames) /\ Len(Tail(fs)) = Len(fs) - 1
         /\ Without(fs, h, r) <=> Key(Head(fs)) # <<h, r>> /\ Without(Tail(fs), h, r)
         /\ \A v : LastIs(fs, h, r, v) =>
              \/ LastIs(Tail(fs), h, r, v)
              \/ Without(Tail(fs), h, r) /\ Key(Head(fs)) = <<h, r>> /\ Head(fs).state = v
<1>. DEFINE gs == Tail(fs)
            L == Len(fs)
<1>0. Head(fs) \in Frames /\ gs \in Seq(Frames) /\ Len(gs) = L - 1
  OBVIOUS
<1>1. /\ L \in Nat \ {0} /\ DOMAIN fs = 1 .. L /\ DOMAIN gs = 1 .. L-1
      /\ Head(fs) = fs[1] /\ \A i \in 1 .. L-1 : gs[i] = fs[i+1]
  OBVIOUS
<1>. HIDE DEF gs, L
<1>2. Without(fs, h, r) <=> Key(Head(fs)) # <<h, r>> /\ Without(gs, h, r)
  <2>1. \A i \in 1 .. L : i = 1 \/ (i-1 \in 1 .. L-1 /\ (i-1)+1 = i)
    BY <1>1
  <2>2. 1 \in 1 .. L /\ \A i \in 1 .. L-1 : i+1 \in 1 .. L
    BY <1>1
  <2>. QED
    <3>1. ASSUME Without(fs, h, r) PROVE Key(Head(fs)) # <<h, r>> /\ Without(gs, h, r)
      BY <1>1, <2>2, <3>1 DEF Without
    <3>2. ASSUME Key(Head(fs)) # <<h, r>>, Without(gs, h, r), NEW i \in 1 .. L PROVE Key(fs[i]) # <<h, r>>
      <4>1. CASE i = 1
        BY <1>1, <3>2, <4>1
      <4>2. CASE i-1 \in 1 .. L-1 /\ (i-1)+1 = i
        BY <1>1, <3>2, <4>2, Zenon DEF Without
      <4>. QED  BY <2>1, <4>1, <4>2
    <3>. QED  BY <1>1, <3>1, <3>2 DEF Without
<1>3. ASSUME NEW v, LastIs(fs, h, r, v)
      PROVE  \/ LastIs(gs, h, r, v)
             \/ Without(gs, h, r) /\ Key(Head(fs)) = <<h, r>> /\ Head(fs).state = v
  <2>1. PICK i \in 1 .. L : /\ Key(fs[i]) = <<h, r>> /\ fs[i].state = v
                            /\ \A j \in 1 .. L : j > i => Key(fs[j]) # <<h, r>>
    BY <1>1, <1>3 DEF LastIs
  <2>2. ASSUME NEW j \in 1 .. L-1, j + 1 > i PROVE Key(gs[j]) # <<h, r>>
    <3>1. j+1 \in 1 .. L /\ j+1 > i
      BY <1>1, <2>2
    <3>. QED  BY <1>1, <2>1, <3>1
  <2>3. CASE i = 1
    <3>1. \A j \in 1 .. L-1 : j + 1 > i
      BY <1>1, <2>3
    <3>. QED  BY <1>1, <2>1, <2>2, <2>3, <3>1 DEF Without
  <2>4. CASE i # 1
    <3>1. i - 1 \in 1 .. L-1 /\ (i-1) + 1 = i
      BY <1>1, <2>4
    <3>2. \A j \in 1 .. L-1 : j > i-1 => j + 1 > i
      BY <1>1
    <3>3. gs[i-1] = fs[i]
      BY <1>1, <3>1, Zenon
    <3>. QED  BY <1>1, <2>1, <2>2, <3>1, <3>2, <3>3 DEF LastIs
  <2>. QED  BY <2>3, <2>4
<1>. QED  BY <1>0, <1>1, <1>2, <1>3 DEF gs, L

\* Of two sequences one after the other, the second decides, where it has any.
LEMMA ConcatNewest ==
  ASSUME NEW fs \in Seq(Frames), NEW gs \in Seq(Frames), NEW h, NEW r
  PROVE  /\ Without(fs \o gs, h, r) <=> Without(fs, h, r) /\ Without(gs, h, r)
         /\ \A v : LastIs(gs, h, r, v) => LastIs(fs \o gs, h, r, v)
         /\ Without(gs, h, r) => \A v : LastIs(fs, h, r, v) => LastIs(fs \o gs, h, r, v)
<1>. DEFINE cs == fs \o gs
            L == Len(fs)
            M == Len(gs)
<1>1. /\ L \in Nat /\ M \in Nat /\ DOMAIN fs = 1 .. L /\ DOMAIN gs = 1 .. M /\ DOMAIN cs = 1 .. L+M
      /\ \A i \in 1 .. L : cs[i] = fs[i]
      /\ \A i \in 1 .. M : cs[L+i] = gs[i]
  OBVIOUS
<1>2. /\ \A i \in 1 .. L : i \in 1 .. L+M
      /\ \A i \in 1 .. M : L+i \in 1 .. L+M
      /\ \A i \in 1 .. L+M : i \in 1 .. L \/ (i-L \in 1 .. M /\ L+(i-L) = i)
  BY <1>1
<1>. HIDE DEF cs, L, M
<1>3. \A i \in 1 .. L+M : i > L => cs[i] = gs[i-L] /\ i-L \in 1 .. M
  <2>. SUFFICES ASSUME NEW i \in 1 .. L+M, i > L PROVE cs[i] = gs[i-L] /\ i-L \in 1 .. M
    OBVIOUS
  <2>1. i-L \in 1 .. M /\ L+(i-L) = i
    BY <1>1
  <2>. QED  BY <1>1, <2>1, Zenon
<1>4. Without(cs, h, r) <=> Without(fs, h, r) /\ Without(gs, h, r)
  <2>1. ASSUME Without(cs, h, r) PROVE Without(fs, h, r) /\ Without(gs, h, r)
    <3>1. Without(fs, h, r)
      BY <1>1, <1>2, <2>1, Zenon DEF Without
    <3>2. Without(gs, h, r)
      BY <1>1, <1>2, <2>1 DEF Without
    <3>. QED  BY <3>1, <3>2
  <2>2. ASSUME Without(fs, h, r), Without(gs, h, r), NEW i \in 1 .. L+M PROVE Key(cs[i]) # <<h, r>>
    <3>1. CASE i \in 1 .. L
      BY <1>1, <2>2, <3>1, Zenon DEF Without
    <3>2. CASE i > L
      BY <1>1, <1>3, <2>2, <3>2, Zenon DEF Without
    <3>. QED  BY <1>1, <3>1, <3>2
  <2>. QED  BY <1>1, <2>1, <2>2 DEF Without
<1>5. ASSUME NEW v, LastIs(gs, h, r, v) PROVE LastIs(cs, h, r, v)
  <2>1. PICK i \in 1 .. M : /\ Key(gs[i]) = <<h, r>> /\ gs[i].state = v
                            /\ \A j \in 1 .. M : j > i => Key(gs[j]) # <<h, r>>
    BY <1>1, <1>5 DEF LastIs
  <2>2. L+i \in DOMAIN cs /\ cs[L+i] = gs[i]
    BY <1>1
  <2>3. ASSUME NEW j \in DOMAIN cs, j > L+i PROVE Key(cs[j]) # <<h, r>>
    <3>1. j \in 1 .. L+M /\ j > L /\ j-L > i
      BY <1>1, <2>3
    <3>. QED  BY <1>3, <2>1, <3>1
  <2>. QED  BY <2>1, <2>2, <2>3 DEF LastIs
<1>6. ASSUME Without(gs, h, r), NEW v, LastIs(fs, h, r, v) PROVE LastIs(cs, h, r, v)
  <2>1. PICK i \in 1 .. L : /\ Key(fs[i]) = <<h, r>> /\ fs[i].state = v
                            /\ \A j \in 1 .. L : j > i => Key(fs[j]) # <<h, r>>
    BY <1>1, <1>6 DEF LastIs
  <2>2. i \in DOMAIN cs /\ cs[i] = fs[i]
    BY <1>1, <1>2
  <2>3. ASSUME NEW j \in DOMAIN cs, j > i PROVE Key(cs[j]) # <<h, r>>
    <3>1. CASE j \in 1 .. L
      BY <1>1, <2>1, <2>3, <3>1
    <3>2. CASE j > L
      BY <1>1, <1>3, <1>6, <3>2, Zenon DEF Without
    <3>. QED  BY <1>1, <3>1, <3>2
  <2>. QED  BY <2>1, <2>2, <2>3 DEF LastIs
<1>. QED  BY <1>4, <1>5, <1>6 DEF cs

-----------------------------------------------------------------------------
(* The folds, one element after the other.                                 *)

\* What was told last, by host and report.
Tells == [Hosts -> [Reports -> States]]
Tell(tl, f) == [tl EXCEPT ![f.slot][f.report] = f.state]
Told(tl, fs) == FoldLeft(LAMBDA t, f : [t EXCEPT ![f.slot][f.report] = f.state], tl, fs)

\* Telling a host one state is still telling each host a state per report.
LEMMA TellType == ASSUME NEW tl \in Tells, NEW f \in Frames PROVE Tell(tl, f) \in Tells
BY DEF Tell, Tells, Frames

\* What was told after a batch, frame by frame.
LEMMA TellRun ==
  ASSUME NEW tl \in Tells, NEW fs \in Seq(Frames)
  PROVE  \E acc \in [0 .. Len(fs) -> Tells] :
           /\ acc[0] = tl
           /\ \A n \in 1 .. Len(fs) : acc[n] = Tell(acc[n-1], fs[n])
           /\ Told(tl, fs) = acc[Len(fs)]
<1>. DEFINE L == Len(fs)
            D == 1 .. L
<1>0. L \in Nat /\ DOMAIN fs = D /\ (\A n \in D : fs[n] \in Frames) /\ tl \in Tells
  OBVIOUS
<1>. DEFINE Runs(it) == it = [s \in SUBSET D |-> IF s = {} THEN tl ELSE Tell(it[s \ {Max(s)}], fs[Max(s)])]
            it == CHOOSE it : Runs(it)
<1>1. Told(tl, fs) = it[D]
  BY <1>0, Zenon DEF Told, Tell, FoldLeft, MapThenFoldSet
<1>2. Runs(it)
  <2>. DEFINE G == [p \in D \X Tells |-> Tell(p[2], fs[p[1]])]
  <2>1. G \in [D \X Tells -> Tells]
    BY <1>0, TellType
  <2>2. PICK f \in [SUBSET D -> Tells] : FoldsTo(f, G, tl, D)
    <3>. HIDE DEF G
    <3>1. \A base \in Tells : \E f \in [SUBSET D -> Tells] : FoldsTo(f, G, base, D)
      BY <1>0, <2>1, FoldExists
    <3>. QED  BY <1>0, <3>1, Zenon
  <2>3. ASSUME NEW s \in SUBSET D, s # {}
        PROVE  G[<<Max(s), f[s \ {Max(s)}]>>] = Tell(f[s \ {Max(s)}], fs[Max(s)])
    <3>1. Max(s) \in s
      BY <2>3, <1>0, MaxIn
    <3>2. <<Max(s), f[s \ {Max(s)}]>> \in D \X Tells
      BY <3>1
    <3>. QED  BY <3>2, Zenon
  <2>4. Runs(f)
    <3>. HIDE DEF G
    <3>. QED  BY <2>2, <2>3 DEF FoldsTo
  <2>. QED  BY <2>4
<1>3. ASSUME NEW s \in SUBSET D
      PROVE  it[s] = IF s = {} THEN tl ELSE Tell(it[s \ {Max(s)}], fs[Max(s)])
  <2>. HIDE DEF it, D
  <2>. QED  BY <1>2
<1>. HIDE DEF it
<1>. DEFINE acc == [n \in 0 .. L |-> it[1 .. n]]
<1>4. it[1 .. 0] = tl
  <2>1. {} \in SUBSET D /\ it[{}] = tl
    BY <1>3
  <2>. QED  BY <2>1, <1>0, Intervals
<1>5. ASSUME NEW n \in D PROVE it[1 .. n] = Tell(it[1 .. n-1], fs[n])
  <2>1. 1 .. n \in SUBSET D /\ 1 .. n # {} /\ Max(1 .. n) = n /\ (1 .. n) \ {n} = 1 .. n-1
    BY <1>0, Intervals
  <2>2. it[1 .. n] = Tell(it[(1 .. n) \ {Max(1 .. n)}], fs[Max(1 .. n)])
    <3>. HIDE DEF D
    <3>. QED  BY <1>3, <2>1
  <2>. QED  BY <2>1, <2>2
<1>6. /\ acc[0] = tl /\ acc[L] = it[D]
      /\ \A n \in 1 .. L : acc[n] = Tell(acc[n-1], fs[n])
  <2>. HIDE DEF L
  <2>. QED  BY <1>0, <1>4, <1>5
<1>7. \A n \in 0 .. L : acc[n] \in Tells
  <2>1. \A n \in 1 .. L : acc[n-1] \in Tells => acc[n] \in Tells
    <3>. HIDE DEF acc, L
    <3>. QED  BY <1>0, <1>6, TellType
  <2>. HIDE DEF acc, L
  <2>. QED  BY <1>0, <1>6, <2>1, RunType
<1>8. acc \in [0 .. L -> Tells]
  BY <1>7
<1>. QED
  <2>. HIDE DEF acc
  <2>. QED  BY <1>1, <1>6, <1>8

Keep(kept, f, reports) == IF f.report \in reports THEN Append(kept, f) ELSE kept

\* Keeping or skipping a frame leaves a sequence of frames.
LEMMA KeepType == ASSUME NEW kept \in Seq(Frames), NEW f \in Frames, NEW reports PROVE Keep(kept, f, reports) \in Seq(Frames)
BY DEF Keep

\* What a filter keeps, frame by frame.
LEMMA OnlyRun ==
  ASSUME NEW fs \in Seq(Frames), NEW reports
  PROVE  \E acc \in [0 .. Len(fs) -> Seq(Frames)] :
           /\ acc[0] = <<>>
           /\ \A n \in 1 .. Len(fs) : acc[n] = Keep(acc[n-1], fs[n], reports)
           /\ Only(fs, reports) = acc[Len(fs)]
<1>. DEFINE L == Len(fs)
            D == 1 .. L
<1>0. L \in Nat /\ DOMAIN fs = D /\ (\A n \in D : fs[n] \in Frames) /\ <<>> \in Seq(Frames)
  OBVIOUS
<1>. DEFINE Runs(it) == it = [s \in SUBSET D |-> IF s = {} THEN <<>> ELSE Keep(it[s \ {Max(s)}], fs[Max(s)], reports)]
            it == CHOOSE it : Runs(it)
<1>1. Only(fs, reports) = it[D]
  BY <1>0, Zenon DEF Only, Keep, FoldLeft, MapThenFoldSet
<1>2. Runs(it)
  <2>. DEFINE G == [p \in D \X Seq(Frames) |-> Keep(p[2], fs[p[1]], reports)]
  <2>1. G \in [D \X Seq(Frames) -> Seq(Frames)]
    BY <1>0, KeepType
  <2>2. PICK f \in [SUBSET D -> Seq(Frames)] : FoldsTo(f, G, <<>>, D)
    <3>. HIDE DEF G
    <3>1. \A base \in Seq(Frames) : \E f \in [SUBSET D -> Seq(Frames)] : FoldsTo(f, G, base, D)
      BY <1>0, <2>1, FoldExists
    <3>. QED  BY <1>0, <3>1, Zenon
  <2>3. ASSUME NEW s \in SUBSET D, s # {}
        PROVE  G[<<Max(s), f[s \ {Max(s)}]>>] = Keep(f[s \ {Max(s)}], fs[Max(s)], reports)
    <3>1. Max(s) \in s
      BY <2>3, <1>0, MaxIn
    <3>2. <<Max(s), f[s \ {Max(s)}]>> \in D \X Seq(Frames)
      BY <3>1
    <3>. QED  BY <3>2, Zenon
  <2>4. Runs(f)
    <3>. HIDE DEF G
    <3>. QED  BY <2>2, <2>3 DEF FoldsTo
  <2>. QED  BY <2>4
<1>3. ASSUME NEW s \in SUBSET D
      PROVE  it[s] = IF s = {} THEN <<>> ELSE Keep(it[s \ {Max(s)}], fs[Max(s)], reports)
  <2>. HIDE DEF it, D
  <2>. QED  BY <1>2
<1>. HIDE DEF it
<1>. DEFINE acc == [n \in 0 .. L |-> it[1 .. n]]
<1>4. it[1 .. 0] = <<>>
  <2>1. {} \in SUBSET D /\ it[{}] = <<>>
    BY <1>3
  <2>. QED  BY <2>1, <1>0, Intervals
<1>5. ASSUME NEW n \in D PROVE it[1 .. n] = Keep(it[1 .. n-1], fs[n], reports)
  <2>1. 1 .. n \in SUBSET D /\ 1 .. n # {} /\ Max(1 .. n) = n /\ (1 .. n) \ {n} = 1 .. n-1
    BY <1>0, Intervals
  <2>2. it[1 .. n] = Keep(it[(1 .. n) \ {Max(1 .. n)}], fs[Max(1 .. n)], reports)
    <3>. HIDE DEF D
    <3>. QED  BY <1>3, <2>1
  <2>. QED  BY <2>1, <2>2
<1>6. /\ acc[0] = <<>> /\ acc[L] = it[D]
      /\ \A n \in 1 .. L : acc[n] = Keep(acc[n-1], fs[n], reports)
  <2>. HIDE DEF L
  <2>. QED  BY <1>0, <1>4, <1>5
<1>7. \A n \in 0 .. L : acc[n] \in Seq(Frames)
  <2>1. \A n \in 1 .. L : acc[n-1] \in Seq(Frames) => acc[n] \in Seq(Frames)
    <3>. HIDE DEF acc, L
    <3>. QED  BY <1>0, <1>6, KeepType
  <2>. HIDE DEF acc, L
  <2>. QED  BY <1>0, <1>6, <2>1, RunType
<1>8. acc \in [0 .. L -> Seq(Frames)]
  BY <1>7
<1>. QED
  <2>. HIDE DEF acc
  <2>. QED  BY <1>1, <1>6, <1>8

\* Prefixes grow by one element.
LEMMA PrefixFacts ==
  ASSUME NEW S, NEW fs \in Seq(S)
  PROVE  /\ SubSeq(fs, 1, 0) = <<>> /\ SubSeq(fs, 1, Len(fs)) = fs
         /\ \A n \in 0 .. Len(fs) : SubSeq(fs, 1, n) \in Seq(S) /\ Len(SubSeq(fs, 1, n)) = n
         /\ \A n \in 1 .. Len(fs) : SubSeq(fs, 1, n) = Append(SubSeq(fs, 1, n-1), fs[n])
OBVIOUS

\* After a batch a report was told its newest frame there, or what it was before.
LEMMA ToldAfter ==
  ASSUME NEW tl \in Tells, NEW fs \in Seq(Frames), NEW tn, tn = Told(tl, fs)
  PROVE  /\ tn \in Tells
         /\ \A h \in Hosts, r \in Reports :
              \/ Without(fs, h, r) /\ tn[h][r] = tl[h][r]
              \/ LastIs(fs, h, r, tn[h][r])
<1>. DEFINE L == Len(fs)
<1>0. L \in Nat /\ \A n \in 1 .. L : fs[n] \in Frames
  OBVIOUS
<1>1. PICK acc \in [0 .. L -> Tells] :
        /\ acc[0] = tl
        /\ \A n \in 1 .. L : acc[n] = Tell(acc[n-1], fs[n])
        /\ tn = acc[L]
  BY TellRun
<1>. DEFINE After(n, h, r) == \/ Without(SubSeq(fs, 1, n), h, r) /\ acc[n][h][r] = tl[h][r]
                              \/ LastIs(SubSeq(fs, 1, n), h, r, acc[n][h][r])
<1>2. ASSUME NEW h \in Hosts, NEW r \in Reports PROVE After(L, h, r)
  <2>. DEFINE T == {n \in 0 .. L : After(n, h, r)}
  <2>1. 0 \in T
    <3>1. SubSeq(fs, 1, 0) = <<>>
      BY PrefixFacts
    <3>2. After(0, h, r)
      BY <1>1, <3>1, EmptyHasNone
    <3>. HIDE DEF After
    <3>. QED  BY <1>0, <3>2
  <2>2. ASSUME NEW n \in 1 .. L, n-1 \in T PROVE n \in T
    <3>. DEFINE p == SubSeq(fs, 1, n-1)
    <3>1. p \in Seq(Frames) /\ fs[n] \in Frames /\ SubSeq(fs, 1, n) = Append(p, fs[n])
      BY <1>0, PrefixFacts
    <3>2. After(n-1, h, r) /\ acc[n] = Tell(acc[n-1], fs[n]) /\ acc[n-1] \in Tells
      BY <1>0, <1>1, <2>2
    <3>. SUFFICES After(n, h, r)
      OBVIOUS
    <3>3. CASE Key(fs[n]) = <<h, r>>
      <4>1. acc[n][h][r] = fs[n].state
        BY <3>1, <3>2, <3>3 DEF Tell, Tells, Key, Frames
      <4>2. LastIs(Append(p, fs[n]), h, r, fs[n].state)
        <5>. HIDE DEF p
        <5>. QED  BY <3>1, <3>3, AppendNewest
      <4>. QED  BY <3>1, <4>1, <4>2
    <3>4. CASE Key(fs[n]) # <<h, r>>
      <4>1. acc[n][h][r] = acc[n-1][h][r]
        BY <3>1, <3>2, <3>4 DEF Tell, Tells, Key, Frames
      <4>2. /\ Without(p, h, r) => Without(Append(p, fs[n]), h, r)
            /\ \A v : LastIs(p, h, r, v) => LastIs(Append(p, fs[n]), h, r, v)
        <5>. HIDE DEF p
        <5>. QED  BY <3>1, <3>4, AppendNewest
      <4>. QED  BY <3>1, <3>2, <4>1, <4>2
    <3>. QED  BY <3>3, <3>4
  <2>3. \A n \in 0 .. L : n \in T
    <3>. HIDE DEF T, L
    <3>. QED  BY <1>0, <2>1, <2>2, BoundedInduction
  <2>. QED  BY <1>0, <2>3
<1>3. SubSeq(fs, 1, L) = fs
  BY PrefixFacts
<1>4. tn \in Tells
  BY <1>0, <1>1
<1>. QED  BY <1>1, <1>2, <1>3, <1>4

\* A filter keeps the newest frame of a report it lets through, and adds nothing.
LEMMA OnlyOfThem ==
  ASSUME NEW fs \in Seq(Frames), NEW reports
  PROVE  /\ Only(fs, reports) \in Seq(Frames) /\ Len(Only(fs, reports)) <= Len(fs)
         /\ \A i \in DOMAIN Only(fs, reports) :
              \E j \in DOMAIN fs : fs[j] = Only(fs, reports)[i] /\ fs[j].report \in reports
         /\ \A h, r : /\ r \notin reports => Without(Only(fs, reports), h, r)
                      /\ Without(fs, h, r) => Without(Only(fs, reports), h, r)
                      /\ r \in reports => \A v : LastIs(fs, h, r, v) => LastIs(Only(fs, reports), h, r, v)
<1>. DEFINE L == Len(fs)
<1>0. L \in Nat /\ DOMAIN fs = 1 .. L /\ \A n \in 1 .. L : fs[n] \in Frames
  OBVIOUS
<1>1. PICK acc \in [0 .. L -> Seq(Frames)] :
        /\ acc[0] = <<>>
        /\ \A n \in 1 .. L : acc[n] = Keep(acc[n-1], fs[n], reports)
        /\ Only(fs, reports) = acc[L]
  BY OnlyRun
<1>t. \A n \in 0 .. L : acc[n] \in Seq(Frames)
  BY <1>1
<1>. DEFINE From(n) == /\ Len(acc[n]) <= n
                       /\ \A i \in DOMAIN acc[n] : \E j \in 1 .. L : fs[j] = acc[n][i] /\ fs[j].report \in reports
<1>2. From(L)
  <2>. DEFINE T == {n \in 0 .. L : From(n)}
  <2>1. 0 \in T
    BY <1>0, <1>1
  <2>2. ASSUME NEW n \in 1 .. L, n-1 \in T PROVE n \in T
    <3>1. From(n-1) /\ acc[n] = Keep(acc[n-1], fs[n], reports) /\ acc[n-1] \in Seq(Frames) /\ n-1 \in 0 .. L
      BY <1>0, <1>1, <1>t, <2>2
    <3>2. CASE fs[n].report \in reports
      <4>1. acc[n] = Append(acc[n-1], fs[n])
        BY <3>1, <3>2 DEF Keep
      <4>2. Len(acc[n]) <= n
        BY <3>1, <4>1
      <4>3. ASSUME NEW i \in DOMAIN acc[n] PROVE \E j \in 1 .. L : fs[j] = acc[n][i] /\ fs[j].report \in reports
        <5>1. (i \in DOMAIN acc[n-1] /\ acc[n][i] = acc[n-1][i]) \/ acc[n][i] = fs[n]
          BY <3>1, <4>1, <4>3
        <5>. QED  BY <3>1, <3>2, <5>1
      <4>. QED  BY <4>2, <4>3
    <3>3. CASE fs[n].report \notin reports
      BY <3>1, <3>3 DEF Keep
    <3>. QED  BY <3>2, <3>3
  <2>3. \A n \in 0 .. L : n \in T
    <3>. HIDE DEF T, L
    <3>. QED  BY <1>0, <2>1, <2>2, BoundedInduction
  <2>. QED  BY <1>0, <2>3
<1>. DEFINE Same(n, h, r) ==
       /\ r \notin reports => Without(acc[n], h, r)
       /\ Without(SubSeq(fs, 1, n), h, r) => Without(acc[n], h, r)
       /\ r \in reports => \A v : LastIs(SubSeq(fs, 1, n), h, r, v) => LastIs(acc[n], h, r, v)
<1>3. ASSUME NEW h, NEW r PROVE Same(L, h, r)
  <2>. DEFINE T == {n \in 0 .. L : Same(n, h, r)}
  <2>1. 0 \in T
    <3>1. SubSeq(fs, 1, 0) = <<>>
      BY PrefixFacts
    <3>2. \A v : ~LastIs(<<>>, h, r, v)
      BY DEF LastIs
    <3>3. Same(0, h, r)
      BY <1>1, <3>1, <3>2, EmptyHasNone
    <3>. HIDE DEF Same
    <3>. QED  BY <1>0, <3>3
  <2>2. ASSUME NEW n \in 1 .. L, n-1 \in T PROVE n \in T
    <3>. DEFINE p == SubSeq(fs, 1, n-1)
    <3>1. p \in Seq(Frames) /\ fs[n] \in Frames /\ SubSeq(fs, 1, n) = Append(p, fs[n])
      BY <1>0, PrefixFacts
    <3>2. Same(n-1, h, r) /\ acc[n] = Keep(acc[n-1], fs[n], reports) /\ acc[n-1] \in Seq(Frames)
      BY <1>0, <1>1, <1>t, <2>2
    <3>3. /\ Without(Append(p, fs[n]), h, r) <=> Key(fs[n]) # <<h, r>> /\ Without(p, h, r)
          /\ Key(fs[n]) = <<h, r>> => LastIs(Append(p, fs[n]), h, r, fs[n].state)
          /\ Key(fs[n]) # <<h, r>> => \A v : LastIs(Append(p, fs[n]), h, r, v) <=> LastIs(p, h, r, v)
      <4>. HIDE DEF p
      <4>. QED  BY <3>1, AppendNewest
    <3>4. /\ Without(Append(acc[n-1], fs[n]), h, r) <=> Key(fs[n]) # <<h, r>> /\ Without(acc[n-1], h, r)
          /\ Key(fs[n]) = <<h, r>> => LastIs(Append(acc[n-1], fs[n]), h, r, fs[n].state)
          /\ Key(fs[n]) # <<h, r>> => \A v : LastIs(Append(acc[n-1], fs[n]), h, r, v) <=> LastIs(acc[n-1], h, r, v)
      BY <3>1, <3>2, AppendNewest
    <3>5. Key(fs[n]) = <<h, r>> => fs[n].report = r
      BY DEF Key
    <3>6. \A v : Key(fs[n]) = <<h, r>> /\ LastIs(Append(p, fs[n]), h, r, v) => v = fs[n].state
      <4>1. SUFFICES ASSUME NEW v, Key(fs[n]) = <<h, r>>, LastIs(Append(p, fs[n]), h, r, v) PROVE v = fs[n].state
        OBVIOUS
      <4>. DEFINE q == Append(p, fs[n])
      <4>2. n \in DOMAIN q /\ q[n] = fs[n] /\ \A i \in DOMAIN q : i \in Int /\ i <= n
        <5>1. Len(p) = n-1
          BY <1>0, PrefixFacts
        <5>. HIDE DEF p
        <5>. QED  BY <3>1, <5>1
      <4>. HIDE DEF q
      <4>3. PICK i \in DOMAIN q : /\ q[i].state = v
                                  /\ \A j \in DOMAIN q : j > i => Key(q[j]) # <<h, r>>
        BY <4>1 DEF LastIs, q
      <4>4. i = n
        BY <4>1, <4>2, <4>3
      <4>. QED  BY <4>2, <4>3, <4>4
    <3>w. /\ r \notin reports => Without(acc[n-1], h, r)
          /\ Without(p, h, r) => Without(acc[n-1], h, r)
          /\ r \in reports => \A v : LastIs(p, h, r, v) => LastIs(acc[n-1], h, r, v)
      BY <3>2
    <3>. SUFFICES Same(n, h, r)
      OBVIOUS
    <3>. HIDE DEF p
    <3>7. CASE fs[n].report \in reports
      <4>1. acc[n] = Append(acc[n-1], fs[n])
        BY <3>2, <3>7 DEF Keep
      <4>2. Key(fs[n]) = <<h, r>> => r \in reports
        BY <3>5, <3>7
      <4>3. /\ r \notin reports => Without(acc[n], h, r)
            /\ Without(SubSeq(fs, 1, n), h, r) => Without(acc[n], h, r)
        BY <3>1, <3>3, <3>4, <3>w, <4>1, <4>2, Zenon
      <4>4. ASSUME r \in reports, NEW v, LastIs(SubSeq(fs, 1, n), h, r, v) PROVE LastIs(acc[n], h, r, v)
        BY <3>1, <3>3, <3>4, <3>6, <3>w, <4>1, <4>4, Zenon
      <4>. QED  BY <4>3, <4>4
    <3>8. CASE fs[n].report \notin reports
      <4>1. acc[n] = acc[n-1]
        BY <3>2, <3>8 DEF Keep
      <4>2. Key(fs[n]) = <<h, r>> => r \notin reports
        BY <3>5, <3>8
      <4>3. /\ r \notin reports => Without(acc[n], h, r)
            /\ Without(SubSeq(fs, 1, n), h, r) => Without(acc[n], h, r)
        BY <3>1, <3>3, <3>w, <4>1, Zenon
      <4>4. ASSUME r \in reports, NEW v, LastIs(SubSeq(fs, 1, n), h, r, v) PROVE LastIs(acc[n], h, r, v)
        BY <3>1, <3>3, <3>w, <4>1, <4>2, <4>4, Zenon
      <4>. QED  BY <4>3, <4>4
    <3>. QED  BY <3>7, <3>8
  <2>3. \A n \in 0 .. L : n \in T
    <3>. HIDE DEF T, L
    <3>. QED  BY <1>0, <2>1, <2>2, BoundedInduction
  <2>. QED  BY <1>0, <2>3
<1>4. SubSeq(fs, 1, L) = fs
  BY PrefixFacts
<1>5. Only(fs, reports) \in Seq(Frames)
  BY <1>0, <1>1
<1>6. /\ Len(Only(fs, reports)) <= Len(fs)
      /\ \A i \in DOMAIN Only(fs, reports) :
           \E j \in DOMAIN fs : fs[j] = Only(fs, reports)[i] /\ fs[j].report \in reports
  BY <1>0, <1>1, <1>2
<1>7. \A h, r : /\ r \notin reports => Without(Only(fs, reports), h, r)
                /\ Without(fs, h, r) => Without(Only(fs, reports), h, r)
                /\ r \in reports => \A v : LastIs(fs, h, r, v) => LastIs(Only(fs, reports), h, r, v)
  BY <1>1, <1>3, <1>4, Zenon
<1>. QED  BY <1>5, <1>6, <1>7

-----------------------------------------------------------------------------
(* The frame channel.                                                      *)

Keys == Hosts \X Reports

\* A report either has a newer frame in the channel, which is what was told
\* last, or nothing about it changed.
LEMMA QueueNewest ==
  ASSUME frames \in Seq(Frames), Len(frames) <= FrameCap, told \in Tells,
         NEW batch \in Seq(Frames), Queue(batch)
  PROVE  /\ frames' \in Seq(Frames) /\ Len(frames') <= FrameCap /\ told' \in Tells
         /\ overtaken' \subseteq overtaken
         /\ \A i \in DOMAIN frames' : \/ \E j \in DOMAIN frames : frames'[i] = frames[j]
                                      \/ \E j \in DOMAIN batch : frames'[i] = batch[j]
         /\ \A h \in Hosts, r \in Reports :
              \/ LastIs(frames', h, r, told'[h][r])
              \/ /\ told'[h][r] = told[h][r]
                 /\ <<h, r>> \in overtaken => <<h, r>> \in overtaken'
                 /\ Without(frames, h, r) => Without(frames', h, r)
                 /\ \A v : LastIs(frames, h, r, v) => LastIs(frames', h, r, v)
<1>. DEFINE room == FrameCap - Len(frames)
            n == IF Len(batch) < room THEN Len(batch) ELSE room
            sent == SubSeq(batch, 1, n)
<1>1. /\ frames' = frames \o sent
      /\ told' = Told(told, sent)
      /\ overtaken' = overtaken \ {Key(sent[i]) : i \in DOMAIN sent}
  BY DEF Queue, Told
<1>2. n \in 0 .. Len(batch) /\ Len(frames) \in Nat /\ n <= FrameCap - Len(frames)
  BY HandoffAssumption
<1>. HIDE DEF n, room
<1>3. sent \in Seq(Frames) /\ Len(sent) = n /\ \A i \in DOMAIN sent : i \in DOMAIN batch /\ sent[i] = batch[i]
  BY <1>2
<1>. HIDE DEF sent
<1>4. /\ frames' \in Seq(Frames) /\ Len(frames') <= FrameCap
      /\ \A i \in DOMAIN frames' : \/ \E j \in DOMAIN frames : frames'[i] = frames[j]
                                   \/ \E j \in DOMAIN batch : frames'[i] = batch[j]
  <2>1. Len(frames') = Len(frames) + n
    <3>1. Len(frames \o sent) = Len(frames) + Len(sent)
      BY <1>3
    <3>. QED  BY <1>1, <1>3, <3>1
  <2>2. \A i \in DOMAIN frames' : \/ i \in DOMAIN frames /\ frames'[i] = frames[i]
                                  \/ i - Len(frames) \in DOMAIN sent /\ frames'[i] = sent[i - Len(frames)]
    BY <1>1, <1>2, <1>3
  <2>3. frames' \in Seq(Frames)
    BY <1>1, <1>3
  <2>4. Len(frames') <= FrameCap
    BY <1>2, <2>1, HandoffAssumption
  <2>. QED  BY <1>3, <2>2, <2>3, <2>4
<1>5. /\ told' \in Tells
      /\ \A h \in Hosts, r \in Reports : \/ Without(sent, h, r) /\ told'[h][r] = told[h][r]
                                         \/ LastIs(sent, h, r, told'[h][r])
  BY <1>1, <1>3, ToldAfter
<1>6. ASSUME NEW h \in Hosts, NEW r \in Reports
      PROVE  \/ LastIs(frames', h, r, told'[h][r])
             \/ /\ told'[h][r] = told[h][r]
                /\ <<h, r>> \in overtaken => <<h, r>> \in overtaken'
                /\ Without(frames, h, r) => Without(frames', h, r)
                /\ \A v : LastIs(frames, h, r, v) => LastIs(frames', h, r, v)
  <2>1. CASE LastIs(sent, h, r, told'[h][r])
    <3>1. LastIs(frames \o sent, h, r, told'[h][r])
      BY <1>3, <2>1, ConcatNewest
    <3>. QED  BY <1>1, <3>1
  <2>2. CASE Without(sent, h, r) /\ told'[h][r] = told[h][r]
    <3>1. <<h, r>> \in overtaken => <<h, r>> \in overtaken'
      BY <1>1, <2>2 DEF Without
    <3>2. /\ Without(frames, h, r) => Without(frames \o sent, h, r)
          /\ \A v : LastIs(frames, h, r, v) => LastIs(frames \o sent, h, r, v)
      BY <1>3, <2>2, ConcatNewest
    <3>. QED  BY <1>1, <2>2, <3>1, <3>2
  <2>. QED  BY <1>5, <2>1, <2>2
<1>. QED  BY <1>1, <1>4, <1>5, <1>6

\* The releases a switch sends: finitely many, as there are reports.
LEMMA ReleasesAreFrames ==
  ASSUME NEW S, NEW T \in SUBSET Reports, slot \in Hosts \/ T = {},
         S = {[slot |-> slot, report |-> r, state |-> Idle] : r \in T}
  PROVE  SetToSeq(S) \in Seq(S) /\ S \subseteq Frames
<1>1. IsFiniteSet(T)
  BY HandoffAssumption, FS_Subset
<1>2. ExistsBijection(T, S)
  <2>. DEFINE f == [r \in T |-> [slot |-> slot, report |-> r, state |-> Idle]]
  <2>1. f \in [T -> S] /\ \A a, b \in T : f[a] = f[b] => a = b
    OBVIOUS
  <2>2. \A s \in S : \E r \in T : f[r] = s
    OBVIOUS
  <2>3. f \in Bijection(T, S)
    <3>. HIDE DEF f
    <3>. QED  BY <2>1, <2>2 DEF Bijection, Injection, Surjection, IsInjective
  <2>. QED  BY <2>3 DEF ExistsBijection
<1>3. IsFiniteSet(S)
  BY <1>1, <1>2, FS_Bijection
<1>4. Cardinality(S) \in Nat /\ ExistsBijection(1 .. Cardinality(S), S)
  BY <1>3, FS_CardinalityType
<1>5. \E f \in [1 .. Cardinality(S) -> S] : IsInjective(f)
  BY <1>4 DEF ExistsBijection, Bijection, Injection
<1>6. SetToSeq(S) \in [1 .. Cardinality(S) -> S]
  BY <1>5, Zenon DEF SetToSeq
<1>7. SetToSeq(S) \in Seq(S)
  <2>1. \A c \in Nat : \A g \in [1 .. c -> S] : g \in Seq(S)
    OBVIOUS
  <2>. QED  BY <1>4, <1>6, <2>1, Zenon
<1>. QED  BY <1>7 DEF Frames, States

-----------------------------------------------------------------------------
(* What a handler has so far, "a", and what is right about it.             *)

Pendings == [host : Slots, buffer : Seq(Frames), buttons : States]
Airs ==
  [pending : Pendings, subs : [Hosts -> [Reports -> {"none", "live", "dead"}]],
   last : [Hosts -> States], leaving : SUBSET Hosts, shown : [Hosts -> [Reports -> States]],
   behind : SUBSET Keys, cut : SUBSET Keys]

\* With v told last and nothing on its way, the host shows v, or nothing if a
\* frame was lost; unless it is on its way out, or was cut off.
Settled(a, h, r, v) ==
  h \notin a.leaving /\ <<h, r>> \notin a.cut =>
    a.shown[h][r] = v \/ (a.shown[h][r] = Idle /\ <<h, r>> \in a.behind)

\* A host without a link shows nothing, and no writer to it works.
Linked(a) ==
  /\ a.leaving \subseteq link
  /\ \A h \in Hosts \ link, r \in Reports : a.shown[h][r] = Idle /\ a.subs[h][r] # "live"

\* A report without a subscription shows nothing.
Silent(a) == \A h \in Hosts, r \in Reports : a.subs[h][r] = "none" => Settled(a, h, r, Idle)

\* The buttons on record are the ones shown.
OnRecord(a) == \A h \in Hosts : Mouse \in Reports => Settled(a, h, Mouse, a.last[h])

Sound(a) == a \in Airs /\ Linked(a) /\ Silent(a) /\ OnRecord(a)

\* Nothing has come of the mouse frames held for h since it came or was left.
Fresh(a, h) ==
  /\ h \notin a.leaving /\ <<h, Mouse>> \notin a.behind \cup a.cut
  /\ a.subs[h][Mouse] = "none" \/ h \notin link

\* Losing frames leaves what is right so, and notes the reports they were of.
LEMMA LostFacts ==
  ASSUME NEW a, Sound(a), NEW fs \in Seq(Frames), NEW b, b = Lost(a, fs)
  PROVE  /\ Sound(b) /\ b.pending = a.pending /\ b.subs = a.subs
         /\ \A i \in DOMAIN fs : Key(fs[i]) \in b.behind
         /\ \A h \in Hosts, r \in Reports : \A v : Settled(a, h, r, v) => Settled(b, h, r, v)
         /\ \A h \in Hosts : Fresh(b, h) => Fresh(a, h)
<1>. DEFINE lost == {Key(fs[i]) : i \in DOMAIN fs}
<1>1. lost \subseteq Keys
  <2>1. \A f \in Frames : Key(f) \in Keys
    BY DEF Key, Keys, Frames
  <2>2. \A i \in DOMAIN fs : fs[i] \in Frames
    OBVIOUS
  <2>. QED  BY <2>1, <2>2
<1>2. b = [a EXCEPT !.behind = @ \cup lost] /\ \A i \in DOMAIN fs : Key(fs[i]) \in lost
  BY DEF Lost
<1>. HIDE DEF lost
<1>3. /\ b \in Airs /\ b.pending = a.pending /\ b.subs = a.subs /\ b.last = a.last /\ b.leaving = a.leaving
      /\ b.shown = a.shown /\ b.cut = a.cut /\ b.behind = a.behind \cup lost
  BY <1>1, <1>2 DEF Sound, Airs
<1>4. \A h \in Hosts, r \in Reports : \A v : Settled(a, h, r, v) => Settled(b, h, r, v)
  BY <1>3 DEF Settled
<1>5. Linked(b) /\ Silent(b) /\ OnRecord(b)
  BY <1>3, <1>4 DEF Sound, Linked, Silent, OnRecord
<1>. QED  BY <1>2, <1>3, <1>4, <1>5 DEF Sound, Fresh

\* No subscription changed but one.
SubsBut(a, b, key) == \A h \in Hosts, r \in Reports : <<h, r>> # key => b.subs[h][r] = a.subs[h][r]

\* So does forgetting a subscription, which cuts the report off on a live link.
LEMMA ForgetFacts ==
  ASSUME NEW a, Sound(a), NEW p \in Hosts, NEW q \in Reports, NEW b, b = ForgetSub(a, p, q)
  PROVE  /\ Sound(b) /\ b.pending = a.pending /\ b.subs[p][q] = "none"
         /\ SubsBut(a, b, <<p, q>>)
         /\ \A h \in Hosts, r \in Reports : \A v : Settled(a, h, r, v) => Settled(b, h, r, v)
         /\ p \in link => <<p, q>> \in b.cut
         /\ \A h \in Hosts : Fresh(b, h) => Fresh(a, h)
<1>. DEFINE rest == [a.subs[p] EXCEPT ![q] = "none"]
            lastN == IF \A r \in Reports : rest[r] = "none" THEN Idle ELSE a.last[p]
            cutN == IF p \in link THEN a.cut \cup {<<p, q>>} ELSE a.cut
<1>1. rest \in [Reports -> {"none", "live", "dead"}] /\ lastN \in States /\ cutN \subseteq Keys
  BY DEF Sound, Airs, States, Keys
<1>2. b = [a EXCEPT !.subs[p] = rest, !.last[p] = lastN, !.cut = cutN]
  BY DEF ForgetSub, Sound, Airs
<1>r. rest[q] = "none" /\ \A r \in Reports : r # q => rest[r] = a.subs[p][r]
  BY DEF Sound, Airs
<1>l. lastN = a.last[p] \/ (lastN = Idle /\ \A r \in Reports : rest[r] = "none")
  OBVIOUS
<1>c. a.cut \subseteq cutN /\ cutN \subseteq a.cut \cup {<<p, q>>} /\ (p \in link => <<p, q>> \in cutN)
  OBVIOUS
<1>. HIDE DEF rest, lastN, cutN
<1>3. /\ b \in Airs /\ b.pending = a.pending /\ b.leaving = a.leaving /\ b.shown = a.shown
      /\ b.behind = a.behind /\ b.cut = cutN
      /\ b.subs = [a.subs EXCEPT ![p] = rest] /\ b.last = [a.last EXCEPT ![p] = lastN]
  <2>1. /\ [a.subs EXCEPT ![p] = rest] \in [Hosts -> [Reports -> {"none", "live", "dead"}]]
        /\ [a.last EXCEPT ![p] = lastN] \in [Hosts -> States]
    BY <1>1 DEF Sound, Airs
  <2>2. PICK subsN \in [Hosts -> [Reports -> {"none", "live", "dead"}]] : subsN = [a.subs EXCEPT ![p] = rest]
    BY <2>1
  <2>3. PICK lasts \in [Hosts -> States] : lasts = [a.last EXCEPT ![p] = lastN]
    BY <2>1
  <2>4. b = [a EXCEPT !.subs = subsN, !.last = lasts, !.cut = cutN]
    BY <1>2, <2>2, <2>3 DEF Sound, Airs
  <2>. QED  BY <1>1, <2>2, <2>3, <2>4 DEF Sound, Airs
<1>4. /\ b.subs[p] = rest /\ b.last[p] = lastN
      /\ \A h \in Hosts : h # p => b.subs[h] = a.subs[h] /\ b.last[h] = a.last[h]
  BY <1>3 DEF Sound, Airs
<1>5. \A h \in Hosts, r \in Reports : \A v : Settled(a, h, r, v) => Settled(b, h, r, v)
  BY <1>3, <1>c DEF Settled
<1>6. Linked(b)
  BY <1>3, <1>4, <1>r DEF Sound, Linked
<1>7. Silent(b)
  <2>1. ASSUME NEW h \in Hosts, NEW r \in Reports, b.subs[h][r] = "none" PROVE Settled(b, h, r, Idle)
    <3>1. CASE a.subs[h][r] = "none"
      BY <1>5, <3>1 DEF Sound, Silent
    <3>2. CASE h = p /\ r = q
      BY <1>3, <1>c, <3>2 DEF Settled, Sound, Linked
    <3>. QED  BY <1>4, <1>r, <2>1, <3>1, <3>2
  <2>. QED  BY <2>1 DEF Silent
<1>8. OnRecord(b)
  <2>1. ASSUME NEW h \in Hosts, Mouse \in Reports PROVE Settled(b, h, Mouse, b.last[h])
    <3>1. CASE b.last[h] = a.last[h]
      BY <1>5, <2>1, <3>1 DEF Sound, OnRecord
    <3>2. CASE b.last[h] = Idle /\ b.subs[h][Mouse] = "none"
      BY <1>7, <2>1, <3>2 DEF Silent
    <3>. QED  BY <1>4, <1>l, <2>1, <3>1, <3>2
  <2>. QED  BY <2>1 DEF OnRecord
<1>9. ASSUME NEW h \in Hosts, Fresh(b, h) PROVE Fresh(a, h)
  <2>1. CASE h = p /\ Mouse = q
    BY <1>3, <1>c, <1>9, <2>1 DEF Fresh
  <2>2. CASE h # p
    BY <1>3, <1>4, <1>c, <1>9, <2>2 DEF Fresh
  <2>3. CASE h = p /\ Mouse # q
    <3>1. b.subs[h][Mouse] = a.subs[h][Mouse]
      BY <1>2, <2>3 DEF Sound, Airs, rest
    <3>. QED  BY <1>3, <1>c, <1>9, <3>1 DEF Fresh
  <2>. QED  BY <2>1, <2>2, <2>3
<1>10. SubsBut(a, b, <<p, q>>)
  BY <1>4, <1>r DEF SubsBut
<1>. QED  BY <1>3, <1>4, <1>r, <1>c, <1>5, <1>6, <1>7, <1>8, <1>9, <1>10 DEF Sound

\* A frame taken by its host brings that report to the frame's state, and no other.
LEMMA ShowsFacts ==
  ASSUME NEW a, Sound(a), NEW f \in Frames, a.subs[f.slot][f.report] = "live", NEW b, b = Shows(a, f)
  PROVE  /\ Sound(b) /\ b.pending = a.pending /\ b.subs = a.subs
         /\ Settled(b, f.slot, f.report, f.state)
         /\ \A h \in Hosts, r \in Reports : <<h, r>> # Key(f) => \A v : Settled(a, h, r, v) => Settled(b, h, r, v)
         /\ \A h \in Hosts : Fresh(b, h) => Fresh(a, h)
<1>0. f.slot \in Hosts /\ f.report \in Reports /\ f.state \in States /\ Key(f) = <<f.slot, f.report>>
  BY DEF Frames, Key
<1>. DEFINE row == [a.shown[f.slot] EXCEPT ![f.report] = f.state]
            lastN == IF f.report = Mouse THEN f.state ELSE a.last[f.slot]
<1>1. row \in [Reports -> States] /\ lastN \in States
  BY <1>0 DEF Sound, Airs
<1>2. b = [a EXCEPT !.shown[f.slot] = row, !.last[f.slot] = lastN,
                    !.behind = @ \ {Key(f)}, !.cut = @ \ {Key(f)}]
  BY <1>0 DEF Shows, Sound, Airs
<1>r. row[f.report] = f.state /\ \A r \in Reports : r # f.report => row[r] = a.shown[f.slot][r]
  BY <1>0 DEF Sound, Airs
<1>l. (f.report = Mouse => lastN = f.state) /\ (f.report # Mouse => lastN = a.last[f.slot])
  OBVIOUS
<1>. HIDE DEF row, lastN
<1>3. /\ b \in Airs /\ b.pending = a.pending /\ b.leaving = a.leaving /\ b.subs = a.subs
      /\ b.behind = a.behind \ {Key(f)} /\ b.cut = a.cut \ {Key(f)}
      /\ b.shown = [a.shown EXCEPT ![f.slot] = row] /\ b.last = [a.last EXCEPT ![f.slot] = lastN]
  <2>1. /\ [a.shown EXCEPT ![f.slot] = row] \in [Hosts -> [Reports -> States]]
        /\ [a.last EXCEPT ![f.slot] = lastN] \in [Hosts -> States]
    BY <1>0, <1>1 DEF Sound, Airs
  <2>2. PICK shows \in [Hosts -> [Reports -> States]] : shows = [a.shown EXCEPT ![f.slot] = row]
    BY <2>1
  <2>3. PICK lasts \in [Hosts -> States] : lasts = [a.last EXCEPT ![f.slot] = lastN]
    BY <2>1
  <2>4. PICK behindN \in SUBSET Keys : behindN = a.behind \ {Key(f)}
    BY DEF Sound, Airs
  <2>5. PICK cutN \in SUBSET Keys : cutN = a.cut \ {Key(f)}
    BY DEF Sound, Airs
  <2>6. b = [a EXCEPT !.shown = shows, !.last = lasts, !.behind = behindN, !.cut = cutN]
    BY <1>2, <2>2, <2>3, <2>4, <2>5 DEF Sound, Airs
  <2>7. /\ b \in Airs /\ b.pending = a.pending /\ b.leaving = a.leaving /\ b.subs = a.subs
        /\ b.behind = behindN /\ b.cut = cutN /\ b.shown = shows /\ b.last = lasts
    BY <2>6 DEF Sound, Airs
  <2>. QED  BY <2>2, <2>3, <2>4, <2>5, <2>7, Zenon
<1>4. /\ b.shown[f.slot] = row /\ b.last[f.slot] = lastN
      /\ \A h \in Hosts : h # f.slot => b.shown[h] = a.shown[h] /\ b.last[h] = a.last[h]
  BY <1>0, <1>3 DEF Sound, Airs
<1>5. \A v : v = f.state => Settled(b, f.slot, f.report, v)
  BY <1>4, <1>r DEF Settled
<1>6. ASSUME NEW h \in Hosts, NEW r \in Reports, <<h, r>> # Key(f), NEW v, Settled(a, h, r, v)
      PROVE  Settled(b, h, r, v)
  <2>1. b.shown[h][r] = a.shown[h][r]
    BY <1>0, <1>4, <1>r, <1>6
  <2>2. <<h, r>> \in a.behind => <<h, r>> \in b.behind
    BY <1>3, <1>6
  <2>3. <<h, r>> \in a.cut => <<h, r>> \in b.cut
    BY <1>3, <1>6
  <2>. QED  BY <1>3, <1>6, <2>1, <2>2, <2>3 DEF Settled
<1>7. f.slot \in link
  BY <1>0 DEF Sound, Linked
<1>8. Linked(b)
  BY <1>3, <1>4, <1>7 DEF Sound, Linked
<1>9. Silent(b)
  <2>1. ASSUME NEW h \in Hosts, NEW r \in Reports, b.subs[h][r] = "none" PROVE Settled(b, h, r, Idle)
    <3>1. <<h, r>> # Key(f)
      BY <1>0, <1>3, <2>1
    <3>2. Settled(a, h, r, Idle)
      BY <1>3, <2>1 DEF Sound, Silent
    <3>. QED  BY <1>6, <3>1, <3>2
  <2>. QED  BY <2>1 DEF Silent
<1>10. OnRecord(b)
  <2>1. ASSUME NEW h \in Hosts, Mouse \in Reports PROVE Settled(b, h, Mouse, b.last[h])
    <3>1. CASE <<h, Mouse>> = Key(f)
      BY <1>0, <1>4, <1>5, <1>l, <3>1
    <3>2. CASE <<h, Mouse>> # Key(f)
      <4>1. b.last[h] = a.last[h]
        BY <1>0, <1>4, <1>l, <3>2
      <4>. QED  BY <1>6, <2>1, <3>2, <4>1 DEF Sound, OnRecord
    <3>. QED  BY <3>1, <3>2
  <2>. QED  BY <2>1 DEF OnRecord
<1>11. ASSUME NEW h \in Hosts, Fresh(b, h) PROVE Fresh(a, h)
  <2>1. <<h, Mouse>> # Key(f)
    BY <1>0, <1>3, <1>7, <1>11 DEF Fresh
  <2>. QED  BY <1>3, <1>11, <2>1 DEF Fresh
<1>. QED  BY <1>3, <1>5, <1>6, <1>8, <1>9, <1>10, <1>11 DEF Sound

\* However a frame fares, its report is settled at its state, and the mouse
\* of its host is not fresh any more if it was one of the mouse.
LEMMA SendToFacts ==
  ASSUME NEW a, Sound(a), NEW f \in Frames, NEW b \in SendTo(a, f)
  PROVE  /\ Sound(b) /\ b.pending = a.pending
         /\ Settled(b, f.slot, f.report, f.state)
         /\ \A h \in Hosts, r \in Reports : <<h, r>> # Key(f) =>
              b.subs[h][r] = a.subs[h][r] /\ \A v : Settled(a, h, r, v) => Settled(b, h, r, v)
         /\ \A h \in Hosts, r \in Reports : a.subs[h][r] = "none" => b.subs[h][r] = "none"
         /\ \A h \in Hosts : Fresh(b, h) => Fresh(a, h) /\ Key(f) # <<h, Mouse>>
<1>0. f.slot \in Hosts /\ f.report \in Reports /\ f.state \in States /\ Key(f) = <<f.slot, f.report>>
  BY DEF Frames, Key
<1>. DEFINE sub == a.subs[f.slot][f.report]
            fs == <<f>>
            gone == ForgetSub(a, f.slot, f.report)
<1>f. fs \in Seq(Frames) /\ 1 \in DOMAIN fs /\ fs[1] = f
  OBVIOUS
<1>1. \/ sub = "none" /\ b = Lost(a, fs)
      \/ sub = "live" /\ b = Shows(a, f)
      \/ b = Lost(gone, fs)
      \/ sub = "live" /\ MotionOnly(f, a.last[f.slot]) /\ b = a
  BY DEF SendTo
<1>. HIDE DEF fs, gone
<1>2. CASE sub = "none" /\ b = Lost(a, fs)
  <2>1. /\ Sound(b) /\ b.pending = a.pending /\ b.subs = a.subs /\ Key(f) \in b.behind
        /\ \A h \in Hosts, r \in Reports : \A v : Settled(a, h, r, v) => Settled(b, h, r, v)
        /\ \A h \in Hosts : Fresh(b, h) => Fresh(a, h)
    BY <1>2, <1>f, LostFacts
  <2>2. Settled(b, f.slot, f.report, Idle)
    BY <1>0, <1>2, <2>1 DEF Sound, Silent
  <2>3. Settled(b, f.slot, f.report, f.state)
    BY <1>0, <2>1, <2>2 DEF Settled
  <2>4. \A h \in Hosts : Fresh(b, h) => Key(f) # <<h, Mouse>>
    BY <2>1 DEF Fresh
  <2>. QED  BY <2>1, <2>3, <2>4
<1>3. CASE sub = "live" /\ b = Shows(a, f)
  <2>1. /\ Sound(b) /\ b.pending = a.pending /\ b.subs = a.subs
        /\ Settled(b, f.slot, f.report, f.state)
        /\ \A h \in Hosts, r \in Reports : <<h, r>> # Key(f) => \A v : Settled(a, h, r, v) => Settled(b, h, r, v)
        /\ \A h \in Hosts : Fresh(b, h) => Fresh(a, h)
    BY <1>3, ShowsFacts
  <2>2. f.slot \in link
    BY <1>0, <1>3 DEF Sound, Linked
  <2>3. \A h \in Hosts : Fresh(b, h) => Key(f) # <<h, Mouse>>
    BY <1>0, <1>3, <2>1, <2>2 DEF Fresh
  <2>. QED  BY <2>1, <2>3
<1>4. CASE b = Lost(gone, fs)
  <2>1. /\ Sound(gone) /\ gone.pending = a.pending /\ gone.subs[f.slot][f.report] = "none"
        /\ SubsBut(a, gone, Key(f))
        /\ \A h \in Hosts, r \in Reports : \A v : Settled(a, h, r, v) => Settled(gone, h, r, v)
        /\ \A h \in Hosts : Fresh(gone, h) => Fresh(a, h)
    BY <1>0, ForgetFacts DEF gone
  <2>s. \A h \in Hosts, r \in Reports : <<h, r>> # Key(f) => gone.subs[h][r] = a.subs[h][r]
    BY <2>1 DEF SubsBut
  <2>2. /\ Sound(b) /\ b.pending = gone.pending /\ b.subs = gone.subs /\ Key(f) \in b.behind
        /\ \A h \in Hosts, r \in Reports : \A v : Settled(gone, h, r, v) => Settled(b, h, r, v)
        /\ \A h \in Hosts : Fresh(b, h) => Fresh(gone, h)
    BY <1>4, <1>f, <2>1, LostFacts
  <2>3. Settled(b, f.slot, f.report, Idle)
    BY <1>0, <2>1, <2>2 DEF Sound, Silent
  <2>4. Settled(b, f.slot, f.report, f.state)
    BY <1>0, <2>2, <2>3 DEF Settled
  <2>5. \A h \in Hosts : Fresh(b, h) => Key(f) # <<h, Mouse>>
    BY <2>2 DEF Fresh
  <2>6. ASSUME NEW h \in Hosts, NEW r \in Reports, a.subs[h][r] = "none" PROVE b.subs[h][r] = "none"
    BY <1>0, <2>1, <2>s, <2>2, <2>6
  <2>. QED  BY <2>1, <2>s, <2>2, <2>4, <2>5, <2>6
<1>5. CASE sub = "live" /\ MotionOnly(f, a.last[f.slot]) /\ b = a
  <2>1. f.report = Mouse /\ f.state = a.last[f.slot]
    BY <1>5 DEF MotionOnly
  <2>2. Settled(b, f.slot, f.report, f.state)
    BY <1>0, <1>5, <2>1 DEF Sound, OnRecord
  <2>3. f.slot \in link
    BY <1>0, <1>5 DEF Sound, Linked
  <2>4. \A h \in Hosts : Fresh(b, h) => Key(f) # <<h, Mouse>>
    BY <1>0, <1>5, <2>3 DEF Fresh
  <2>. QED  BY <1>5, <2>2, <2>4
<1>. QED  BY <1>1, <1>2, <1>3, <1>4, <1>5

-----------------------------------------------------------------------------
(* Routing a frame.                                                        *)

\* v is the newest state held for the report, or with none held what the host
\* has come to.
Current(a, h, r, v) ==
  \/ LastIs(a.pending.buffer, h, r, v)
  \/ Without(a.pending.buffer, h, r) /\ Settled(a, h, r, v)

\* What is held is for one host, which has not subscribed to those reports.
Waits(a, reports) ==
  \A i \in DOMAIN a.pending.buffer :
    LET f == a.pending.buffer[i]
    IN  f.slot = a.pending.host /\ (f.report \in reports => a.subs[f.slot][f.report] = "none")

\* The buffer's buttons are those of the newest mouse frame held.
Buttons(a) ==
  a.pending.host \in Hosts /\ Mouse \in Reports =>
    \/ LastIs(a.pending.buffer, a.pending.host, Mouse, a.pending.buttons)
    \/ /\ Without(a.pending.buffer, a.pending.host, Mouse)
       /\ Fresh(a, a.pending.host) => a.pending.buttons = Idle

Orderly(a) == Sound(a) /\ Waits(a, Reports) /\ Buttons(a) /\ Len(a.pending.buffer) <= BufferCap

\* What is held has no part in what the hosts show.
LEMMA HoldingFacts ==
  ASSUME NEW a, Sound(a), NEW p \in Pendings, NEW b, b = Holding(a, p)
  PROVE  /\ Sound(b) /\ b.pending = p /\ b.subs = a.subs /\ b.leaving = a.leaving
         /\ \A h, r : \A v : Settled(a, h, r, v) <=> Settled(b, h, r, v)
         /\ \A h : Fresh(b, h) <=> Fresh(a, h)
<1>1. /\ b \in Airs /\ b.pending = p /\ b.subs = a.subs /\ b.last = a.last /\ b.leaving = a.leaving
      /\ b.shown = a.shown /\ b.behind = a.behind /\ b.cut = a.cut
  BY DEF Holding, Sound, Airs
<1>2. \A h, r : \A v : Settled(a, h, r, v) <=> Settled(b, h, r, v)
  BY <1>1 DEF Settled
<1>3. Sound(b)
  BY <1>1, <1>2 DEF Sound, Linked, Silent, OnRecord
<1>. QED  BY <1>1, <1>2, <1>3 DEF Fresh

\* Changing buffer and buttons is holding something else for the same host.
LEMMA HoldingBuffer ==
  ASSUME NEW a \in Airs, NEW x \in Seq(Frames), NEW y \in States
  PROVE  [a EXCEPT !.pending.buffer = x, !.pending.buttons = y]
           = Holding(a, [host |-> a.pending.host, buffer |-> x, buttons |-> y])
<1>. DEFINE p == [host |-> a.pending.host, buffer |-> x, buttons |-> y]
            b == [a EXCEPT !.pending.buffer = x, !.pending.buttons = y]
<1>1. a.pending \in Pendings /\ p \in Pendings
  BY DEF Airs, Pendings
<1>2. [[a.pending EXCEPT !.buffer = x] EXCEPT !.buttons = y] = p
  <2>1. PICK q : q = [[a.pending EXCEPT !.buffer = x] EXCEPT !.buttons = y]
    OBVIOUS
  <2>2. q \in Pendings /\ q.host = a.pending.host /\ q.buffer = x /\ q.buttons = y
    BY <1>1, <2>1 DEF Pendings
  <2>3. p.host = a.pending.host /\ p.buffer = x /\ p.buttons = y
    OBVIOUS
  <2>. HIDE DEF p
  <2>4. q = p
    BY <1>1, <2>2, <2>3 DEF Pendings
  <2>. QED  BY <2>1, <2>4
<1>3. b = [a EXCEPT !.pending = [[a.pending EXCEPT !.buffer = x] EXCEPT !.buttons = y]]
  BY DEF Airs
<1>. HIDE DEF p
<1>4. b = [a EXCEPT !.pending = p]
  BY <1>2, <1>3
<1>5. b = Holding(a, p)
  <2>. HIDE DEF b
  <2>1. b \in Airs /\ b.pending = p /\ b.subs = a.subs /\ b.last = a.last /\ b.leaving = a.leaving
        /\ b.shown = a.shown /\ b.behind = a.behind /\ b.cut = a.cut
    BY <1>1, <1>4 DEF Airs
  <2>2. PICK c : c = Holding(a, p)
    OBVIOUS
  <2>3. c \in Airs /\ c.pending = p /\ c.subs = a.subs /\ c.last = a.last /\ c.leaving = a.leaving
        /\ c.shown = a.shown /\ c.behind = a.behind /\ c.cut = a.cut
    BY <1>1, <2>2 DEF Holding, Airs
  <2>. QED  BY <2>1, <2>2, <2>3 DEF Airs
<1>. QED  BY <1>5 DEF p

\* A frame pushed is the newest of its report, and nothing held of another is lost unnoted.
LEMMA PushFacts ==
  ASSUME NEW a, Orderly(a), NEW f \in Frames, f.slot = a.pending.host,
         a.subs[f.slot][f.report] = "none", NEW b, b = Push(a, f)
  PROVE  /\ Orderly(b) /\ b.pending.host = a.pending.host
         /\ Current(b, f.slot, f.report, f.state)
         /\ \A h \in Hosts, r \in Reports : <<h, r>> # Key(f) => \A v : Current(a, h, r, v) => Current(b, h, r, v)
<1>0. f.slot \in Hosts /\ f.report \in Reports /\ f.state \in States /\ Key(f) = <<f.slot, f.report>>
  BY DEF Frames, Key
<1>s. /\ Sound(a) /\ Waits(a, Reports) /\ Buttons(a) /\ Len(a.pending.buffer) <= BufferCap
      /\ a.pending \in Pendings /\ a.pending.buffer \in Seq(Frames)
  BY DEF Orderly, Sound, Airs, Pendings
<1>1. CASE MotionOnly(f, a.pending.buttons)
  <2>1. b = a /\ f.report = Mouse /\ f.state = a.pending.buttons
    BY <1>1 DEF Push, MotionOnly
  <2>2. Settled(a, f.slot, f.report, Idle)
    BY <1>0, <1>s DEF Sound, Silent
  <2>3. Current(a, f.slot, f.report, f.state)
    <3>1. CASE LastIs(a.pending.buffer, f.slot, Mouse, a.pending.buttons)
      BY <2>1, <3>1 DEF Current
    <3>2. CASE /\ Without(a.pending.buffer, f.slot, Mouse)
               /\ Fresh(a, f.slot) => a.pending.buttons = Idle
      <4>1. Settled(a, f.slot, f.report, f.state)
        BY <1>0, <2>1, <2>2, <3>2 DEF Fresh, Settled
      <4>. QED  BY <2>1, <3>2, <4>1 DEF Current
    <3>. QED  BY <1>0, <1>s, <2>1, <3>1, <3>2 DEF Buttons
  <2>. QED  BY <2>1, <2>3
<1>2. CASE ~MotionOnly(f, a.pending.buttons)
  <2>. DEFINE buffer == a.pending.buffer
              full == Len(buffer) >= BufferCap
              room == IF full THEN Tail(buffer) ELSE buffer
              buttons == IF f.report = Mouse THEN f.state ELSE a.pending.buttons
              p == [host |-> a.pending.host, buffer |-> Append(room, f), buttons |-> buttons]
              kept == Holding(a, p)
              head == <<Head(buffer)>>
  <2>1. /\ BufferCap \in Nat \ {0} /\ Len(buffer) \in Nat
        /\ full => buffer # <<>>
    BY <1>s, HandoffAssumption
  <2>2. /\ room \in Seq(Frames) /\ Len(room) < BufferCap
        /\ \A i \in DOMAIN room : \E j \in DOMAIN buffer : room[i] = buffer[j]
        /\ full => head \in Seq(Frames) /\ 1 \in DOMAIN head /\ head[1] = Head(buffer)
    BY <1>s, <2>1
  <2>3. \A h, r : /\ Without(buffer, h, r) => Without(room, h, r)
                  /\ \A v : LastIs(buffer, h, r, v) =>
                       \/ LastIs(room, h, r, v)
                       \/ Without(room, h, r) /\ full /\ Key(Head(buffer)) = <<h, r>>
    <3>1. CASE full
      BY <1>s, <2>1, <3>1, TakeNewest
    <3>2. CASE ~full
      BY <3>2
    <3>. QED  BY <3>1, <3>2
  <2>4. p \in Pendings
    BY <1>0, <1>s, <2>2 DEF Pendings
  <2>5. b = IF full THEN Lost(kept, head) ELSE kept
    <3>. DEFINE pushed == [a EXCEPT !.pending.buffer = Append(room, f),
                                    !.pending.buttons = IF f.report = Mouse THEN f.state ELSE @]
    <3>1. b = IF full THEN Lost(pushed, head) ELSE pushed
      BY <1>2, Zenon DEF Push
    <3>2. pushed = kept
      <4>1. pushed = [a EXCEPT !.pending.buffer = Append(room, f), !.pending.buttons = buttons]
        BY <1>s DEF Sound, Airs, Pendings
      <4>. HIDE DEF room, buttons, pushed
      <4>2. Append(room, f) \in Seq(Frames) /\ buttons \in States /\ a \in Airs
        BY <1>0, <1>s, <2>2 DEF buttons, Pendings, Sound
      <4>. QED  BY <4>1, <4>2, HoldingBuffer DEF p, kept
    <3>. QED  BY <3>1, <3>2
  <2>. HIDE DEF room, buttons, head
  <2>6. /\ Append(room, f) \in Seq(Frames) /\ Len(Append(room, f)) <= BufferCap
        /\ \A i \in DOMAIN Append(room, f) :
             Append(room, f)[i] = f \/ \E j \in DOMAIN buffer : Append(room, f)[i] = buffer[j]
    BY <1>s, <2>1, <2>2
  <2>7. /\ Sound(kept) /\ kept.pending = p /\ kept.subs = a.subs
        /\ \A h, r : \A v : Settled(a, h, r, v) <=> Settled(kept, h, r, v)
        /\ \A h : Fresh(kept, h) <=> Fresh(a, h)
    <3>. HIDE DEF p, kept
    <3>. QED  BY <1>s, <2>4, HoldingFacts DEF kept
  <2>8. /\ Sound(b) /\ b.pending = p /\ b.subs = a.subs
        /\ \A h \in Hosts, r \in Reports : \A v : Settled(a, h, r, v) => Settled(b, h, r, v)
        /\ \A h \in Hosts : Fresh(b, h) => Fresh(a, h)
        /\ full => Key(Head(buffer)) \in b.behind
    <3>. HIDE DEF p, kept
    <3>1. CASE full
      BY <2>2, <2>5, <2>7, <3>1, LostFacts
    <3>2. CASE ~full
      BY <2>5, <2>7, <3>2
    <3>. QED  BY <3>1, <3>2
  <2>9. b.pending.host = a.pending.host /\ b.pending.buffer = Append(room, f) /\ b.pending.buttons = buttons
    BY <2>8
  <2>. HIDE DEF p, kept
  <2>10. Current(b, f.slot, f.report, f.state)
    BY <1>0, <2>2, <2>9, AppendNewest DEF Current
  <2>11. ASSUME NEW h \in Hosts, NEW r \in Reports, <<h, r>> # Key(f), NEW v, Current(a, h, r, v)
         PROVE  Current(b, h, r, v)
    <3>1. /\ Without(Append(room, f), h, r) <=> Without(room, h, r)
          /\ LastIs(Append(room, f), h, r, v) <=> LastIs(room, h, r, v)
      BY <2>2, <2>11, AppendNewest
    <3>2. CASE LastIs(room, h, r, v)
      BY <2>9, <3>1, <3>2 DEF Current
    <3>3. CASE Without(room, h, r) /\ full /\ Key(Head(buffer)) = <<h, r>>
      <4>1. a.subs[h][r] = "none"
        BY <1>s, <2>1, <3>3 DEF Waits, Key
      <4>2. Settled(b, h, r, Idle)
        BY <2>8, <4>1 DEF Sound, Silent
      <4>3. Settled(b, h, r, v)
        BY <2>8, <3>3, <4>2 DEF Settled
      <4>. QED  BY <2>9, <3>1, <3>3, <4>3 DEF Current
    <3>4. CASE Without(buffer, h, r) /\ Settled(a, h, r, v)
      BY <2>3, <2>8, <2>9, <3>1, <3>4 DEF Current
    <3>. QED  BY <2>3, <2>11, <3>2, <3>3, <3>4 DEF Current
  <2>12. Waits(b, Reports)
    BY <1>s, <2>6, <2>8, <2>9 DEF Waits
  <2>13. Buttons(b)
    <3>. DEFINE h == f.slot
    <3>1. CASE f.report = Mouse
      <4>1. LastIs(Append(room, f), h, Mouse, buttons)
        BY <1>0, <2>2, <3>1, AppendNewest DEF buttons
      <4>. QED  BY <2>9, <4>1 DEF Buttons
    <3>2. CASE f.report # Mouse
      <4>1. /\ buttons = a.pending.buttons
            /\ Without(Append(room, f), h, Mouse) <=> Without(room, h, Mouse)
            /\ LastIs(Append(room, f), h, Mouse, buttons) <=> LastIs(room, h, Mouse, buttons)
        <5>1. buttons = a.pending.buttons
          BY <3>2 DEF buttons
        <5>2. Key(f) # <<h, Mouse>>
          BY <1>0, <3>2
        <5>. QED  BY <2>2, <5>1, <5>2, AppendNewest
      <4>2. ASSUME Mouse \in Reports
            PROVE  \/ LastIs(Append(room, f), h, Mouse, buttons)
                   \/ Without(Append(room, f), h, Mouse) /\ (Fresh(b, h) => buttons = Idle)
        <5>1. CASE LastIs(buffer, h, Mouse, buttons)
          <6>1. CASE Without(room, h, Mouse) /\ full /\ Key(Head(buffer)) = <<h, Mouse>>
            BY <2>8, <4>1, <6>1 DEF Fresh
          <6>. QED  BY <2>3, <4>1, <5>1, <6>1
        <5>2. CASE Without(buffer, h, Mouse) /\ (Fresh(a, h) => buttons = Idle)
          BY <1>0, <2>3, <2>8, <4>1, <5>2
        <5>. QED  BY <1>0, <1>s, <4>1, <4>2, <5>1, <5>2 DEF Buttons
      <4>. QED  BY <2>9, <4>2 DEF Buttons
    <3>. QED  BY <3>1, <3>2
  <2>. QED  BY <2>6, <2>8, <2>9, <2>10, <2>11, <2>12, <2>13 DEF Orderly
<1>. QED  BY <1>1, <1>2

\* A frame routed is current for its own host and report, and leaves the others current.
LEMMA RouteFacts ==
  ASSUME NEW a, Orderly(a), NEW f \in Frames, NEW b \in RouteFrame(a, f)
  PROVE  /\ Orderly(b) /\ b.pending.host = a.pending.host
         /\ Current(b, f.slot, f.report, f.state)
         /\ \A h \in Hosts, r \in Reports : <<h, r>> # Key(f) => \A v : Current(a, h, r, v) => Current(b, h, r, v)
<1>0. f.slot \in Hosts /\ f.report \in Reports /\ f.state \in States /\ Key(f) = <<f.slot, f.report>>
  BY DEF Frames, Key
<1>1. CASE a.pending.host = f.slot /\ a.subs[f.slot][f.report] = "none"
  BY <1>1, PushFacts DEF RouteFrame
<1>2. CASE ~(a.pending.host = f.slot /\ a.subs[f.slot][f.report] = "none")
  <2>1. /\ Sound(b) /\ b.pending = a.pending
        /\ Settled(b, f.slot, f.report, f.state)
        /\ \A h \in Hosts, r \in Reports : <<h, r>> # Key(f) =>
             b.subs[h][r] = a.subs[h][r] /\ \A v : Settled(a, h, r, v) => Settled(b, h, r, v)
        /\ \A h \in Hosts, r \in Reports : a.subs[h][r] = "none" => b.subs[h][r] = "none"
        /\ \A h \in Hosts : Fresh(b, h) => Fresh(a, h) /\ Key(f) # <<h, Mouse>>
    <3>1. Sound(a) /\ b \in SendTo(a, f)
      BY <1>2 DEF RouteFrame, Orderly
    <3>. QED  BY <3>1, SendToFacts
  <2>2. Without(a.pending.buffer, f.slot, f.report)
    BY <1>0, <1>2 DEF Without, Orderly, Waits, Key
  <2>3. Current(b, f.slot, f.report, f.state)
    BY <2>1, <2>2 DEF Current
  <2>4. ASSUME NEW h \in Hosts, NEW r \in Reports, <<h, r>> # Key(f), NEW v, Current(a, h, r, v)
        PROVE  Current(b, h, r, v)
    BY <2>1, <2>4 DEF Current
  <2>5. Waits(b, Reports)
    <3>1. \A i \in DOMAIN a.pending.buffer : a.pending.buffer[i] \in Frames
      BY DEF Orderly, Sound, Airs, Pendings
    <3>2. \A g \in Frames : g.slot \in Hosts /\ g.report \in Reports
      BY DEF Frames
    <3>. QED  BY <2>1, <3>1, <3>2 DEF Orderly, Waits
  <2>6. Buttons(b)
    BY <2>1 DEF Orderly, Buttons
  <2>. QED  BY <2>1, <2>3, <2>4, <2>5, <2>6 DEF Orderly
<1>. QED  BY <1>1, <1>2

-----------------------------------------------------------------------------
(* Replaying.                                                              *)

Sounds == {a \in Airs : Sound(a)}
Outcomes == SUBSET Sounds
Each(outcomes, f) == UNION {SendTo(x, f) : x \in outcomes}

\* Sending a frame from sound states leaves sound states.
LEMMA EachType == ASSUME NEW outcomes \in Outcomes, NEW f \in Frames PROVE Each(outcomes, f) \in Outcomes
<1>. SUFFICES ASSUME NEW x \in outcomes, NEW b \in SendTo(x, f) PROVE b \in Sounds
  BY DEF Each, Outcomes
<1>1. Sound(x)
  BY DEF Sounds, Outcomes
<1>2. Sound(b)
  BY <1>1, SendToFacts
<1>. QED  BY <1>2 DEF Sounds, Sound

\* The outcomes of a batch, frame by frame.
LEMMA EachRun ==
  ASSUME NEW a \in Sounds, NEW fs \in Seq(Frames)
  PROVE  \E acc \in [0 .. Len(fs) -> Outcomes] :
           /\ acc[0] = {a}
           /\ \A n \in 1 .. Len(fs) : acc[n] = Each(acc[n-1], fs[n])
           /\ SendAll(a, fs) = acc[Len(fs)]
<1>. DEFINE L == Len(fs)
            D == 1 .. L
<1>0. L \in Nat /\ DOMAIN fs = D /\ (\A n \in D : fs[n] \in Frames) /\ {a} \in Outcomes
  BY DEF Outcomes
<1>. DEFINE Runs(it) == it = [s \in SUBSET D |-> IF s = {} THEN {a} ELSE Each(it[s \ {Max(s)}], fs[Max(s)])]
            it == CHOOSE it : Runs(it)
<1>1. SendAll(a, fs) = it[D]
  BY <1>0, Zenon DEF SendAll, Each, FoldLeft, MapThenFoldSet
<1>2. Runs(it)
  <2>. DEFINE G == [p \in D \X Outcomes |-> Each(p[2], fs[p[1]])]
  <2>1. G \in [D \X Outcomes -> Outcomes]
    BY <1>0, EachType
  <2>2. PICK f \in [SUBSET D -> Outcomes] : FoldsTo(f, G, {a}, D)
    <3>. HIDE DEF G
    <3>1. \A base \in Outcomes : \E f \in [SUBSET D -> Outcomes] : FoldsTo(f, G, base, D)
      BY <1>0, <2>1, FoldExists
    <3>. QED  BY <1>0, <3>1, Zenon
  <2>3. ASSUME NEW s \in SUBSET D, s # {}
        PROVE  G[<<Max(s), f[s \ {Max(s)}]>>] = Each(f[s \ {Max(s)}], fs[Max(s)])
    <3>1. Max(s) \in s
      BY <2>3, <1>0, MaxIn
    <3>2. <<Max(s), f[s \ {Max(s)}]>> \in D \X Outcomes
      BY <3>1
    <3>. QED  BY <3>2, Zenon
  <2>4. Runs(f)
    <3>. HIDE DEF G
    <3>. QED  BY <2>2, <2>3 DEF FoldsTo
  <2>. QED  BY <2>4
<1>3. ASSUME NEW s \in SUBSET D
      PROVE  it[s] = IF s = {} THEN {a} ELSE Each(it[s \ {Max(s)}], fs[Max(s)])
  <2>. HIDE DEF it, D
  <2>. QED  BY <1>2
<1>. HIDE DEF it
<1>. DEFINE acc == [n \in 0 .. L |-> it[1 .. n]]
<1>4. it[1 .. 0] = {a}
  <2>1. {} \in SUBSET D /\ it[{}] = {a}
    BY <1>3
  <2>. QED  BY <2>1, <1>0, Intervals
<1>5. ASSUME NEW n \in D PROVE it[1 .. n] = Each(it[1 .. n-1], fs[n])
  <2>1. 1 .. n \in SUBSET D /\ 1 .. n # {} /\ Max(1 .. n) = n /\ (1 .. n) \ {n} = 1 .. n-1
    BY <1>0, Intervals
  <2>2. it[1 .. n] = Each(it[(1 .. n) \ {Max(1 .. n)}], fs[Max(1 .. n)])
    <3>. HIDE DEF D
    <3>. QED  BY <1>3, <2>1
  <2>. QED  BY <2>1, <2>2
<1>6. /\ acc[0] = {a} /\ acc[L] = it[D]
      /\ \A n \in 1 .. L : acc[n] = Each(acc[n-1], fs[n])
  <2>. HIDE DEF L
  <2>. QED  BY <1>0, <1>4, <1>5
<1>7. \A n \in 0 .. L : acc[n] \in Outcomes
  <2>1. \A n \in 1 .. L : acc[n-1] \in Outcomes => acc[n] \in Outcomes
    <3>. HIDE DEF acc, L
    <3>. QED  BY <1>0, <1>6, EachType
  <2>. HIDE DEF acc, L
  <2>. QED  BY <1>0, <1>6, <2>1, RunType
<1>8. acc \in [0 .. L -> Outcomes]
  BY <1>7
<1>. QED
  <2>. HIDE DEF acc
  <2>. QED  BY <1>1, <1>6, <1>8

\* What is so once the frames have been sent: every report of theirs is settled
\* at the newest, the others are as they were.
SentAll(a, b, fs) ==
  /\ Sound(b) /\ b.pending = a.pending
  /\ \A h \in Hosts, r \in Reports :
       /\ a.subs[h][r] = "none" => b.subs[h][r] = "none"
       /\ Without(fs, h, r) => b.subs[h][r] = a.subs[h][r] /\ \A v : Settled(a, h, r, v) => Settled(b, h, r, v)
       /\ \A v : LastIs(fs, h, r, v) => Settled(b, h, r, v)
  /\ \A h \in Hosts : Fresh(b, h) => Fresh(a, h) /\ Without(fs, h, Mouse)

\* One frame more.
LEMMA SendOneMore ==
  ASSUME NEW a, NEW x, NEW fs \in Seq(Frames), SentAll(a, x, fs),
         NEW f \in Frames, NEW b \in SendTo(x, f)
  PROVE  SentAll(a, b, Append(fs, f))
<1>. DEFINE gs == Append(fs, f)
<1>0. f.slot \in Hosts /\ f.report \in Reports /\ Key(f) = <<f.slot, f.report>>
  BY DEF Frames, Key
<1>1. /\ Sound(b) /\ b.pending = x.pending
      /\ Settled(b, f.slot, f.report, f.state)
      /\ \A h \in Hosts, r \in Reports : <<h, r>> # Key(f) =>
           b.subs[h][r] = x.subs[h][r] /\ \A v : Settled(x, h, r, v) => Settled(b, h, r, v)
      /\ \A h \in Hosts, r \in Reports : x.subs[h][r] = "none" => b.subs[h][r] = "none"
      /\ \A h \in Hosts : Fresh(b, h) => Fresh(x, h) /\ Key(f) # <<h, Mouse>>
  BY SendToFacts DEF SentAll
<1>2. \A h, r : /\ Without(gs, h, r) <=> Key(f) # <<h, r>> /\ Without(fs, h, r)
                /\ Key(f) = <<h, r>> => LastIs(gs, h, r, f.state)
                /\ Key(f) # <<h, r>> => \A v : LastIs(gs, h, r, v) <=> LastIs(fs, h, r, v)
  BY AppendNewest
<1>3. \A h, r : Key(f) = <<h, r>> => \A v : LastIs(gs, h, r, v) => v = f.state
  <2>. SUFFICES ASSUME NEW h, NEW r, Key(f) = <<h, r>>, NEW v, LastIs(gs, h, r, v) PROVE v = f.state
    OBVIOUS
  <2>1. Len(gs) \in DOMAIN gs /\ gs[Len(gs)] = f /\ \A i \in DOMAIN gs : i \in Int /\ Len(gs) \in Int /\ i <= Len(gs)
    OBVIOUS
  <2>2. PICK i \in DOMAIN gs : gs[i].state = v /\ \A j \in DOMAIN gs : j > i => Key(gs[j]) # <<h, r>>
    BY DEF LastIs
  <2>. HIDE DEF gs
  <2>3. i = Len(gs)
    BY <2>1, <2>2
  <2>. QED  BY <2>1, <2>2, <2>3
<1>. HIDE DEF gs
<1>4. ASSUME NEW h \in Hosts, NEW r \in Reports
      PROVE  /\ a.subs[h][r] = "none" => b.subs[h][r] = "none"
             /\ Without(gs, h, r) => b.subs[h][r] = a.subs[h][r] /\ \A v : Settled(a, h, r, v) => Settled(b, h, r, v)
             /\ \A v : LastIs(gs, h, r, v) => Settled(b, h, r, v)
  <2>1. /\ a.subs[h][r] = "none" => x.subs[h][r] = "none"
        /\ Without(fs, h, r) => x.subs[h][r] = a.subs[h][r] /\ \A v : Settled(a, h, r, v) => Settled(x, h, r, v)
        /\ \A v : LastIs(fs, h, r, v) => Settled(x, h, r, v)
    BY Zenon DEF SentAll
  <2>2. CASE Key(f) = <<h, r>>
    <3>1. Settled(b, h, r, f.state)
      BY <1>0, <1>1, <2>2
    <3>. QED  BY <1>1, <1>2, <1>3, <2>1, <2>2, <3>1
  <2>3. CASE Key(f) # <<h, r>>
    <3>1. b.subs[h][r] = x.subs[h][r] /\ \A v : Settled(x, h, r, v) => Settled(b, h, r, v)
      BY <1>1, <2>3
    <3>2. (Without(gs, h, r) <=> Without(fs, h, r)) /\ \A v : LastIs(gs, h, r, v) <=> LastIs(fs, h, r, v)
      BY <1>2, <2>3
    <3>. QED  BY <2>1, <3>1, <3>2, Zenon
  <2>. QED  BY <2>2, <2>3
<1>5. \A h \in Hosts : Fresh(b, h) => Fresh(a, h) /\ Without(gs, h, Mouse)
  BY <1>1, <1>2 DEF SentAll
<1>6. b.pending = a.pending
  BY <1>1 DEF SentAll
<1>. QED  BY <1>1, <1>4, <1>5, <1>6 DEF SentAll, gs

\* After a batch each host has come to its newest frame there, or to what it had.
LEMMA SendAllFacts ==
  ASSUME NEW a, Sound(a), NEW fs \in Seq(Frames), NEW b \in SendAll(a, fs)
  PROVE  SentAll(a, b, fs)
<1>. DEFINE L == Len(fs)
<1>0. L \in Nat /\ (\A n \in 1 .. L : fs[n] \in Frames) /\ a \in Sounds
  BY DEF Sounds, Sound
<1>1. PICK acc \in [0 .. L -> Outcomes] :
        /\ acc[0] = {a}
        /\ \A n \in 1 .. L : acc[n] = Each(acc[n-1], fs[n])
        /\ SendAll(a, fs) = acc[L]
  BY <1>0, EachRun
<1>. DEFINE Every(n) == \A x \in acc[n] : SentAll(a, x, SubSeq(fs, 1, n))
            T == {n \in 0 .. L : Every(n)}
<1>2. 0 \in T
  <2>1. SubSeq(fs, 1, 0) = <<>>
    BY PrefixFacts
  <2>2. \A h, r, v : Without(<<>>, h, r) /\ ~LastIs(<<>>, h, r, v)
    BY DEF Without, LastIs
  <2>3. SentAll(a, a, <<>>)
    BY <2>2 DEF SentAll
  <2>4. Every(0)
    BY <1>1, <2>1, <2>3
  <2>. HIDE DEF Every
  <2>. QED  BY <1>0, <2>4
<1>3. ASSUME NEW n \in 1 .. L, n-1 \in T PROVE n \in T
  <2>. DEFINE p == SubSeq(fs, 1, n-1)
  <2>1. p \in Seq(Frames) /\ SubSeq(fs, 1, n) = Append(p, fs[n]) /\ fs[n] \in Frames
    BY <1>0, PrefixFacts
  <2>2. ASSUME NEW y \in acc[n] PROVE SentAll(a, y, Append(p, fs[n]))
    <3>1. PICK x \in acc[n-1] : y \in SendTo(x, fs[n])
      BY <1>1, <2>2 DEF Each
    <3>2. SentAll(a, x, p)
      BY <1>3
    <3>. HIDE DEF p
    <3>. QED  BY <2>1, <3>1, <3>2, SendOneMore
  <2>3. Every(n)
    BY <2>1, <2>2
  <2>. HIDE DEF Every
  <2>. QED  BY <1>0, <2>3
<1>4. Every(L)
  <2>1. \A n \in 0 .. L : n \in T
    <3>. HIDE DEF T, L
    <3>. QED  BY <1>0, <1>2, <1>3, BoundedInduction
  <2>. HIDE DEF Every
  <2>. QED  BY <1>0, <2>1
<1>5. SubSeq(fs, 1, L) = fs
  BY PrefixFacts
<1>. QED  BY <1>0, <1>1, <1>4, <1>5

-----------------------------------------------------------------------------
(* The other things a handler does to what is held and to the hosts.       *)

\* A handler that sends nothing and leaves alone what is held.
LEMMA NothingSent ==
  ASSUME NEW a, Orderly(a), NEW b, Sound(b), b.pending = a.pending,
         \A h \in Hosts, r \in Reports : a.subs[h][r] = "none" => b.subs[h][r] = "none",
         \A h \in Hosts, r \in Reports : \A v : Settled(a, h, r, v) => Settled(b, h, r, v),
         \A h \in Hosts : Fresh(b, h) => Fresh(a, h)
  PROVE  /\ Orderly(b)
         /\ \A h \in Hosts, r \in Reports : \A v : Current(a, h, r, v) => Current(b, h, r, v)
<1>1. \A h \in Hosts, r \in Reports : \A v : Current(a, h, r, v) => Current(b, h, r, v)
  BY DEF Current
<1>2. Waits(b, Reports)
  <2>1. \A i \in DOMAIN a.pending.buffer : a.pending.buffer[i] \in Frames
    BY DEF Orderly, Sound, Airs, Pendings
  <2>2. \A g \in Frames : g.slot \in Hosts /\ g.report \in Reports
    BY DEF Frames
  <2>. QED  BY <2>1, <2>2 DEF Orderly, Waits
<1>3. Buttons(b)
  BY DEF Orderly, Buttons
<1>. QED  BY <1>1, <1>2, <1>3 DEF Orderly

\* Dropping hosts forgets their subscriptions and leaves what they show.
LEMMA DropFacts ==
  ASSUME link \subseteq Hosts, NEW a, Sound(a), NEW gone, NEW b, b = DropPeers(a, gone)
  PROVE  /\ Sound(b) /\ b.pending = a.pending /\ b.shown = a.shown
         /\ b.behind = a.behind /\ b.cut = a.cut /\ b.leaving = a.leaving \cup (gone \cap link)
         /\ \A h \in Hosts, r \in Reports : /\ h \in gone => b.subs[h][r] = "none"
                                            /\ h \notin gone => b.subs[h][r] = a.subs[h][r]
         /\ \A h \in Hosts, r \in Reports : \A v : Settled(a, h, r, v) => Settled(b, h, r, v)
         /\ \A h \in Hosts : Fresh(b, h) => Fresh(a, h)
<1>1. PICK subsN \in [Hosts -> [Reports -> {"none", "live", "dead"}]] :
        subsN = [h \in Hosts |-> IF h \in gone THEN ByReport("none") ELSE a.subs[h]]
  BY DEF Sound, Airs, ByReport
<1>2. PICK lastN \in [Hosts -> States] : lastN = [h \in Hosts |-> IF h \in gone THEN Idle ELSE a.last[h]]
  BY DEF Sound, Airs, States
<1>3. b = [a EXCEPT !.subs = subsN, !.last = lastN, !.leaving = @ \cup (gone \cap link)]
  BY <1>1, <1>2 DEF DropPeers, ByReport
<1>4. PICK leavingN \in SUBSET Hosts : leavingN = a.leaving \cup (gone \cap link)
  BY DEF Sound, Airs
<1>5. b = [a EXCEPT !.subs = subsN, !.last = lastN, !.leaving = leavingN]
  BY <1>3, <1>4
<1>6. /\ b \in Airs /\ b.pending = a.pending /\ b.shown = a.shown /\ b.behind = a.behind /\ b.cut = a.cut
      /\ b.subs = subsN /\ b.last = lastN /\ b.leaving = leavingN
  BY <1>5 DEF Sound, Airs
<1>7. \A h \in Hosts : /\ h \in gone => (\A r \in Reports : subsN[h][r] = "none") /\ lastN[h] = Idle
                       /\ h \notin gone => subsN[h] = a.subs[h] /\ lastN[h] = a.last[h]
  BY <1>1, <1>2 DEF ByReport
<1>8. \A h \in Hosts, r \in Reports : \A v : Settled(a, h, r, v) => Settled(b, h, r, v)
  BY <1>4, <1>6 DEF Settled
<1>9. \A h \in Hosts : h \in gone => \A r \in Reports : Settled(b, h, r, Idle)
  BY <1>4, <1>6 DEF Settled, Sound, Linked
<1>10. Linked(b)
  BY <1>4, <1>6, <1>7 DEF Sound, Linked
<1>11. Silent(b)
  BY <1>6, <1>7, <1>8, <1>9 DEF Sound, Silent
<1>12. OnRecord(b)
  <2>1. ASSUME NEW h \in Hosts, Mouse \in Reports PROVE Settled(b, h, Mouse, b.last[h])
    <3>1. CASE h \in gone
      BY <1>6, <1>7, <1>9, <2>1, <3>1
    <3>2. CASE h \notin gone
      BY <1>6, <1>7, <1>8, <2>1, <3>2 DEF Sound, OnRecord
    <3>. QED  BY <3>1, <3>2
  <2>. QED  BY <2>1 DEF OnRecord
<1>13. ASSUME NEW h \in Hosts, Fresh(b, h) PROVE Fresh(a, h)
  <2>1. CASE h \in gone
    BY <1>4, <1>6, <1>13, <2>1 DEF Fresh
  <2>2. CASE h \notin gone
    BY <1>4, <1>6, <1>7, <1>13, <2>2 DEF Fresh
  <2>. QED  BY <2>1, <2>2
<1>14. \A h \in Hosts, r \in Reports : /\ h \in gone => b.subs[h][r] = "none"
                                       /\ h \notin gone => b.subs[h][r] = a.subs[h][r]
  BY <1>6, <1>7
<1>. QED  BY <1>4, <1>6, <1>8, <1>10, <1>11, <1>12, <1>13, <1>14 DEF Sound

\* With nothing held, for no host.
LEMMA NothingHeld == NoPending \in Pendings /\ NoPending.host \notin Hosts /\ NoPending.buffer = <<>>
BY HandoffAssumption DEF NoPending, Pendings, Slots, States

\* What is thrown away is lost, for a host that has no subscription to it.
LEMMA DiscardFacts ==
  ASSUME NEW a, Orderly(a), NEW b, b = Discard(a)
  PROVE  /\ Orderly(b) /\ b.pending = NoPending
         /\ b.subs = a.subs /\ b.leaving = a.leaving /\ b.cut = a.cut /\ b.shown = a.shown
         /\ \A h \in Hosts, r \in Reports : \A v : Current(a, h, r, v) => Current(b, h, r, v)
<1>. DEFINE buffer == a.pending.buffer
            c == Lost(a, buffer)
<1>s. buffer \in Seq(Frames) /\ Sound(a)
  BY DEF Orderly, Sound, Airs, Pendings
<1>1. /\ Sound(c) /\ c.pending = a.pending /\ c.subs = a.subs
      /\ \A i \in DOMAIN buffer : Key(buffer[i]) \in c.behind
      /\ \A h \in Hosts, r \in Reports : \A v : Settled(a, h, r, v) => Settled(c, h, r, v)
  BY <1>s, LostFacts
<1>c. c.leaving = a.leaving /\ c.cut = a.cut /\ c.shown = a.shown
  BY <1>s DEF Lost, Sound, Airs
<1>2. b = [c EXCEPT !.pending = NoPending]
  BY DEF Discard
<1>. HIDE DEF c
<1>3. b = Holding(c, NoPending)
  <2>1. PICK d : d = Holding(c, NoPending)
    OBVIOUS
  <2>2. /\ d \in Airs /\ d.pending = NoPending /\ d.subs = c.subs /\ d.last = c.last /\ d.leaving = c.leaving
        /\ d.shown = c.shown /\ d.behind = c.behind /\ d.cut = c.cut
    BY <1>1, <2>1, NothingHeld DEF Holding, Sound, Airs
  <2>3. /\ b \in Airs /\ b.pending = NoPending /\ b.subs = c.subs /\ b.last = c.last /\ b.leaving = c.leaving
        /\ b.shown = c.shown /\ b.behind = c.behind /\ b.cut = c.cut
    BY <1>1, <1>2, NothingHeld DEF Sound, Airs
  <2>4. b = d
    BY <2>2, <2>3 DEF Airs
  <2>. QED  BY <2>1, <2>4
<1>4. /\ Sound(b) /\ b.pending = NoPending /\ b.subs = c.subs /\ b.leaving = c.leaving
      /\ \A h, r : \A v : Settled(c, h, r, v) <=> Settled(b, h, r, v)
  BY <1>1, <1>3, NothingHeld, HoldingFacts
<1>d. b.cut = c.cut /\ b.shown = c.shown
  BY <1>3 DEF Holding
<1>5. ASSUME NEW h \in Hosts, NEW r \in Reports, NEW v, Current(a, h, r, v) PROVE Current(b, h, r, v)
  <2>1. Settled(c, h, r, v)
    <3>1. CASE LastIs(buffer, h, r, v)
      <4>1. PICK i \in DOMAIN buffer : Key(buffer[i]) = <<h, r>>
        BY <3>1 DEF LastIs
      <4>2. a.subs[h][r] = "none"
        BY <4>1 DEF Orderly, Waits, Key
      <4>3. Settled(c, h, r, Idle)
        BY <1>1, <4>2 DEF Sound, Silent
      <4>. QED  BY <1>1, <4>1, <4>3 DEF Settled
    <3>2. CASE Settled(a, h, r, v)
      BY <1>1, <3>2
    <3>. QED  BY <1>5, <3>1, <3>2 DEF Current
  <2>. QED  BY <1>4, <2>1, NothingHeld, EmptyHasNone DEF Current
<1>6. Orderly(b)
  <2>1. Len(<<>>) <= BufferCap /\ DOMAIN <<>> = {}
    BY HandoffAssumption
  <2>. QED  BY <1>4, <2>1, NothingHeld DEF Orderly, Waits, Buttons
<1>. QED  BY <1>1, <1>c, <1>4, <1>d, <1>5, <1>6

\* Arming with nothing held leaves everything current.
LEMMA ArmFacts ==
  ASSUME active \in Slots, NEW a, Orderly(a), a.pending = NoPending, NEW b, b = ArmPending(a)
  PROVE  /\ Orderly(b)
         /\ b.subs = a.subs /\ b.leaving = a.leaving /\ b.cut = a.cut /\ b.shown = a.shown
         /\ \A h \in Hosts, r \in Reports : \A v : Current(a, h, r, v) => Current(b, h, r, v)
<1>1. CASE b = a
  BY <1>1
<1>2. CASE b = [a EXCEPT !.pending = [NoPending EXCEPT !.host = active]]
  <2>. DEFINE p == [host |-> active, buffer |-> <<>>, buttons |-> Idle]
  <2>1. p \in Pendings /\ p.buffer = <<>> /\ p.buttons = Idle
    BY DEF Pendings, States
  <2>2. [NoPending EXCEPT !.host = active] = p
    BY DEF NoPending
  <2>. HIDE DEF p
  <2>3. /\ b \in Airs /\ b.pending = p /\ b.subs = a.subs /\ b.last = a.last /\ b.leaving = a.leaving
        /\ b.shown = a.shown /\ b.behind = a.behind /\ b.cut = a.cut
    BY <1>2, <2>1, <2>2 DEF Orderly, Sound, Airs
  <2>4. \A h, r : \A v : Settled(a, h, r, v) <=> Settled(b, h, r, v)
    BY <2>3 DEF Settled
  <2>5. Sound(b)
    BY <2>3, <2>4 DEF Orderly, Sound, Linked, Silent, OnRecord
  <2>6. \A h \in Hosts, r \in Reports : \A v : Current(a, h, r, v) => Current(b, h, r, v)
    BY <2>1, <2>3, <2>4, NothingHeld DEF Current
  <2>7. Len(<<>>) <= BufferCap /\ DOMAIN <<>> = {}
    BY HandoffAssumption
  <2>8. Orderly(b)
    BY <2>1, <2>3, <2>5, <2>7, EmptyHasNone DEF Orderly, Waits, Buttons
  <2>. QED  BY <2>3, <2>6, <2>8
<1>. QED  BY <1>1, <1>2 DEF ArmPending

\* The frames of the report enabled go out; those of the others stay, unless
\* the host is attached now, and then there are none.
LEMMA OnSubscribedFacts ==
  ASSUME NEW a, Sound(a), Buttons(a), Len(a.pending.buffer) <= BufferCap,
         NEW h \in Hosts, NEW r \in Reports, Waits(a, Reports \ {r}),
         a.pending.host # h \/ a.subs[h][r] = "none" => Waits(a, Reports),
         NEW b \in OnSubscribed(a, h, r)
  PROVE  /\ Orderly(b)
         /\ \A p \in Hosts, q \in Reports : \A v : Current(a, p, q, v) => Current(b, p, q, v)
<1>. DEFINE buffer == a.pending.buffer
            mine == Only(buffer, {r})
            rest == Only(buffer, Reports \ {r})
<1>s. a.pending \in Pendings /\ buffer \in Seq(Frames)
  BY DEF Sound, Airs, Pendings
<1>1. CASE a.pending.host # h \/ a.subs[h][r] = "none"
  <2>1. b = a
    BY <1>1 DEF OnSubscribed
  <2>. QED  BY <1>1, <2>1 DEF Orderly
<1>2. CASE ~(a.pending.host # h \/ a.subs[h][r] = "none")
  <2>1. PICK x \in SendAll(a, mine) :
          b = Holding(x, IF Attached(x, h) THEN NoPending ELSE [a.pending EXCEPT !.buffer = rest])
    BY <1>2 DEF OnSubscribed
  <2>2. /\ mine \in Seq(Frames)
        /\ \A p, q : /\ q # r => Without(mine, p, q)
                     /\ Without(buffer, p, q) => Without(mine, p, q)
                     /\ q = r => \A v : LastIs(buffer, p, q, v) => LastIs(mine, p, q, v)
    BY <1>s, OnlyOfThem
  <2>3. /\ rest \in Seq(Frames) /\ Len(rest) <= Len(buffer)
        /\ \A i \in DOMAIN rest : \E j \in DOMAIN buffer : buffer[j] = rest[i] /\ buffer[j].report \in Reports \ {r}
        /\ \A p, q : /\ q \notin Reports \ {r} => Without(rest, p, q)
                     /\ Without(buffer, p, q) => Without(rest, p, q)
                     /\ q \in Reports \ {r} => \A v : LastIs(buffer, p, q, v) => LastIs(rest, p, q, v)
    BY <1>s, OnlyOfThem
  <2>. HIDE DEF mine, rest
  <2>4. SentAll(a, x, mine)
    BY <2>1, <2>2, SendAllFacts
  <2>5. /\ Sound(x) /\ x.pending = a.pending
        /\ \A p \in Hosts, q \in Reports :
             /\ a.subs[p][q] = "none" => x.subs[p][q] = "none"
             /\ Without(mine, p, q) => x.subs[p][q] = a.subs[p][q] /\ \A v : Settled(a, p, q, v) => Settled(x, p, q, v)
             /\ \A v : LastIs(mine, p, q, v) => Settled(x, p, q, v)
        /\ \A p \in Hosts : Fresh(x, p) => Fresh(a, p) /\ Without(mine, p, Mouse)
    BY <2>4, Zenon DEF SentAll
  \* a report with nothing held is settled, and so is the one enabled
  <2>6. ASSUME NEW p \in Hosts, NEW q \in Reports, NEW v,
               \/ Without(buffer, p, q) /\ Settled(a, p, q, v)
               \/ q = r /\ LastIs(buffer, p, q, v)
        PROVE  Settled(x, p, q, v)
    BY <2>2, <2>5, <2>6
  <2>7. CASE Attached(x, h)
    <3>1. b = Holding(x, NoPending)
      BY <2>1, <2>7
    <3>2. /\ Sound(b) /\ b.pending = NoPending /\ \A p, q : \A v : Settled(x, p, q, v) <=> Settled(b, p, q, v)
      BY <2>5, <3>1, NothingHeld, HoldingFacts
    <3>3. ASSUME NEW p \in Hosts, NEW q \in Reports, NEW v, Current(a, p, q, v) PROVE Current(b, p, q, v)
      <4>1. CASE q # r /\ LastIs(buffer, p, q, v)
        <5>1. PICK i \in DOMAIN buffer : Key(buffer[i]) = <<p, q>>
          BY <4>1 DEF LastIs
        <5>2. p = h /\ a.subs[p][q] = "none"
          BY <1>2, <3>3, <4>1, <5>1 DEF Waits, Key
        <5>3. x.subs[h][q] = "none"
          BY <2>5, <5>2
        <5>. QED  BY <2>7, <5>3 DEF Attached
      <4>2. CASE (Without(buffer, p, q) /\ Settled(a, p, q, v)) \/ (q = r /\ LastIs(buffer, p, q, v))
        BY <2>6, <3>2, <4>2, NothingHeld, EmptyHasNone DEF Current
      <4>. QED  BY <3>3, <4>1, <4>2 DEF Current
    <3>4. Len(<<>>) <= BufferCap /\ DOMAIN <<>> = {}
      BY HandoffAssumption
    <3>5. Orderly(b)
      BY <3>2, <3>4, NothingHeld DEF Orderly, Waits, Buttons
    <3>. QED  BY <3>3, <3>5
  <2>8. CASE ~Attached(x, h)
    <3>. DEFINE k == [a.pending EXCEPT !.buffer = rest]
    <3>1. k \in Pendings /\ k.buffer = rest /\ k.host = a.pending.host /\ k.buttons = a.pending.buttons
      BY <1>s, <2>3 DEF Pendings
    <3>2. b = Holding(x, k)
      BY <2>1, <2>8
    <3>. HIDE DEF k
    <3>3. /\ Sound(b) /\ b.pending = k /\ b.subs = x.subs
          /\ \A p, q : \A v : Settled(x, p, q, v) <=> Settled(b, p, q, v)
          /\ \A p : Fresh(b, p) <=> Fresh(x, p)
      BY <2>5, <3>1, <3>2, HoldingFacts
    <3>4. ASSUME NEW p \in Hosts, NEW q \in Reports, NEW v, Current(a, p, q, v) PROVE Current(b, p, q, v)
      <4>1. CASE q # r /\ LastIs(buffer, p, q, v)
        BY <2>3, <3>1, <3>3, <4>1 DEF Current
      <4>2. CASE (Without(buffer, p, q) /\ Settled(a, p, q, v)) \/ (q = r /\ LastIs(buffer, p, q, v))
        <5>1. Without(rest, p, q)
          BY <2>3, <4>2
        <5>. QED  BY <2>6, <3>1, <3>3, <4>2, <5>1 DEF Current
      <4>. QED  BY <3>4, <4>1, <4>2 DEF Current
    <3>5. Waits(b, Reports)
      <4>1. ASSUME NEW i \in DOMAIN rest
            PROVE  rest[i].slot = k.host /\ x.subs[rest[i].slot][rest[i].report] = "none"
        <5>1. PICK j \in DOMAIN buffer : buffer[j] = rest[i] /\ buffer[j].report \in Reports \ {r}
          BY <2>3
        <5>2. buffer[j].slot = a.pending.host /\ a.subs[buffer[j].slot][buffer[j].report] = "none"
          BY <5>1 DEF Waits
        <5>3. buffer[j].slot \in Hosts /\ buffer[j].report \in Reports
          <6>1. buffer[j] \in Frames
            BY <1>s, <5>1
          <6>. QED  BY <6>1 DEF Frames
        <5>. QED  BY <2>5, <3>1, <5>1, <5>2, <5>3
      <4>. QED  BY <3>1, <3>3, <4>1 DEF Waits
    <3>6. Buttons(b)
      <4>1. ASSUME Mouse \in Reports
            PROVE  \/ LastIs(rest, h, Mouse, a.pending.buttons)
                   \/ Without(rest, h, Mouse) /\ (Fresh(b, h) => a.pending.buttons = Idle)
        <5>1. CASE LastIs(buffer, h, Mouse, a.pending.buttons)
          <6>1. CASE Mouse # r
            BY <2>3, <4>1, <5>1, <6>1
          <6>2. CASE Mouse = r
            <7>1. LastIs(mine, h, Mouse, a.pending.buttons)
              BY <2>2, <5>1, <6>2
            <7>2. ~Without(mine, h, Mouse)
              BY <7>1 DEF LastIs, Without
            <7>. QED  BY <2>3, <2>5, <3>3, <6>2, <7>2
          <6>. QED  BY <6>1, <6>2
        <5>2. CASE Without(buffer, h, Mouse) /\ (Fresh(a, h) => a.pending.buttons = Idle)
          BY <2>3, <2>5, <3>3, <5>2
        <5>. QED  BY <1>2, <4>1, <5>1, <5>2 DEF Buttons
      <4>. QED  BY <1>2, <3>1, <3>3, <4>1 DEF Buttons
    <3>7. Len(rest) <= BufferCap
      BY <1>s, <2>3, HandoffAssumption
    <3>. QED  BY <3>1, <3>3, <3>4, <3>5, <3>6, <3>7 DEF Orderly
  <2>. QED  BY <2>7, <2>8
<1>. QED  BY <1>1, <1>2

\* A subscription of one report, as accept_incoming records it.
Enabled(a, h, r, sub) == [a EXCEPT !.subs[h][r] = sub]

\* A new subscription leaves everything current; only frames of its report no longer wait.
LEMMA EnableFacts ==
  ASSUME NEW a, Orderly(a), NEW h \in Hosts, NEW r \in Reports, NEW sub \in {"live", "dead"},
         sub = "live" => h \in link, NEW b, b = Enabled(a, h, r, sub)
  PROVE  /\ b.subs[h][r] # "none"
         /\ Sound(b) /\ Buttons(b) /\ b.pending = a.pending
         /\ Waits(b, Reports \ {r})
         /\ a.pending.host # h => Waits(b, Reports)
         /\ \A p \in Hosts, q \in Reports : \A v : Current(a, p, q, v) => Current(b, p, q, v)
<1>1. PICK subsN \in [Hosts -> [Reports -> {"none", "live", "dead"}]] :
        /\ subsN[h][r] = sub
        /\ \A p \in Hosts, q \in Reports : <<p, q>> # <<h, r>> => subsN[p][q] = a.subs[p][q]
        /\ subsN = [a.subs EXCEPT ![h][r] = sub]
  <2>1. a.subs \in [Hosts -> [Reports -> {"none", "live", "dead"}]]
    BY DEF Orderly, Sound, Airs
  <2>2. PICK subsN : subsN = [a.subs EXCEPT ![h][r] = sub]
    OBVIOUS
  <2>. QED  BY <2>1, <2>2
<1>2. b = [a EXCEPT !.subs = subsN]
  BY <1>1 DEF Enabled, Orderly, Sound, Airs
<1>3. /\ b \in Airs /\ b.pending = a.pending /\ b.subs = subsN /\ b.last = a.last /\ b.leaving = a.leaving
      /\ b.shown = a.shown /\ b.behind = a.behind /\ b.cut = a.cut
  BY <1>2 DEF Orderly, Sound, Airs
<1>4. \A p, q : \A v : Settled(a, p, q, v) <=> Settled(b, p, q, v)
  BY <1>3 DEF Settled
<1>5. Linked(b)
  BY <1>1, <1>3 DEF Orderly, Sound, Linked
<1>6. Silent(b)
  <2>1. ASSUME NEW p \in Hosts, NEW q \in Reports, b.subs[p][q] = "none" PROVE Settled(b, p, q, Idle)
    <3>1. <<p, q>> # <<h, r>>
      BY <1>1, <1>3, <2>1
    <3>2. a.subs[p][q] = "none"
      BY <1>1, <1>3, <2>1, <3>1
    <3>. QED  BY <1>4, <3>2 DEF Orderly, Sound, Silent
  <2>. QED  BY <2>1 DEF Silent
<1>7. OnRecord(b)
  BY <1>3, <1>4 DEF Orderly, Sound, OnRecord
<1>8. \A p \in Hosts, q \in Reports : \A v : Current(a, p, q, v) => Current(b, p, q, v)
  BY <1>3, <1>4 DEF Current
<1>9. ASSUME NEW p \in Hosts, Mouse \in Reports, Fresh(b, p) PROVE Fresh(a, p)
  <2>1. CASE p = h /\ Mouse = r
    BY <1>1, <1>3, <1>9, <2>1 DEF Fresh
  <2>2. CASE <<p, Mouse>> # <<h, r>>
    <3>1. subsN[p][Mouse] = a.subs[p][Mouse]
      BY <1>1, <1>9, <2>2
    <3>. QED  BY <1>3, <1>9, <3>1 DEF Fresh
  <2>. QED  BY <2>1, <2>2
<1>10. Buttons(b)
  BY <1>3, <1>9 DEF Orderly, Buttons
<1>11. ASSUME NEW i \in DOMAIN a.pending.buffer
       PROVE  a.pending.buffer[i].slot \in Hosts /\ a.pending.buffer[i].report \in Reports
  <2>1. a.pending.buffer[i] \in Frames
    BY DEF Orderly, Sound, Airs, Pendings
  <2>. QED  BY <2>1 DEF Frames
<1>12. Waits(b, Reports \ {r})
  BY <1>1, <1>3, <1>11 DEF Orderly, Waits
<1>13. a.pending.host # h => Waits(b, Reports)
  BY <1>1, <1>3, <1>11 DEF Orderly, Waits
<1>. QED  BY <1>1, <1>3, <1>5, <1>6, <1>7, <1>8, <1>10, <1>12, <1>13 DEF Sound

\* The same for a host that is told to go at once.
LEMMA UninvitedFacts ==
  ASSUME link \subseteq Hosts, NEW a, Sound(a), Buttons(a), NEW h \in Hosts, NEW r \in Reports,
         Waits(a, Reports \ {r}), a.pending.host # h => Waits(a, Reports),
         NEW b, b = DropPeers(a, {h})
  PROVE  /\ Sound(b) /\ Buttons(b) /\ b.pending = a.pending /\ Waits(b, Reports)
         /\ \A p \in Hosts, q \in Reports : \A v : Current(a, p, q, v) => Current(b, p, q, v)
<1>1. Sound(b) /\ b.pending = a.pending
  BY DropFacts
<1>g. /\ \A q \in Reports : b.subs[h][q] = "none"
      /\ \A p \in Hosts, q \in Reports : p # h => b.subs[p][q] = a.subs[p][q]
  <2>1. \A p \in Hosts, q \in Reports : /\ p \in {h} => b.subs[p][q] = "none"
                                        /\ p \notin {h} => b.subs[p][q] = a.subs[p][q]
    BY DropFacts
  <2>. QED  BY <2>1
<1>2. /\ \A p \in Hosts, q \in Reports : \A v : Settled(a, p, q, v) => Settled(b, p, q, v)
      /\ \A p \in Hosts : Fresh(b, p) => Fresh(a, p)
  BY DropFacts
<1>3. \A p \in Hosts, q \in Reports : \A v : Current(a, p, q, v) => Current(b, p, q, v)
  BY <1>1, <1>2 DEF Current
<1>4. Buttons(b)
  BY <1>1, <1>2 DEF Buttons
<1>5. ASSUME NEW i \in DOMAIN a.pending.buffer
      PROVE  a.pending.buffer[i].slot \in Hosts /\ a.pending.buffer[i].report \in Reports
  <2>1. a.pending.buffer[i] \in Frames
    BY DEF Sound, Airs, Pendings
  <2>. QED  BY <2>1 DEF Frames
<1>6. Waits(b, Reports)
  <2>1. ASSUME NEW i \in DOMAIN a.pending.buffer, NEW f, f = a.pending.buffer[i]
        PROVE  f.slot = a.pending.host /\ (f.report \in Reports => b.subs[f.slot][f.report] = "none")
    <3>1. f.slot = a.pending.host /\ f.slot \in Hosts /\ f.report \in Reports
      BY <1>5, <2>1 DEF Waits
    <3>2. CASE f.slot = h
      BY <1>g, <3>1, <3>2
    <3>3. CASE f.slot # h
      <4>1. a.subs[f.slot][f.report] = "none"
        BY <2>1, <3>1, <3>3 DEF Waits
      <4>. QED  BY <1>g, <3>1, <3>3, <4>1
    <3>. QED  BY <3>2, <3>3
  <2>. QED  BY <1>1, <2>1 DEF Waits
<1>. QED  BY <1>1, <1>3, <1>4, <1>6

-----------------------------------------------------------------------------
(* What was told last is ahead of the host, in the channel, in the frame    *)
(* that showed the switch, or in what is held, or the host has come to it.  *)

Ahead(fs, held, a, h, r, v) ==
  \/ LastIs(fs, h, r, v)
  \/ /\ Without(fs, h, r)
     /\ IF held # NoFrame /\ Key(held) = <<h, r>> THEN held.state = v ELSE Current(a, h, r, v)

\* The frame at the head of the channel may be routed, unless a held one of its report is older.
LEMMA RouteHead ==
  ASSUME NEW fs \in Seq(Frames), fs # <<>>, NEW a, Orderly(a), NEW b \in RouteFrame(a, Head(fs)), NEW held
  PROVE  /\ Orderly(b)
         /\ \A h \in Hosts, r \in Reports : \A v :
              /\ Ahead(fs, held, a, h, r, v)
              /\ ~(held # NoFrame /\ Key(held) = <<h, r>> /\ Key(Head(fs)) = <<h, r>>)
              => Ahead(Tail(fs), held, b, h, r, v)
<1>. DEFINE f == Head(fs)
<1>0. f \in Frames
  BY TakeNewest
<1>. HIDE DEF f
<1>1. /\ Orderly(b)
      /\ Current(b, f.slot, f.report, f.state)
      /\ \A h \in Hosts, r \in Reports : <<h, r>> # Key(f) => \A v : Current(a, h, r, v) => Current(b, h, r, v)
  <2>1. b \in RouteFrame(a, f)
    BY DEF f
  <2>. QED  BY <1>0, <2>1, RouteFacts
<1>2. ASSUME NEW h \in Hosts, NEW r \in Reports, NEW v, Ahead(fs, held, a, h, r, v),
             ~(held # NoFrame /\ Key(held) = <<h, r>> /\ Key(f) = <<h, r>>)
      PROVE  Ahead(Tail(fs), held, b, h, r, v)
  <2>1. /\ Without(fs, h, r) <=> Key(f) # <<h, r>> /\ Without(Tail(fs), h, r)
        /\ LastIs(fs, h, r, v) => \/ LastIs(Tail(fs), h, r, v)
                                  \/ Without(Tail(fs), h, r) /\ Key(f) = <<h, r>> /\ f.state = v
    BY TakeNewest DEF f
  <2>2. CASE LastIs(Tail(fs), h, r, v)
    BY <2>2 DEF Ahead
  <2>3. CASE Without(Tail(fs), h, r) /\ Key(f) = <<h, r>> /\ f.state = v
    <3>1. Current(b, h, r, v)
      BY <1>1, <2>3 DEF Key
    <3>. QED  BY <1>2, <2>3, <3>1 DEF Ahead
  <2>4. CASE Key(f) # <<h, r>> /\ Without(fs, h, r)
    BY <1>1, <1>2, <2>1, <2>4, Zenon DEF Ahead
  <2>. QED  BY <1>2, <2>1, <2>2, <2>3, <2>4, Zenon DEF Ahead
<1>. QED  BY <1>1, <1>2 DEF f

\* A frame taken out to be carried along is still ahead.
LEMMA TakeAhead ==
  ASSUME NEW fs \in Seq(Frames), fs # <<>>, NEW a, NEW h \in Hosts, NEW r, NEW v, Ahead(fs, NoFrame, a, h, r, v)
  PROVE  Ahead(Tail(fs), Head(fs), a, h, r, v)
<1>1. Head(fs) \in Frames
  BY TakeNewest
<1>2. Head(fs) # NoFrame
  BY <1>1, HandoffAssumption DEF Frames, NoFrame
<1>3. /\ Without(fs, h, r) <=> Key(Head(fs)) # <<h, r>> /\ Without(Tail(fs), h, r)
      /\ LastIs(fs, h, r, v) => \/ LastIs(Tail(fs), h, r, v)
                                \/ Without(Tail(fs), h, r) /\ Key(Head(fs)) = <<h, r>> /\ Head(fs).state = v
  BY TakeNewest
<1>. QED  BY <1>2, <1>3, Zenon DEF Ahead

-----------------------------------------------------------------------------
(* The invariant.                                                          *)

Shape ==
  /\ setup \in Setups /\ slot \in Slots /\ active \in Slots /\ changed \in BOOLEAN
  /\ tracked \in [Reports -> States] /\ told \in Tells
  /\ frames \in Seq(Frames) /\ Len(frames) <= FrameCap
  /\ switching \in [old : Slots, frame : Frames \cup {NoFrame}, step : {"none", "drain", "drop"}]
  /\ link \subseteq Hosts /\ overtaken \subseteq Keys
  /\ slot \notin Hosts => \A r \in Reports : tracked[r] = Idle

\* What was told last is never lost from sight, unless newer frames overtook.
Newest ==
  \A h \in Hosts, r \in Reports : <<h, r>> \notin overtaken =>
    Ahead(frames, switching.frame, Air, h, r, told[h][r])

\* Once the manager has seen the switch, and flushed the channel, no frame in
\* it is of the old host, nor is the one that showed the switch.
Tagged ==
  /\ ~changed => slot = active
  /\ switching.step = "drop" /\ ~changed => \A i \in DOMAIN frames : frames[i].slot = active
  /\ switching.frame # NoFrame => switching.frame.slot # switching.old

HandInv == Shape /\ Orderly(Air) /\ Newest /\ Tagged

\* The fields are the variables.
LEMMA AirFields ==
  /\ Air.pending = pending /\ Air.subs = subs /\ Air.last = last /\ Air.leaving = leaving
  /\ Air.shown = shown /\ Air.behind = behind /\ Air.cut = cut
BY DEF Air

\* A step that leaves the variables leaves the fields.
LEMMA AirNext == UNCHANGED airVars => Air' = Air
BY DEF Air, airVars

\* A step to an outcome has it afterwards.
LEMMA BecomesNext ==
  ASSUME NEW a \in Airs, Becomes(a)
  PROVE  Air' = a
<1>1. PICK b : b = Air'
  OBVIOUS
<1>2. b = [pending |-> a.pending, subs |-> a.subs, last |-> a.last, leaving |-> a.leaving,
           shown |-> a.shown, behind |-> a.behind, cut |-> a.cut]
  BY <1>1 DEF Becomes, Air
<1>3. a = [pending |-> a.pending, subs |-> a.subs, last |-> a.last, leaving |-> a.leaving,
           shown |-> a.shown, behind |-> a.behind, cut |-> a.cut]
  BY DEF Airs
<1>. QED  BY <1>1, <1>2, <1>3, Zenon

\* An orderly outcome is an orderly state.
LEMMA OrderlyNext ==
  ASSUME UNCHANGED link, NEW a, Orderly(a), Air' = a
  PROVE  Orderly(Air)'
<1>1. Sound(Air)'
  BY DEF Orderly, Sound, Linked, Silent, OnRecord
<1>2. Waits(Air, Reports)' /\ Buttons(Air)' /\ Len(Air'.pending.buffer) <= BufferCap
  BY DEF Orderly, Waits, Buttons, Fresh
<1>. QED  BY <1>1, <1>2 DEF Orderly

\* A handler's outcome b, with the channel and what was told as they were.
LEMMA HandledNext ==
  ASSUME HandInv, UNCHANGED <<link, frames, told, overtaken>>, switching'.frame = switching.frame,
         NEW b, Orderly(b), Becomes(b),
         \A h \in Hosts, r \in Reports : \A v : Current(Air, h, r, v) => Current(b, h, r, v)
  PROVE  Orderly(Air)' /\ Newest'
<1>1. Air' = b
  BY BecomesNext DEF Orderly, Sound
<1>2. Orderly(Air)'
  BY <1>1, OrderlyNext
<1>3. ASSUME NEW h \in Hosts, NEW r \in Reports, <<h, r>> \notin overtaken'
      PROVE  Ahead(frames', switching'.frame, Air', h, r, told'[h][r])
  <2>1. Ahead(frames, switching.frame, Air, h, r, told[h][r])
    BY <1>3 DEF HandInv, Newest
  <2>2. Ahead(frames, switching.frame, b, h, r, told[h][r])
    BY <2>1 DEF Ahead
  <2>. QED  BY <1>1, <2>2
<1>. QED  BY <1>2, <1>3 DEF Newest

\* At the start nothing was told and nothing is shown.
LEMMA InitHands == Init => HandInv
<1>. SUFFICES ASSUME Init PROVE HandInv
  OBVIOUS
<1>1. Shape
  <2>1. Idle \in States /\ Local \in Slots
    BY DEF States, Slots
  <2>2. setup \in Setups /\ slot \in Slots /\ active \in Slots /\ changed \in BOOLEAN /\ link \subseteq Hosts
    BY DEF Init
  <2>3. tracked \in [Reports -> States] /\ told \in Tells
    BY <2>1 DEF Init, ByReport, Tells
  <2>4. frames \in Seq(Frames) /\ Len(frames) <= FrameCap
    BY HandoffAssumption DEF Init
  <2>5. switching \in [old : Slots, frame : Frames \cup {NoFrame}, step : {"none", "drain", "drop"}]
    BY <2>1 DEF Init, NoSwitch
  <2>6. \A r \in Reports : tracked[r] = Idle
    BY DEF Init, ByReport
  <2>. QED  BY <2>2, <2>3, <2>4, <2>5, <2>6 DEF Init, Shape
<1>2. /\ pending \in Pendings /\ pending.buffer = <<>> /\ pending.buttons = Idle
      /\ subs \in [Hosts -> [Reports -> {"none", "live", "dead"}]] /\ last \in [Hosts -> States]
      /\ shown \in [Hosts -> [Reports -> States]]
      /\ leaving = {} /\ behind = {} /\ cut = {}
  <2>1. [NoPending EXCEPT !.host = active] = [host |-> active, buffer |-> <<>>, buttons |-> Idle]
    BY DEF NoPending
  <2>2. active \in Slots /\ Local \in Slots /\ Idle \in States
    BY DEF Init, Slots, States
  <2>3. pending \in Pendings /\ pending.buffer = <<>> /\ pending.buttons = Idle
    <3>1. CASE pending = NoPending
      <4>1. pending.buffer = <<>> /\ pending.buttons = Idle
        BY <3>1 DEF NoPending
      <4>. QED  BY <3>1, <4>1, NothingHeld
    <3>2. CASE pending = [NoPending EXCEPT !.host = active]
      <4>. DEFINE p == [host |-> active, buffer |-> <<>>, buttons |-> Idle]
      <4>1. p \in Pendings /\ p.buffer = <<>> /\ p.buttons = Idle
        BY <2>2 DEF Pendings
      <4>2. pending = p
        BY <2>1, <3>2
      <4>. HIDE DEF p
      <4>. QED  BY <4>1, <4>2
    <3>. QED  BY <3>1, <3>2 DEF Init
  <2>4. /\ subs \in [Hosts -> [Reports -> {"none", "live", "dead"}]] /\ last \in [Hosts -> States]
        /\ shown \in [Hosts -> [Reports -> States]]
    BY <2>2 DEF Init, ByReport
  <2>. QED  BY <2>3, <2>4 DEF Init
<1>3. \A h \in Hosts, r \in Reports : shown[h][r] = Idle /\ subs[h][r] = "none" /\ last[h] = Idle /\ told[h][r] = Idle
  BY DEF Init, ByReport
<1>4. Air \in Airs
  BY <1>2 DEF Air, Airs, Keys
<1>5. \A h \in Hosts, r \in Reports : Settled(Air, h, r, Idle)
  BY <1>3, AirFields DEF Settled
<1>6. Sound(Air)
  <2>1. Linked(Air)
    BY <1>2, <1>3, AirFields DEF Linked
  <2>2. Silent(Air) /\ OnRecord(Air)
    BY <1>3, <1>5, AirFields DEF Silent, OnRecord
  <2>. QED  BY <1>4, <2>1, <2>2 DEF Sound
<1>7. Len(<<>>) <= BufferCap /\ DOMAIN <<>> = {}
  BY HandoffAssumption
<1>8. Orderly(Air)
  BY <1>2, <1>6, <1>7, AirFields, EmptyHasNone DEF Orderly, Waits, Buttons
<1>9. Newest
  <2>1. frames = <<>> /\ switching.frame = NoFrame
    BY DEF Init, NoSwitch
  <2>2. \A h \in Hosts, r \in Reports : Ahead(frames, switching.frame, Air, h, r, told[h][r])
    BY <1>2, <1>3, <1>5, <2>1, AirFields, EmptyHasNone DEF Ahead, Current
  <2>. QED  BY <2>2 DEF Newest
<1>10. Tagged
  BY DEF Init, Tagged, NoSwitch
<1>. QED  BY <1>1, <1>8, <1>9, <1>10 DEF HandInv

-----------------------------------------------------------------------------
(* What each step keeps.                                                   *)

\* The router speaks for its own slot, or announces another one.
LEMMA QueueNext ==
  ASSUME HandInv, NEW batch \in Seq(Frames), Queue(batch), \A i \in DOMAIN batch : batch[i].slot = slot,
         UNCHANGED <<setup, airVars, active, switching, link>>,
         tracked' \in [Reports -> States], slot' \in Slots, changed' \in BOOLEAN,
         slot' \notin Hosts => \A r \in Reports : tracked'[r] = Idle,
         changed' \/ (changed' = changed /\ slot' = slot)
  PROVE  HandInv'
<1>s. Shape /\ Orderly(Air) /\ Newest /\ Tagged
  BY DEF HandInv
<1>1. /\ frames' \in Seq(Frames) /\ Len(frames') <= FrameCap /\ told' \in Tells
      /\ overtaken' \subseteq overtaken
      /\ \A i \in DOMAIN frames' : \/ \E j \in DOMAIN frames : frames'[i] = frames[j]
                                   \/ \E j \in DOMAIN batch : frames'[i] = batch[j]
      /\ \A h \in Hosts, r \in Reports :
           \/ LastIs(frames', h, r, told'[h][r])
           \/ /\ told'[h][r] = told[h][r]
              /\ <<h, r>> \in overtaken => <<h, r>> \in overtaken'
              /\ Without(frames, h, r) => Without(frames', h, r)
              /\ \A v : LastIs(frames, h, r, v) => LastIs(frames', h, r, v)
  BY <1>s, QueueNewest DEF Shape
<1>2. Shape'
  BY <1>s, <1>1 DEF Shape
<1>3. Air' = Air /\ Orderly(Air)'
  BY <1>s, AirNext, OrderlyNext
<1>4. ASSUME NEW h \in Hosts, NEW r \in Reports, <<h, r>> \notin overtaken'
      PROVE  Ahead(frames', switching'.frame, Air', h, r, told'[h][r])
  <2>1. CASE LastIs(frames', h, r, told'[h][r])
    BY <2>1 DEF Ahead
  <2>2. CASE /\ told'[h][r] = told[h][r]
             /\ <<h, r>> \in overtaken => <<h, r>> \in overtaken'
             /\ Without(frames, h, r) => Without(frames', h, r)
             /\ \A v : LastIs(frames, h, r, v) => LastIs(frames', h, r, v)
    <3>1. Ahead(frames, switching.frame, Air, h, r, told[h][r])
      BY <1>s, <1>4, <2>2 DEF Newest
    <3>2. Ahead(frames', switching.frame, Air, h, r, told[h][r])
      BY <2>2, <3>1, Zenon DEF Ahead
    <3>. QED  BY <1>3, <2>2, <3>2
  <2>. QED  BY <1>1, <2>1, <2>2
<1>5. Newest'
  BY <1>4 DEF Newest
<1>6. Tagged'
  BY <1>s, <1>1 DEF Tagged
<1>. QED  BY <1>2, <1>3, <1>5, <1>6 DEF HandInv

\* The router queues, and what it queues is told last; or the channel is full and nothing is told.
LEMMA RouterNext ==
  ASSUME HandInv, Router, UNCHANGED setup
  PROVE  HandInv'
<1>s. Shape
  BY DEF HandInv
<1>1. ASSUME NEW r \in Reports, NEW state \in States, Report(r, state) PROVE HandInv'
  <2>. DEFINE f == [slot |-> slot, report |-> r, state |-> state]
              batch == <<f>>
  <2>1. f \in Frames /\ f.slot = slot
    BY <1>1 DEF Report, Frames
  <2>2. Queue(batch)
    BY <1>1 DEF Report
  <2>. HIDE DEF f
  <2>3. batch \in Seq(Frames) /\ \A i \in DOMAIN batch : batch[i].slot = slot
    BY <2>1
  <2>4. /\ tracked' \in [Reports -> States] /\ slot' \in Slots /\ changed' \in BOOLEAN
        /\ slot' \in Hosts /\ changed' = changed /\ slot' = slot
        /\ UNCHANGED <<setup, airVars, active, switching, link>>
    BY <1>s, <1>1 DEF Report, Shape
  <2>. HIDE DEF batch
  <2>. QED  BY <2>2, <2>3, <2>4, QueueNext
<1>2. ASSUME NEW s \in Slots, SwitchTo(s) PROVE HandInv'
  <2>. DEFINE T == {q \in Reports : tracked[q] # Idle}
              S == {[slot |-> slot, report |-> r, state |-> Idle] : r \in T}
              batch == SetToSeq(S)
  <2>1. slot \in Hosts \/ T = {}
    BY <1>s DEF Shape
  <2>2. batch \in Seq(S) /\ S \subseteq Frames
    <3>1. PICK U \in SUBSET Reports : U = T
      OBVIOUS
    <3>2. S = {[slot |-> slot, report |-> r, state |-> Idle] : r \in U}
      BY <3>1
    <3>. HIDE DEF S, T
    <3>. QED  BY <2>1, <3>1, <3>2, ReleasesAreFrames
  <2>3. Queue(batch)
    BY <1>2 DEF SwitchTo
  <2>4. \A g \in S : g.slot = slot
    OBVIOUS
  <2>. HIDE DEF S
  <2>5. batch \in Seq(Frames) /\ \A i \in DOMAIN batch : batch[i].slot = slot
    BY <2>2, <2>4
  <2>6. /\ tracked' \in [Reports -> States] /\ slot' \in Slots /\ changed' \in BOOLEAN /\ changed'
        /\ \A r \in Reports : tracked'[r] = Idle
        /\ UNCHANGED <<setup, airVars, active, switching, link>>
    BY <1>2 DEF SwitchTo, ByReport, States
  <2>. HIDE DEF batch
  <2>. QED  BY <2>3, <2>5, <2>6, QueueNext
<1>. QED  BY <1>1, <1>2 DEF Router

\* A handler's outcome when it leaves the switch and the channel alone.
LEMMA QuietNext ==
  ASSUME HandInv, UNCHANGED <<setup, routerVars, active, switching, link, overtaken>>,
         NEW b, Orderly(b), Becomes(b),
         \A h \in Hosts, r \in Reports : \A v : Current(Air, h, r, v) => Current(b, h, r, v)
  PROVE  HandInv'
<1>1. UNCHANGED <<slot, tracked, frames, changed, told>>
  BY DEF routerVars
<1>2. Shape' /\ Tagged'
  BY <1>1 DEF HandInv, Shape, Tagged
<1>3. Orderly(Air)' /\ Newest'
  BY <1>1, HandledNext
<1>. QED  BY <1>2, <1>3 DEF HandInv

\* The channel without its first frame.
LEMMA TailTags ==
  ASSUME frames \in Seq(Frames), frames # <<>>
  PROVE  /\ Tail(frames) \in Seq(Frames) /\ Len(Tail(frames)) = Len(frames) - 1 /\ Len(frames) \in Nat
         /\ \A i \in DOMAIN Tail(frames) : \E j \in DOMAIN frames : Tail(frames)[i] = frames[j]
OBVIOUS

\* A frame is taken off the channel and routed, with none held for a switch.
LEMMA TakeNext ==
  ASSUME HandInv, frames # <<>>, frames' = Tail(frames), switching.frame = NoFrame,
         UNCHANGED <<told, overtaken, link>>, switching' = switching,
         NEW b \in RouteFrame(Air, Head(frames)), Becomes(b)
  PROVE  Orderly(Air)' /\ Newest'
<1>s. Shape /\ Orderly(Air) /\ Newest /\ frames \in Seq(Frames)
  BY DEF HandInv, Shape
<1>1. /\ Orderly(b)
      /\ \A h \in Hosts, r \in Reports : \A v :
           Ahead(frames, NoFrame, Air, h, r, v) => Ahead(Tail(frames), NoFrame, b, h, r, v)
  BY <1>s, RouteHead
<1>2. Air' = b
  BY <1>1, BecomesNext DEF Orderly, Sound
<1>3. Orderly(Air)'
  BY <1>1, <1>2, OrderlyNext
<1>4. \A h \in Hosts, r \in Reports : <<h, r>> \notin overtaken' =>
        Ahead(frames', switching'.frame, Air', h, r, told'[h][r])
  BY <1>s, <1>1, <1>2 DEF Newest
<1>. QED  BY <1>3, <1>4 DEF Newest

\* The manager routes the frame at the head.
LEMMA TakeFrameNext ==
  ASSUME HandInv, TakeFrame, UNCHANGED setup
  PROVE  HandInv'
<1>s. Shape /\ Orderly(Air) /\ Newest /\ Tagged /\ frames \in Seq(Frames)
  BY DEF HandInv, Shape
<1>1. /\ frames # <<>> /\ frames' = Tail(frames) /\ switching = NoSwitch
      /\ UNCHANGED <<slot, tracked, changed, told, active, switching, link, overtaken>>
  BY DEF TakeFrame, Idling
<1>2. switching.frame = NoFrame /\ switching.step = "none"
  BY <1>1 DEF NoSwitch
<1>3. Orderly(Air)' /\ Newest'
  <2>1. PICK b \in RouteFrame(Air, Head(frames)) : Becomes(b)
    BY DEF TakeFrame
  <2>. QED  BY <1>1, <1>2, <2>1, TakeNext
<1>4. Shape'
  <2>1. frames' \in Seq(Frames) /\ Len(frames') <= FrameCap
    BY <1>s, <1>1, TailTags, HandoffAssumption DEF Shape
  <2>. QED  BY <1>s, <1>1, <2>1 DEF Shape
<1>5. Tagged'
  BY <1>s, <1>1, <1>2 DEF Tagged
<1>. QED  BY <1>3, <1>4, <1>5 DEF HandInv

\* It takes a switch, and carries along the frame that showed it.
LEMMA BeginSwitchNext ==
  ASSUME HandInv, SwitchByFrame \/ SwitchByWatch, UNCHANGED setup
  PROVE  HandInv'
<1>s. Shape /\ Orderly(Air) /\ Newest /\ Tagged /\ frames \in Seq(Frames)
  BY DEF HandInv, Shape
<1>1. PICK frame :
        /\ BeginSwitch(frame)
        /\ \/ frames # <<>> /\ frames' = Tail(frames) /\ frame = Head(frames) /\ frame.slot # active
           \/ frames' = frames /\ frame = NoFrame
  BY DEF SwitchByFrame, SwitchByWatch
<1>2. /\ switching = NoSwitch /\ switching.frame = NoFrame /\ switching.step = "none"
      /\ UNCHANGED <<slot, tracked, told, link, overtaken>>
      /\ changed' = FALSE /\ active' = slot
  BY <1>1 DEF SwitchByFrame, SwitchByWatch, Idling, NoSwitch, BeginSwitch
<1>f. /\ frame \in Frames \cup {NoFrame} /\ frames' \in Seq(Frames) /\ Len(frames') <= FrameCap
      /\ frame # NoFrame => frame.slot # active
  <2>1. CASE frames # <<>> /\ frames' = Tail(frames) /\ frame = Head(frames) /\ frame.slot # active
    <3>1. Head(frames) \in Frames
      BY <1>s, <2>1, TakeNewest
    <3>. QED  BY <1>s, <2>1, <3>1, TailTags, HandoffAssumption DEF Shape
  <2>2. CASE frames' = frames /\ frame = NoFrame
    BY <1>s, <2>2 DEF Shape
  <2>. QED  BY <1>1, <2>1, <2>2
<1>3. CASE Single /\ switching' = [old |-> active, frame |-> frame, step |-> "drain"] /\ UNCHANGED airVars
  <2>1. Air' = Air /\ switching'.frame = frame /\ switching'.old = active /\ switching'.step = "drain"
    BY <1>3, AirNext
  <2>2. Orderly(Air)'
    BY <1>s, <1>2, <2>1, OrderlyNext
  <2>3. ASSUME NEW h \in Hosts, NEW r \in Reports, <<h, r>> \notin overtaken'
        PROVE  Ahead(frames', switching'.frame, Air', h, r, told'[h][r])
    <3>1. Ahead(frames, NoFrame, Air, h, r, told[h][r])
      BY <1>s, <1>2, <2>3 DEF Newest
    <3>2. CASE frames # <<>> /\ frames' = Tail(frames) /\ frame = Head(frames)
      BY <1>s, <1>2, <2>1, <3>1, <3>2, TakeAhead
    <3>3. CASE frames' = frames /\ frame = NoFrame
      BY <1>2, <2>1, <3>1, <3>3
    <3>. QED  BY <1>1, <3>2, <3>3
  <2>4. Newest'
    BY <2>3 DEF Newest
  <2>5. Shape'
    <3>1. switching' \in [old : Slots, frame : Frames \cup {NoFrame}, step : {"none", "drain", "drop"}]
      BY <1>s, <1>3, <1>f DEF Shape
    <3>. QED  BY <1>s, <1>2, <1>f, <3>1 DEF Shape
  <2>6. Tagged'
    BY <1>2, <1>f, <2>1 DEF Tagged
  <2>. QED  BY <2>2, <2>4, <2>5, <2>6 DEF HandInv
<1>4. CASE ~Single /\ switching' = switching
  <2>1. Orderly(Air)' /\ Newest'
    <3>1. CASE frame = NoFrame
      <4>1. frames' = frames
        <5>1. frames # <<>> => Head(frames) \in Frames
          BY <1>s, TakeNewest
        <5>2. NoFrame \notin Frames
          BY HandoffAssumption DEF Frames, NoFrame
        <5>. QED  BY <1>1, <3>1, <5>1, <5>2
      <4>2. UNCHANGED airVars
        BY <1>1, <1>4, <3>1 DEF BeginSwitch
      <4>3. Air' = Air
        BY <4>2, AirNext
      <4>4. Orderly(Air)'
        BY <1>s, <1>2, <4>3, OrderlyNext
      <4>. QED  BY <1>s, <1>2, <1>4, <4>1, <4>3, <4>4 DEF Newest
    <3>2. CASE frame # NoFrame
      <4>1. frames # <<>> /\ frames' = Tail(frames) /\ frame = Head(frames)
        BY <1>1, <3>2
      <4>2. PICK b \in RouteFrame(Air, Head(frames)) : Becomes(b)
        BY <1>1, <1>4, <3>2, <4>1 DEF BeginSwitch
      <4>. QED  BY <1>2, <1>4, <4>1, <4>2, TakeNext
    <3>. QED  BY <3>1, <3>2
  <2>2. Shape'
    BY <1>s, <1>2, <1>4, <1>f DEF Shape
  <2>3. Tagged'
    BY <1>2, <1>4 DEF Tagged
  <2>. QED  BY <2>1, <2>2, <2>3 DEF HandInv
<1>. QED  BY <1>1, <1>3, <1>4 DEF BeginSwitch

\* It flushes the channel: a carried frame of the same report is overtaken.
LEMMA DrainNext ==
  ASSUME HandInv, Drain, UNCHANGED setup
  PROVE  HandInv'
<1>s. Shape /\ Orderly(Air) /\ Newest /\ Tagged /\ frames \in Seq(Frames)
  BY DEF HandInv, Shape
<1>. DEFINE held == switching.frame
            over == held # NoFrame /\ Key(held) = Key(Head(frames))
<1>1. /\ frames # <<>> /\ frames' = Tail(frames) /\ switching.step = "drain"
      /\ overtaken' = IF over THEN overtaken \cup {Key(Head(frames))} ELSE overtaken
      /\ UNCHANGED <<slot, tracked, changed, told, active, switching, link>>
  BY DEF Drain
<1>2. PICK b \in RouteFrame(Air, Head(frames)) : Becomes(b)
  BY DEF Drain
<1>3. /\ Orderly(b)
      /\ \A h \in Hosts, r \in Reports : \A v :
           /\ Ahead(frames, held, Air, h, r, v)
           /\ ~(held # NoFrame /\ Key(held) = <<h, r>> /\ Key(Head(frames)) = <<h, r>>)
           => Ahead(Tail(frames), held, b, h, r, v)
  BY <1>s, <1>1, RouteHead
<1>4. Air' = b
  BY <1>2, <1>3, BecomesNext DEF Orderly, Sound
<1>5. Orderly(Air)'
  BY <1>1, <1>3, <1>4, OrderlyNext
<1>6. ASSUME NEW h \in Hosts, NEW r \in Reports, <<h, r>> \notin overtaken'
      PROVE  Ahead(frames', switching'.frame, Air', h, r, told'[h][r])
  <2>1. /\ <<h, r>> \notin overtaken
        /\ ~(held # NoFrame /\ Key(held) = <<h, r>> /\ Key(Head(frames)) = <<h, r>>)
    BY <1>1, <1>6
  <2>2. Ahead(frames, held, Air, h, r, told[h][r])
    BY <1>s, <2>1 DEF Newest
  <2>3. Ahead(Tail(frames), held, b, h, r, told[h][r])
    BY <1>3, <2>1, <2>2
  <2>. QED  BY <1>1, <1>4, <2>3
<1>7. Newest'
  BY <1>6 DEF Newest
<1>8. Shape'
  <2>1. frames' \in Seq(Frames) /\ Len(frames') <= FrameCap
    BY <1>s, <1>1, TailTags, HandoffAssumption DEF Shape
  <2>2. Head(frames) \in Frames
    BY <1>s, <1>1, TakeNewest
  <2>3. Key(Head(frames)) \in Keys
    BY <2>2 DEF Key, Keys, Frames
  <2>4. overtaken' \subseteq Keys
    BY <1>s, <1>1, <2>3 DEF Shape
  <2>. QED  BY <1>s, <1>1, <2>1, <2>4 DEF Shape
<1>9. Tagged'
  BY <1>s, <1>1 DEF Tagged
<1>. QED  BY <1>5, <1>7, <1>8, <1>9 DEF HandInv

\* It holds nothing any more, then frames for the new host.
LEMMA ArmNext ==
  ASSUME HandInv, Arm, UNCHANGED setup
  PROVE  HandInv'
<1>s. Shape /\ Orderly(Air) /\ Newest /\ Tagged
  BY DEF HandInv
<1>1. /\ frames = <<>> /\ switching' = [switching EXCEPT !.step = "drop"]
      /\ UNCHANGED <<slot, tracked, frames, changed, told, active, link, overtaken>>
  BY DEF Arm, routerVars
<1>2. /\ switching'.frame = switching.frame /\ switching'.old = switching.old /\ switching'.step = "drop"
      /\ switching' \in [old : Slots, frame : Frames \cup {NoFrame}, step : {"none", "drain", "drop"}]
  BY <1>s, <1>1 DEF Shape
<1>3. PICK a : a = Discard(Air)
  OBVIOUS
<1>4. /\ Orderly(a) /\ a.pending = NoPending
      /\ \A h \in Hosts, r \in Reports : \A v : Current(Air, h, r, v) => Current(a, h, r, v)
  BY <1>s, <1>3, DiscardFacts
<1>5. PICK b : b = ArmPending(a)
  OBVIOUS
<1>6. /\ Orderly(b)
      /\ \A h \in Hosts, r \in Reports : \A v : Current(a, h, r, v) => Current(b, h, r, v)
  BY <1>s, <1>4, <1>5, ArmFacts DEF Shape
<1>7. Becomes(b)
  BY <1>3, <1>5 DEF Arm
<1>8. Orderly(Air)' /\ Newest'
  <2>1. \A h \in Hosts, r \in Reports : \A v : Current(Air, h, r, v) => Current(b, h, r, v)
    BY <1>4, <1>6
  <2>. QED  BY <1>1, <1>2, <1>6, <1>7, <2>1, HandledNext
<1>9. Shape'
  BY <1>s, <1>1, <1>2 DEF Shape
<1>10. Tagged'
  BY <1>s, <1>1, <1>2 DEF Tagged
<1>. QED  BY <1>8, <1>9, <1>10 DEF HandInv

\* It drops the old host, and routes the carried frame, which is not of it.
LEMMA DropOldNext ==
  ASSUME HandInv, DropOld, UNCHANGED setup
  PROVE  HandInv'
<1>s. Shape /\ Orderly(Air) /\ Newest /\ Tagged /\ link \subseteq Hosts
  BY DEF HandInv, Shape
<1>. DEFINE held == switching.frame
<1>1. /\ switching' = NoSwitch
      /\ UNCHANGED <<slot, tracked, frames, changed, told, active, link, overtaken>>
  BY DEF DropOld, routerVars
<1>2. switching'.frame = NoFrame /\ switching'.step = "none"
  BY <1>1 DEF NoSwitch
<1>3. PICK gone : gone = DropPeers(Air, {switching.old} \ {Local, active})
  OBVIOUS
<1>4. /\ Orderly(gone)
      /\ \A h \in Hosts, r \in Reports : \A v : Current(Air, h, r, v) => Current(gone, h, r, v)
  <2>1. /\ Sound(gone) /\ gone.pending = Air.pending
        /\ \A h \in Hosts, r \in Reports : Air.subs[h][r] = "none" => gone.subs[h][r] = "none"
        /\ \A h \in Hosts, r \in Reports : \A v : Settled(Air, h, r, v) => Settled(gone, h, r, v)
        /\ \A h \in Hosts : Fresh(gone, h) => Fresh(Air, h)
    <3>1. PICK D : D = {switching.old} \ {Local, active}
      OBVIOUS
    <3>2. gone = DropPeers(Air, D) /\ Sound(Air)
      BY <1>s, <1>3, <3>1 DEF Orderly
    <3>3. /\ Sound(gone) /\ gone.pending = Air.pending
          /\ \A h \in Hosts, r \in Reports : /\ h \in D => gone.subs[h][r] = "none"
                                             /\ h \notin D => gone.subs[h][r] = Air.subs[h][r]
          /\ \A h \in Hosts, r \in Reports : \A v : Settled(Air, h, r, v) => Settled(gone, h, r, v)
          /\ \A h \in Hosts : Fresh(gone, h) => Fresh(Air, h)
      BY <1>s, <3>2, DropFacts
    <3>. QED  BY <3>3
  <2>. QED  BY <1>s, <2>1, NothingSent
<1>5. PICK b : Becomes(b) /\ b \in IF held = NoFrame THEN {gone} ELSE RouteFrame(gone, held)
  BY <1>3 DEF DropOld
<1>6. /\ Orderly(b)
      /\ \A h \in Hosts, r \in Reports : \A v :
           Ahead(frames, held, gone, h, r, v) => Ahead(frames, NoFrame, b, h, r, v)
  <2>1. CASE held = NoFrame
    <3>1. b = gone
      BY <1>5, <2>1
    <3>. QED  BY <1>4, <2>1, <3>1
  <2>2. CASE held # NoFrame
    <3>1. held \in Frames /\ b \in RouteFrame(gone, held)
      BY <1>s, <1>5, <2>2 DEF Shape
    <3>2. /\ Orderly(b)
          /\ Current(b, held.slot, held.report, held.state)
          /\ \A h \in Hosts, r \in Reports : <<h, r>> # Key(held) => \A v : Current(gone, h, r, v) => Current(b, h, r, v)
      BY <1>4, <3>1, RouteFacts
    <3>3. \A h, r : Key(held) = <<h, r>> => h = held.slot /\ r = held.report
      BY DEF Key
    <3>. HIDE DEF held
    <3>4. ASSUME NEW h \in Hosts, NEW r \in Reports, NEW v, Ahead(frames, held, gone, h, r, v)
          PROVE  Ahead(frames, NoFrame, b, h, r, v)
      <4>1. CASE LastIs(frames, h, r, v)
        BY <4>1 DEF Ahead
      <4>2. CASE Without(frames, h, r) /\ Key(held) = <<h, r>> /\ held.state = v
        <5>1. Current(b, h, r, v)
          BY <3>2, <3>3, <4>2
        <5>. QED  BY <4>2, <5>1 DEF Ahead
      <4>3. CASE Without(frames, h, r) /\ Key(held) # <<h, r>> /\ Current(gone, h, r, v)
        BY <3>2, <4>3 DEF Ahead
      <4>. QED  BY <2>2, <3>4, <4>1, <4>2, <4>3 DEF Ahead
    <3>. QED  BY <3>2, <3>4
  <2>. QED  BY <2>1, <2>2
<1>7. Air' = b
  BY <1>5, <1>6, BecomesNext DEF Orderly, Sound
<1>8. Orderly(Air)'
  BY <1>1, <1>6, <1>7, OrderlyNext
<1>9. ASSUME NEW h \in Hosts, NEW r \in Reports, <<h, r>> \notin overtaken'
      PROVE  Ahead(frames', switching'.frame, Air', h, r, told'[h][r])
  <2>1. Ahead(frames, held, Air, h, r, told[h][r])
    BY <1>s, <1>1, <1>9 DEF Newest
  <2>2. Ahead(frames, held, gone, h, r, told[h][r])
    BY <1>4, <2>1 DEF Ahead
  <2>3. Ahead(frames, NoFrame, b, h, r, told[h][r])
    BY <1>6, <2>2
  <2>. QED  BY <1>1, <1>2, <1>7, <2>3
<1>10. Newest'
  BY <1>9 DEF Newest
<1>11. Shape'
  <2>1. NoSwitch \in [old : Slots, frame : Frames \cup {NoFrame}, step : {"none", "drain", "drop"}]
    BY DEF NoSwitch, Slots
  <2>. QED  BY <1>s, <1>1, <2>1 DEF Shape
<1>12. Tagged'
  BY <1>s, <1>1, <1>2 DEF Tagged
<1>. QED  BY <1>8, <1>10, <1>11, <1>12 DEF HandInv

\* A host enables a report, and gets what was held of it.
LEMMA SubscribeNext ==
  ASSUME HandInv, NEW h \in Hosts, NEW r \in Reports, Subscribe(h, r), UNCHANGED setup
  PROVE  HandInv'
<1>s. Shape /\ Orderly(Air) /\ link \subseteq Hosts
  BY DEF HandInv, Shape
<1>1. PICK sub \in (IF h \in link THEN {"live"} ELSE {}) \cup (IF "stale" \in Faults THEN {"dead"} ELSE {}) :
        LET a == [Air EXCEPT !.subs[h][r] = sub]
            uninvited == Unsubscribed(Air, h) /\ Single /\ h # active /\ ActivePresent(Air)
        IN  \E x \in OnSubscribed(IF uninvited THEN DropPeers(a, {h}) ELSE a, h, r) : Becomes(x)
  BY DEF Subscribe
<1>2. sub \in {"live", "dead"} /\ (sub = "live" => h \in link)
  OBVIOUS
<1>3. PICK a : a = Enabled(Air, h, r, sub)
  OBVIOUS
<1>4. /\ a.subs[h][r] # "none"
      /\ Sound(a) /\ Buttons(a) /\ a.pending = Air.pending
      /\ Waits(a, Reports \ {r})
      /\ a.pending.host # h => Waits(a, Reports)
      /\ \A p \in Hosts, q \in Reports : \A v : Current(Air, p, q, v) => Current(a, p, q, v)
  BY <1>s, <1>2, <1>3, EnableFacts
<1>5. PICK c : /\ c \in {a, DropPeers(a, {h})}
               /\ \E x \in OnSubscribed(c, h, r) : Becomes(x)
  BY <1>1, <1>3 DEF Enabled
<1>6. /\ Sound(c) /\ Buttons(c) /\ c.pending = Air.pending /\ Waits(c, Reports \ {r})
      /\ c.pending.host # h \/ c.subs[h][r] = "none" => Waits(c, Reports)
      /\ \A p \in Hosts, q \in Reports : \A v : Current(Air, p, q, v) => Current(c, p, q, v)
  <2>1. CASE c = a
    BY <1>4, <2>1
  <2>2. CASE c = DropPeers(a, {h})
    <3>1. /\ Sound(c) /\ Buttons(c) /\ c.pending = a.pending /\ Waits(c, Reports)
          /\ \A p \in Hosts, q \in Reports : \A v : Current(a, p, q, v) => Current(c, p, q, v)
      BY <1>s, <1>4, <2>2, UninvitedFacts
    <3>2. Waits(c, Reports \ {r})
      BY <3>1 DEF Waits
    <3>. QED  BY <1>4, <3>1, <3>2
  <2>. QED  BY <1>5, <2>1, <2>2
<1>7. PICK b \in OnSubscribed(c, h, r) : Becomes(b)
  BY <1>5
<1>8. /\ Orderly(b)
      /\ \A p \in Hosts, q \in Reports : \A v : Current(c, p, q, v) => Current(b, p, q, v)
  <2>1. Len(c.pending.buffer) <= BufferCap
    BY <1>s, <1>6 DEF Orderly
  <2>. QED  BY <1>6, <1>7, <2>1, OnSubscribedFacts
<1>9. \A p \in Hosts, q \in Reports : \A v : Current(Air, p, q, v) => Current(b, p, q, v)
  BY <1>6, <1>8
<1>. QED  BY <1>7, <1>8, <1>9, QuietNext DEF Subscribe

\* A session that ended is noticed.
LEMMA ClosedNext ==
  ASSUME HandInv, NEW h \in Hosts, NEW r \in Reports, Closed(h, r), UNCHANGED setup
  PROVE  HandInv'
<1>s. Orderly(Air) /\ Sound(Air)
  BY DEF HandInv, Orderly
<1>1. PICK b : b = ForgetSub(Air, h, r) /\ Becomes(b)
  BY DEF Closed
<1>2. /\ Sound(b) /\ b.pending = Air.pending /\ b.subs[h][r] = "none"
      /\ SubsBut(Air, b, <<h, r>>)
      /\ \A p \in Hosts, q \in Reports : \A v : Settled(Air, p, q, v) => Settled(b, p, q, v)
      /\ \A p \in Hosts : Fresh(b, p) => Fresh(Air, p)
  BY <1>s, <1>1, ForgetFacts
<1>3. \A p \in Hosts, q \in Reports : Air.subs[p][q] = "none" => b.subs[p][q] = "none"
  BY <1>2 DEF SubsBut
<1>4. /\ Orderly(b)
      /\ \A p \in Hosts, q \in Reports : \A v : Current(Air, p, q, v) => Current(b, p, q, v)
  BY <1>s, <1>2, <1>3, NothingSent
<1>. QED  BY <1>1, <1>4, QuietNext DEF Closed

\* Uninvited hosts are dropped; what was held too long is discarded.
LEMMA PollNext ==
  ASSUME HandInv, PollUninvited \/ GiveUp, UNCHANGED setup
  PROVE  HandInv'
<1>s. Orderly(Air) /\ Sound(Air) /\ link \subseteq Hosts
  BY DEF HandInv, Orderly, Shape
<1>1. CASE PollUninvited
  <2>1. PICK evict : Becomes(DropPeers(Air, evict))
    BY <1>1 DEF PollUninvited
  <2>2. PICK b : b = DropPeers(Air, evict)
    OBVIOUS
  <2>3. /\ Sound(b) /\ b.pending = Air.pending
        /\ \A h \in Hosts, r \in Reports : /\ h \in evict => b.subs[h][r] = "none"
                                           /\ h \notin evict => b.subs[h][r] = Air.subs[h][r]
        /\ \A h \in Hosts, r \in Reports : \A v : Settled(Air, h, r, v) => Settled(b, h, r, v)
        /\ \A h \in Hosts : Fresh(b, h) => Fresh(Air, h)
    BY <1>s, <2>2, DropFacts
  <2>4. \A h \in Hosts, r \in Reports : Air.subs[h][r] = "none" => b.subs[h][r] = "none"
    BY <2>3
  <2>5. /\ Orderly(b)
        /\ \A h \in Hosts, r \in Reports : \A v : Current(Air, h, r, v) => Current(b, h, r, v)
    BY <1>s, <2>3, <2>4, NothingSent
  <2>6. Becomes(b)
    BY <2>1, <2>2
  <2>. QED  BY <1>1, <2>5, <2>6, QuietNext DEF PollUninvited
<1>2. CASE GiveUp
  <2>1. PICK b : b = Discard(Air) /\ Becomes(b)
    BY <1>2 DEF GiveUp
  <2>2. /\ Orderly(b)
        /\ \A h \in Hosts, r \in Reports : \A v : Current(Air, h, r, v) => Current(b, h, r, v)
    BY <1>s, <2>1, DiscardFacts
  <2>. QED  BY <1>2, <2>1, <2>2, QuietNext DEF GiveUp
<1>. QED  BY <1>1, <1>2

\* A host connects, showing nothing.
LEMMA LinkUpNext ==
  ASSUME HandInv, NEW h \in Hosts, LinkUp(h), UNCHANGED setup
  PROVE  HandInv'
<1>s. Shape /\ Orderly(Air) /\ Newest /\ Tagged
  BY DEF HandInv
<1>1. /\ link' = link \cup {h} /\ Air' = Air
      /\ UNCHANGED <<slot, tracked, frames, changed, told, active, switching, overtaken>>
  BY AirNext DEF LinkUp, routerVars
<1>2. Shape' /\ Newest' /\ Tagged'
  BY <1>s, <1>1 DEF Shape, Newest, Tagged
<1>3. PICK a : a = Air
  OBVIOUS
<1>4. Orderly(a) /\ Air' = a
  BY <1>s, <1>1, <1>3
<1>5. Sound(Air)'
  BY <1>1, <1>4 DEF Orderly, Sound, Linked, Silent, OnRecord
<1>6. ASSUME NEW p, Fresh(a, p)' PROVE Fresh(a, p)
  BY <1>1, <1>6 DEF Fresh
<1>7. Buttons(Air)'
  BY <1>4, <1>6 DEF Orderly, Buttons
<1>8. Orderly(Air)'
  BY <1>4, <1>5, <1>7 DEF Orderly, Waits
<1>. QED  BY <1>2, <1>8 DEF HandInv

\* What becomes of a host's writers when its notifications end.
LEMMA DyingFacts ==
  ASSUME subs \in [Hosts -> [Reports -> {"none", "live", "dead"}]], NEW h \in Hosts,
         subs' = [subs EXCEPT ![h] = Dying(h)]
  PROVE  /\ subs' \in [Hosts -> [Reports -> {"none", "live", "dead"}]]
         /\ \A r \in Reports : subs'[h][r] # "live"
         /\ \A p \in Hosts, r \in Reports : /\ subs'[p][r] = "none" <=> subs[p][r] = "none"
                                            /\ subs'[p][r] = "live" => subs[p][r] = "live"
BY DEF Dying

\* A host goes, and shows nothing.
LEMMA LinkDownNext ==
  ASSUME HandInv, NEW h \in Hosts, LinkDown(h), UNCHANGED setup
  PROVE  HandInv'
<1>s. Shape /\ Orderly(Air) /\ Newest /\ Tagged
  BY DEF HandInv
<1>t. /\ pending \in Pendings /\ subs \in [Hosts -> [Reports -> {"none", "live", "dead"}]]
      /\ last \in [Hosts -> States] /\ leaving \in SUBSET Hosts /\ shown \in [Hosts -> [Reports -> States]]
      /\ behind \in SUBSET Keys /\ cut \in SUBSET Keys
  BY <1>s, AirFields DEF Orderly, Sound, Airs
<1>1. /\ link' = link \ {h} /\ leaving' = leaving \ {h}
      /\ behind' = behind \cup {<<h, r>> : r \in Reports} /\ cut' = {c \in cut : c[1] # h}
      /\ UNCHANGED <<slot, tracked, frames, changed, told, active, switching, overtaken, pending, last>>
  BY DEF LinkDown, routerVars
<1>2. /\ subs' \in [Hosts -> [Reports -> {"none", "live", "dead"}]]
      /\ \A r \in Reports : subs'[h][r] # "live"
      /\ \A p \in Hosts, r \in Reports : /\ subs'[p][r] = "none" <=> subs[p][r] = "none"
                                         /\ subs'[p][r] = "live" => subs[p][r] = "live"
  BY <1>t, DyingFacts DEF LinkDown
<1>3. /\ shown' \in [Hosts -> [Reports -> States]]
      /\ \A r \in Reports : shown'[h][r] = Idle
      /\ \A p \in Hosts : p # h => shown'[p] = shown[p]
  BY <1>t DEF LinkDown, ByReport, States
<1>4. behind' \in SUBSET Keys /\ cut' \in SUBSET Keys /\ leaving' \in SUBSET Hosts
  BY <1>t, <1>1 DEF Keys
<1>5. PICK a : a = Air
  OBVIOUS
<1>6. PICK b : b = Air'
  OBVIOUS
<1>7. /\ b.pending = pending' /\ b.subs = subs' /\ b.last = last' /\ b.leaving = leaving'
      /\ b.shown = shown' /\ b.behind = behind' /\ b.cut = cut' /\ b \in Airs
  BY <1>t, <1>1, <1>2, <1>3, <1>4, <1>6 DEF Air, Airs
<1>8. /\ a.pending = pending /\ a.subs = subs /\ a.last = last /\ a.leaving = leaving
      /\ a.shown = shown /\ a.behind = behind /\ a.cut = cut /\ Orderly(a)
  BY <1>s, <1>5, AirFields
<1>9. ASSUME NEW p \in Hosts, NEW r \in Reports, NEW v, p = h \/ Settled(a, p, r, v)
      PROVE  Settled(b, p, r, v)
  <2>1. CASE p = h
    <3>1. <<h, r>> \in behind' /\ shown'[h][r] = Idle
      BY <1>1, <1>3
    <3>. QED  BY <1>7, <2>1, <3>1 DEF Settled
  <2>2. CASE p # h
    <3>1. /\ p \in leaving' <=> p \in leaving
          /\ <<p, r>> \in cut' <=> <<p, r>> \in cut
          /\ <<p, r>> \in behind => <<p, r>> \in behind'
          /\ shown'[p][r] = shown[p][r]
      BY <1>1, <1>3, <2>2
    <3>. QED  BY <1>7, <1>8, <1>9, <2>2, <3>1 DEF Settled
  <2>. QED  BY <2>1, <2>2
<1>10. Linked(b)'
  <2>1. b.leaving \subseteq link'
    BY <1>1, <1>7, <1>8 DEF Orderly, Sound, Linked
  <2>2. ASSUME NEW p \in Hosts \ link', NEW r \in Reports PROVE b.shown[p][r] = Idle /\ b.subs[p][r] # "live"
    <3>1. CASE p = h
      BY <1>2, <1>3, <1>7, <3>1
    <3>2. CASE p # h
      <4>1. p \in Hosts \ link
        BY <1>1, <3>2
      <4>2. shown[p][r] = Idle /\ subs[p][r] # "live"
        BY <1>8, <4>1 DEF Orderly, Sound, Linked
      <4>. QED  BY <1>2, <1>3, <1>7, <3>2, <4>1, <4>2
    <3>. QED  BY <3>1, <3>2
  <2>. QED  BY <2>1, <2>2 DEF Linked
<1>11. Silent(b)
  BY <1>2, <1>7, <1>8, <1>9 DEF Orderly, Sound, Silent
<1>12. OnRecord(b)
  BY <1>1, <1>7, <1>8, <1>9 DEF Orderly, Sound, OnRecord
<1>13. Waits(b, Reports)
  <2>1. ASSUME NEW i \in DOMAIN pending.buffer, NEW f, f = pending.buffer[i]
        PROVE  f.slot = pending.host /\ (f.report \in Reports => subs'[f.slot][f.report] = "none")
    <3>1. f.slot = pending.host /\ (f.report \in Reports => subs[f.slot][f.report] = "none")
      BY <1>8, <2>1 DEF Orderly, Waits
    <3>2. f \in Frames
      BY <1>t, <2>1 DEF Pendings
    <3>3. f.slot \in Hosts
      BY <3>2 DEF Frames
    <3>. QED  BY <1>2, <3>1, <3>3
  <2>. QED  BY <1>1, <1>7, <2>1 DEF Waits
<1>14. ASSUME NEW p \in Hosts, Mouse \in Reports, Fresh(b, p)' PROVE Fresh(a, p)
  <2>1. p # h
    BY <1>1, <1>7, <1>14 DEF Fresh
  <2>2. /\ p \in leaving' <=> p \in leaving
        /\ <<p, Mouse>> \in cut' <=> <<p, Mouse>> \in cut
        /\ <<p, Mouse>> \in behind => <<p, Mouse>> \in behind'
        /\ p \in link' <=> p \in link
    BY <1>1, <2>1
  <2>. QED  BY <1>2, <1>7, <1>8, <1>14, <2>2 DEF Fresh
<1>15. Buttons(b)'
  <2>1. b.pending = a.pending
    BY <1>1, <1>7, <1>8
  <2>. QED  BY <1>8, <1>14, <2>1 DEF Orderly, Buttons
<1>16. Orderly(Air)'
  <2>1. Len(b.pending.buffer) <= BufferCap
    BY <1>1, <1>7, <1>8 DEF Orderly
  <2>2. Orderly(b)'
    BY <1>7, <1>10, <1>11, <1>12, <1>13, <1>15, <2>1 DEF Orderly, Sound
  <2>3. Linked(Air)' /\ Buttons(Air)'
    BY <1>6, <1>10, <1>15 DEF Linked, Buttons, Fresh
  <2>. QED  BY <1>6, <1>7, <1>11, <1>12, <1>13, <2>1, <2>3 DEF Orderly, Sound
<1>17. Shape' /\ Tagged'
  BY <1>s, <1>1 DEF Shape, Tagged
<1>18. ASSUME NEW p \in Hosts, NEW r \in Reports, <<p, r>> \notin overtaken'
       PROVE  Ahead(frames', switching'.frame, Air', p, r, told'[p][r])
  <2>1. Ahead(frames, switching.frame, a, p, r, told[p][r])
    BY <1>s, <1>1, <1>5, <1>18 DEF Newest
  <2>2. Current(a, p, r, told[p][r]) => Current(b, p, r, told[p][r])
    BY <1>1, <1>7, <1>8, <1>9 DEF Current
  <2>3. Ahead(frames, switching.frame, b, p, r, told[p][r])
    BY <2>1, <2>2 DEF Ahead
  <2>. QED  BY <1>1, <1>6, <2>3
<1>19. Newest'
  BY <1>18 DEF Newest
<1>. QED  BY <1>16, <1>17, <1>19 DEF HandInv

\* Notifications end on a live link: the reports are cut off.
LEMMA SubscriptionsEndNext ==
  ASSUME HandInv, NEW h \in Hosts, SubscriptionsEnd(h), UNCHANGED setup
  PROVE  HandInv'
<1>s. Shape /\ Orderly(Air)
  BY DEF HandInv
<1>t. /\ pending \in Pendings /\ subs \in [Hosts -> [Reports -> {"none", "live", "dead"}]]
      /\ last \in [Hosts -> States] /\ leaving \in SUBSET Hosts /\ shown \in [Hosts -> [Reports -> States]]
      /\ behind \in SUBSET Keys /\ cut \in SUBSET Keys
  BY <1>s, AirFields DEF Orderly, Sound, Airs
<1>1. /\ cut' = cut \cup {<<h, r>> : r \in {q \in Reports : subs[h][q] = "live"}}
      /\ UNCHANGED <<routerVars, pending, last, leaving, shown, behind, active, switching, link, overtaken>>
  BY DEF SubscriptionsEnd
<1>2. /\ subs' \in [Hosts -> [Reports -> {"none", "live", "dead"}]]
      /\ \A p \in Hosts, r \in Reports : /\ subs'[p][r] = "none" <=> subs[p][r] = "none"
                                         /\ subs'[p][r] = "live" => subs[p][r] = "live"
  BY <1>t, DyingFacts DEF SubscriptionsEnd
<1>3. cut' \in SUBSET Keys /\ cut \subseteq cut'
  BY <1>t, <1>1 DEF Keys
<1>4. PICK b : b = Air'
  OBVIOUS
<1>5. /\ b.pending = pending /\ b.subs = subs' /\ b.last = last /\ b.leaving = leaving
      /\ b.shown = shown /\ b.behind = behind /\ b.cut = cut' /\ b \in Airs
  BY <1>t, <1>1, <1>2, <1>3, <1>4 DEF Air, Airs
<1>6. \A p \in Hosts, r \in Reports : \A v : Settled(Air, p, r, v) => Settled(b, p, r, v)
  BY <1>3, <1>5, AirFields DEF Settled
<1>7. Linked(b)
  BY <1>s, <1>2, <1>5, AirFields DEF Orderly, Sound, Linked
<1>8. Silent(b)
  BY <1>s, <1>2, <1>5, <1>6, AirFields DEF Orderly, Sound, Silent
<1>9. OnRecord(b)
  BY <1>s, <1>5, <1>6, AirFields DEF Orderly, Sound, OnRecord
<1>10. \A p \in Hosts, r \in Reports : Air.subs[p][r] = "none" => b.subs[p][r] = "none"
  BY <1>2, <1>5, AirFields
<1>11. ASSUME NEW p \in Hosts, Mouse \in Reports, Fresh(b, p) PROVE Fresh(Air, p)
  BY <1>2, <1>3, <1>5, <1>11, AirFields DEF Fresh
<1>12. Sound(b)
  BY <1>5, <1>7, <1>8, <1>9 DEF Sound
<1>13. \A p \in Hosts, r \in Reports : \A v : Current(Air, p, r, v) => Current(b, p, r, v)
  BY <1>5, <1>6, AirFields DEF Current
<1>14. Waits(b, Reports)
  <2>1. ASSUME NEW i \in DOMAIN pending.buffer, NEW f, f = pending.buffer[i]
        PROVE  f.slot = pending.host /\ (f.report \in Reports => subs'[f.slot][f.report] = "none")
    <3>1. f.slot = pending.host /\ (f.report \in Reports => subs[f.slot][f.report] = "none")
      BY <1>s, <2>1, AirFields DEF Orderly, Waits
    <3>2. f \in Frames
      BY <1>t, <2>1 DEF Pendings
    <3>3. f.slot \in Hosts
      BY <3>2 DEF Frames
    <3>. QED  BY <1>2, <3>1, <3>3
  <2>. QED  BY <1>5, <2>1 DEF Waits
<1>15. Buttons(b)
  <2>1. b.pending = Air.pending
    BY <1>5, AirFields
  <2>. QED  BY <1>s, <1>11, <2>1 DEF Orderly, Buttons
<1>16. Orderly(b)
  BY <1>s, <1>5, <1>12, <1>14, <1>15, AirFields DEF Orderly
<1>17. Becomes(b)
  BY <1>1, <1>5 DEF Becomes
<1>18. UNCHANGED <<setup, routerVars, active, switching, link, overtaken>>
  BY <1>1
<1>. QED  BY <1>13, <1>16, <1>17, <1>18, QuietNext

\* No step breaks the invariant.
LEMMA StepHands == HandInv /\ [Next]_vars => HandInv'
<1>. SUFFICES ASSUME HandInv, [Next]_vars PROVE HandInv'
  OBVIOUS
<1>1. CASE Router /\ UNCHANGED setup
  BY <1>1, RouterNext
<1>2. CASE Manager /\ UNCHANGED setup
  <2>1. CASE TakeFrame
    BY <1>2, <2>1, TakeFrameNext
  <2>2. CASE SwitchByFrame \/ SwitchByWatch
    BY <1>2, <2>2, BeginSwitchNext
  <2>3. CASE Drain
    BY <1>2, <2>3, DrainNext
  <2>4. CASE Arm
    BY <1>2, <2>4, ArmNext
  <2>5. CASE DropOld
    BY <1>2, <2>5, DropOldNext
  <2>6. ASSUME NEW h \in Hosts, NEW r \in Reports, Subscribe(h, r) PROVE HandInv'
    BY <1>2, <2>6, SubscribeNext
  <2>7. ASSUME NEW h \in Hosts, NEW r \in Reports, Closed(h, r) PROVE HandInv'
    BY <1>2, <2>7, ClosedNext
  <2>8. CASE PollUninvited \/ GiveUp
    BY <1>2, <2>8, PollNext
  <2>. QED  BY <1>2, <2>1, <2>2, <2>3, <2>4, <2>5, <2>6, <2>7, <2>8 DEF Manager
<1>3. CASE Desk /\ UNCHANGED setup
  BY <1>3, LinkUpNext, LinkDownNext, SubscriptionsEndNext DEF Desk
<1>4. CASE UNCHANGED vars
  <2>1. /\ UNCHANGED <<setup, routerVars, active, switching, link, overtaken>>
        /\ UNCHANGED airVars
    BY <1>4, Zenon DEF vars
  <2>2. Becomes(Air)
    BY <2>1, AirFields DEF Becomes, airVars
  <2>3. Orderly(Air)
    BY DEF HandInv
  <2>. QED  BY <2>1, <2>2, <2>3, QuietNext
<1>. QED  BY <1>1, <1>2, <1>3, <1>4 DEF Next

\* What the buffer, the host and what it is told have, always.
THEOREM HandsHold == Spec => []HandInv
BY InitHands, StepHands, PTL DEF Spec

\* Type correctness of the switch: no step of the router, the manager or a host
\* leaves the state it is written for, and neither the frame channel nor the
\* replay buffer (replay.rs, CAPACITY) outgrows its capacity.
THEOREM HandoffTypes == Spec => []TypeOK
<1>1. HandInv => TypeOK
  <2>. SUFFICES ASSUME HandInv PROVE TypeOK
    OBVIOUS
  <2>1. Shape /\ Orderly(Air)
    BY DEF HandInv
  <2>2. Air \in Airs /\ Linked(Air) /\ Len(Air.pending.buffer) <= BufferCap
    BY <2>1 DEF Orderly, Sound
  <2>3. /\ pending \in Pendings /\ Len(pending.buffer) <= BufferCap
        /\ subs \in [Hosts -> [Reports -> {"none", "live", "dead"}]]
        /\ last \in [Hosts -> States] /\ shown \in [Hosts -> [Reports -> States]]
        /\ behind \subseteq Keys /\ cut \subseteq Keys
    BY <2>2, AirFields DEF Airs
  <2>4. leaving \subseteq link
    BY <2>2, AirFields DEF Linked
  <2>. QED  BY <2>1, <2>3, <2>4 DEF TypeOK, Shape, Tells, Keys, Pendings
<1>. QED  BY <1>1, InitHands, StepHands, PTL DEF Spec

\* With nothing of a report on its way, the host has come to what was told last.
LEMMA NothingOnItsWay ==
  ASSUME HandInv, NEW h \in Hosts, NEW r \in Reports, ~OnItsWay(h, r),
         <<h, r>> \notin overtaken \cup cut, h \notin leaving
  PROVE  shown[h][r] = told[h][r] \/ (shown[h][r] = Idle /\ <<h, r>> \in behind)
<1>1. Ahead(frames, switching.frame, Air, h, r, told[h][r])
  BY DEF HandInv, Newest
<1>2. /\ \A v : ~LastIs(frames, h, r, v)
      /\ \A v : ~LastIs(pending.buffer, h, r, v)
      /\ ~(switching.frame # NoFrame /\ Key(switching.frame) = <<h, r>>)
  BY DEF OnItsWay, LastIs
<1>3. Settled(Air, h, r, told[h][r])
  BY <1>1, <1>2, AirFields DEF Ahead, Current
<1>. QED  BY <1>3, AirFields DEF Settled

\* No press arrives without its release (replay.rs:6-8), whatever is lost on the
\* way, save where the subscription ended under it or a frame was overtaken.
THEOREM NoKeyStuck == Spec => []NoStuckKey
<1>1. HandInv => NoStuckKey
  BY NothingOnItsWay DEF NoStuckKey, Stuck
<1>. QED  BY <1>1, InitHands, StepHands, PTL DEF Spec

\* Once everything queued has been handled, the active host shows what the
\* router told it last, unless it was lost on a path that says so.
THEOREM CatchesUp == Spec => []CaughtUp
<1>1. HandInv => CaughtUp
  BY NothingOnItsWay DEF CaughtUp
<1>. QED  BY <1>1, InitHands, StepHands, PTL DEF Spec

\* The old host is disconnected with nothing down (bt/mod.rs:740-742), if the
\* router has not moved again in the meantime.
LEMMA ReleasedAtDrop ==
  ASSUME HandInv, HeldForActive, switching.step = "drop", ~changed,
         switching.old \notin {Local, active} \cup leaving, NEW r \in Reports
  PROVE  \/ shown[switching.old][r] = Idle
         \/ <<switching.old, r>> \in cut \cup overtaken
         \/ told[switching.old][r] # Idle
<1>. DEFINE h == switching.old
<1>. SUFFICES ASSUME <<h, r>> \notin cut \cup overtaken, told[h][r] = Idle PROVE shown[h][r] = Idle
  OBVIOUS
<1>1. Shape /\ Tagged /\ Waits(Air, Reports)
  BY DEF HandInv, Orderly
<1>2. h \in Hosts
  BY <1>1 DEF Shape, Slots
<1>3. \A i \in DOMAIN frames : Key(frames[i]) # <<h, r>>
  BY <1>1 DEF Tagged, Key
<1>4. ~(switching.frame # NoFrame /\ Key(switching.frame) = <<h, r>>)
  BY <1>1 DEF Tagged, Key
<1>5. \A i \in DOMAIN pending.buffer : Key(pending.buffer[i]) # <<h, r>>
  BY <1>1, AirFields DEF Waits, HeldForActive, Key
<1>6. ~OnItsWay(h, r)
  BY <1>3, <1>4, <1>5 DEF OnItsWay
<1>. QED  BY <1>2, <1>6, NothingOnItsWay

\* "disconnect the old host ... so the release notifications go out first"
\* (bt/mod.rs:740-742), on every step that ends a switch.
THEOREM DropsReleased == Spec => ReleasedBeforeDropped
<1>. DEFINE First ==
       switching.step = "drop" /\ switching' = NoSwitch /\ ~changed
         /\ switching.old \notin {Local, active} \cup leaving =>
       \A r \in Reports :
         \/ shown[switching.old][r] = Idle
         \/ <<switching.old, r>> \in cut \cup overtaken
         \/ told[switching.old][r] # Idle
<1>1. HandInv /\ IInv /\ [Next]_vars => [First]_vars
  BY ReleasedAtDrop DEF IInv
<1>. QED  BY <1>1, InitHands, StepHands, InitHolds, StepKeeps, PTL DEF Spec, ReleasedBeforeDropped

=============================================================================
