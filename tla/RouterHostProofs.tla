-------------------------- MODULE RouterHostProofs --------------------------
(***************************************************************************)
(* Proofs about what the router tells the hosts and the local session, for *)
(* every set of devices, keys and slots and every channel capacity: the    *)
(* reports themselves, then what each host shows, from one switch to the   *)
(* next, and the types of all the router's variables.                      *)
(***************************************************************************)
EXTENDS RouterProofs, FoldProofs

-----------------------------------------------------------------------------
(* Frames, shown and added up one after the other.                         *)


FrameSet == [report : {"keyboard"}, mods : SUBSET AllModifiers, keys : SUBSET PlainKeys]
  \cup [report : {"mouse"}, buttons : SUBSET Bits, motion : Int]
  \cup [report : {"consumer"}, usage : MediaKeys \cup {None}]

\* A frame leaves a host in its range.
LEMMA ShowType == ASSUME NEW h \in Hosts, NEW f \in FrameSet PROVE Show(h, f) \in Hosts
BY DEF Show, Hosts, FrameSet

\* Showing frames one after the other.
LEMMA ShowRun ==
  ASSUME NEW h \in Hosts, NEW fs \in Seq(FrameSet)
  PROVE  \E acc \in [0 .. Len(fs) -> Hosts] :
           /\ acc[0] = h
           /\ \A n \in 1 .. Len(fs) : acc[n] = Show(acc[n-1], fs[n])
           /\ FoldLeft(Show, h, fs) = acc[Len(fs)]
<1>. DEFINE L == Len(fs)
            D == 1 .. L
<1>0. L \in Nat /\ DOMAIN fs = D /\ \A n \in D : fs[n] \in FrameSet
  OBVIOUS
<1>. DEFINE Runs(it) == it = [s \in SUBSET D |-> IF s = {} THEN h ELSE Show(it[s \ {Max(s)}], fs[Max(s)])]
            it == CHOOSE it : Runs(it)
<1>1. FoldLeft(Show, h, fs) = it[D]
  BY <1>0, Zenon DEF FoldLeft, MapThenFoldSet
<1>2. Runs(it)
  <2>. DEFINE G == [p \in D \X Hosts |-> Show(p[2], fs[p[1]])]
  <2>1. G \in [D \X Hosts -> Hosts]
    BY <1>0, ShowType
  <2>2. PICK f \in [SUBSET D -> Hosts] : FoldsTo(f, G, h, D)
    <3>. HIDE DEF G
    <3>. QED  BY <1>0, <2>1, FoldExists
  <2>3. ASSUME NEW s \in SUBSET D, s # {}
        PROVE  G[<<Max(s), f[s \ {Max(s)}]>>] = Show(f[s \ {Max(s)}], fs[Max(s)])
    <3>1. Max(s) \in s
      BY <2>3, <1>0, MaxIn
    <3>2. <<Max(s), f[s \ {Max(s)}]>> \in D \X Hosts
      BY <3>1
    <3>. QED  BY <3>2, Zenon
  <2>4. Runs(f)
    <3>. HIDE DEF G
    <3>. QED  BY <2>2, <2>3 DEF FoldsTo
  <2>. QED  BY <2>4
<1>3. ASSUME NEW s \in SUBSET D
      PROVE  it[s] = IF s = {} THEN h ELSE Show(it[s \ {Max(s)}], fs[Max(s)])
  <2>. HIDE DEF it, D
  <2>. QED  BY <1>2
<1>. HIDE DEF it
<1>. DEFINE acc == [n \in 0 .. L |-> it[1 .. n]]
<1>4. it[1 .. 0] = h
  <2>1. {} \in SUBSET D /\ it[{}] = h
    BY <1>3
  <2>. QED  BY <2>1, <1>0, Intervals
<1>5. ASSUME NEW n \in D PROVE it[1 .. n] = Show(it[1 .. n-1], fs[n])
  <2>1. 1 .. n \in SUBSET D /\ 1 .. n # {} /\ Max(1 .. n) = n /\ (1 .. n) \ {n} = 1 .. n-1
    BY <1>0, Intervals
  <2>2. it[1 .. n] = Show(it[(1 .. n) \ {Max(1 .. n)}], fs[Max(1 .. n)])
    <3>. HIDE DEF D
    <3>. QED  BY <1>3, <2>1
  <2>. QED  BY <2>1, <2>2
<1>7. /\ acc[0] = h /\ acc[L] = it[D]
      /\ \A n \in 1 .. L : acc[n] = Show(acc[n-1], fs[n])
  <2>. HIDE DEF L
  <2>. QED  BY <1>0, <1>4, <1>5
<1>8. \A n \in 0 .. L : acc[n] \in Hosts
  <2>. HIDE DEF acc, L
  <2>. QED  BY <1>0, <1>7, ShowType, RunType
<1>9. acc \in [0 .. L -> Hosts]
  BY <1>8
<1>. QED
  <2>. HIDE DEF acc
  <2>. QED  BY <1>1, <1>7, <1>9

Farther(sum, f) == IF f.report = "mouse" THEN sum + f.motion ELSE sum

\* Distances stay integers.
LEMMA FartherType == ASSUME NEW sum \in Int, NEW f \in FrameSet PROVE Farther(sum, f) \in Int
BY DEF Farther, FrameSet

\* The distance frames add up to, one frame after the other.
LEMMA TravelRun ==
  ASSUME NEW fs \in Seq(FrameSet)
  PROVE  \E acc \in [0 .. Len(fs) -> Int] :
           /\ acc[0] = 0
           /\ \A n \in 1 .. Len(fs) : acc[n] = Farther(acc[n-1], fs[n])
           /\ Travel(fs) = acc[Len(fs)]
<1>. DEFINE L == Len(fs)
            D == 1 .. L
<1>0. L \in Nat /\ DOMAIN fs = D /\ \A n \in D : fs[n] \in FrameSet
  OBVIOUS
<1>. DEFINE Runs(it) == it = [s \in SUBSET D |-> IF s = {} THEN 0 ELSE Farther(it[s \ {Max(s)}], fs[Max(s)])]
            it == CHOOSE it : Runs(it)
<1>1. Travel(fs) = it[D]
  BY <1>0, Zenon DEF Travel, Farther, FoldLeft, MapThenFoldSet
<1>2. Runs(it)
  <2>. DEFINE G == [p \in D \X Int |-> Farther(p[2], fs[p[1]])]
  <2>1. G \in [D \X Int -> Int]
    BY <1>0, FartherType
  <2>2. PICK f \in [SUBSET D -> Int] : FoldsTo(f, G, 0, D)
    <3>. HIDE DEF G
    <3>1. \A base \in Int : \E f \in [SUBSET D -> Int] : FoldsTo(f, G, base, D)
      BY <1>0, <2>1, FoldExists
    <3>2. 0 \in Int
      OBVIOUS
    <3>. QED  BY <3>1, <3>2, Zenon
  <2>3. ASSUME NEW s \in SUBSET D, s # {}
        PROVE  G[<<Max(s), f[s \ {Max(s)}]>>] = Farther(f[s \ {Max(s)}], fs[Max(s)])
    <3>1. Max(s) \in s
      BY <2>3, <1>0, MaxIn
    <3>2. <<Max(s), f[s \ {Max(s)}]>> \in D \X Int
      BY <3>1
    <3>. QED  BY <3>2, Zenon
  <2>4. Runs(f)
    <3>. HIDE DEF G
    <3>. QED  BY <2>2, <2>3 DEF FoldsTo
  <2>. QED  BY <2>4
<1>3. ASSUME NEW s \in SUBSET D
      PROVE  it[s] = IF s = {} THEN 0 ELSE Farther(it[s \ {Max(s)}], fs[Max(s)])
  <2>. HIDE DEF it, D
  <2>. QED  BY <1>2
<1>. HIDE DEF it
<1>. DEFINE acc == [n \in 0 .. L |-> it[1 .. n]]
<1>4. it[1 .. 0] = 0
  <2>1. {} \in SUBSET D /\ it[{}] = 0
    BY <1>3
  <2>. QED  BY <2>1, <1>0, Intervals
<1>5. ASSUME NEW n \in D PROVE it[1 .. n] = Farther(it[1 .. n-1], fs[n])
  <2>1. 1 .. n \in SUBSET D /\ 1 .. n # {} /\ Max(1 .. n) = n /\ (1 .. n) \ {n} = 1 .. n-1
    BY <1>0, Intervals
  <2>2. it[1 .. n] = Farther(it[(1 .. n) \ {Max(1 .. n)}], fs[Max(1 .. n)])
    <3>. HIDE DEF D
    <3>. QED  BY <1>3, <2>1
  <2>. QED  BY <2>1, <2>2
<1>7. /\ acc[0] = 0 /\ acc[L] = it[D]
      /\ \A n \in 1 .. L : acc[n] = Farther(acc[n-1], fs[n])
  <2>. HIDE DEF L
  <2>. QED  BY <1>0, <1>4, <1>5
<1>8. \A n \in 0 .. L : acc[n] \in Int
  <2>. HIDE DEF acc, L
  <2>1. acc[0] \in Int /\ \A n \in 1 .. L : acc[n-1] \in Int => acc[n] \in Int
    BY <1>0, <1>7, FartherType
  <2>. QED  BY <1>0, <2>1, RunType
<1>9. acc \in [0 .. L -> Int]
  BY <1>8
<1>. QED
  <2>. HIDE DEF acc
  <2>. QED  BY <1>1, <1>7, <1>9

-----------------------------------------------------------------------------
(* What a host shows after a series of frames.                             *)

Reports(fs) == {f.report : f \in ToSet(fs)}

\* Two sequences one after the other have the elements of both.
LEMMA ConcatFacts ==
  ASSUME NEW S, NEW a \in Seq(S), NEW b \in Seq(S)
  PROVE  /\ a \o b \in Seq(S) /\ Len(a \o b) = Len(a) + Len(b)
         /\ ToSet(a \o b) = ToSet(a) \cup ToSet(b)
         /\ Reports(a \o b) = Reports(a) \cup Reports(b)
<1>1. /\ a \o b \in Seq(S) /\ Len(a \o b) = Len(a) + Len(b)
      /\ \A i \in 1 .. Len(a) : (a \o b)[i] = a[i]
      /\ \A i \in 1 .. Len(b) : (a \o b)[Len(a) + i] = b[i]
  OBVIOUS
<1>2. DOMAIN a = 1 .. Len(a) /\ DOMAIN b = 1 .. Len(b) /\ DOMAIN (a \o b) = 1 .. (Len(a) + Len(b))
      /\ Len(a) \in Nat /\ Len(b) \in Nat
  BY <1>1
<1>3. ASSUME NEW x \in ToSet(a \o b) PROVE x \in ToSet(a) \cup ToSet(b)
  <2>1. PICK i \in 1 .. (Len(a) + Len(b)) : x = (a \o b)[i]
    BY <1>2 DEF ToSet
  <2>2. CASE i \in 1 .. Len(a)
    BY <1>1, <1>2, <2>1, <2>2 DEF ToSet
  <2>3. CASE i \notin 1 .. Len(a)
    <3>1. i - Len(a) \in 1 .. Len(b) /\ i = Len(a) + (i - Len(a))
      BY <1>2, <2>3
    <3>2. x = b[i - Len(a)]
      BY <1>1, <2>1, <3>1
    <3>. QED  BY <1>2, <3>1, <3>2 DEF ToSet
  <2>. QED  BY <2>2, <2>3
<1>4. ASSUME NEW x \in ToSet(a) PROVE x \in ToSet(a \o b)
  BY <1>1, <1>2 DEF ToSet
<1>5. ASSUME NEW x \in ToSet(b) PROVE x \in ToSet(a \o b)
  <2>1. PICK i \in 1 .. Len(b) : x = b[i]
    BY <1>2 DEF ToSet
  <2>2. Len(a) + i \in 1 .. (Len(a) + Len(b)) /\ (a \o b)[Len(a) + i] = x
    BY <1>1, <1>2, <2>1
  <2>. QED  BY <1>2, <2>2 DEF ToSet
<1>6. ToSet(a \o b) = ToSet(a) \cup ToSet(b)
  BY <1>3, <1>4, <1>5
<1>. QED  BY <1>1, <1>6, Zenon DEF Reports

\* r is h after reports of these kinds, each of which says what v has.
Told(h, v, r, reports) ==
  /\ r \in Hosts
  /\ IF "keyboard" \in reports THEN r.mods = v.mods /\ r.keys = v.keys
     ELSE r.mods = h.mods /\ r.keys = h.keys
  /\ r.buttons = (IF "mouse" \in reports THEN v.buttons ELSE h.buttons)
  /\ r.consumer = (IF "consumer" \in reports THEN v.consumer ELSE h.consumer)

\* A frame that says what is so already tells its report.
LEMMA ToldStep ==
  ASSUME NEW h \in Hosts, NEW v \in Hosts, NEW r, NEW reports, Told(h, v, r, reports),
         NEW f \in FrameSet, Show(v, f) = v
  PROVE  Told(h, v, Show(r, f), reports \cup {f.report})
<1>0. r \in Hosts /\ Show(r, f) \in Hosts
  BY ShowType DEF Told
<1>1. CASE f.report = "keyboard"
  <2>1. Show(r, f) = [r EXCEPT !.mods = f.mods, !.keys = f.keys]
        /\ Show(v, f) = [v EXCEPT !.mods = f.mods, !.keys = f.keys]
    BY <1>1 DEF Show
  <2>2. v.mods = f.mods /\ v.keys = f.keys
    BY <2>1 DEF Hosts
  <2>. QED  BY <1>0, <1>1, <2>1, <2>2 DEF Hosts, Told
<1>2. CASE f.report = "mouse"
  <2>1. Show(r, f) = [r EXCEPT !.buttons = f.buttons] /\ Show(v, f) = [v EXCEPT !.buttons = f.buttons]
    BY <1>2 DEF Show
  <2>2. v.buttons = f.buttons
    BY <2>1 DEF Hosts
  <2>. QED  BY <1>0, <1>2, <2>1, <2>2 DEF Hosts, Told
<1>3. CASE f.report = "consumer"
  <2>1. Show(r, f) = [r EXCEPT !.consumer = f.usage] /\ Show(v, f) = [v EXCEPT !.consumer = f.usage]
    BY <1>3 DEF Show
  <2>2. v.consumer = f.usage
    BY <2>1 DEF Hosts
  <2>. QED  BY <1>0, <1>3, <2>1, <2>2 DEF Hosts, Told
<1>. QED  BY <1>1, <1>2, <1>3 DEF FrameSet

\* A series of frames that agree on v leaves the host with v in each report there
\* was a frame of.
LEMMA ShowAll ==
  ASSUME NEW h \in Hosts, NEW v \in Hosts, NEW fs \in Seq(FrameSet),
         \A f \in ToSet(fs) : Show(v, f) = v
  PROVE  Told(h, v, FoldLeft(Show, h, fs), Reports(fs))
<1>1. PICK acc \in [0 .. Len(fs) -> Hosts] :
        /\ acc[0] = h
        /\ \A n \in 1 .. Len(fs) : acc[n] = Show(acc[n-1], fs[n])
        /\ FoldLeft(Show, h, fs) = acc[Len(fs)]
  BY ShowRun
<1>. DEFINE Upto(n) == {fs[i].report : i \in 1 .. n}
            T == {n \in 0 .. Len(fs) : Told(h, v, acc[n], Upto(n))}
<1>2. Len(fs) \in Nat /\ DOMAIN fs = 1 .. Len(fs)
      /\ \A n \in 1 .. Len(fs) : fs[n] \in FrameSet /\ Show(v, fs[n]) = v
  BY DEF ToSet
<1>3. 0 \in T
  <2>1. Upto(0) = {}
    OBVIOUS
  <2>2. Told(h, v, acc[0], {})
    BY <1>1 DEF Told
  <2>. QED  BY <1>2, <2>1, <2>2
<1>4. ASSUME NEW n \in 1 .. Len(fs), n - 1 \in T PROVE n \in T
  <2>1. Upto(n) = Upto(n-1) \cup {fs[n].report}
    BY <1>2
  <2>2. Told(h, v, acc[n-1], Upto(n-1))
    BY <1>4
  <2>3. Told(h, v, acc[n], Upto(n-1) \cup {fs[n].report})
    <3>. HIDE DEF Upto
    <3>. QED  BY <1>1, <1>2, <2>2, ToldStep
  <2>4. Told(h, v, acc[n], Upto(n))
    BY <2>1, <2>3, Zenon
  <2>. QED
    <3>. HIDE DEF Upto
    <3>. QED  BY <1>2, <2>4
<1>5. Len(fs) \in T
  <2>1. \A n \in 0 .. Len(fs) : n \in T
    <3>. HIDE DEF T
    <3>. QED  BY <1>2, <1>3, <1>4, BoundedInduction
  <2>. HIDE DEF T
  <2>. QED  BY <1>2, <2>1
<1>6. Upto(Len(fs)) = Reports(fs)
  BY <1>2 DEF Reports, ToSet
<1>. QED
  <2>1. Told(h, v, acc[Len(fs)], Upto(Len(fs)))
    BY <1>5
  <2>. HIDE DEF Upto
  <2>. QED  BY <1>1, <1>6, <2>1

-----------------------------------------------------------------------------
(* The frames the translator makes.                                        *)

\* What a host shows that was told all there is to tell.
View(tr) == [mods |-> ShownMods(tr), keys |-> tr.keys, buttons |-> tr.buttons, consumer |-> tr.consumer]

\* What the translator means to be shown is a state a host can show.
LEMMA ViewType ==
  ASSUME NEW tr \in Translators
  PROVE  View(tr) \in Hosts /\ ShownMods(tr) \subseteq AllModifiers
<1>1. ShownMods(tr) \subseteq AllModifiers
  BY TranslatorAssumption DEF ShownMods, SwapAltGui, Translators
<1>. QED  BY <1>1 DEF View, Hosts, Translators

\* A sequence of one frame has that frame.
LEMMA SingleFrame ==
  ASSUME NEW f \in FrameSet
  PROVE  <<f>> \in Seq(FrameSet) /\ ToSet(<<f>>) = {f} /\ Reports(<<f>>) = {f.report}
<1>1. <<f>> \in Seq(FrameSet) /\ DOMAIN <<f>> = {1} /\ <<f>>[1] = f
  OBVIOUS
<1>2. ToSet(<<f>>) = {f}
  BY <1>1 DEF ToSet
<1>. QED  BY <1>1, <1>2 DEF Reports

\* An empty sequence has none.
LEMMA NoFrame == <<>> \in Seq(FrameSet) /\ ToSet(<<>>) = {} /\ Reports(<<>>) = {}
<1>1. <<>> \in Seq(FrameSet) /\ DOMAIN <<>> = {}
  OBVIOUS
<1>2. ToSet(<<>>) = {}
  BY <1>1 DEF ToSet
<1>. QED  BY <1>1, <1>2 DEF Reports

\* Frames that say what v has, one for each of these reports or more.
Saying(fs, v, reports) ==
  fs \in Seq(FrameSet) /\ Reports(fs) = reports /\ \A f \in ToSet(fs) : Show(v, f) = v

\* No frame says nothing false.
LEMMA SayingNothing == \A v : Saying(<<>>, v, {})
BY NoFrame DEF Saying

\* Two sequences that say what is so, one after the other, do.
LEMMA SayingBoth ==
  ASSUME NEW v, NEW a, NEW b, NEW ra, NEW rb, Saying(a, v, ra), Saying(b, v, rb)
  PROVE  Saying(a \o b, v, ra \cup rb)
BY ConcatFacts DEF Saying

\* The keyboard flush says what the keyboard is to show, if that changed.
LEMMA FlushKeyboardSays ==
  ASSUME NEW tr \in Translators
  PROVE  Saying(FlushKeyboard(tr), View(tr), IF tr.kbdDirty THEN {"keyboard"} ELSE {})
<1>. DEFINE f == KeyboardFrame(tr)
<1>1. f \in FrameSet /\ f.report = "keyboard" /\ Show(View(tr), f) = View(tr)
  <2>1. f \in FrameSet
    BY ViewType DEF KeyboardFrame, FrameSet, Translators
  <2>2. f.report = "keyboard" /\ f.mods = ShownMods(tr) /\ f.keys = tr.keys
    BY DEF KeyboardFrame
  <2>3. Show(View(tr), f) = [View(tr) EXCEPT !.mods = f.mods, !.keys = f.keys]
    BY <2>2 DEF Show
  <2>. QED  BY <2>1, <2>2, <2>3 DEF View
<1>2. CASE tr.kbdDirty
  <2>1. FlushKeyboard(tr) = <<f>>
    BY <1>2 DEF FlushKeyboard
  <2>. HIDE DEF f
  <2>. QED  BY <1>1, <1>2, <2>1, SingleFrame DEF Saying
<1>3. CASE ~tr.kbdDirty
  BY <1>3, SayingNothing, Zenon DEF FlushKeyboard
<1>. QED  BY <1>2, <1>3

\* The media-key flush says what media key is to show, if that changed.
LEMMA FlushConsumerSays ==
  ASSUME NEW tr \in Translators
  PROVE  Saying(FlushConsumer(tr), View(tr), IF tr.consumerDirty THEN {"consumer"} ELSE {})
<1>. DEFINE f == ConsumerFrame(tr)
<1>1. f \in FrameSet /\ f.report = "consumer" /\ Show(View(tr), f) = View(tr)
  <2>1. f \in FrameSet
    BY DEF ConsumerFrame, FrameSet, Translators
  <2>2. f.report = "consumer" /\ f.usage = tr.consumer
    BY DEF ConsumerFrame
  <2>3. Show(View(tr), f) = [View(tr) EXCEPT !.consumer = f.usage]
    BY <2>2 DEF Show
  <2>. QED  BY <2>1, <2>2, <2>3 DEF View
<1>2. CASE tr.consumerDirty
  <2>1. FlushConsumer(tr) = <<f>>
    BY <1>2 DEF FlushConsumer
  <2>. HIDE DEF f
  <2>. QED  BY <1>1, <1>2, <2>1, SingleFrame DEF Saying
<1>3. CASE ~tr.consumerDirty
  BY <1>3, SayingNothing, Zenon DEF FlushConsumer
<1>. QED  BY <1>2, <1>3

\* A mouse frame says the buttons, whatever its motion.
LEMMA MouseFrameSays ==
  ASSUME NEW v \in Hosts, NEW delta \in Int
  PROVE  /\ MouseFrame(v.buttons, delta) \in FrameSet
         /\ MouseFrame(v.buttons, delta).report = "mouse"
         /\ MouseFrame(v.buttons, delta).motion = delta
         /\ Show(v, MouseFrame(v.buttons, delta)) = v
<1>. DEFINE f == MouseFrame(v.buttons, delta)
<1>1. f \in FrameSet
  BY DEF MouseFrame, FrameSet, Hosts
<1>2. f.report = "mouse" /\ f.buttons = v.buttons /\ f.motion = delta
  BY DEF MouseFrame
<1>3. Show(v, f) = [v EXCEPT !.buttons = f.buttons]
  BY <1>2 DEF Show
<1>. QED  BY <1>1, <1>2, <1>3 DEF Hosts

\* How many reports a distance takes, and how far each one goes.
Size(motion) == IF motion < 0 THEN -motion ELSE motion
Sign(motion) == IF motion < 0 THEN -1 ELSE 1
Splits(motion) == IF Size(motion) = 0 THEN 1 ELSE (Size(motion) + Chunk - 1) \div Chunk

\* How far the first n go.
Way(motion, n) == Sign(motion) * (IF n * Chunk < Size(motion) THEN n * Chunk ELSE Size(motion))

\* A clamped motion is an integer.
LEMMA ClampType == ASSUME NEW m \in Int PROVE Clamp(m) \in Int
BY TranslatorAssumption DEF Clamp

\* Motion is split in bounded parts that add up to it.
LEMMA SplitsFacts ==
  ASSUME NEW motion \in Int
  PROVE  /\ Splits(motion) \in Nat /\ Splits(motion) >= 1
         /\ \A n \in Nat : n * Chunk \in Nat
         /\ Size(motion) \in Nat /\ Sign(motion) \in Int
         /\ \A n \in 0 .. Splits(motion) : Way(motion, n) \in Int
         /\ Way(motion, 0) = 0 /\ Way(motion, Splits(motion)) = motion
         /\ \A n \in 1 .. Splits(motion) :
              /\ motion - Sign(motion) * (n - 1) * Chunk \in Int
              /\ Way(motion, n) = Way(motion, n - 1) + Clamp(motion - Sign(motion) * (n - 1) * Chunk)
<1>. DEFINE size == Size(motion)
            sign == Sign(motion)
            last == Splits(motion)
<1>1. Chunk \in Nat /\ Chunk >= 1 /\ size \in Nat /\ sign \in {1, -1} /\ motion = sign * size
      /\ (size = 0 <=> motion = 0)
  BY TranslatorAssumption DEF Size, Sign
<1>2. \A n \in Nat : n * Chunk \in Nat
  BY <1>1
<1>3. last \in Nat /\ last >= 1 /\ size <= last * Chunk
      /\ (size # 0 => (last - 1) * Chunk < size)
  <2>. HIDE DEF size
  <2>1. CASE size = 0
    BY <1>1, <2>1 DEF Splits, size
  <2>2. CASE size # 0
    <3>1. last = (size + Chunk - 1) \div Chunk
      BY <2>2 DEF Splits, size
    <3>2. size >= 1 /\ size + Chunk - 1 \in Nat /\ size + Chunk - 1 >= Chunk
      BY <1>1, <2>2
    <3>3. PICK x \in Nat : x = size + Chunk - 1
      BY <3>2
    <3>4. x \div Chunk \in Nat /\ (x \div Chunk) * Chunk <= x /\ x < (x \div Chunk) * Chunk + Chunk
      BY <1>1, <3>3
    <3>5. last \in Nat /\ last * Chunk <= x /\ x < last * Chunk + Chunk
      BY <3>1, <3>3, <3>4
    <3>. HIDE DEF last
    <3>6. last >= 1
      <4>1. last = 0 => last * Chunk = 0
        BY <1>1
      <4>. QED  BY <1>1, <3>2, <3>3, <3>5, <4>1
    <3>7. (last - 1) * Chunk = last * Chunk - Chunk /\ last * Chunk \in Int
      BY <1>1, <3>5
    <3>. QED  BY <1>1, <3>3, <3>5, <3>6, <3>7
  <2>. QED  BY <2>1, <2>2
<1>4. \A n \in 0 .. last : Way(motion, n) \in Int
  BY <1>1, <1>2, <1>3 DEF Way
<1>5. Way(motion, 0) = 0 /\ Way(motion, last) = motion
  <2>1. 0 * Chunk = 0 /\ last * Chunk \in Nat
    BY <1>1, <1>2, <1>3
  <2>2. Way(motion, 0) = sign * (IF 0 < size THEN 0 ELSE size)
        /\ Way(motion, last) = sign * (IF last * Chunk < size THEN last * Chunk ELSE size)
    BY <2>1, Zenon DEF Way
  <2>. HIDE DEF last, size, sign
  <2>. QED  BY <1>1, <1>3, <2>1, <2>2
<1>6. ASSUME NEW n \in 1 .. last
      PROVE  /\ motion - sign * (n - 1) * Chunk \in Int
             /\ Way(motion, n) = Way(motion, n - 1) + Clamp(motion - sign * (n - 1) * Chunk)
  <2>1. n \in Nat /\ n - 1 \in Nat /\ n <= last
    BY <1>3
  <2>2. PICK x \in Nat : x = (n - 1) * Chunk
    BY <1>2, <2>1
  <2>3. n * Chunk = x + Chunk /\ sign * (n - 1) * Chunk = sign * x
    <3>. HIDE DEF sign, last
    <3>. QED  BY <1>1, <2>1, <2>2
  <2>4. (size = 0 => x = 0) /\ (size # 0 => x < size)
    <3>0. size = 0 => x = 0
      <4>1. size = 0 => last = 1
        BY DEF Splits
      <4>. HIDE DEF last, size
      <4>. QED  BY <1>1, <2>1, <2>2, <4>1
    <3>1. (n - 1) * Chunk <= (last - 1) * Chunk
      <4>. HIDE DEF last
      <4>1. PICK k \in Nat : last - 1 = (n - 1) + k
        BY <1>3, <2>1
      <4>2. (last - 1) * Chunk = (n - 1) * Chunk + k * Chunk
        BY <1>1, <2>1, <4>1
      <4>. QED  BY <1>2, <2>1, <4>2
    <3>2. (last - 1) * Chunk \in Int
      BY <1>1, <1>3
    <3>. HIDE DEF last, size
    <3>. QED  BY <1>1, <1>3, <2>2, <3>0, <3>1, <3>2
  <2>5. /\ Way(motion, n) = sign * (IF x + Chunk < size THEN x + Chunk ELSE size)
        /\ Way(motion, n - 1) = sign * (IF x < size THEN x ELSE size)
    BY <2>2, <2>3, Zenon DEF Way
  <2>6. Clamp(motion - sign * x) = IF motion - sign * x > Chunk THEN Chunk
                                   ELSE IF motion - sign * x < -Chunk THEN -Chunk
                                   ELSE motion - sign * x
    BY DEF Clamp
  <2>7. PICK rest \in Int : rest = motion - sign * (n - 1) * Chunk /\ rest = motion - sign * x
    BY <1>1, <2>3
  <2>. HIDE DEF size, sign, last
  <2>8. CASE sign = 1
    <3>1. motion = size /\ rest = size - x
      BY <1>1, <2>7, <2>8
    <3>2. Way(motion, n) = (IF x + Chunk < size THEN x + Chunk ELSE size)
          /\ Way(motion, n - 1) = (IF x < size THEN x ELSE size)
      BY <1>1, <2>5, <2>8
    <3>3. Way(motion, n) = Way(motion, n - 1) + Clamp(rest)
      BY <1>1, <2>4, <2>6, <2>7, <3>1, <3>2
    <3>. QED  BY <2>7, <3>3
  <2>9. CASE sign = -1
    <3>1. motion = -size /\ rest = x - size
      BY <1>1, <2>7, <2>9
    <3>2. Way(motion, n) = -(IF x + Chunk < size THEN x + Chunk ELSE size)
          /\ Way(motion, n - 1) = -(IF x < size THEN x ELSE size)
      BY <1>1, <2>5, <2>9
    <3>3. Way(motion, n) = Way(motion, n - 1) + Clamp(rest)
      BY <1>1, <2>4, <2>6, <2>7, <3>1, <3>2
    <3>. QED  BY <2>7, <3>3
  <2>. QED  BY <1>1, <2>8, <2>9
<1>. QED
  <2>. HIDE DEF size, sign, last
  <2>1. size \in Nat /\ sign \in Int
    BY <1>1
  <2>. QED  BY <1>2, <1>3, <1>4, <1>5, <1>6, <2>1 DEF size, sign, last

\* Every split says the same buttons.
LEMMA FlushMouseSays ==
  ASSUME NEW tr \in Translators
  PROVE  /\ Saying(FlushMouse(tr), View(tr), IF tr.buttonsDirty \/ MotionPending(tr) THEN {"mouse"} ELSE {})
         /\ tr.buttonsDirty \/ MotionPending(tr) =>
              /\ Len(FlushMouse(tr)) = Splits(tr.motion)
              /\ \A i \in 1 .. Splits(tr.motion) :
                   /\ FlushMouse(tr)[i].report = "mouse"
                   /\ FlushMouse(tr)[i].motion = Clamp(tr.motion - Sign(tr.motion) * (i - 1) * Chunk)
<1>. DEFINE part(i) == Clamp(tr.motion - Sign(tr.motion) * (i - 1) * Chunk)
            last == Splits(tr.motion)
            fs == [i \in 1 .. last |-> MouseFrame(tr.buttons, part(i))]
<1>1. tr.motion \in Int
  BY DEF Translators
<1>2. last \in Nat /\ last >= 1 /\ \A i \in 1 .. last : part(i) \in Int
  <2>1. \A i \in 1 .. last : tr.motion - Sign(tr.motion) * (i - 1) * Chunk \in Int
    BY <1>1, SplitsFacts, Zenon
  <2>2. last \in Nat /\ last >= 1
    BY <1>1, SplitsFacts, Zenon
  <2>. QED  BY <2>1, <2>2, ClampType, Zenon
<1>3. View(tr) \in Hosts /\ View(tr).buttons = tr.buttons
  BY ViewType DEF View
<1>. HIDE DEF part, last
<1>4. \A i \in 1 .. last : /\ fs[i] \in FrameSet /\ fs[i].report = "mouse"
                           /\ fs[i].motion = part(i) /\ Show(View(tr), fs[i]) = View(tr)
  BY <1>2, <1>3, MouseFrameSays
<1>5. fs \in Seq(FrameSet) /\ Len(fs) = last /\ DOMAIN fs = 1 .. last
  <2>1. fs = [i \in 1 .. last |-> fs[i]]
    OBVIOUS
  <2>. HIDE DEF fs
  <2>2. fs \in [1 .. last -> FrameSet]
    BY <1>4, <2>1
  <2>. QED  BY <1>2, <2>2
<1>6. CASE tr.buttonsDirty \/ MotionPending(tr)
  <2>1. FlushMouse(tr) = fs
    BY <1>6, Zenon DEF FlushMouse, Size, Sign, Splits, part, last
  <2>. HIDE DEF fs
  <2>2. 1 \in 1 .. last
    BY <1>2
  <2>3. ToSet(fs) = {fs[i] : i \in 1 .. last}
    BY <1>5 DEF ToSet
  <2>4. Reports(fs) = {"mouse"}
    BY <1>4, <2>2, <2>3 DEF Reports
  <2>5. Saying(fs, View(tr), {"mouse"})
    BY <1>4, <1>5, <2>3, <2>4 DEF Saying
  <2>. QED  BY <1>4, <1>5, <1>6, <2>1, <2>5 DEF part, last
<1>7. CASE ~(tr.buttonsDirty \/ MotionPending(tr))
  <2>1. FlushMouse(tr) = <<>>
    BY <1>7, Zenon DEF FlushMouse
  <2>. QED  BY <1>7, <2>1, SayingNothing, Zenon
<1>. QED  BY <1>6, <1>7

\* Motion is in mouse frames only, and the splits of a flush add up to all there is.
LEMMA NoTravel ==
  ASSUME NEW a \in Seq(FrameSet), "mouse" \notin Reports(a),
         NEW acc, acc[0] = 0, \A n \in 1 .. Len(a) : acc[n] = Farther(acc[n-1], a[n])
  PROVE  acc[Len(a)] = 0
<1>1. Len(a) \in Nat /\ DOMAIN a = 1 .. Len(a)
  OBVIOUS
<1>2. \A n \in 1 .. Len(a) : a[n].report # "mouse"
  BY <1>1 DEF Reports, ToSet
<1>3. \A n \in 1 .. Len(a) : acc[n-1] \in {0} => acc[n] \in {0}
  BY <1>2 DEF Farther
<1>4. \A n \in 0 .. Len(a) : acc[n] \in {0}
  <2>1. PICK S : S = {0}
    OBVIOUS
  <2>2. acc[0] \in S /\ \A n \in 1 .. Len(a) : acc[n-1] \in S => acc[n] \in S
    BY <1>3, <2>1
  <2>3. \A n \in 0 .. Len(a) : acc[n] \in S
    BY <1>1, <2>2, RunType
  <2>. QED  BY <2>1, <2>3
<1>. QED  BY <1>1, <1>4

\* Frames of other reports travel no distance.
LEMMA TravelNothing ==
  ASSUME NEW a \in Seq(FrameSet), "mouse" \notin Reports(a)
  PROVE  Travel(a) = 0
<1>1. PICK acc \in [0 .. Len(a) -> Int] :
        /\ acc[0] = 0 /\ Travel(a) = acc[Len(a)]
        /\ \A n \in 1 .. Len(a) : acc[n] = Farther(acc[n-1], a[n])
  BY TravelRun
<1>. QED  BY <1>1, NoTravel

\* Mouse frames travel the sum of their motions.
LEMMA TravelSum ==
  ASSUME NEW a \in Seq(FrameSet), "mouse" \notin Reports(a), NEW b \in Seq(FrameSet),
         NEW way, way[0] = 0,
         \A i \in 1 .. Len(b) : b[i].report = "mouse" /\ way[i] = way[i-1] + b[i].motion
  PROVE  Travel(a \o b) = way[Len(b)]
<1>. DEFINE p == Len(a)
            last == Len(b)
<1>1. p \in Nat /\ last \in Nat /\ Len(a \o b) = p + last /\ a \o b \in Seq(FrameSet)
      /\ \A i \in 1 .. last : (a \o b)[p + i] = b[i]
  OBVIOUS
<1>2. PICK acc \in [0 .. Len(a \o b) -> Int] :
        /\ acc[0] = 0 /\ Travel(a \o b) = acc[Len(a \o b)]
        /\ \A n \in 1 .. Len(a \o b) : acc[n] = Farther(acc[n-1], (a \o b)[n])
  BY <1>1, TravelRun
<1>3. acc[p] = 0
  <2>1. \A n \in 1 .. p : n \in 1 .. Len(a \o b) /\ (a \o b)[n] = a[n]
    BY <1>1
  <2>2. \A n \in 1 .. Len(a) : acc[n] = Farther(acc[n-1], a[n])
    BY <1>2, <2>1
  <2>. QED  BY <1>2, <2>2, NoTravel
<1>4. \A i \in 1 .. last : acc[p + i] = acc[p + (i - 1)] + b[i].motion
  <2>1. \A i \in 1 .. last : p + i \in 1 .. Len(a \o b) /\ (p + i) - 1 = p + (i - 1)
    BY <1>1
  <2>2. \A i \in 1 .. last : acc[p + i] = Farther(acc[p + (i - 1)], b[i])
    BY <1>1, <1>2, <2>1
  <2>. QED  BY <2>2 DEF Farther
<1>. DEFINE T == {n \in 0 .. last : acc[p + n] = way[n]}
<1>5. 0 \in T
  BY <1>1, <1>3
<1>6. ASSUME NEW n \in 1 .. last, n - 1 \in T PROVE n \in T
  <2>1. acc[p + (n - 1)] = way[n - 1]
    BY <1>6
  <2>2. acc[p + n] = way[n]
    BY <1>4, <2>1
  <2>. QED  BY <1>1, <2>2
<1>7. \A n \in 0 .. last : n \in T
  <2>. HIDE DEF T
  <2>. QED  BY <1>1, <1>5, <1>6, BoundedInduction
<1>8. acc[p + last] = way[last]
  BY <1>1, <1>7
<1>. QED  BY <1>1, <1>2, <1>8

\* A mouse flush travels all the motion accumulated.
LEMMA TravelAll ==
  ASSUME NEW tr \in Translators, NEW a \in Seq(FrameSet), "mouse" \notin Reports(a)
  PROVE  Travel(a \o FlushMouse(tr)) = tr.motion
<1>0. tr.motion \in Int /\ FlushMouse(tr) \in Seq(FrameSet)
  <2>1. tr.motion \in Int
    BY DEF Translators
  <2>. QED  BY <2>1, FlushMouseSays DEF Saying
<1>1. CASE tr.buttonsDirty \/ MotionPending(tr)
  <2>. DEFINE last == Splits(tr.motion)
              way == [n \in 0 .. last |-> Way(tr.motion, n)]
  <2>1. Len(FlushMouse(tr)) = last
    BY <1>1, FlushMouseSays, Zenon
  <2>2. last \in Nat
    BY <1>0, SplitsFacts, Zenon
  <2>3. \A i \in 1 .. last : /\ FlushMouse(tr)[i].report = "mouse"
                             /\ Way(tr.motion, i) = Way(tr.motion, i - 1) + FlushMouse(tr)[i].motion
    <3>1. \A i \in 1 .. last :
            /\ FlushMouse(tr)[i].report = "mouse"
            /\ FlushMouse(tr)[i].motion = Clamp(tr.motion - Sign(tr.motion) * (i - 1) * Chunk)
      BY <1>1, FlushMouseSays, Zenon
    <3>2. \A i \in 1 .. last :
            Way(tr.motion, i) = Way(tr.motion, i - 1)
                                + Clamp(tr.motion - Sign(tr.motion) * (i - 1) * Chunk)
      BY <1>0, SplitsFacts, Zenon
    <3>. QED  BY <3>1, <3>2, Zenon
  <2>4. Way(tr.motion, 0) = 0 /\ Way(tr.motion, last) = tr.motion
    BY <1>0, SplitsFacts, Zenon
  <2>. HIDE DEF last
  <2>5. way[0] = 0 /\ way[last] = tr.motion
        /\ \A i \in 1 .. last : way[i] = way[i-1] + FlushMouse(tr)[i].motion
    BY <2>2, <2>3, <2>4
  <2>. HIDE DEF way
  <2>6. Travel(a \o FlushMouse(tr)) = way[Len(FlushMouse(tr))]
    BY <1>0, <2>1, <2>3, <2>5, TravelSum
  <2>. QED  BY <2>1, <2>5, <2>6
<1>2. CASE ~(tr.buttonsDirty \/ MotionPending(tr))
  <2>1. FlushMouse(tr) = <<>> /\ tr.motion = 0
    BY <1>2 DEF FlushMouse, MotionPending
  <2>2. a \o <<>> = a
    OBVIOUS
  <2>. QED  BY <2>1, <2>2, TravelNothing
<1>. QED  BY <1>1, <1>2

-----------------------------------------------------------------------------
(* Sending frames to the active host.                                      *)

HostTypes ==
  /\ queued \in 0 .. FrameCap /\ host \in [Remote -> Hosts]
  /\ dropped \subseteq Remote /\ unflushed \subseteq Remote

\* The frames all reach their host, or the host is one a frame was dropped for.
LEMMA SendFramesFacts ==
  ASSUME HostTypes, slot \in Remote, NEW v \in Hosts, NEW fs, NEW reports,
         Saying(fs, v, reports), SendFrames(fs)
  PROVE  /\ queued' \in 0 .. FrameCap /\ host' \in [Remote -> Hosts]
         /\ dropped' \subseteq Remote /\ dropped \subseteq dropped' /\ dropped' \subseteq dropped \cup {slot}
         /\ \A s \in Remote \ {slot} : host'[s] = host[s]
         /\ slot \in dropped' \/ Told(host[slot], v, host'[slot], reports)
<1>. DEFINE room == Lesser(FrameCap - queued, Len(fs))
            sent == Accepted(fs)
<1>1. fs \in Seq(FrameSet) /\ Len(fs) \in Nat /\ queued \in 0 .. FrameCap /\ FrameCap \in Nat
  BY RouterAssumption DEF Saying, HostTypes
<1>2. room \in 0 .. Len(fs) /\ room <= FrameCap - queued
  BY <1>1 DEF Lesser
<1>3. sent = SubSeq(fs, 1, room)
  BY DEF Accepted
<1>. HIDE DEF room
<1>4. sent \in Seq(FrameSet) /\ Len(sent) = room /\ (room = Len(fs) => sent = fs)
  BY <1>1, <1>2, <1>3
<1>. HIDE DEF sent
<1>5. /\ queued' = queued + Len(sent)
      /\ host' = [host EXCEPT ![slot] = FoldLeft(Show, host[slot], sent)]
      /\ dropped' = IF Len(sent) < Len(fs) THEN dropped \cup {slot} ELSE dropped
  BY Zenon DEF SendFrames, sent
<1>6. host[slot] \in Hosts
  BY DEF HostTypes
<1>7. FoldLeft(Show, host[slot], sent) \in Hosts
  <2>1. PICK acc \in [0 .. Len(sent) -> Hosts] : FoldLeft(Show, host[slot], sent) = acc[Len(sent)]
    BY <1>4, <1>6, ShowRun
  <2>2. Len(sent) \in 0 .. Len(sent)
    BY <1>1, <1>2, <1>4
  <2>. QED  BY <2>1, <2>2
<1>8. queued' \in 0 .. FrameCap
  BY <1>1, <1>2, <1>4, <1>5
<1>9. host' \in [Remote -> Hosts] /\ host'[slot] = FoldLeft(Show, host[slot], sent)
      /\ \A s \in Remote \ {slot} : host'[s] = host[s]
  BY <1>5, <1>7 DEF HostTypes
<1>10. slot \in dropped' \/ Told(host[slot], v, host'[slot], reports)
  <2>1. CASE room = Len(fs)
    <3>1. Told(host[slot], v, FoldLeft(Show, host[slot], fs), Reports(fs))
      BY <1>1, <1>6, ShowAll DEF Saying
    <3>2. Reports(fs) = reports
      BY DEF Saying
    <3>3. host'[slot] = FoldLeft(Show, host[slot], fs)
      BY <1>4, <1>9, <2>1, Zenon
    <3>. QED  BY <3>1, <3>2, <3>3, Zenon
  <2>2. CASE room # Len(fs)
    BY <1>1, <1>2, <1>4, <1>5, <2>2
  <2>. QED  BY <2>1, <2>2
<1>. QED  BY <1>5, <1>8, <1>9, <1>10 DEF HostTypes

Clean(tr) == ~tr.kbdDirty /\ ~tr.buttonsDirty /\ ~tr.consumerDirty

\* What the host shows is right, but for the reports that are still to be sent.
Agrees(tr, h) ==
  /\ tr.kbdDirty \/ (h.mods = ShownMods(tr) /\ h.keys = tr.keys)
  /\ tr.buttonsDirty \/ h.buttons = tr.buttons
  /\ tr.consumerDirty \/ h.consumer = tr.consumer

\* A flush clears the flags of what it sends and leaves what is tracked.
LEMMA FlagsFlushed ==
  ASSUME NEW tr \in Translators
  PROVE  /\ ~KeysFlushed(tr).kbdDirty /\ ~KeysFlushed(tr).consumerDirty
         /\ KeysFlushed(tr).buttonsDirty = tr.buttonsDirty
         /\ KeysFlushed(tr).mac = tr.mac /\ View(KeysFlushed(tr)) = View(tr)
         /\ ~MouseFlushed(tr).buttonsDirty
         /\ MouseFlushed(tr).kbdDirty = tr.kbdDirty /\ MouseFlushed(tr).consumerDirty = tr.consumerDirty
         /\ MouseFlushed(tr).mac = tr.mac /\ View(MouseFlushed(tr)) = View(tr)
<1>1. /\ ~KeysFlushed(tr).kbdDirty /\ ~KeysFlushed(tr).consumerDirty
      /\ KeysFlushed(tr).buttonsDirty = tr.buttonsDirty /\ KeysFlushed(tr).mac = tr.mac
  BY DEF KeysFlushed, Translators
<1>2. /\ ~MouseFlushed(tr).buttonsDirty /\ MouseFlushed(tr).kbdDirty = tr.kbdDirty
      /\ MouseFlushed(tr).consumerDirty = tr.consumerDirty /\ MouseFlushed(tr).mac = tr.mac
  BY DEF MouseFlushed, Translators
<1>3. View(KeysFlushed(tr)) = View(tr)
  BY <1>1, KeysFlushedType DEF View, ShownMods
<1>4. View(MouseFlushed(tr)) = View(tr)
  BY <1>2, MouseFlushedType DEF View, ShownMods
<1>. QED  BY <1>1, <1>2, <1>3, <1>4

\* What flush_remote sends says what the translator holds, in every report that is
\* due, and goes as far as the motion that is gone from it.
LEMMA FlushRemoteSends ==
  ASSUME NEW tr \in Translators, FlushRemote(tr)
  PROVE  /\ t' \in Translators /\ t'.mac = tr.mac /\ View(t') = View(tr) /\ Clean(t')
         /\ \E fs, reports :
              /\ Saying(fs, View(tr), reports) /\ SendFrames(fs)
              /\ tr.kbdDirty => "keyboard" \in reports
              /\ tr.buttonsDirty => "mouse" \in reports
              /\ tr.consumerDirty => "consumer" \in reports
              /\ owed' = owed - Travel(Accepted(fs)) /\ Travel(fs) = tr.motion - t'.motion
<1>. DEFINE now == tr.buttonsDirty \/ quiet
            keys == FlushKeyboard(tr) \o FlushConsumer(tr)
            mouse == IF now THEN FlushMouse(tr) ELSE <<>>
            fs == keys \o mouse
<1>1. /\ SendFrames(fs) /\ owed' = owed - Travel(Accepted(fs))
      /\ t' = IF now THEN MouseFlushed(KeysFlushed(tr)) ELSE KeysFlushed(tr)
  BY Zenon DEF FlushRemote
<1>. DEFINE rk == IF tr.kbdDirty THEN {"keyboard"} ELSE {}
            rc == IF tr.consumerDirty THEN {"consumer"} ELSE {}
            rm == IF tr.buttonsDirty \/ MotionPending(tr) THEN {"mouse"} ELSE {}
<1>2. Saying(keys, View(tr), rk \cup rc)
  BY FlushKeyboardSays, FlushConsumerSays, SayingBoth, Zenon
<1>3. tr.motion \in Int /\ KeysFlushed(tr) \in Translators /\ KeysFlushed(tr).motion = tr.motion
  BY KeysFlushedType DEF Translators
<1>4. keys \in Seq(FrameSet) /\ "mouse" \notin Reports(keys)
  BY <1>2 DEF Saying
<1>5. CASE now
  <2>1. t' = MouseFlushed(KeysFlushed(tr)) /\ mouse = FlushMouse(tr)
    BY <1>1, <1>5, Zenon
  <2>2. t' \in Translators /\ t'.mac = tr.mac /\ View(t') = View(tr) /\ Clean(t') /\ t'.motion = 0
    BY <1>3, <2>1, FlagsFlushed, MouseFlushedType DEF Clean
  <2>3. Saying(fs, View(tr), (rk \cup rc) \cup rm)
    <3>1. Saying(FlushMouse(tr), View(tr), rm)
      BY FlushMouseSays, Zenon
    <3>. HIDE DEF keys, rm, rk, rc
    <3>. QED  BY <1>2, <2>1, <3>1, SayingBoth, Zenon
  <2>4. Travel(fs) = tr.motion - t'.motion
    <3>1. Travel(keys \o FlushMouse(tr)) = tr.motion
      <4>. HIDE DEF keys
      <4>. QED  BY <1>4, TravelAll
    <3>. QED  BY <1>3, <2>1, <2>2, <3>1
  <2>5. /\ tr.kbdDirty => "keyboard" \in (rk \cup rc) \cup rm
        /\ tr.buttonsDirty => "mouse" \in (rk \cup rc) \cup rm
        /\ tr.consumerDirty => "consumer" \in (rk \cup rc) \cup rm
    OBVIOUS
  <2>. HIDE DEF fs, rk, rc, rm
  <2>. QED  BY <1>1, <2>2, <2>3, <2>4, <2>5
<1>6. CASE ~now
  <2>1. t' = KeysFlushed(tr) /\ mouse = <<>> /\ ~tr.buttonsDirty
    BY <1>1, <1>6, Zenon
  <2>2. t' \in Translators /\ t'.mac = tr.mac /\ View(t') = View(tr) /\ Clean(t')
        /\ t'.motion = tr.motion
    BY <1>3, <2>1, FlagsFlushed DEF Clean
  <2>3. fs = keys
    <3>. HIDE DEF keys
    <3>. QED  BY <1>4, <2>1
  <2>4. Travel(fs) = tr.motion - t'.motion
    <3>. HIDE DEF keys, fs
    <3>1. Travel(keys) = 0
      BY <1>4, TravelNothing
    <3>. QED  BY <1>3, <2>2, <2>3, <3>1
  <2>5. /\ tr.kbdDirty => "keyboard" \in rk \cup rc
        /\ tr.consumerDirty => "consumer" \in rk \cup rc
    OBVIOUS
  <2>. HIDE DEF fs, rk, rc, keys
  <2>. QED  BY <1>1, <1>2, <2>1, <2>2, <2>3, <2>4, <2>5
<1>. QED  BY <1>5, <1>6

-----------------------------------------------------------------------------
(* What the hosts show, from switch to switch.                             *)

LayoutKept == t.mac = (slot \in MacSlots)

ActiveAgrees == slot \in Remote \ (dropped \cup unflushed) => Agrees(t, host[slot])

HostInv ==
  /\ slot \in Slots /\ t \in Translators /\ HostTypes /\ LayoutKept
  /\ unsynced = {} => Clean(t)
  /\ ActiveAgrees /\ InactiveHostsReleased

\* A host that was told every report that changed shows what is tracked.
LEMMA ToldAll ==
  ASSUME NEW tr \in Translators, NEW h, NEW r, NEW reports, Agrees(tr, h), Told(h, View(tr), r, reports),
         tr.kbdDirty => "keyboard" \in reports, tr.buttonsDirty => "mouse" \in reports,
         tr.consumerDirty => "consumer" \in reports
  PROVE  /\ r.mods = ShownMods(tr) /\ r.keys = tr.keys
         /\ r.buttons = tr.buttons /\ r.consumer = tr.consumer
<1>1. /\ View(tr).mods = ShownMods(tr) /\ View(tr).keys = tr.keys
      /\ View(tr).buttons = tr.buttons /\ View(tr).consumer = tr.consumer
  BY DEF View
<1>. QED  BY <1>1 DEF Agrees, Told

\* Nothing about the hosts changes that the invariant speaks of.
LEMMA StillHosts ==
  ASSUME HostInv, UNCHANGED <<slot, t, host, dropped, unflushed>>, queued' \in 0 .. FrameCap,
         unsynced' = {} => Clean(t)
  PROVE  HostInv'
BY DEF HostInv, HostTypes, LayoutKept, ActiveAgrees, InactiveHostsReleased

\* A flush to the active host, of what it agrees with but for what is due.
LEMMA FlushKeepsHosts ==
  ASSUME HostInv, slot \in Remote, NEW tr \in Translators, tr.mac = t.mac,
         slot \notin dropped \cup unflushed => Agrees(tr, host[slot]),
         FlushRemote(tr), UNCHANGED <<slot, unflushed>>
  PROVE  HostInv'
<1>1. /\ t' \in Translators /\ t'.mac = tr.mac /\ View(t') = View(tr) /\ Clean(t')
      /\ \E fs, reports :
           /\ Saying(fs, View(tr), reports) /\ SendFrames(fs)
           /\ tr.kbdDirty => "keyboard" \in reports
           /\ tr.buttonsDirty => "mouse" \in reports
           /\ tr.consumerDirty => "consumer" \in reports
  BY FlushRemoteSends
<1>2. PICK fs, reports :
        /\ Saying(fs, View(tr), reports) /\ SendFrames(fs)
        /\ tr.kbdDirty => "keyboard" \in reports
        /\ tr.buttonsDirty => "mouse" \in reports
        /\ tr.consumerDirty => "consumer" \in reports
  BY <1>1
<1>3. /\ queued' \in 0 .. FrameCap /\ host' \in [Remote -> Hosts]
      /\ dropped' \subseteq Remote /\ dropped \subseteq dropped' /\ dropped' \subseteq dropped \cup {slot}
      /\ \A s \in Remote \ {slot} : host'[s] = host[s]
      /\ slot \in dropped' \/ Told(host[slot], View(tr), host'[slot], reports)
  BY <1>2, ViewType, SendFramesFacts DEF HostInv
<1>4. HostTypes'
  BY <1>3 DEF HostInv, HostTypes
<1>5. LayoutKept'
  BY <1>1 DEF HostInv, LayoutKept
<1>6. InactiveHostsReleased'
  BY <1>3 DEF HostInv, InactiveHostsReleased
<1>7. ActiveAgrees'
  <2>. SUFFICES ASSUME slot' \in Remote \ (dropped' \cup unflushed')
                PROVE  Agrees(t', host'[slot'])
    BY DEF ActiveAgrees, Agrees, ShownMods
  <2>1. slot' = slot /\ slot \notin dropped \cup unflushed /\ slot \notin dropped'
    BY <1>3
  <2>2. /\ host'[slot].mods = ShownMods(tr) /\ host'[slot].keys = tr.keys
        /\ host'[slot].buttons = tr.buttons /\ host'[slot].consumer = tr.consumer
    BY <1>2, <1>3, <2>1, ToldAll
  <2>3. ShownMods(t') = ShownMods(tr) /\ t'.keys = tr.keys /\ t'.buttons = tr.buttons
        /\ t'.consumer = tr.consumer
    BY <1>1 DEF View
  <2>. QED  BY <2>1, <2>2, <2>3 DEF Agrees
<1>. QED  BY <1>1, <1>4, <1>5, <1>6, <1>7 DEF HostInv, Clean

\* A change to a report makes it due.
LEMMA SettersAgree ==
  ASSUME NEW tr \in Translators, NEW h, Agrees(tr, h)
  PROVE  /\ \A x \in SUBSET AllModifiers : Agrees(SetMods(tr, x), h)
         /\ \A x \in SUBSET PlainKeys : Agrees(SetKeys(tr, x), h)
         /\ \A x \in SUBSET Bits : Agrees(SetButtons(tr, x), h)
         /\ \A x \in MediaKeys \cup {None} : Agrees(SetConsumer(tr, x), h)
<1>1. ASSUME NEW x \in SUBSET AllModifiers PROVE Agrees(SetMods(tr, x), h)
  BY DEF Agrees, ShownMods, SetMods, Translators
<1>2. ASSUME NEW x \in SUBSET PlainKeys PROVE Agrees(SetKeys(tr, x), h)
  BY DEF Agrees, ShownMods, SetKeys, Translators
<1>3. ASSUME NEW x \in SUBSET Bits PROVE Agrees(SetButtons(tr, x), h)
  BY DEF Agrees, ShownMods, SetButtons, Translators
<1>4. ASSUME NEW x \in MediaKeys \cup {None} PROVE Agrees(SetConsumer(tr, x), h)
  BY DEF Agrees, ShownMods, SetConsumer, Translators
<1>. QED  BY <1>1, <1>2, <1>3, <1>4

\* Tracking a change leaves the layout.
LEMMA SettersMac ==
  ASSUME NEW tr \in Translators, NEW x
  PROVE  /\ SetMods(tr, x).mac = tr.mac /\ SetKeys(tr, x).mac = tr.mac
         /\ SetButtons(tr, x).mac = tr.mac /\ SetConsumer(tr, x).mac = tr.mac
BY DEF SetMods, SetKeys, SetButtons, SetConsumer, Translators

\* A press marks as changed what it changes.
LEMMA PressedAgrees ==
  ASSUME NEW tr \in Translators, NEW k
  PROVE  KeyPressed(tr, k).mac = tr.mac
         /\ \A h : Agrees(tr, h) => Agrees(KeyPressed(tr, k), h)
<1>1. CASE k \in MediaKeys
  <2>1. KeyPressed(tr, k) = SetConsumer(tr, k)
    BY <1>1, TranslatorAssumption DEF KeyPressed
  <2>. QED  BY <1>1, <2>1, SettersMac, SettersAgree
<1>2. CASE k \notin MediaKeys /\ k \in Buttons
  <2>1. KeyPressed(tr, k) = SetButtons(tr, tr.buttons \cup {ButtonBit[k]})
        /\ tr.buttons \cup {ButtonBit[k]} \in SUBSET Bits
    BY <1>2, TranslatorAssumption, SettersType DEF KeyPressed, Bits
  <2>. QED  BY <2>1, SettersMac, SettersAgree
<1>3. CASE k \notin MediaKeys \cup Buttons /\ k \in AllModifiers
  <2>1. KeyPressed(tr, k) = SetMods(tr, tr.mods \cup {k}) /\ tr.mods \cup {k} \in SUBSET AllModifiers
    BY <1>3, TranslatorAssumption, SettersType DEF KeyPressed
  <2>. QED  BY <2>1, SettersMac, SettersAgree
<1>4. CASE k \notin MediaKeys \cup Buttons \cup AllModifiers
  <2>1. \/ KeyPressed(tr, k) = SetKeys(tr, tr.keys \cup {k}) /\ tr.keys \cup {k} \in SUBSET PlainKeys
        \/ KeyPressed(tr, k) = tr
    BY <1>4, TranslatorAssumption, SettersType DEF KeyPressed
  <2>. QED  BY <2>1, SettersMac, SettersAgree
<1>. QED  BY <1>1, <1>2, <1>3, <1>4

\* So does a release.
LEMMA ReleasedAgrees ==
  ASSUME NEW tr \in Translators, NEW k
  PROVE  KeyReleased(tr, k).mac = tr.mac
         /\ \A h : Agrees(tr, h) => Agrees(KeyReleased(tr, k), h)
<1>1. CASE k \in MediaKeys
  <2>1. KeyReleased(tr, k) = SetConsumer(tr, IF tr.consumer = k THEN None ELSE tr.consumer)
        /\ (IF tr.consumer = k THEN None ELSE tr.consumer) \in MediaKeys \cup {None}
    BY <1>1, TranslatorAssumption, SettersType DEF KeyReleased
  <2>. QED  BY <2>1, SettersMac, SettersAgree
<1>2. CASE k \notin MediaKeys /\ k \in Buttons
  <2>1. KeyReleased(tr, k) = SetButtons(tr, tr.buttons \ {ButtonBit[k]})
        /\ tr.buttons \ {ButtonBit[k]} \in SUBSET Bits
    BY <1>2, TranslatorAssumption, SettersType DEF KeyReleased
  <2>. QED  BY <2>1, SettersMac, SettersAgree
<1>3. CASE k \notin MediaKeys \cup Buttons /\ k \in AllModifiers
  <2>1. KeyReleased(tr, k) = SetMods(tr, tr.mods \ {k}) /\ tr.mods \ {k} \in SUBSET AllModifiers
    BY <1>3, TranslatorAssumption, SettersType DEF KeyReleased
  <2>. QED  BY <2>1, SettersMac, SettersAgree
<1>4. CASE k \notin MediaKeys \cup Buttons \cup AllModifiers
  <2>1. \/ KeyReleased(tr, k) = SetKeys(tr, tr.keys \ {k}) /\ tr.keys \ {k} \in SUBSET PlainKeys
        \/ KeyReleased(tr, k) = tr
    BY <1>4, TranslatorAssumption, SettersType DEF KeyReleased
  <2>. QED  BY <2>1, SettersMac, SettersAgree
<1>. QED  BY <1>1, <1>2, <1>3, <1>4

\* A new translator has nothing to send, for a host that shows nothing.
LEMMA IdleIsClean ==
  ASSUME NEW mac \in BOOLEAN
  PROVE  /\ IdleTranslator(mac) \in Translators /\ Clean(IdleTranslator(mac))
         /\ IdleTranslator(mac).mac = mac /\ Agrees(IdleTranslator(mac), Released)
         /\ IdleTranslator(mac).motion = 0 /\ Released \in Hosts
BY TranslatorAssumption
   DEF IdleTranslator, Translators, Clean, Agrees, Released, ShownMods, Hosts, SwapAltGui

-----------------------------------------------------------------------------
(* The verdicts.                                                           *)

\* Releasing everything says nothing but releases, for each report that holds
\* something.
LEMMA ReleaseAllSays ==
  ASSUME NEW tr \in Translators
  PROVE  \E reports :
           /\ Saying(ReleaseAll(tr), Released, reports)
           /\ tr.mods # {} \/ tr.keys # {} => "keyboard" \in reports
           /\ tr.buttons # {} => "mouse" \in reports
           /\ tr.consumer # None => "consumer" \in reports
<1>. DEFINE fk == [report |-> "keyboard", mods |-> {}, keys |-> {}]
            fm == MouseFrame({}, 0)
            fc == [report |-> "consumer", usage |-> None]
            k == IF tr.mods # {} \/ tr.keys # {} THEN <<fk>> ELSE <<>>
            m == IF tr.buttons # {} THEN <<fm>> ELSE <<>>
            c == IF tr.consumer # None THEN <<fc>> ELSE <<>>
            rk == IF tr.mods # {} \/ tr.keys # {} THEN {"keyboard"} ELSE {}
            rm == IF tr.buttons # {} THEN {"mouse"} ELSE {}
            rc == IF tr.consumer # None THEN {"consumer"} ELSE {}
<1>1. /\ fk \in FrameSet /\ fm \in FrameSet /\ fc \in FrameSet
      /\ fk.report = "keyboard" /\ fm.report = "mouse" /\ fc.report = "consumer"
  BY DEF FrameSet, MouseFrame
<1>2. Show(Released, fk) = Released /\ Show(Released, fm) = Released /\ Show(Released, fc) = Released
  BY DEF Show, Released, MouseFrame
<1>. HIDE DEF fk, fm, fc
<1>3. /\ Saying(<<fk>>, Released, {"keyboard"}) /\ Saying(<<fm>>, Released, {"mouse"})
      /\ Saying(<<fc>>, Released, {"consumer"})
  BY <1>1, <1>2, SingleFrame DEF Saying
<1>4. Saying(k, Released, rk) /\ Saying(m, Released, rm) /\ Saying(c, Released, rc)
  BY <1>3, SayingNothing, Zenon
<1>5. ReleaseAll(tr) = (k \o m) \o c
  BY Zenon DEF ReleaseAll, fk, fm, fc
<1>6. /\ tr.mods # {} \/ tr.keys # {} => "keyboard" \in (rk \cup rm) \cup rc
      /\ tr.buttons # {} => "mouse" \in (rk \cup rm) \cup rc
      /\ tr.consumer # None => "consumer" \in (rk \cup rm) \cup rc
  OBVIOUS
<1>. HIDE DEF k, m, c, rk, rm, rc
<1>7. Saying((k \o m) \o c, Released, (rk \cup rm) \cup rc)
  <2>1. Saying(k \o m, Released, rk \cup rm)
    BY <1>4, SayingBoth
  <2>. QED  BY <1>4, <2>1, SayingBoth
<1>. QED  BY <1>5, <1>6, <1>7, Zenon

\* Every slot but the local one is remote.
LEMMA RemoteSlot == slot \in Slots /\ slot # LocalSlot => slot \in Remote
BY DEF Remote

\* Releasing a combo's modifiers keeps the hosts right.
LEMMA ComboModsKeepHosts ==
  ASSUME SessionInv, HostInv, NEW mods, NEW ok, ReleaseComboMods(mods, ok),
         UNCHANGED <<slot, unflushed>>
  PROVE  HostInv'
<1>1. CASE slot = LocalSlot
  <2>1. UNCHANGED <<t, queued, host, dropped>>
    BY <1>1 DEF ReleaseComboMods
  <2>2. Clean(t)
    BY <1>1, IdleIsClean DEF SessionInv, LocalIsIdle
  <2>. QED  BY <2>1, <2>2, StillHosts DEF HostInv, HostTypes
<1>2. CASE slot # LocalSlot
  <2>. DEFINE tr == SetMods(t, t.mods \ mods)
  <2>1. FlushRemote(tr) /\ slot \in Remote
    BY <1>2, RemoteSlot DEF ReleaseComboMods, HostInv
  <2>2. t \in Translators /\ t.mods \ mods \in SUBSET AllModifiers
    BY SettersType DEF HostInv
  <2>3. tr \in Translators /\ tr.mac = t.mac /\ (ActiveAgrees /\ slot \notin dropped \cup unflushed => Agrees(tr, host[slot]))
    BY <2>1, <2>2, SettersType, SettersMac, SettersAgree DEF ActiveAgrees
  <2>. HIDE DEF tr
  <2>. QED  BY <2>1, <2>3, FlushKeepsHosts DEF HostInv
<1>. QED  BY <1>1, <1>2

\* An idle translator only changes its layout.
LEMMA IdleRelaid ==
  ASSUME NEW mac \in BOOLEAN
  PROVE  [IdleTranslator(FALSE) EXCEPT !.mac = mac] = IdleTranslator(mac)
<1>. DEFINE new == [IdleTranslator(FALSE) EXCEPT !.mac = mac]
<1>1. IdleTranslator(FALSE) \in Translators /\ IdleTranslator(mac) \in Translators
  BY IdleIsClean
<1>2. new \in Translators /\ new.mac = mac
  BY <1>1 DEF Translators
<1>3. /\ new.mods = {} /\ new.keys = {} /\ ~new.kbdDirty /\ new.buttons = {} /\ ~new.buttonsDirty
      /\ new.motion = 0 /\ new.consumer = None /\ ~new.consumerDirty
  BY DEF IdleTranslator
<1>4. LET idle == IdleTranslator(mac)
      IN  /\ idle.mods = {} /\ idle.keys = {} /\ ~idle.kbdDirty /\ idle.buttons = {} /\ ~idle.buttonsDirty
          /\ idle.motion = 0 /\ idle.consumer = None /\ ~idle.consumerDirty /\ idle.mac = mac
  BY DEF IdleTranslator
<1>5. ASSUME NEW x \in Translators, NEW y \in Translators, x.mods = y.mods, x.keys = y.keys,
             x.kbdDirty = y.kbdDirty, x.buttons = y.buttons, x.buttonsDirty = y.buttonsDirty,
             x.motion = y.motion, x.consumer = y.consumer, x.consumerDirty = y.consumerDirty, x.mac = y.mac
      PROVE  x = y
  BY <1>5 DEF Translators
<1>. HIDE DEF new
<1>6. new.kbdDirty \in BOOLEAN /\ new.buttonsDirty \in BOOLEAN /\ new.consumerDirty \in BOOLEAN
      /\ IdleTranslator(mac).kbdDirty \in BOOLEAN /\ IdleTranslator(mac).buttonsDirty \in BOOLEAN
      /\ IdleTranslator(mac).consumerDirty \in BOOLEAN
  BY <1>1, <1>2 DEF Translators
<1>7. new = IdleTranslator(mac)
  BY <1>1, <1>2, <1>3, <1>4, <1>5, <1>6
<1>. QED  BY <1>7 DEF new

\* The local session was active: every host was released, and the next one with it.
LEMMA LeaveLocalKeepsHosts ==
  ASSUME SessionInv, HostInv, slot = LocalSlot, NEW s \in Slots, s # slot, NEW fire, LeaveLocal(s, fire)
  PROVE  HostInv'
<1>1. t = IdleTranslator(FALSE)
  BY DEF SessionInv, LocalIsIdle
<1>2. PICK ok \in SinkOutcomes :
        /\ slot' = IF ok THEN s ELSE slot
        /\ t' = IF ok THEN [t EXCEPT !.mac = s \in MacSlots] ELSE t
        /\ UNCHANGED <<queued, host, dropped, unflushed>>
  BY DEF LeaveLocal
<1>3. CASE ok
  <2>1. PICK mac : mac = (s \in MacSlots)
    OBVIOUS
  <2>2. slot' = s /\ t' = IdleTranslator(mac) /\ mac \in BOOLEAN
    <3>1. slot' = s /\ t' = [IdleTranslator(FALSE) EXCEPT !.mac = mac] /\ mac \in BOOLEAN
      BY <1>1, <1>2, <1>3, <2>1
    <3>2. [IdleTranslator(FALSE) EXCEPT !.mac = mac] = IdleTranslator(mac)
      BY <3>1, IdleRelaid
    <3>. QED  BY <3>1, <3>2
  <2>3. t' \in Translators /\ Clean(IdleTranslator(mac)) /\ t'.mac = mac /\ Agrees(IdleTranslator(mac), Released)
    BY <2>2, IdleIsClean
  <2>4. s \in Remote /\ (s \notin dropped \cup unflushed => host[s] = Released)
    BY DEF Remote, HostInv, InactiveHostsReleased
  <2>5. LayoutKept'
    BY <2>1, <2>2, <2>3 DEF LayoutKept
  <2>6. HostTypes' /\ (Clean(t))'
    BY <1>2, <2>2, <2>3, Zenon DEF HostInv, HostTypes, Clean
  <2>7. ActiveAgrees'
    BY <1>2, <2>2, <2>3, <2>4, Zenon DEF ActiveAgrees, Agrees, ShownMods
  <2>8. InactiveHostsReleased'
    BY <1>2, <2>2 DEF HostInv, InactiveHostsReleased, Remote
  <2>. QED  BY <2>2, <2>3, <2>5, <2>6, <2>7, <2>8 DEF HostInv
<1>4. CASE ~ok
  <2>1. Clean(t)
    BY <1>1, IdleIsClean
  <2>. QED  BY <1>2, <1>4, <2>1, StillHosts DEF HostInv, HostTypes
<1>. QED  BY <1>3, <1>4

\* A host is left released, or it is one of the two exceptions.
LEMMA LeaveRemoteKeepsHosts ==
  ASSUME HostInv, slot # LocalSlot, NEW s \in Slots, s # slot, NEW fire, LeaveRemote(s, fire)
  PROVE  HostInv'
<1>1. PICK mac : mac = (s \in MacSlots)
  OBVIOUS
<1>2. /\ SendFrames(ReleaseAll(t)) /\ t' = IdleTranslator(mac) /\ mac \in BOOLEAN /\ slot' = s
      /\ unflushed' = IF UnflushedRelease THEN unflushed \cup {slot} ELSE unflushed
  BY <1>1 DEF LeaveRemote
<1>3. slot \in Remote /\ t \in Translators
  BY RemoteSlot DEF HostInv
<1>4. PICK reports :
        /\ Saying(ReleaseAll(t), Released, reports)
        /\ t.mods # {} \/ t.keys # {} => "keyboard" \in reports
        /\ t.buttons # {} => "mouse" \in reports
        /\ t.consumer # None => "consumer" \in reports
  BY <1>3, ReleaseAllSays
<1>5. /\ queued' \in 0 .. FrameCap /\ host' \in [Remote -> Hosts]
      /\ dropped' \subseteq Remote /\ dropped \subseteq dropped' /\ dropped' \subseteq dropped \cup {slot}
      /\ \A r \in Remote \ {slot} : host'[r] = host[r]
      /\ slot \in dropped' \/ Told(host[slot], Released, host'[slot], reports)
  <2>1. Released \in Hosts
    BY IdleIsClean
  <2>. QED  BY <1>2, <1>3, <1>4, <2>1, SendFramesFacts DEF HostInv
<1>6. t' \in Translators /\ Clean(IdleTranslator(mac)) /\ t'.mac = mac
      /\ Agrees(IdleTranslator(mac), Released)
  BY <1>2, IdleIsClean
<1>7. HostTypes' /\ unflushed \subseteq unflushed' /\ unflushed' \subseteq unflushed \cup {slot}
  BY <1>2, <1>3, <1>5 DEF HostInv, HostTypes
<1>8. LayoutKept'
  BY <1>1, <1>2, <1>6 DEF LayoutKept
<1>9. (Clean(t))'
  BY <1>2, <1>6, Zenon DEF Clean
<1>10. ActiveAgrees'
  <2>1. s \in Remote \ (dropped' \cup unflushed') => host'[s] = Released
    BY <1>5, <1>7 DEF HostInv, InactiveHostsReleased
  <2>. QED  BY <1>2, <1>6, <2>1, Zenon DEF ActiveAgrees, Agrees, ShownMods
<1>11. slot \in dropped' \cup unflushed' \/ host'[slot] = Released
  <2>. SUFFICES ASSUME slot \notin dropped' \cup unflushed' PROVE host'[slot] = Released
    OBVIOUS
  <2>1. /\ slot \notin dropped \cup unflushed /\ ~UnflushedRelease
        /\ Told(host[slot], Released, host'[slot], reports)
    BY <1>2, <1>5, <1>7
  <2>2. Agrees(t, host[slot])
    BY <1>3, <2>1 DEF HostInv, ActiveAgrees
  <2>3. "keyboard" \notin reports => host[slot].mods = {} /\ host[slot].keys = {}
    BY <1>3, <1>4, <2>1, <2>2 DEF UnflushedRelease, Agrees, ShownMods
  <2>4. "mouse" \notin reports => host[slot].buttons = {}
    BY <1>4, <2>1, <2>2 DEF UnflushedRelease, Agrees
  <2>5. "consumer" \notin reports => host[slot].consumer = None
    BY <1>4, <2>1, <2>2 DEF UnflushedRelease, Agrees
  <2>6. /\ host'[slot] \in Hosts /\ host'[slot].mods = {} /\ host'[slot].keys = {}
        /\ host'[slot].buttons = {} /\ host'[slot].consumer = None
    BY <2>1, <2>3, <2>4, <2>5 DEF Told, Released
  <2>. QED  BY <2>6 DEF Hosts, Released
<1>12. InactiveHostsReleased'
  BY <1>2, <1>5, <1>7, <1>11 DEF HostInv, InactiveHostsReleased
<1>. QED  BY <1>2, <1>6, <1>7, <1>8, <1>9, <1>10, <1>12 DEF HostInv

\* So does each way of switching: the host left is released in full.
LEMMA SwitchToKeepsHosts ==
  ASSUME SessionInv, HostInv, NEW s \in Slots, NEW fire, NEW mods, SwitchTo(s, fire, mods)
  PROVE  HostInv'
<1>1. CASE s = slot /\ Reassert(fire, mods)
  BY <1>1, ComboModsKeepHosts DEF Reassert
<1>2. CASE RequestPairing(s, mods)
  BY <1>2, ComboModsKeepHosts DEF RequestPairing
<1>3. CASE s # slot /\ slot = LocalSlot /\ LeaveLocal(s, fire)
  BY <1>3, LeaveLocalKeepsHosts
<1>4. CASE s # slot /\ slot # LocalSlot /\ LeaveRemote(s, fire)
  BY <1>4, LeaveRemoteKeepsHosts
<1>. QED  BY <1>1, <1>2, <1>3, <1>4 DEF SwitchTo

\* A key the active host is not told yet leaves its report due.
LEMMA PassKeepsHosts ==
  ASSUME HostInv, NEW k, NEW pressed, Pass(k, pressed) \/ Swallow, unsynced' # {}
  PROVE  HostInv'
<1>1. t' \in {t, KeyPressed(t, k), KeyReleased(t, k)}
      /\ UNCHANGED <<slot, queued, host, dropped, unflushed>>
  BY Zenon DEF Pass, Swallow, historyVars
<1>2. t \in Translators
  BY DEF HostInv
<1>3. PICK tr : tr = t'
  OBVIOUS
<1>4. tr \in Translators /\ tr.mac = t.mac /\ \A h : Agrees(t, h) => Agrees(tr, h)
  BY <1>1, <1>2, <1>3, KeyPressedType, KeyReleasedType, PressedAgrees, ReleasedAgrees
<1>5. LayoutKept'
  BY <1>1, <1>3, <1>4 DEF HostInv, LayoutKept
<1>6. ActiveAgrees'
  <2>1. slot \in Remote \ (dropped \cup unflushed) => Agrees(tr, host[slot])
    BY <1>4, Zenon DEF HostInv, ActiveAgrees
  <2>. QED  BY <1>1, <1>3, <2>1, Zenon DEF ActiveAgrees, Agrees, ShownMods
<1>7. HostTypes' /\ InactiveHostsReleased'
  BY <1>1 DEF HostInv, HostTypes, InactiveHostsReleased
<1>. QED  BY <1>1, <1>3, <1>4, <1>5, <1>6, <1>7 DEF HostInv

\* No step breaks the invariant of the hosts.
LEMMA HostInvStep == SessionInv /\ HostInv /\ [Next]_vars => HostInv'
<1>. SUFFICES ASSUME SessionInv, HostInv, [Next]_vars PROVE HostInv'
  OBVIOUS
<1>0. queued \in 0 .. FrameCap /\ FrameCap \in Nat
  BY RouterAssumption DEF HostInv, HostTypes
<1>1. ASSUME NEW d \in Devices, NEW k \in Keys, KeyDown(d, k)
      PROVE  HostInv'
  <2>1. CASE SwitchPress(k) /\ SwitchTo(FkeySlot[k], FireHooks, SwitchMods)
    BY <2>1, SwitchToKeepsHosts DEF SwitchPress, IsSwitch, Slots
  <2>2. CASE RunMacro(Macros[Combo(k)], MacroMods)
    BY <2>2, ComboModsKeepHosts DEF RunMacro
  <2>3. unsynced' # {}
    BY <1>1 DEF KeyDown
  <2>. QED
    BY <1>1, <2>1, <2>2, <2>3, PassKeepsHosts DEF KeyDown
<1>2. ASSUME NEW d \in Devices, NEW k \in Keys, KeyUp(d, k)
      PROVE  HostInv'
  <2>1. unsynced' # {}
    BY <1>2 DEF KeyUp
  <2>. QED  BY <1>2, <2>1, PassKeepsHosts DEF KeyUp
<1>3. ASSUME UNCHANGED <<slot, t, queued, host, dropped, unflushed>>, unsynced' = {} => unsynced = {}
      PROVE  HostInv'
  BY <1>0, <1>3, StillHosts DEF HostInv
<1>4. ASSUME NEW d \in Devices, NEW k \in Keys, KeyRepeat(d, k)
      PROVE  HostInv'
  <2>1. unsynced' # {} /\ UNCHANGED <<slot, t, queued, host, dropped, unflushed>>
    BY <1>4 DEF KeyRepeat, channelVars, historyVars
  <2>. QED  BY <1>3, <2>1
<1>5. ASSUME NEW d \in Devices, NEW delta \in Deltas, Move(d, delta)
      PROVE  HostInv'
  <2>1. unsynced' # {} /\ UNCHANGED <<slot, queued, host, dropped, unflushed>>
        /\ (t' = t \/ t' = Moved(t, delta))
    BY <1>5 DEF Move, channelVars
  <2>2. CASE t' = t
    BY <1>3, <2>1, <2>2
  <2>3. CASE t' = Moved(t, delta)
    <3>1. Moved(t, delta) \in Translators /\ Moved(t, delta).mac = t.mac
          /\ \A h : Agrees(t, h) => Agrees(Moved(t, delta), h)
      BY RouterAssumption DEF Moved, Translators, HostInv, Agrees, ShownMods
    <3>2. ActiveAgrees'
      <4>1. slot \in Remote \ (dropped \cup unflushed) => Agrees(Moved(t, delta), host[slot])
        BY <3>1, Zenon DEF HostInv, ActiveAgrees
      <4>. QED  BY <2>1, <2>3, <4>1, Zenon DEF ActiveAgrees, Agrees, ShownMods
    <3>3. LayoutKept' /\ HostTypes' /\ InactiveHostsReleased'
      BY <2>1, <2>3, <3>1 DEF HostInv, LayoutKept, HostTypes, InactiveHostsReleased
    <3>. QED  BY <2>1, <2>3, <3>1, <3>2, <3>3 DEF HostInv
  <2>. QED  BY <2>1, <2>2, <2>3
<1>6. ASSUME NEW d \in Devices, Syn(d)
      PROVE  HostInv'
  <2>1. UNCHANGED <<slot, unflushed>>
    BY <1>6, Zenon DEF Syn
  <2>2. CASE slot = LocalSlot
    <3>1. UNCHANGED <<t, queued, host, dropped>>
      BY <1>6, <2>2 DEF Syn
    <3>2. Clean(t)
      BY <2>2, IdleIsClean DEF SessionInv, LocalIsIdle
    <3>. QED  BY <1>0, <2>1, <3>1, <3>2, StillHosts
  <2>3. CASE slot # LocalSlot
    <3>1. FlushRemote(t) /\ slot \in Remote /\ t \in Translators
      BY <1>6, <2>3, RemoteSlot DEF Syn, HostInv
    <3>2. slot \notin dropped \cup unflushed => Agrees(t, host[slot])
      BY <3>1 DEF HostInv, ActiveAgrees
    <3>. QED  BY <2>1, <3>1, <3>2, FlushKeepsHosts
  <2>. QED  BY <2>2, <2>3
<1>7. CASE FlushTimer
  <2>1. /\ flushAt /\ SendFrames(FlushMouse(t)) /\ t' = MouseFlushed(t)
        /\ UNCHANGED <<slot, unflushed, unsynced>>
    BY <1>7, Zenon DEF FlushTimer
  <2>2. slot \in Remote /\ t \in Translators
    BY <2>1, RemoteSlot DEF SessionInv, LocalIsIdle, HostInv
  <2>3. PICK reports : /\ Saying(FlushMouse(t), View(t), reports)
                       /\ t.buttonsDirty => "mouse" \in reports
    <3>1. Saying(FlushMouse(t), View(t), IF t.buttonsDirty \/ MotionPending(t) THEN {"mouse"} ELSE {})
      BY <2>2, FlushMouseSays, Zenon
    <3>2. t.buttonsDirty => "mouse" \in (IF t.buttonsDirty \/ MotionPending(t) THEN {"mouse"} ELSE {})
      OBVIOUS
    <3>. QED  BY <3>1, <3>2, Zenon
  <2>4. /\ queued' \in 0 .. FrameCap /\ host' \in [Remote -> Hosts]
        /\ dropped' \subseteq Remote /\ dropped \subseteq dropped' /\ dropped' \subseteq dropped \cup {slot}
        /\ \A s \in Remote \ {slot} : host'[s] = host[s]
        /\ slot \in dropped' \/ Told(host[slot], View(t), host'[slot], reports)
    BY <2>1, <2>2, <2>3, ViewType, SendFramesFacts DEF HostInv
  <2>5. PICK tr : tr = MouseFlushed(t)
    OBVIOUS
  <2>6. /\ tr \in Translators /\ tr.mac = t.mac /\ View(tr) = View(t) /\ ~tr.buttonsDirty
        /\ tr.kbdDirty = t.kbdDirty /\ tr.consumerDirty = t.consumerDirty
    BY <2>2, <2>5, FlagsFlushed, MouseFlushedType
  <2>7. HostTypes' /\ LayoutKept' /\ InactiveHostsReleased'
    BY <2>1, <2>4, <2>5, <2>6 DEF HostInv, HostTypes, LayoutKept, InactiveHostsReleased
  <2>8. ActiveAgrees'
    <3>. SUFFICES ASSUME slot' \in Remote \ (dropped' \cup unflushed')
                  PROVE  Agrees(tr, host'[slot])
      BY <2>1, <2>5, Zenon DEF ActiveAgrees, Agrees, ShownMods
    <3>1. Agrees(t, host[slot]) /\ Told(host[slot], View(t), host'[slot], reports)
      BY <2>1, <2>4 DEF HostInv, ActiveAgrees
    <3>2. /\ View(t).mods = ShownMods(t) /\ View(t).keys = t.keys
          /\ View(t).buttons = t.buttons /\ View(t).consumer = t.consumer
          /\ View(tr).mods = ShownMods(tr) /\ View(tr).keys = tr.keys
          /\ View(tr).buttons = tr.buttons /\ View(tr).consumer = tr.consumer
      BY DEF View
    <3>. QED  BY <2>3, <2>6, <3>1, <3>2 DEF Agrees, Told
  <2>. QED  BY <2>1, <2>5, <2>6, <2>7, <2>8 DEF HostInv, Clean
<1>8. CASE FireRepair
  BY <1>3, <1>8, Zenon DEF FireRepair, worldVars, historyVars
<1>9. CASE TakeFrame
  <2>1. UNCHANGED <<slot, t, host, dropped, unflushed, unsynced>> /\ queued > 0 /\ queued' = queued - 1
    BY <1>9, Zenon DEF TakeFrame, routerVars, worldVars, historyVars
  <2>2. queued' \in 0 .. FrameCap
    BY <1>0, <2>1
  <2>. QED  BY <2>1, <2>2, StillHosts DEF HostInv
<1>10. CASE Tick \/ IntervalPasses \/ TakeCmd \/ TakeHook \/ TakeRepaint \/ Rebind
  BY <1>3, <1>10, Zenon
     DEF Tick, IntervalPasses, TakeCmd, TakeHook, TakeRepaint, Rebind,
         routerVars, channelVars, worldVars, historyVars
<1>11. CASE UNCHANGED vars
  BY <1>3, <1>11, Zenon DEF vars, routerVars, channelVars, worldVars, historyVars
<1>. QED
  BY <1>1, <1>2, <1>4, <1>5, <1>6, <1>7, <1>8, <1>9, <1>10, <1>11, Zenon DEF Next, Input, Timers, Others

\* At the start no host shows anything.
LEMMA InitHosts == Init => HostInv
<1>. SUFFICES ASSUME Init PROVE HostInv
  OBVIOUS
<1>1. PICK mac : mac = (slot \in MacSlots)
  OBVIOUS
<1>2. t = IdleTranslator(mac) /\ mac \in BOOLEAN
  BY <1>1 DEF Init
<1>3. t \in Translators /\ Clean(t) /\ t.mac = mac /\ Agrees(t, Released) /\ Released \in Hosts
  BY <1>2, IdleIsClean
<1>4. slot \in Slots /\ host = [s \in Remote |-> Released] /\ dropped = {} /\ unflushed = {} /\ queued = 0
  BY RouterAssumption DEF Init, Remote
<1>5. HostTypes
  BY <1>3, <1>4, RouterAssumption DEF HostTypes
<1>6. ActiveAgrees /\ InactiveHostsReleased /\ LayoutKept
  BY <1>1, <1>3, <1>4 DEF ActiveAgrees, InactiveHostsReleased, LayoutKept
<1>. QED  BY <1>3, <1>4, <1>5, <1>6 DEF HostInv

\* A host that is not active holds nothing down, whatever way it was left, but for
\* a host a frame was dropped for or one left before a pending release was sent.
THEOREM HostsLeftReleased == Spec => []InactiveHostsReleased
<1>1. HostInv => InactiveHostsReleased
  BY DEF HostInv
<1>. QED
  BY <1>1, InitSchedule, InitHosts, SessionInvStep, HostInvStep, PTL DEF Spec

\* With every SYN in, the active host shows exactly what the translator tracks, in
\* that host's layout: no combo, macro, switch or flush loses a change.
THEOREM ActiveHostIsRight == Spec => []ActiveHostShowsTracked
<1>1. HostInv => ActiveHostShowsTracked
  <2>. SUFFICES ASSUME HostInv, slot \in Remote \ (dropped \cup unflushed), unsynced = {}
                PROVE  host[slot] = [mods |-> IF slot \in MacSlots THEN {SwapAltGui(k) : k \in t.mods} ELSE t.mods,
                                     keys |-> t.keys, buttons |-> t.buttons, consumer |-> t.consumer]
    BY DEF ActiveHostShowsTracked
  <2>1. Agrees(t, host[slot]) /\ Clean(t) /\ host[slot] \in Hosts
    BY DEF HostInv, ActiveAgrees, HostTypes
  <2>2. ShownMods(t) = IF slot \in MacSlots THEN {SwapAltGui(k) : k \in t.mods} ELSE t.mods
    <3>1. CASE slot \in MacSlots
      BY <3>1 DEF ShownMods, HostInv, LayoutKept
    <3>2. CASE slot \notin MacSlots
      BY <3>2 DEF ShownMods, HostInv, LayoutKept
    <3>. QED  BY <3>1, <3>2
  <2>3. /\ host[slot].mods = ShownMods(t) /\ host[slot].keys = t.keys
        /\ host[slot].buttons = t.buttons /\ host[slot].consumer = t.consumer
    BY <2>1 DEF Agrees, Clean
  <2>. HIDE <2>2
  <2>4. host[slot] = [mods |-> ShownMods(t), keys |-> t.keys, buttons |-> t.buttons, consumer |-> t.consumer]
    BY <2>1, <2>3 DEF Hosts
  <2>. QED  BY <2>2, <2>4
<1>. QED
  BY <1>1, InitSchedule, InitHosts, SessionInvStep, HostInvStep, PTL DEF Spec

-----------------------------------------------------------------------------
(* No distance is lost.                                                    *)

MotionInv ==
  /\ t \in Translators /\ owed \in Int
  /\ slot = LocalSlot \/ slot \notin dropped => owed = t.motion

\* Frames travel a whole number of counts.
LEMMA TravelType == ASSUME NEW a \in Seq(FrameSet) PROVE Travel(a) \in Int
<1>1. PICK acc \in [0 .. Len(a) -> Int] : Travel(a) = acc[Len(a)]
  BY TravelRun
<1>2. Len(a) \in 0 .. Len(a)
  OBVIOUS
<1>. QED  BY <1>1, <1>2

\* What is sent goes as far as it was to go, or a frame of it was dropped.
LEMMA SentDistance ==
  ASSUME HostTypes, NEW fs \in Seq(FrameSet), SendFrames(fs)
  PROVE  /\ Travel(Accepted(fs)) \in Int /\ dropped \subseteq dropped'
         /\ slot \in dropped' \/ Travel(Accepted(fs)) = Travel(fs)
<1>. DEFINE room == Lesser(FrameCap - queued, Len(fs))
            sent == Accepted(fs)
<1>1. Len(fs) \in Nat /\ queued \in 0 .. FrameCap /\ FrameCap \in Nat
  BY RouterAssumption DEF HostTypes
<1>2. room \in 0 .. Len(fs)
  BY <1>1 DEF Lesser
<1>3. sent = SubSeq(fs, 1, room)
  BY DEF Accepted
<1>4. dropped' = IF Len(sent) < Len(fs) THEN dropped \cup {slot} ELSE dropped
  BY Zenon DEF SendFrames, sent
<1>. HIDE DEF room
<1>5. sent \in Seq(FrameSet) /\ Len(sent) = room /\ (room = Len(fs) => sent = fs)
  BY <1>1, <1>2, <1>3
<1>. HIDE DEF sent
<1>6. Travel(sent) \in Int
  BY <1>5, TravelType
<1>7. dropped \subseteq dropped' /\ (slot \in dropped' \/ sent = fs)
  BY <1>1, <1>2, <1>4, <1>5
<1>8. Travel(sent) \in Int /\ (slot \in dropped' \/ Travel(sent) = Travel(fs))
  BY <1>6, <1>7
<1>. QED  BY <1>7, <1>8 DEF sent

\* A flush sends motion or keeps it.
LEMMA FlushKeepsMotion ==
  ASSUME HostTypes, NEW tr \in Translators, owed \in Int, slot # LocalSlot, slot' = slot,
         slot \notin dropped => owed = tr.motion, FlushRemote(tr)
  PROVE  MotionInv'
<1>1. PICK fs \in Seq(FrameSet) :
        SendFrames(fs) /\ owed' = owed - Travel(Accepted(fs)) /\ Travel(fs) = tr.motion - t'.motion
  BY FlushRemoteSends DEF Saying
<1>2. t' \in Translators /\ t'.motion \in Int /\ tr.motion \in Int
  <2>1. t' \in Translators
    BY FlushRemoteSends
  <2>. QED  BY <2>1 DEF Translators
<1>3. /\ Travel(Accepted(fs)) \in Int /\ dropped \subseteq dropped'
      /\ slot \in dropped' \/ Travel(Accepted(fs)) = Travel(fs)
  BY <1>1, SentDistance
<1>. QED  BY <1>1, <1>2, <1>3 DEF MotionInv

\* Releasing a combo's modifiers loses no motion.
LEMMA ComboModsKeepMotion ==
  ASSUME HostTypes, MotionInv, NEW mods, NEW ok, ReleaseComboMods(mods, ok), slot' = slot
  PROVE  MotionInv'
<1>1. CASE slot = LocalSlot
  BY <1>1 DEF ReleaseComboMods, MotionInv
<1>2. CASE slot # LocalSlot
  <2>1. t \in Translators /\ t.mods \ mods \in SUBSET AllModifiers
    BY SettersType DEF MotionInv
  <2>2. SetMods(t, t.mods \ mods) \in Translators /\ SetMods(t, t.mods \ mods).motion = t.motion
    BY <2>1, SettersType
  <2>. QED  BY <1>2, <2>2, FlushKeepsMotion DEF ReleaseComboMods, MotionInv
<1>. QED  BY <1>1, <1>2

\* Switching starts afresh with the next host: what is pending is discarded.
LEMMA SwitchToKeepsDistance ==
  ASSUME SessionInv, HostTypes, MotionInv, NEW s \in Slots, NEW fire, NEW mods, SwitchTo(s, fire, mods)
  PROVE  MotionInv'
<1>1. CASE s = slot /\ Reassert(fire, mods)
  BY <1>1, ComboModsKeepMotion DEF Reassert
<1>2. CASE RequestPairing(s, mods)
  BY <1>2, ComboModsKeepMotion DEF RequestPairing
<1>3. CASE slot = LocalSlot /\ LeaveLocal(s, fire)
  <2>1. PICK mac : mac = (s \in MacSlots)
    OBVIOUS
  <2>2. (t' = t \/ t' = [t EXCEPT !.mac = mac]) /\ owed' = owed /\ mac \in BOOLEAN
    BY <1>3, <2>1 DEF LeaveLocal
  <2>3. [t EXCEPT !.mac = mac] \in Translators /\ [t EXCEPT !.mac = mac].motion = t.motion
    BY <2>2 DEF MotionInv, Translators
  <2>. QED  BY <1>3, <2>2, <2>3 DEF MotionInv
<1>4. CASE LeaveRemote(s, fire)
  <2>1. PICK mac : mac = (s \in MacSlots)
    OBVIOUS
  <2>2. t' = IdleTranslator(mac) /\ mac \in BOOLEAN /\ owed' = 0
    BY <1>4, <2>1 DEF LeaveRemote
  <2>3. IdleTranslator(mac) \in Translators /\ IdleTranslator(mac).motion = 0
    BY <2>2, IdleIsClean
  <2>. QED  BY <2>2, <2>3 DEF MotionInv
<1>. QED  BY <1>1, <1>2, <1>3, <1>4 DEF SwitchTo

\* A key event loses no motion.
LEMMA PassKeepsDistance ==
  ASSUME MotionInv, NEW k, NEW pressed, Pass(k, pressed) \/ Swallow
  PROVE  MotionInv'
<1>1. t' \in {t, KeyPressed(t, k), KeyReleased(t, k)} /\ owed' = owed /\ dropped' = dropped /\ slot' = slot
  BY Zenon DEF Pass, Swallow, historyVars
<1>. QED  BY <1>1, KeyPressedType, KeyReleasedType DEF MotionInv

\* No step loses motion.
LEMMA MotionInvStep == SessionInv /\ HostTypes /\ MotionInv /\ [Next]_vars => MotionInv'
<1>. SUFFICES ASSUME SessionInv, HostTypes, MotionInv, [Next]_vars PROVE MotionInv'
  OBVIOUS
<1>1. ASSUME NEW d \in Devices, NEW k \in Keys, KeyDown(d, k) PROVE MotionInv'
  <2>1. CASE SwitchPress(k) /\ SwitchTo(FkeySlot[k], FireHooks, SwitchMods)
    BY <2>1, SwitchToKeepsDistance DEF SwitchPress, IsSwitch, Slots
  <2>2. CASE RunMacro(Macros[Combo(k)], MacroMods)
    BY <2>2, ComboModsKeepMotion DEF RunMacro
  <2>. QED  BY <1>1, <2>1, <2>2, PassKeepsDistance DEF KeyDown
<1>2. ASSUME NEW d \in Devices, NEW k \in Keys, KeyUp(d, k) PROVE MotionInv'
  BY <1>2, PassKeepsDistance DEF KeyUp
<1>3. ASSUME UNCHANGED <<t, owed, dropped, slot>> PROVE MotionInv'
  BY <1>3 DEF MotionInv
<1>4. ASSUME NEW d \in Devices, NEW k \in Keys, KeyRepeat(d, k) PROVE MotionInv'
  BY <1>3, <1>4, Zenon DEF KeyRepeat, historyVars
<1>5. ASSUME NEW d \in Devices, NEW delta \in Deltas, Move(d, delta) PROVE MotionInv'
  <2>1. /\ slot' = slot /\ dropped' = dropped
        /\ (t' = t /\ owed' = owed) \/ (t' = Moved(t, delta) /\ owed' = owed + delta)
    BY <1>5 DEF Move
  <2>2. Moved(t, delta) \in Translators /\ Moved(t, delta).motion = t.motion + delta
    BY RouterAssumption DEF Moved, Translators, MotionInv
  <2>3. delta \in Int
    BY RouterAssumption
  <2>. QED  BY <2>1, <2>2, <2>3 DEF MotionInv
<1>6. ASSUME NEW d \in Devices, Syn(d) PROVE MotionInv'
  <2>1. slot' = slot /\ (UNCHANGED <<t, owed, dropped>> \/ (slot # LocalSlot /\ FlushRemote(t)))
    BY <1>6 DEF Syn
  <2>. QED  BY <1>3, <2>1, FlushKeepsMotion DEF MotionInv
<1>7. CASE FlushTimer
  <2>1. /\ t' = MouseFlushed(t) /\ owed' = owed - Travel(Accepted(FlushMouse(t)))
        /\ SendFrames(FlushMouse(t)) /\ slot' = slot /\ flushAt
    BY <1>7, Zenon DEF FlushTimer
  <2>2. t \in Translators /\ t.motion \in Int /\ FlushMouse(t) \in Seq(FrameSet)
    BY FlushMouseSays DEF MotionInv, Translators, Saying
  <2>3. Travel(FlushMouse(t)) = t.motion
    <3>1. <<>> \o FlushMouse(t) = FlushMouse(t)
      BY <2>2
    <3>2. Travel(<<>> \o FlushMouse(t)) = t.motion
      BY <2>2, TravelAll, NoFrame
    <3>. QED  BY <3>1, <3>2
  <2>4. MouseFlushed(t) \in Translators /\ MouseFlushed(t).motion = 0
    BY <2>2, MouseFlushedType
  <2>5. slot # LocalSlot
    BY <2>1 DEF SessionInv, LocalIsIdle
  <2>6. /\ Travel(Accepted(FlushMouse(t))) \in Int /\ dropped \subseteq dropped'
        /\ slot \in dropped' \/ Travel(Accepted(FlushMouse(t))) = Travel(FlushMouse(t))
    BY <2>1, <2>2, SentDistance
  <2>. QED  BY <2>1, <2>2, <2>3, <2>4, <2>5, <2>6 DEF MotionInv
<1>8. CASE FireRepair
  BY <1>3, <1>8, Zenon DEF FireRepair, historyVars
<1>9. CASE Others
  BY <1>3, <1>9, Zenon
     DEF Others, Tick, IntervalPasses, TakeFrame, TakeCmd, TakeHook, TakeRepaint, Rebind,
         routerVars, historyVars
<1>10. CASE UNCHANGED vars
  BY <1>3, <1>10, Zenon DEF vars, routerVars, historyVars
<1>. QED
  BY <1>1, <1>2, <1>4, <1>5, <1>6, <1>7, <1>8, <1>9, <1>10, Zenon DEF Next, Input, Timers

\* At the start there is none.
LEMMA InitMotion == Init => MotionInv
<1>. SUFFICES ASSUME Init PROVE MotionInv
  OBVIOUS
<1>1. PICK mac : mac = (slot \in MacSlots)
  OBVIOUS
<1>2. t = IdleTranslator(mac) /\ mac \in BOOLEAN /\ owed = 0
  BY <1>1 DEF Init
<1>. QED  BY <1>2, IdleIsClean DEF MotionInv

\* All the motion made on the active host since it became active is in a frame
\* sent to it or accumulated for it: pacing, and splitting into reports of a byte,
\* lose no distance, unless the frame channel was full.  What is still pending
\* when the host is left is discarded; of that the theorem says nothing.
THEOREM DistanceKept == Spec => []MotionKept
<1>1. MotionInv => MotionKept
  BY DEF MotionInv, MotionKept
<1>2. HostInv => HostTypes
  BY DEF HostInv
<1>. QED
  BY <1>1, <1>2, InitSchedule, InitHosts, InitMotion, SessionInvStep, HostInvStep, MotionInvStep, PTL DEF Spec

-----------------------------------------------------------------------------
(* Hands off: a target tracks a key only while the key is down on a device *)
(* and its release will be passed on -- and a suppressed key's next        *)
(* release is not, so that one has to be down twice.                       *)

Live == {k \in Keys : \E d \in Devices : /\ k \in down[d]
                                         /\ k \in suppressed => \E e \in Devices \ {d} : k \in down[e]}

TracksOnly(tr, S) ==
  /\ tr.mods \subseteq S /\ tr.keys \subseteq S /\ tr.consumer \in S \cup {None}
  /\ tr.buttons \subseteq {ButtonBit[b] : b \in S \cap Buttons}

LiveInv == t \in Translators /\ localHeld \subseteq Live /\ TracksOnly(t, Live)

\* A new translator tracks no key.
LEMMA IdleTracksNothing ==
  ASSUME NEW mac, NEW S PROVE TracksOnly(IdleTranslator(mac), S)
BY DEF TracksOnly, IdleTranslator

\* What tracks only some keys tracks only more.
LEMMA TracksMore ==
  ASSUME NEW tr, NEW S, NEW T, TracksOnly(tr, S), S \subseteq T
  PROVE  TracksOnly(tr, T)
BY DEF TracksOnly

\* Only what is in them counts.
LEMMA TracksSame ==
  ASSUME NEW tr, NEW u, NEW S, TracksOnly(tr, S), u.mods = tr.mods, u.keys = tr.keys,
         u.buttons = tr.buttons, u.consumer = tr.consumer
  PROVE  TracksOnly(u, S)
BY DEF TracksOnly

\* A press tracks the key pressed and no other.
LEMMA PressedTracks ==
  ASSUME NEW tr \in Translators, NEW k, NEW S, TracksOnly(tr, S), k \in S
  PROVE  TracksOnly(KeyPressed(tr, k), S)
<1>1. CASE k \in MediaKeys
  <2>1. KeyPressed(tr, k) = SetConsumer(tr, k)
    BY <1>1, TranslatorAssumption DEF KeyPressed
  <2>. QED  BY <2>1 DEF SetConsumer, TracksOnly, Translators
<1>2. CASE k \notin MediaKeys /\ k \in Buttons
  <2>1. KeyPressed(tr, k) = SetButtons(tr, tr.buttons \cup {ButtonBit[k]})
    BY <1>2, TranslatorAssumption DEF KeyPressed
  <2>2. tr.buttons \cup {ButtonBit[k]} \subseteq {ButtonBit[b] : b \in S \cap Buttons}
    BY <1>2 DEF TracksOnly
  <2>3. PICK bits : bits = tr.buttons \cup {ButtonBit[k]}
    OBVIOUS
  <2>. QED  BY <2>1, <2>2, <2>3 DEF SetButtons, TracksOnly, Translators
<1>3. CASE k \notin MediaKeys \cup Buttons /\ k \in AllModifiers
  <2>1. KeyPressed(tr, k) = SetMods(tr, tr.mods \cup {k})
    BY <1>3, TranslatorAssumption DEF KeyPressed
  <2>. QED  BY <2>1 DEF SetMods, TracksOnly, Translators
<1>4. CASE k \notin MediaKeys \cup Buttons \cup AllModifiers
  <2>1. \/ KeyPressed(tr, k) = SetKeys(tr, tr.keys \cup {k})
        \/ KeyPressed(tr, k) = tr
    BY <1>4, TranslatorAssumption DEF KeyPressed
  <2>2. PICK keys : keys = tr.keys \cup {k}
    OBVIOUS
  <2>3. LET u == SetKeys(tr, keys)
        IN  u.mods = tr.mods /\ u.keys = keys /\ u.buttons = tr.buttons /\ u.consumer = tr.consumer
    BY DEF SetKeys, Translators
  <2>. QED  BY <2>1, <2>2, <2>3 DEF TracksOnly
<1>. QED  BY <1>1, <1>2, <1>3, <1>4

\* A release stops tracking the key, and starts no other.
LEMMA ReleasedTracks ==
  ASSUME NEW tr \in Translators, NEW k, NEW S, TracksOnly(tr, S)
  PROVE  TracksOnly(KeyReleased(tr, k), S \ {k})
<1>0. /\ tr.mods \subseteq AllModifiers /\ tr.keys \subseteq PlainKeys
      /\ tr.consumer \in MediaKeys \cup {None} /\ None \notin MediaKeys
  BY TranslatorAssumption, SettersType
<1>. USE DEF TracksOnly
<1>1. CASE k \in MediaKeys
  <2>1. KeyReleased(tr, k) = SetConsumer(tr, IF tr.consumer = k THEN None ELSE tr.consumer)
    BY <1>1, TranslatorAssumption DEF KeyReleased
  <2>2. PICK c : c = IF tr.consumer = k THEN None ELSE tr.consumer
    OBVIOUS
  <2>3. LET u == SetConsumer(tr, c)
        IN  u.mods = tr.mods /\ u.keys = tr.keys /\ u.buttons = tr.buttons /\ u.consumer = c
    BY DEF SetConsumer, Translators
  <2>4. k \notin AllModifiers /\ k \notin PlainKeys /\ k \notin Buttons
    BY <1>1, TranslatorAssumption
  <2>. QED  BY <1>0, <1>1, <2>1, <2>2, <2>3, <2>4
<1>2. CASE k \notin MediaKeys /\ k \in Buttons
  <2>1. KeyReleased(tr, k) = SetButtons(tr, tr.buttons \ {ButtonBit[k]})
    BY <1>2, TranslatorAssumption DEF KeyReleased
  <2>2. PICK bits : bits = tr.buttons \ {ButtonBit[k]}
    OBVIOUS
  <2>3. LET u == SetButtons(tr, bits)
        IN  u.mods = tr.mods /\ u.keys = tr.keys /\ u.buttons = bits /\ u.consumer = tr.consumer
    BY DEF SetButtons, Translators
  <2>4. k \notin AllModifiers /\ k \notin PlainKeys
    BY <1>2, TranslatorAssumption
  <2>5. bits \subseteq {ButtonBit[b] : b \in (S \ {k}) \cap Buttons}
    BY <2>2
  <2>. QED  BY <1>0, <1>2, <2>1, <2>2, <2>3, <2>4, <2>5
<1>3. CASE k \notin MediaKeys \cup Buttons /\ k \in AllModifiers
  <2>1. KeyReleased(tr, k) = SetMods(tr, tr.mods \ {k})
    BY <1>3, TranslatorAssumption DEF KeyReleased
  <2>2. PICK mods : mods = tr.mods \ {k}
    OBVIOUS
  <2>3. LET u == SetMods(tr, mods)
        IN  u.mods = mods /\ u.keys = tr.keys /\ u.buttons = tr.buttons /\ u.consumer = tr.consumer
    BY DEF SetMods, Translators
  <2>4. k \notin PlainKeys
    BY <1>3, TranslatorAssumption
  <2>. QED  BY <1>0, <1>3, <2>1, <2>2, <2>3, <2>4
<1>4. CASE k \notin MediaKeys \cup Buttons \cup AllModifiers
  <2>1. \/ k \in PlainKeys /\ KeyReleased(tr, k) = SetKeys(tr, tr.keys \ {k})
        \/ k \notin PlainKeys /\ KeyReleased(tr, k) = tr
    BY <1>4, TranslatorAssumption DEF KeyReleased
  <2>2. PICK keys : keys = tr.keys \ {k}
    OBVIOUS
  <2>3. LET u == SetKeys(tr, keys)
        IN  u.mods = tr.mods /\ u.keys = keys /\ u.buttons = tr.buttons /\ u.consumer = tr.consumer
    BY DEF SetKeys, Translators
  <2>. QED  BY <1>0, <1>4, <2>1, <2>2, <2>3
<1>. QED  BY <1>1, <1>2, <1>3, <1>4

\* A swallowed combo's modifiers are tracked no more.
LEMMA ComboModsTracks ==
  ASSUME SessionInv, t \in Translators, NEW S, localHeld \subseteq S, TracksOnly(t, S),
         NEW mods \in SUBSET AllModifiers, NEW ok, ReleaseComboMods(mods, ok)
  PROVE  localHeld' \subseteq S \ mods /\ TracksOnly(t', S \ mods) /\ t' \in Translators
<1>1. CASE slot = LocalSlot
  <2>1. localHeld' = localHeld \ mods /\ t' = t /\ t = IdleTranslator(FALSE)
    BY <1>1 DEF ReleaseComboMods, SessionInv, LocalIsIdle
  <2>. QED  BY <2>1, IdleTracksNothing
<1>2. CASE slot # LocalSlot
  <2>1. FlushRemote(SetMods(t, t.mods \ mods)) /\ localHeld' = {}
    BY <1>2 DEF ReleaseComboMods, SessionInv, LocalReleased
  <2>2. t.mods \ mods \in SUBSET AllModifiers
    BY SettersType
  <2>3. PICK tr \in Translators : tr = SetMods(t, t.mods \ mods)
    BY <2>2, SettersType
  <2>4. tr.mods = t.mods \ mods /\ tr.keys = t.keys /\ tr.buttons = t.buttons /\ tr.consumer = t.consumer
    BY <2>3 DEF SetMods, Translators
  <2>5. t' \in Translators /\ t'.mods = tr.mods /\ t'.keys = tr.keys /\ t'.buttons = tr.buttons
        /\ t'.consumer = tr.consumer
    BY <2>1, <2>3, FlushRemoteFacts
  <2>6. TracksOnly(tr, S \ mods)
    <3>1. t.keys \subseteq PlainKeys /\ t.consumer \in MediaKeys \cup {None}
      BY SettersType
    <3>2. mods \cap PlainKeys = {} /\ mods \cap MediaKeys = {} /\ mods \cap Buttons = {}
      BY TranslatorAssumption
    <3>3. S \cap Buttons \subseteq (S \ mods) \cap Buttons
      BY <3>2
    <3>. QED  BY <2>4, <3>1, <3>2, <3>3 DEF TracksOnly
  <2>. QED  BY <2>1, <2>5, <2>6, TracksSame
<1>. QED  BY <1>1, <1>2

\* A switch tracks no more than before, and none of the combo's modifiers.
LEMMA SwitchToTracks ==
  ASSUME SessionInv, t \in Translators, NEW S, localHeld \subseteq S, TracksOnly(t, S),
         NEW mods \in SUBSET AllModifiers, NEW s \in Slots, NEW fire, SwitchTo(s, fire, mods)
  PROVE  localHeld' \subseteq S \ mods /\ TracksOnly(t', S \ mods) /\ t' \in Translators
<1>1. CASE s = slot /\ Reassert(fire, mods)
  BY <1>1, ComboModsTracks DEF Reassert
<1>2. CASE RequestPairing(s, mods)
  BY <1>2, ComboModsTracks DEF RequestPairing
<1>3. CASE slot = LocalSlot /\ LeaveLocal(s, fire)
  <2>1. PICK mac : mac = (s \in MacSlots)
    OBVIOUS
  <2>2. (t' = t \/ t' = [t EXCEPT !.mac = mac]) /\ localHeld' = {} /\ mac \in BOOLEAN
        /\ t = IdleTranslator(FALSE)
    BY <1>3, <2>1 DEF LeaveLocal, SessionInv, LocalIsIdle
  <2>3. t' = IdleTranslator(FALSE) \/ t' = IdleTranslator(mac)
    BY <2>2, IdleRelaid
  <2>4. PICK m \in BOOLEAN : t' = IdleTranslator(m)
    BY <2>2, <2>3
  <2>. QED  BY <2>2, <2>4, IdleTracksNothing, IdleIsStill
<1>4. CASE slot # LocalSlot /\ LeaveRemote(s, fire)
  <2>1. PICK mac : mac = (s \in MacSlots)
    OBVIOUS
  <2>2. t' = IdleTranslator(mac) /\ mac \in BOOLEAN /\ localHeld' = {}
    BY <1>4, <2>1 DEF LeaveRemote, SessionInv, LocalReleased
  <2>. QED  BY <2>2, IdleTracksNothing, IdleIsStill
<1>. QED  BY <1>1, <1>2, <1>3, <1>4 DEF SwitchTo

\* A press leaves alive what was, but for the modifiers of a combo, and makes a
\* key alive that is passed on.
LEMMA LivePress ==
  ASSUME HoldInv, NEW d \in Devices, NEW k \in Keys, k \notin down[d],
         down' = [down EXCEPT ![d] = @ \cup {k}], NEW mods,
         suppressed' \subseteq suppressed \cup {k} \cup mods
  PROVE  /\ Live \ mods \subseteq Live'
         /\ suppressed' = suppressed /\ k \notin suppressed => k \in Live'
<1>1. /\ down \in [Devices -> SUBSET Keys] /\ k \in down'[d]
      /\ \A e \in Devices : down[e] \subseteq down'[e]
  BY DEF HoldInv
<1>2. ASSUME NEW x \in Live \ mods PROVE x \in Live'
  <2>1. PICK e \in Devices : x \in down[e] /\ (x \in suppressed => \E g \in Devices \ {e} : x \in down[g])
    BY DEF Live
  <2>2. x \in Keys /\ x \in down'[e]
    BY <1>1, <2>1 DEF Live
  <2>3. x \in suppressed' => \E g \in Devices \ {e} : x \in down'[g]
    <3>1. CASE x = k
      BY <1>1, <2>1, <3>1
    <3>2. CASE x # k
      BY <1>1, <1>2, <2>1, <3>2
    <3>. QED  BY <3>1, <3>2
  <2>. QED  BY <2>2, <2>3 DEF Live
<1>3. suppressed' = suppressed /\ k \notin suppressed => k \in Live'
  BY <1>1 DEF Live
<1>. QED  BY <1>2, <1>3

\* A release: one that is swallowed leaves the key down on another device.
LEMMA LiveRelease ==
  ASSUME HoldInv, NEW d \in Devices, NEW k \in Keys, k \in down[d],
         down' = [down EXCEPT ![d] = @ \ {k}], suppressed' = suppressed \ {k}
  PROVE  /\ Live \ {k} \subseteq Live'
         /\ k \in suppressed => Live \subseteq Live'
<1>1. /\ down \in [Devices -> SUBSET Keys] /\ \A e \in Devices \ {d} : down'[e] = down[e]
      /\ \A e \in Devices : down[e] \ {k} \subseteq down'[e]
  BY DEF HoldInv
<1>2. ASSUME NEW x \in Live \ {k} PROVE x \in Live'
  <2>1. PICK e \in Devices : x \in down[e] /\ (x \in suppressed => \E g \in Devices \ {e} : x \in down[g])
    BY DEF Live
  <2>2. x \in Keys /\ x \in down'[e] /\ (x \in suppressed' => \E g \in Devices \ {e} : x \in down'[g])
    BY <1>1, <2>1 DEF Live
  <2>. QED  BY <2>2 DEF Live
<1>3. ASSUME k \in suppressed, k \in Live PROVE k \in Live'
  <2>1. PICK e \in Devices : k \in down[e] /\ \E g \in Devices \ {e} : k \in down[g]
    BY <1>3 DEF Live
  <2>2. PICK g \in Devices \ {d} : k \in down[g]
    BY <2>1
  <2>3. k \in down'[g] /\ k \notin suppressed'
    BY <1>1, <2>2
  <2>. QED  BY <2>3 DEF Live
<1>. QED  BY <1>2, <1>3

\* No step tracks a key that is not live.
LEMMA LiveInvStep == SessionInv /\ HoldInv /\ LiveInv /\ [Next]_vars => LiveInv'
<1>. SUFFICES ASSUME SessionInv, HoldInv, LiveInv, [Next]_vars PROVE LiveInv'
  OBVIOUS
<1>0. PICK S : S = Live
  OBVIOUS
<1>1. t \in Translators /\ localHeld \subseteq S /\ TracksOnly(t, S)
  BY <1>0 DEF LiveInv
<1>2. ASSUME t' \in Translators, NEW T, localHeld' \subseteq T, TracksOnly(t', T), T \subseteq Live'
      PROVE  LiveInv'
  <2>1. TracksOnly(t', Live')
    BY <1>2, TracksMore
  <2>. QED  BY <1>2, <2>1 DEF LiveInv, TracksOnly
<1>3. ASSUME NEW d \in Devices, NEW k \in Keys, KeyDown(d, k)
      PROVE  LiveInv'
  <2>1. k \in Keys /\ k \notin down[d] /\ down' = [down EXCEPT ![d] = @ \cup {k}]
    BY <1>3 DEF KeyDown
  <2>2. CASE SwitchPress(k) /\ SwitchTo(FkeySlot[k], FireHooks, SwitchMods)
    <3>1. SwitchMods \in SUBSET AllModifiers /\ FkeySlot[k] \in Slots
          /\ suppressed' \subseteq suppressed \cup {k} \cup SwitchMods
      BY <2>2 DEF SwitchPress, IsSwitch, Slots, SwitchMods, AllModifiers
    <3>2. localHeld' \subseteq S \ SwitchMods /\ TracksOnly(t', S \ SwitchMods) /\ t' \in Translators
      BY <1>1, <2>2, <3>1, SwitchToTracks
    <3>3. S \ SwitchMods \subseteq Live'
      BY <1>0, <2>1, <3>1, LivePress
    <3>. QED  BY <1>2, <3>2, <3>3
  <2>3. CASE MacroPress(k) /\ RunMacro(Macros[Combo(k)], MacroMods)
    <3>1. MacroMods \in SUBSET AllModifiers
          /\ suppressed' \subseteq suppressed \cup {k} \cup MacroMods
      BY <2>3 DEF MacroPress, MacroMods
    <3>2. localHeld' \subseteq S \ MacroMods /\ TracksOnly(t', S \ MacroMods) /\ t' \in Translators
      BY <1>1, <2>3, <3>1, ComboModsTracks DEF RunMacro
    <3>3. S \ MacroMods \subseteq Live'
      BY <1>0, <2>1, <3>1, LivePress
    <3>. QED  BY <1>2, <3>2, <3>3
  <2>4. CASE OtherPress(k) /\ Swallow
    <3>1. t' = t /\ localHeld' = localHeld /\ suppressed' = suppressed
      BY <2>4, Zenon DEF Swallow, OtherPress
    <3>2. S \ {} \subseteq Live'
      BY <1>0, <2>1, <3>1, LivePress
    <3>. QED  BY <1>1, <1>2, <3>1, <3>2
  <2>5. CASE OtherPress(k) /\ ~Swallowed(k) /\ Pass(k, TRUE)
    <3>1. suppressed' = suppressed /\ k \notin suppressed
          /\ (t' = t \/ t' = KeyPressed(t, k))
          /\ (localHeld' = localHeld \/ localHeld' = localHeld \cup {k})
      BY <2>5, Zenon DEF OtherPress, Swallowed, Pass
    <3>2. PICK T : T = S \cup {k}
      OBVIOUS
    <3>3. TracksOnly(t, T)
      BY <1>1, <3>2, TracksMore
    <3>4. TracksOnly(t', T) /\ t' \in Translators /\ localHeld' \subseteq T
      BY <1>1, <3>1, <3>2, <3>3, PressedTracks, KeyPressedType
    <3>5. S \ {} \subseteq Live' /\ k \in Live'
      BY <1>0, <2>1, <3>1, LivePress
    <3>. QED  BY <1>2, <3>2, <3>4, <3>5
  <2>. QED  BY <1>3, <2>2, <2>3, <2>4, <2>5 DEF KeyDown
<1>4. ASSUME NEW d \in Devices, NEW k \in Keys, KeyUp(d, k)
      PROVE  LiveInv'
  <2>1. k \in down[d] /\ down' = [down EXCEPT ![d] = @ \ {k}] /\ suppressed' = suppressed \ {k}
    BY <1>4 DEF KeyUp, Release
  <2>2. S \ {k} \subseteq Live' /\ (k \in suppressed => S \subseteq Live')
    BY <1>0, <2>1, LiveRelease
  <2>3. CASE k \in suppressed /\ Swallow
    <3>1. t' = t /\ localHeld' = localHeld
      BY <2>3, Zenon DEF Swallow
    <3>. QED  BY <1>1, <1>2, <2>2, <2>3, <3>1
  <2>4. CASE Pass(k, FALSE)
    <3>1. CASE slot = LocalSlot
      <4>1. t' = t /\ localHeld' = localHeld \ {k} /\ t = IdleTranslator(FALSE)
        BY <2>4, <3>1 DEF Pass, SessionInv, LocalIsIdle
      <4>2. TracksOnly(t', S \ {k}) /\ localHeld' \subseteq S \ {k} /\ t' \in Translators
        BY <1>1, <4>1, IdleTracksNothing
      <4>. QED  BY <1>2, <2>2, <4>2
    <3>2. CASE slot # LocalSlot
      <4>1. t' = KeyReleased(t, k) /\ localHeld' = {}
        BY <2>4, <3>2 DEF Pass, SessionInv, LocalReleased
      <4>2. TracksOnly(t', S \ {k}) /\ t' \in Translators /\ localHeld' \subseteq S \ {k}
        BY <1>1, <4>1, ReleasedTracks, KeyReleasedType
      <4>. QED  BY <1>2, <2>2, <4>2
    <3>. QED  BY <3>1, <3>2
  <2>. QED  BY <1>4, <2>3, <2>4 DEF KeyUp, Swallowed
<1>5. ASSUME UNCHANGED <<localHeld, down, suppressed>>, NEW tr \in Translators, t' = tr,
             tr.mods = t.mods, tr.keys = t.keys, tr.buttons = t.buttons, tr.consumer = t.consumer
      PROVE  LiveInv'
  <2>1. Live' = Live
    BY <1>5 DEF Live
  <2>2. TracksOnly(tr, S)
    BY <1>1, <1>5, TracksSame
  <2>. QED  BY <1>0, <1>1, <1>2, <1>5, <2>1, <2>2
<1>6. ASSUME UNCHANGED <<t, localHeld, down, suppressed>> PROVE LiveInv'
  BY <1>1, <1>5, <1>6
<1>7. ASSUME NEW d \in Devices, NEW k \in Keys, KeyRepeat(d, k) PROVE LiveInv'
  BY <1>6, <1>7, Zenon DEF KeyRepeat, Repeat, fsmVars
<1>8. ASSUME NEW d \in Devices, NEW delta \in Deltas, Move(d, delta) PROVE LiveInv'
  <2>1. UNCHANGED <<localHeld, down, suppressed>> /\ (t' = t \/ t' = Moved(t, delta))
    BY <1>8 DEF Move, fsmVars
  <2>2. PICK tr : tr = Moved(t, delta)
    OBVIOUS
  <2>3. tr \in Translators /\ tr.mods = t.mods /\ tr.keys = t.keys /\ tr.buttons = t.buttons
        /\ tr.consumer = t.consumer
    BY <1>1, <2>2, RouterAssumption DEF Moved, Translators
  <2>. QED  BY <1>5, <1>6, <2>1, <2>2, <2>3
<1>9. ASSUME NEW d \in Devices, Syn(d) PROVE LiveInv'
  <2>1. UNCHANGED <<localHeld, down, suppressed>> /\ (t' = t \/ FlushRemote(t))
    BY <1>9 DEF Syn, fsmVars
  <2>2. CASE FlushRemote(t)
    <3>1. t' \in Translators /\ t'.mods = t.mods /\ t'.keys = t.keys /\ t'.buttons = t.buttons
          /\ t'.consumer = t.consumer
      BY <1>1, <2>2, FlushRemoteFacts
    <3>. QED  BY <1>5, <2>1, <3>1
  <2>. QED  BY <1>6, <2>1, <2>2
<1>10. CASE FlushTimer
  <2>1. UNCHANGED <<localHeld, down, suppressed>> /\ t' = MouseFlushed(t)
    BY <1>10, Zenon DEF FlushTimer, fsmVars
  <2>. QED  BY <1>1, <1>5, <2>1, MouseFlushedType
<1>11. CASE FireRepair
  BY <1>6, <1>11, Zenon DEF FireRepair, fsmVars, worldVars
<1>12. CASE Others
  BY <1>6, <1>12, Zenon
     DEF Others, Tick, IntervalPasses, TakeFrame, TakeCmd, TakeHook, TakeRepaint, Rebind,
         fsmVars, routerVars, worldVars
<1>13. CASE UNCHANGED vars
  BY <1>6, <1>13, Zenon DEF vars, fsmVars, routerVars, worldVars
<1>. QED
  BY <1>3, <1>4, <1>7, <1>8, <1>9, <1>10, <1>11, <1>12, <1>13, Zenon DEF Next, Input, Timers

\* At the start none is tracked.
LEMMA InitLive == Init => LiveInv
<1>. SUFFICES ASSUME Init PROVE LiveInv
  OBVIOUS
<1>1. PICK mac : mac = (slot \in MacSlots)
  OBVIOUS
<1>2. t = IdleTranslator(mac) /\ mac \in BOOLEAN /\ localHeld = {}
  BY <1>1 DEF Init
<1>. QED  BY <1>2, IdleIsStill, IdleTracksNothing DEF LiveInv

\* Once no key and no button is down on any device, none is down anywhere: not on
\* any host, active or left, and not in the local session, but for the exceptions.
THEOREM NothingStuck == Spec => []HandsOff
<1>1. SessionInv /\ HostInv /\ LiveInv => HandsOff
  <2>. SUFFICES ASSUME SessionInv, HostInv, LiveInv, \A d \in Devices : down[d] = {}, unsynced = {}
                PROVE  /\ \A s \in Remote \ (dropped \cup unflushed) : host[s] = Released
                       /\ localDown \subseteq sinkLost
    BY DEF HandsOff
  <2>1. Live = {}
    BY DEF Live
  <2>2. localHeld = {} /\ t.mods = {} /\ t.keys = {} /\ t.buttons = {} /\ t.consumer = None
    BY <2>1 DEF LiveInv, TracksOnly
  <2>3. localDown \subseteq sinkLost
    BY <2>2 DEF SessionInv, LocalReleased
  <2>4. ASSUME NEW s \in Remote \ (dropped \cup unflushed) PROVE host[s] = Released
    <3>1. CASE s # slot
      BY <3>1 DEF HostInv, InactiveHostsReleased
    <3>2. CASE s = slot
      <4>1. Agrees(t, host[slot]) /\ Clean(t) /\ host[slot] \in Hosts
        BY <3>2 DEF HostInv, ActiveAgrees, HostTypes
      <4>2. host[slot].mods = {} /\ host[slot].keys = {} /\ host[slot].buttons = {}
            /\ host[slot].consumer = None
        BY <2>2, <4>1 DEF Agrees, Clean, ShownMods
      <4>. QED  BY <3>2, <4>1, <4>2 DEF Hosts, Released
    <3>. QED  BY <3>1, <3>2
  <2>. QED  BY <2>3, <2>4
<1>2. SessionInv /\ HostInv /\ HoldInv /\ LiveInv /\ [Next]_vars =>
        SessionInv' /\ HostInv' /\ HoldInv' /\ LiveInv'
  BY SessionInvStep, HostInvStep, HoldInvStep, LiveInvStep
<1>3. Init => SessionInv /\ HostInv /\ HoldInv /\ LiveInv
  BY InitSchedule, InitHosts, InitOut, InitLive
<1>. QED  BY <1>1, <1>2, <1>3, PTL DEF Spec

-----------------------------------------------------------------------------
(* Types, and the capacities of the channels.                              *)

KeysInv ==
  /\ held \subseteq Keys /\ suppressed \subseteq Keys /\ localHeld \subseteq Keys
  /\ localDown \subseteq Keys /\ sinkLost \subseteq Keys

\* Releasing a combo's modifiers releases keys.
LEMMA ComboModsKeepKeys ==
  ASSUME KeysInv, NEW mods, NEW ok, ReleaseComboMods(mods, ok)
  PROVE  localHeld' \subseteq Keys /\ localDown' \subseteq Keys /\ sinkLost' \subseteq Keys
<1>1. CASE slot = LocalSlot
  <2>1. ReleaseLocal(mods \cap localHeld, ok) /\ localHeld' = localHeld \ mods
    BY <1>1 DEF ReleaseComboMods
  <2>2. localDown' \cup sinkLost' \subseteq localDown \cup sinkLost \cup (mods \cap localHeld)
    BY <2>1, ReleaseLocalFacts
  <2>. QED  BY <2>1, <2>2 DEF KeysInv
<1>2. CASE slot # LocalSlot
  BY <1>2 DEF ReleaseComboMods, KeysInv
<1>. QED  BY <1>1, <1>2

\* So does switching.
LEMMA SwitchToKeepsKeys ==
  ASSUME KeysInv, NEW mods, NEW s, NEW fire, SwitchTo(s, fire, mods)
  PROVE  localHeld' \subseteq Keys /\ localDown' \subseteq Keys /\ sinkLost' \subseteq Keys
<1>1. CASE Reassert(fire, mods)
  BY <1>1, ComboModsKeepKeys DEF Reassert
<1>2. CASE RequestPairing(s, mods)
  BY <1>2, ComboModsKeepKeys DEF RequestPairing
<1>3. CASE LeaveLocal(s, fire)
  <2>1. PICK ok \in SinkOutcomes : ReleaseLocal(localHeld, ok) /\ localHeld' = {}
    BY <1>3 DEF LeaveLocal
  <2>2. localDown' \cup sinkLost' \subseteq localDown \cup sinkLost \cup localHeld
    BY <2>1, ReleaseLocalFacts
  <2>. QED  BY <2>1, <2>2 DEF KeysInv
<1>4. CASE LeaveRemote(s, fire)
  BY <1>4 DEF LeaveRemote, KeysInv
<1>. QED  BY <1>1, <1>2, <1>3, <1>4 DEF SwitchTo

\* The local session is sent keys.
LEMMA PassKeepsKeys ==
  ASSUME KeysInv, NEW k \in Keys, NEW pressed, Pass(k, pressed) \/ Swallow
  PROVE  localHeld' \subseteq Keys /\ localDown' \subseteq Keys /\ sinkLost' \subseteq Keys
<1>1. CASE UNCHANGED <<localHeld, localDown, sinkLost>>
  BY <1>1 DEF KeysInv
<1>2. CASE slot = LocalSlot /\ Pass(k, pressed)
  <2>1. PICK ok \in SinkOutcomes :
          /\ EmitLocal(k, pressed, ok)
          /\ localHeld' = IF pressed THEN localHeld \cup {k} ELSE localHeld \ {k}
    BY <1>2, Zenon DEF Pass
  <2>. QED  BY <2>1 DEF EmitLocal, KeysInv
<1>. QED  BY <1>1, <1>2, Zenon DEF Pass, Swallow, historyVars

\* No step records anything but keys.
LEMMA KeysInvStep == KeysInv /\ [Next]_vars => KeysInv'
<1>. SUFFICES ASSUME KeysInv, [Next]_vars PROVE KeysInv'
  OBVIOUS
<1>1. ASSUME NEW d \in Devices, NEW k \in Keys, KeyDown(d, k) PROVE KeysInv'
  <2>1. held' \subseteq Keys /\ suppressed' \subseteq Keys
    BY <1>1 DEF KeyDown, SwitchPress, MacroPress, OtherPress, SwitchMods, MacroMods, KeysInv
  <2>2. localHeld' \subseteq Keys /\ localDown' \subseteq Keys /\ sinkLost' \subseteq Keys
    BY <1>1, SwitchToKeepsKeys, ComboModsKeepKeys, PassKeepsKeys DEF KeyDown, RunMacro
  <2>. QED  BY <2>1, <2>2 DEF KeysInv
<1>2. ASSUME NEW d \in Devices, NEW k \in Keys, KeyUp(d, k) PROVE KeysInv'
  <2>1. held' \subseteq Keys /\ suppressed' \subseteq Keys
    BY <1>2 DEF KeyUp, Release, KeysInv
  <2>2. localHeld' \subseteq Keys /\ localDown' \subseteq Keys /\ sinkLost' \subseteq Keys
    BY <1>2, PassKeepsKeys DEF KeyUp
  <2>. QED  BY <2>1, <2>2 DEF KeysInv
<1>3. ASSUME UNCHANGED <<held, suppressed, localHeld, localDown, sinkLost>> PROVE KeysInv'
  BY <1>3 DEF KeysInv
<1>4. ASSUME NEW d \in Devices, NEW k \in Keys, KeyRepeat(d, k) PROVE KeysInv'
  BY <1>3, <1>4, Zenon DEF KeyRepeat, Repeat, fsmVars, historyVars
<1>5. ASSUME NEW d \in Devices, NEW delta \in Deltas, Move(d, delta) PROVE KeysInv'
  BY <1>3, <1>5, Zenon DEF Move, fsmVars
<1>6. ASSUME NEW d \in Devices, Syn(d) PROVE KeysInv'
  BY <1>3, <1>6, Zenon DEF Syn, fsmVars
<1>7. CASE FlushTimer
  BY <1>3, <1>7, Zenon DEF FlushTimer, fsmVars
<1>8. CASE FireRepair
  BY <1>3, <1>8, Zenon DEF FireRepair, fsmVars, historyVars
<1>9. CASE Others
  BY <1>3, <1>9, Zenon
     DEF Others, Tick, IntervalPasses, TakeFrame, TakeCmd, TakeHook, TakeRepaint, Rebind,
         fsmVars, routerVars, historyVars
<1>10. CASE UNCHANGED vars
  BY <1>3, <1>10, Zenon DEF vars, fsmVars, routerVars, historyVars
<1>. QED
  BY <1>1, <1>2, <1>4, <1>5, <1>6, <1>7, <1>8, <1>9, <1>10, Zenon DEF Next, Input, Timers

\* What the channels hold, and the rest.
ChannelInv ==
  /\ Len(cmds) <= CmdCap /\ Len(hooks) <= HookCap /\ repaints \in 0 .. RepaintCap
  /\ bound \subseteq Remote /\ unsynced \subseteq Devices
  /\ flushAt \in BOOLEAN /\ quiet \in BOOLEAN

\* A channel at its capacity takes no more.
LEMMA OfferBounded ==
  ASSUME NEW M, NEW ch \in Seq(M), NEW cap \in Nat, Len(ch) <= cap, NEW next,
         \/ next = ch \/ (ch # <<>> /\ next = Tail(ch))
         \/ \E m \in M : next = Offer(ch, m, cap)
  PROVE  Len(next) <= cap
<1>1. CASE ch # <<>> /\ next = Tail(ch)
  BY <1>1
<1>2. ASSUME NEW m \in M, next = Offer(ch, m, cap) PROVE Len(next) <= cap
  BY <1>2 DEF Offer
<1>. QED  BY <1>1, <1>2

\* The channel of repaints keeps to its capacity.
LEMMA RepaintBounded ==
  ASSUME NEW n \in 0 .. RepaintCap
  PROVE  Lesser(n + 1, RepaintCap) \in 0 .. RepaintCap /\ (n > 0 => n - 1 \in 0 .. RepaintCap)
BY RouterAssumption DEF Lesser

\* So do the channels of commands and hooks.
LEMMA ChannelsStep ==
  ASSUME OutInv, HoldInv, ChannelInv, [Next]_vars
  PROVE  Len(cmds') <= CmdCap /\ Len(hooks') <= HookCap
<1>0. CmdCap \in Nat /\ HookCap \in Nat
  BY RouterAssumption
<1>1. Sends
  BY StepSends
<1>2. OpenCmds \subseteq Cmds /\ HooksOf(slot') \subseteq HookMsgs
      /\ [cmd |-> "repair", slot |-> repair.slot] \in Cmds
  BY DEF OpenCmds, Cmds, HooksOf, HoldInv
<1>3. \/ cmds' = cmds \/ (cmds # <<>> /\ cmds' = Tail(cmds))
      \/ \E m \in Cmds : cmds' = Offer(cmds, m, CmdCap)
  BY <1>1, <1>2, Zenon DEF Sends, FireRepair
<1>4. \/ hooks' = hooks \/ (hooks # <<>> /\ hooks' = Tail(hooks))
      \/ \E m \in HookMsgs : hooks' = Offer(hooks, m, HookCap)
  BY <1>1, <1>2, Zenon DEF Sends
<1>5. Len(cmds') <= CmdCap
  BY <1>0, <1>3, OfferBounded DEF OutInv, ChannelInv
<1>6. Len(hooks') <= HookCap
  BY <1>0, <1>4, OfferBounded DEF OutInv, ChannelInv
<1>. QED  BY <1>5, <1>6

\* A flush leaves its timers on or off.
LEMMA FlushRest ==
  ASSUME NEW tr, FlushRemote(tr) PROVE flushAt' \in BOOLEAN /\ quiet' \in BOOLEAN
BY DEF FlushRemote

\* The rest of what a step does.
Rest ==
  /\ repaints' \in 0 .. RepaintCap /\ bound' \subseteq Remote /\ unsynced' \subseteq Devices
  /\ flushAt' \in BOOLEAN /\ quiet' \in BOOLEAN

\* So does releasing a combo's modifiers.
LEMMA ComboModsRest ==
  ASSUME ChannelInv, NEW mods, NEW ok, ReleaseComboMods(mods, ok)
  PROVE  flushAt' \in BOOLEAN /\ quiet' \in BOOLEAN
BY FlushRest DEF ReleaseComboMods, ChannelInv

\* So does switching, which offers at most one repaint.
LEMMA SwitchToRest ==
  ASSUME ChannelInv, NEW s, NEW fire, NEW mods, SwitchTo(s, fire, mods)
  PROVE  flushAt' \in BOOLEAN /\ quiet' \in BOOLEAN /\ repaints' \in 0 .. RepaintCap
<1>0. repaints \in 0 .. RepaintCap
  BY DEF ChannelInv
<1>1. CASE Reassert(fire, mods)
  BY <1>0, <1>1, ComboModsRest, RepaintBounded DEF Reassert
<1>2. CASE RequestPairing(s, mods)
  BY <1>0, <1>2, ComboModsRest DEF RequestPairing
<1>3. CASE LeaveLocal(s, fire)
  BY <1>3 DEF LeaveLocal, ChannelInv
<1>4. CASE LeaveRemote(s, fire)
  BY <1>4 DEF LeaveRemote, ChannelInv
<1>. QED  BY <1>1, <1>2, <1>3, <1>4 DEF SwitchTo

\* Each step keeps the remaining variables to their types.
LEMMA RestStep == ChannelInv /\ [Next]_vars => Rest
<1>. SUFFICES ASSUME ChannelInv, [Next]_vars PROVE Rest
  OBVIOUS
<1>0. repaints \in 0 .. RepaintCap
  BY DEF ChannelInv
<1>1. ASSUME UNCHANGED <<flushAt, quiet, repaints, bound>>, unsynced' \subseteq Devices PROVE Rest
  BY <1>1 DEF Rest, ChannelInv
<1>2. ASSUME NEW d \in Devices, NEW k \in Keys, KeyDown(d, k) PROVE Rest
  <2>1. unsynced' \subseteq Devices /\ bound' \subseteq Remote
    BY <1>2 DEF KeyDown, ChannelInv
  <2>2. CASE SwitchTo(FkeySlot[k], FireHooks, SwitchMods)
    BY <2>1, <2>2, SwitchToRest DEF Rest
  <2>3. CASE RunMacro(Macros[Combo(k)], MacroMods)
    BY <1>0, <2>1, <2>3, ComboModsRest DEF RunMacro, Rest
  <2>4. CASE Pass(k, TRUE) \/ Swallow
    BY <2>1, <2>4 DEF Pass, Swallow, Rest, ChannelInv
  <2>. QED  BY <1>2, <2>2, <2>3, <2>4 DEF KeyDown
<1>3. ASSUME NEW d \in Devices, NEW k \in Keys, KeyUp(d, k) PROVE Rest
  BY <1>3 DEF KeyUp, Pass, Swallow, Rest, ChannelInv
<1>4. ASSUME NEW d \in Devices, NEW k \in Keys, KeyRepeat(d, k) PROVE Rest
  <2>1. UNCHANGED <<flushAt, quiet, repaints, bound>> /\ unsynced' = unsynced \cup {d}
    BY <1>4, Zenon DEF KeyRepeat, channelVars
  <2>. QED  BY <1>1, <2>1 DEF ChannelInv
<1>5. ASSUME NEW d \in Devices, NEW delta \in Deltas, Move(d, delta) PROVE Rest
  <2>1. UNCHANGED <<flushAt, quiet, repaints, bound>> /\ unsynced' = unsynced \cup {d}
    BY <1>5, Zenon DEF Move, channelVars
  <2>. QED  BY <1>1, <2>1 DEF ChannelInv
<1>6. ASSUME NEW d \in Devices, Syn(d) PROVE Rest
  BY <1>6, FlushRest DEF Syn, Rest, ChannelInv
<1>7. CASE FlushTimer
  BY <1>7 DEF FlushTimer, Rest, ChannelInv
<1>8. CASE FireRepair
  BY <1>1, <1>8, Zenon DEF FireRepair, worldVars, ChannelInv
<1>9. CASE Tick \/ TakeFrame \/ TakeCmd \/ TakeHook
  BY <1>1, <1>9, Zenon DEF Tick, TakeFrame, TakeCmd, TakeHook, routerVars, channelVars, worldVars, ChannelInv
<1>10. CASE IntervalPasses
  BY <1>10 DEF IntervalPasses, routerVars, channelVars, Rest, ChannelInv
<1>11. CASE TakeRepaint
  BY <1>0, <1>11, RepaintBounded DEF TakeRepaint, routerVars, worldVars, Rest, ChannelInv
<1>12. CASE Rebind
  BY <1>12 DEF Rebind, routerVars, worldVars, Rest, ChannelInv
<1>13. CASE UNCHANGED vars
  BY <1>1, <1>13, Zenon DEF vars, routerVars, channelVars, worldVars, ChannelInv
<1>. QED
  BY <1>2, <1>3, <1>4, <1>5, <1>6, <1>7, <1>8, <1>9, <1>10, <1>11, <1>12, <1>13, Zenon
     DEF Next, Input, Timers, Others

\* At the start every channel is empty.
LEMMA InitTypes == Init => KeysInv /\ ChannelInv
<1>. SUFFICES ASSUME Init PROVE KeysInv /\ ChannelInv
  OBVIOUS
<1>1. /\ held = {} /\ suppressed = {} /\ localHeld = {} /\ localDown = {} /\ sinkLost = {}
      /\ cmds = <<>> /\ hooks = <<>> /\ repaints = 0 /\ bound \subseteq Remote /\ unsynced = {}
      /\ flushAt = FALSE /\ quiet = TRUE
  BY DEF Init, FsmInit
<1>2. CmdCap \in Nat /\ HookCap \in Nat /\ RepaintCap \in Nat /\ Len(<<>>) = 0
  BY RouterAssumption
<1>3. KeysInv
  BY <1>1 DEF KeysInv
<1>4. Len(cmds) <= CmdCap /\ Len(hooks) <= HookCap
  BY <1>1, <1>2
<1>5. repaints \in 0 .. RepaintCap
  BY <1>1, <1>2
<1>. QED  BY <1>1, <1>3, <1>4, <1>5 DEF ChannelInv

TypeInv == SessionInv /\ HostInv /\ HoldInv /\ MotionInv /\ OutInv /\ KeysInv /\ ChannelInv

\* Every variable of the router keeps to its type and no channel holds more than
\* its capacity; in particular no host is ever shown what is not a report.
THEOREM RouterTypes == Spec => []TypeOK
<1>1. TypeInv => TypeOK
  <2>. SUFFICES ASSUME TypeInv PROVE TypeOK
    OBVIOUS
  <2>. USE DEF TypeInv
  <2>1. RouterTypeOK
    BY DEF RouterTypeOK, HostInv, HoldInv, KeysInv, ChannelInv
  <2>2. held \subseteq Keys /\ suppressed \subseteq Keys /\ comboHeld \in Fkeys \cup {None}
        /\ localDown \subseteq Keys /\ sinkLost \subseteq Keys
    BY DEF KeysInv, HoldInv
  <2>3. owed \in Int
    BY DEF MotionInv
  <2>. QED  BY <2>1, <2>2, <2>3 DEF TypeOK, HostInv, HostTypes, HoldInv, ChannelInv
<1>2. TypeInv /\ [Next]_vars => TypeInv'
  <2>. SUFFICES ASSUME TypeInv, [Next]_vars PROVE TypeInv'
    OBVIOUS
  <2>1. SessionInv /\ HostInv /\ HoldInv /\ MotionInv /\ OutInv /\ KeysInv /\ ChannelInv
    BY DEF TypeInv
  <2>2. ChannelInv'
    BY <2>1, ChannelsStep, RestStep DEF ChannelInv, Rest
  <2>. QED
    BY <2>1, <2>2, SessionInvStep, HostInvStep, HoldInvStep, MotionInvStep, OutInvStep, KeysInvStep
       DEF TypeInv, HostInv
<1>3. Init => TypeInv
  BY InitSchedule, InitHosts, InitOut, InitMotion, InitTypes DEF TypeInv
<1>. QED  BY <1>1, <1>2, <1>3, PTL DEF Spec

=============================================================================
