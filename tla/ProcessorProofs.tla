--------------------------- MODULE ProcessorProofs ---------------------------
(***************************************************************************)
(* The processor for every input: the layout of a vocal video with any     *)
(* number of grids, any track length, any seconds_per_grid and any         *)
(* position_id_per_seconds, the loaders for any number of threads,         *)
(* backends and modules, and the expansion of any batch of prompts with    *)
(* any number of media.                                                    *)
(***************************************************************************)
EXTENDS VGridLayout, MediaPatch, PromptExpand, FiniteSetTheorems, FunctionTheorems,
        SequenceTheorems, WellFoundedInduction, TLAPS

-----------------------------------------------------------------------------
(* The layout of a vocal video.                                            *)

\* The boundary list as the loop builds it: it starts at 0, stays within the
\* track, never decreases, and each later item is the clamped cut of its grid.
Starts    == Len(boundaries) >= 1 /\ boundaries[1] = 0
InTrack   == \A i \in 1 .. Len(boundaries) : boundaries[i] <= in.audioLen
Ascending == \A i, j \in 1 .. Len(boundaries) : i <= j => boundaries[i] <= boundaries[j]
ClampedCuts ==
    \A i \in 2 .. Len(boundaries) :
        i <= in.gridT =>
            boundaries[i] = MinOf(in.audioLen, MaxOf(Cut(i - 1), boundaries[i - 1]))

\* Every token before the last boundary already lies between two of them.
Covered ==
    \A a \in Nat :
        a < boundaries[Len(boundaries)] =>
            \E g \in 1 .. Len(boundaries) :
                g < Len(boundaries) /\ boundaries[g] <= a /\ a < boundaries[g + 1]

\* How far each loop has come, and what the emitted spans hold.
Progress ==
    /\ phase = "boundaries" => Len(boundaries) <= in.gridT /\ spans = <<>>
    /\ phase # "boundaries" => /\ Len(boundaries) = in.gridT + 1
                            /\ boundaries[in.gridT + 1] = in.audioLen
    /\ Len(spans) <= in.gridT
    /\ phase = "done" => Len(spans) = in.gridT
Emitted == \A g \in 1 .. Len(spans) : spans[g] = SpanOf(g)

BoundariesInv == Starts /\ InTrack /\ Ascending /\ ClampedCuts /\ Covered
LayoutInv == LayoutTypeOK /\ BoundariesInv /\ Progress /\ Emitted

\* The types of the arguments of the processor, one by one.
LEMMA TypeFacts ==
    ASSUME LayoutTypeOK
    PROVE  /\ in.gridT \in Nat \ {0} /\ in.audioLen \in Nat /\ in.perGrid \in Nat
           /\ Len(boundaries) \in Nat /\ Len(spans) \in Nat
           /\ \A i \in 1 .. Len(boundaries) : boundaries[i] \in Nat
<1>1. /\ in.gridT \in Nat \ {0} /\ in.audioLen \in Nat /\ in.perGrid \in Nat
  BY LayoutAssumption DEF LayoutTypeOK, VideoInputs
<1>2. Len(boundaries) \in Nat /\ Len(spans) \in Nat
  BY DEF LayoutTypeOK
<1>3. \A i \in 1 .. Len(boundaries) : boundaries[i] \in Nat
  BY DEF LayoutTypeOK
<1> QED BY <1>1, <1>2, <1>3

\* What min(track, max(cut, last)) is bounded by.
LEMMA ClampFacts ==
    ASSUME NEW x \in Nat, NEW y \in Nat, NEW z \in Nat
    PROVE  /\ MinOf(x, MaxOf(y, z)) <= y \/ MinOf(x, MaxOf(y, z)) <= z
           /\ MinOf(x, MaxOf(y, z)) < x => y <= MinOf(x, MaxOf(y, z))
BY DEF MinOf, MaxOf

\* A cut is a natural number: int() of a product of non-negative factors.
LEMMA CutNat ==
    ASSUME LayoutTypeOK, NEW g \in Nat
    PROVE  Cut(g) \in Nat
<1>1. /\ in.secs.num \in Nat /\ in.secs.den \in Nat \ {0} /\ PosPerSec \in Nat
  BY LayoutAssumption DEF LayoutTypeOK, VideoInputs
<1> DEFINE n == g * in.secs.num
           m == n * PosPerSec
<1>2. n \in Nat
  BY <1>1, SMT
<1>3. m \in Nat
  <2> HIDE DEF n
  <2> QED BY <1>1, <1>2, SMT
<1>4. m \div in.secs.den \in Nat
  <2> HIDE DEF m
  <2> QED BY <1>1, <1>3, SMT
<1> QED BY <1>4 DEF Cut

\* Integer division: the product facts the SMT solver needs one at a time.
LEMMA MulNat == \A a, b \in Nat : a * b \in Nat
BY SMT

\* Multiplication by a natural number keeps the order.
LEMMA MulMono ==
    ASSUME NEW a \in Nat, NEW b \in Nat, NEW d \in Nat, a <= b
    PROVE  a * d <= b * d
BY SMT

\* What int(x / y) is for a positive y.
LEMMA Euclid ==
    ASSUME NEW x \in Nat, NEW d \in Nat \ {0}
    PROVE  x \div d \in Nat /\ (x \div d) * d <= x /\ x < (x \div d) * d + d
BY SMT

\* Distributing over a successor.
LEMMA MulSucc ==
    ASSUME NEW q \in Nat, NEW d \in Nat
    PROVE  (q + 1) * d = q * d + d
BY SMT

\* A token at or after the floor of x / d ends after x / d ...
LEMMA AtOrAfterFloor ==
    ASSUME NEW x \in Nat, NEW d \in Nat \ {0}, NEW a \in Nat, x \div d <= a
    PROVE  x < (a + 1) * d
<1> DEFINE q == x \div d
           u == q * d
           v == a * d
<1>1. q \in Nat /\ x < u + d /\ q <= a
  BY Euclid
<1> HIDE DEF q
<1>2. u \in Nat /\ v \in Nat /\ u <= v
  BY <1>1, MulNat, MulMono
<1>3. (a + 1) * d = v + d
  BY MulSucc
<1> HIDE DEF u, v
<1> QED BY <1>1, <1>2, <1>3

\* ... and one before it ends by x / d.
LEMMA BeforeFloor ==
    ASSUME NEW x \in Nat, NEW d \in Nat \ {0}, NEW a \in Nat, a < x \div d
    PROVE  (a + 1) * d <= x
<1> DEFINE q == x \div d
           u == q * d
           v == (a + 1) * d
<1>1. q \in Nat /\ u <= x /\ a + 1 <= q
  BY Euclid
<1> HIDE DEF q
<1>2. u \in Nat /\ v \in Nat /\ v <= u
  BY <1>1, MulNat, MulMono
<1> HIDE DEF u, v
<1>3. v <= x
  BY <1>1, <1>2
<1> QED BY <1>3 DEF v

\* The loop's clamp keeps a new boundary between the last one and the end of
\* the track.
LEMMA ClampedBounds ==
    ASSUME LayoutTypeOK, Starts, InTrack, NEW b \in Nat
    PROVE  /\ Clamped(b) \in Nat
           /\ boundaries[Len(boundaries)] <= Clamped(b)
           /\ Clamped(b) <= in.audioLen
<1>1. boundaries[Len(boundaries)] \in Nat /\ boundaries[Len(boundaries)] <= in.audioLen
  BY TypeFacts DEF Starts, InTrack
<1> QED BY <1>1, TypeFacts DEF Clamped, MinOf, MaxOf

\* audio_boundaries = [0] satisfies the inductive invariant.
LEMMA LayoutStarts == LayoutInit => LayoutInv
<1> SUFFICES ASSUME LayoutInit PROVE LayoutInv
  OBVIOUS
<1>1. /\ boundaries = <<0>> /\ Len(boundaries) = 1 /\ boundaries[1] = 0
      /\ spans = <<>> /\ Len(spans) = 0 /\ in \in VideoInputs
  BY DEF LayoutInit
<1>2. LayoutTypeOK
  BY <1>1 DEF LayoutInit, LayoutTypeOK
<1>3. BoundariesInv
  BY <1>1, <1>2, TypeFacts
     DEF BoundariesInv, Starts, InTrack, Ascending, ClampedCuts, Covered
<1>4. Progress /\ Emitted
  BY <1>1, <1>2, TypeFacts DEF LayoutInit, Progress, Emitted
<1> QED BY <1>2, <1>3, <1>4 DEF LayoutInv

\* Appending a boundary c that is at least the last one and at most the track
\* keeps the list's invariant, provided c is the clamped cut of its grid.
LEMMA AppendBoundary ==
    ASSUME LayoutTypeOK, BoundariesInv, NEW c \in Nat,
           boundaries[Len(boundaries)] <= c, c <= in.audioLen,
           Len(boundaries) + 1 <= in.gridT =>
               c = MinOf(in.audioLen, MaxOf(Cut(Len(boundaries)), boundaries[Len(boundaries)])),
           boundaries' = Append(boundaries, c), in' = in
    PROVE  BoundariesInv' /\ boundaries' \in Seq(Nat)
<1> DEFINE n == Len(boundaries)
<1>1. /\ n \in Nat /\ n >= 1 /\ boundaries[1] = 0
      /\ \A i \in 1 .. n : boundaries[i] \in Nat
      /\ in.gridT \in Nat /\ in.audioLen \in Nat
      /\ boundaries[n] <= c
  BY TypeFacts DEF BoundariesInv, Starts
<1>2. /\ boundaries' \in Seq(Nat)
      /\ Len(boundaries') = n + 1
      /\ \A i \in 1 .. n : boundaries'[i] = boundaries[i]
      /\ boundaries'[n + 1] = c
  BY DEF LayoutTypeOK
<1>3. \A i : Cut(i)' = Cut(i)
  BY DEF Cut
<1>4. /\ \A i \in 1 .. n : boundaries[i] <= in.audioLen
      /\ \A i, j \in 1 .. n : i <= j => boundaries[i] <= boundaries[j]
      /\ \A i \in 2 .. n :
            i <= in.gridT =>
               boundaries[i] = MinOf(in.audioLen, MaxOf(Cut(i - 1), boundaries[i - 1]))
      /\ \A a \in Nat : a < boundaries[n] =>
            \E g \in 1 .. n : g < n /\ boundaries[g] <= a /\ a < boundaries[g + 1]
      /\ n + 1 <= in.gridT =>
            c = MinOf(in.audioLen, MaxOf(Cut(n), boundaries[n]))
  BY DEF BoundariesInv, InTrack, Ascending, ClampedCuts, Covered
<1> HIDE DEF n
<1>5. Starts' /\ InTrack'
  BY <1>1, <1>2, <1>4 DEF Starts, InTrack
<1>6. Ascending'
  <2> SUFFICES ASSUME NEW i \in 1 .. n + 1, NEW j \in 1 .. n + 1, i <= j
               PROVE  boundaries'[i] <= boundaries'[j]
    BY <1>2 DEF Ascending
  <2>1. CASE j = n + 1 /\ i # n + 1
    <3>1. boundaries[i] <= boundaries[n]
      BY <2>1, <1>1, <1>4
    <3> QED BY <3>1, <2>1, <1>1, <1>2
  <2>2. CASE i = n + 1
    BY <2>2, <1>1, <1>2
  <2>3. CASE j # n + 1
    BY <2>3, <1>1, <1>2, <1>4
  <2> QED BY <2>1, <2>2, <2>3
<1>7. ClampedCuts'
  <2> SUFFICES ASSUME NEW i \in 2 .. n + 1, i <= in.gridT
               PROVE  boundaries'[i] = MinOf(in.audioLen, MaxOf(Cut(i - 1), boundaries'[i - 1]))
    BY <1>2, <1>3 DEF ClampedCuts
  <2>1. CASE i = n + 1
    <3>1. i - 1 = n /\ boundaries'[n] = boundaries[n]
      BY <2>1, <1>1, <1>2
    <3> QED BY <2>1, <3>1, <1>2, <1>4
  <2>2. CASE i # n + 1
    <3>1. i \in 2 .. n /\ i - 1 \in 1 .. n
      BY <2>2, <1>1
    <3> QED BY <3>1, <1>2, <1>4
  <2> QED BY <2>1, <2>2
<1>8. Covered'
  <2> SUFFICES ASSUME NEW a \in Nat, a < c
               PROVE  \E g \in 1 .. n + 1 :
                         g < n + 1 /\ boundaries'[g] <= a /\ a < boundaries'[g + 1]
    BY <1>2 DEF Covered
  <2>1. CASE a < boundaries[n]
    <3>1. PICK g \in 1 .. n : g < n /\ boundaries[g] <= a /\ a < boundaries[g + 1]
      BY <2>1, <1>4
    <3>2. boundaries'[g] = boundaries[g] /\ boundaries'[g + 1] = boundaries[g + 1]
      BY <1>1, <1>2, <3>1
    <3>3. g \in 1 .. n + 1 /\ g < n + 1
      BY <3>1, <1>1
    <3> QED BY <3>1, <3>2, <3>3
  <2>2. CASE ~(a < boundaries[n])
    BY <2>2, <1>1, <1>2
  <2> QED BY <2>1, <2>2
<1> QED BY <1>2, <1>5, <1>6, <1>7, <1>8 DEF BoundariesInv

\* Every iteration of the two loops preserves it.
LEMMA LayoutSteps == LayoutInv /\ [LayoutNext]_layoutVars => LayoutInv'
<1> SUFFICES ASSUME LayoutInv, [LayoutNext]_layoutVars PROVE LayoutInv'
  OBVIOUS
<1> USE DEF LayoutInv
<1>0. /\ in.gridT \in Nat \ {0} /\ in.audioLen \in Nat
      /\ Len(boundaries) \in Nat /\ Len(spans) \in Nat
  BY TypeFacts
<1>1. CASE AddBoundary
  <2> DEFINE c == Clamped(Cut(Len(boundaries)))
  <2>1. Cut(Len(boundaries)) \in Nat
    BY <1>0, CutNat
  <2>2. c \in Nat /\ boundaries[Len(boundaries)] <= c /\ c <= in.audioLen
    BY <2>1, ClampedBounds DEF BoundariesInv
  <2>3. BoundariesInv' /\ boundaries' \in Seq(Nat)
    BY <1>1, <2>2, AppendBoundary DEF AddBoundary, Clamped
  <2>4. Len(boundaries') = Len(boundaries) + 1
    BY <1>1, <2>2 DEF AddBoundary, LayoutTypeOK
  <2>5. Progress' /\ Emitted'
    BY <1>0, <1>1, <2>4 DEF AddBoundary, Progress, Emitted
  <2> QED BY <1>1, <2>3, <2>5 DEF AddBoundary, LayoutTypeOK
<1>2. CASE CloseBoundaries
  <2>1. boundaries[Len(boundaries)] <= in.audioLen
    BY <1>0 DEF BoundariesInv, Starts, InTrack
  <2>2. BoundariesInv' /\ boundaries' \in Seq(Nat)
    BY <1>0, <1>2, <2>1, AppendBoundary DEF CloseBoundaries
  <2>3. Len(boundaries') = Len(boundaries) + 1 /\ boundaries'[Len(boundaries) + 1] = in.audioLen
    BY <1>0, <1>2 DEF CloseBoundaries, LayoutTypeOK
  <2>4. Progress' /\ Emitted'
    BY <1>0, <1>2, <2>3 DEF CloseBoundaries, Progress, Emitted
  <2> QED BY <1>2, <2>2, <2>4 DEF CloseBoundaries, LayoutTypeOK
<1>3. CASE EmitSpan
  <2> DEFINE n == Len(spans)
  <2>1. n + 1 \in 1 .. in.gridT /\ Len(boundaries) = in.gridT + 1
    BY <1>0, <1>3 DEF EmitSpan, Progress
  <2>2. SpanOf(n + 1) \in Span
    BY <1>0, <2>1, TypeFacts DEF SpanOf, Span
  <2>3. LayoutTypeOK'
    BY <1>3, <2>2 DEF EmitSpan, LayoutTypeOK
  <2>4. BoundariesInv'
    BY <1>3 DEF EmitSpan, BoundariesInv, Starts, InTrack, Ascending, ClampedCuts, Covered, Cut
  <2>5. /\ Len(spans') = n + 1
        /\ \A k \in 1 .. n : spans'[k] = spans[k]
        /\ spans'[n + 1] = SpanOf(n + 1)
    BY <1>3, <2>2 DEF EmitSpan, LayoutTypeOK
  <2>6. \A k : SpanOf(k)' = SpanOf(k)
    BY <1>3 DEF EmitSpan, SpanOf
  <2>7. Progress'
    BY <1>0, <1>3, <2>1, <2>5 DEF EmitSpan, Progress
  <2>8. Emitted'
    <3> HIDE DEF n
    <3>1. n \in Nat /\ \A k \in 1 .. n : spans[k] = SpanOf(k)
      BY <1>0 DEF Emitted, n
    <3> QED BY <2>5, <2>6, <3>1 DEF Emitted
  <2> QED BY <2>3, <2>4, <2>7, <2>8
<1>4. CASE FinishLayout \/ LayoutDone \/ UNCHANGED layoutVars
  <2>1. UNCHANGED <<in, boundaries, spans>>
    BY <1>4 DEF FinishLayout, LayoutDone, layoutVars
  <2>2. LayoutTypeOK'
    BY <1>4, <2>1 DEF FinishLayout, LayoutDone, layoutVars, LayoutTypeOK
  <2>3. BoundariesInv'
    BY <2>1 DEF BoundariesInv, Starts, InTrack, Ascending, ClampedCuts, Covered, Cut
  <2>4. Progress' /\ Emitted'
    BY <1>4, <2>1 DEF FinishLayout, LayoutDone, layoutVars, Progress, Emitted, SpanOf
  <2> QED BY <2>2, <2>3, <2>4
<1> QED BY <1>1, <1>2, <1>3, <1>4 DEF LayoutNext

\* The state of the layout loops is well formed for every video.
THEOREM LayoutTypes == LayoutSpec => []LayoutTypeOK
<1>1. LayoutInv => LayoutTypeOK
  BY DEF LayoutInv
<1> QED BY <1>1, LayoutStarts, LayoutSteps, PTL DEF LayoutSpec

\* Every audio token of the track ends up in exactly one span.
THEOREM LayoutPartition == LayoutSpec => []AudioPartition
<1>1. ASSUME LayoutInv, phase = "done", NEW a \in 0 .. in.audioLen - 1
      PROVE  \E g \in 1 .. Len(spans) :
                /\ spans[g].lo <= a /\ a < spans[g].hi
                /\ \A k \in 1 .. Len(spans) :
                       spans[k].lo <= a /\ a < spans[k].hi => k = g
  <2> DEFINE n == in.gridT
  <2>0. /\ n \in Nat \ {0} /\ in.audioLen \in Nat
        /\ Len(spans) = n /\ Len(boundaries) = n + 1
        /\ boundaries[n + 1] = in.audioLen
        /\ \A i \in 1 .. n + 1 : boundaries[i] \in Nat
    BY <1>1, TypeFacts DEF LayoutInv, Progress
  <2>1. ASSUME NEW k \in 1 .. n
        PROVE  spans[k].lo = boundaries[k] /\ spans[k].hi = boundaries[k + 1]
    <3>1. spans[k] = SpanOf(k)
      BY <1>1, <2>0 DEF LayoutInv, Emitted
    <3> QED BY <3>1 DEF SpanOf
  <2>2. \A i, j \in 1 .. n + 1 : i <= j => boundaries[i] <= boundaries[j]
    BY <1>1, <2>0 DEF LayoutInv, BoundariesInv, Ascending
  <2>3. PICK g \in 1 .. n : boundaries[g] <= a /\ a < boundaries[g + 1]
    <3>1. a \in Nat /\ a < boundaries[n + 1]
      BY <1>1, <2>0
    <3>2. PICK g \in 1 .. n + 1 : g < n + 1 /\ boundaries[g] <= a /\ a < boundaries[g + 1]
      BY <1>1, <2>0, <3>1 DEF LayoutInv, BoundariesInv, Covered
    <3> QED BY <2>0, <3>2
  <2> HIDE DEF n
  <2>4. ASSUME NEW k \in 1 .. n, boundaries[k] <= a, a < boundaries[k + 1]
        PROVE  k = g
    <3>1. k + 1 <= g => boundaries[k + 1] <= boundaries[g]
      BY <2>0, <2>2
    <3>2. g + 1 <= k => boundaries[g + 1] <= boundaries[k]
      BY <2>0, <2>2
    <3>3. /\ boundaries[k] \in Nat /\ boundaries[k + 1] \in Nat
          /\ boundaries[g] \in Nat /\ boundaries[g + 1] \in Nat
      BY <2>0
    <3> QED BY <3>1, <3>2, <3>3, <2>0, <2>3, <2>4
  <2> QED BY <2>0, <2>1, <2>3, <2>4
<1>2. LayoutInv => AudioPartition
  BY <1>1 DEF AudioPartition
<1> QED BY <1>2, LayoutStarts, LayoutSteps, PTL DEF LayoutSpec

\* No audio token leaves the time window of its grid.
THEOREM LayoutInItsGrid == LayoutSpec => []AudioInItsGrid
<1>1. ASSUME LayoutInv, NEW g \in 1 .. Len(spans), NEW a \in spans[g].lo .. spans[g].hi - 1
      PROVE  Cut(g - 1) <= a /\ (g < in.gridT => a < Cut(g))
  <2>0. /\ in.gridT \in Nat \ {0} /\ in.audioLen \in Nat
        /\ g \in 1 .. in.gridT /\ Len(boundaries) = in.gridT + 1
    BY <1>1, TypeFacts DEF LayoutInv, Progress
  <2>1. spans[g].lo = boundaries[g] /\ spans[g].hi = boundaries[g + 1]
    <3>1. spans[g] = SpanOf(g)
      BY <1>1 DEF LayoutInv, Emitted
    <3> QED BY <3>1 DEF SpanOf
  <2>2. /\ boundaries[g] \in Nat /\ boundaries[g + 1] \in Nat
        /\ boundaries[g + 1] <= in.audioLen
        /\ g > 1 => boundaries[g - 1] \in Nat
    <3>1. /\ \A i \in 1 .. Len(boundaries) : boundaries[i] \in Nat
          /\ \A i \in 1 .. Len(boundaries) : boundaries[i] <= in.audioLen
      BY <1>1, TypeFacts DEF LayoutInv, BoundariesInv, InTrack
    <3>2. /\ g \in 1 .. Len(boundaries) /\ g + 1 \in 1 .. Len(boundaries)
          /\ g > 1 => g - 1 \in 1 .. Len(boundaries)
      BY <2>0
    <3> QED BY <3>1, <3>2
  <2>3. Cut(g) \in Nat /\ Cut(g - 1) \in Nat
    <3>1. LayoutTypeOK /\ g \in Nat /\ g - 1 \in Nat
      BY <1>1, <2>0 DEF LayoutInv
    <3> QED BY <3>1, CutNat
  <2>4. a \in Nat /\ boundaries[g] <= a /\ a < boundaries[g + 1]
    BY <1>1, <2>1, <2>2
  <2>5. Cut(g - 1) <= a
    <3>1. CASE g = 1
      <4>1. /\ in.secs.num \in Nat /\ in.secs.den \in Nat \ {0} /\ PosPerSec \in Nat
        BY <1>1, LayoutAssumption DEF LayoutInv, LayoutTypeOK, VideoInputs
      <4>2. 0 * in.secs.num * PosPerSec = 0
        BY <4>1, SMT
      <4>3. 0 \div in.secs.den = 0
        BY <4>1, SMT
      <4> QED BY <4>2, <4>3, <3>1, <2>4 DEF Cut
    <3>2. CASE g > 1
      <4>1. boundaries[g] = MinOf(in.audioLen, MaxOf(Cut(g - 1), boundaries[g - 1]))
        BY <1>1, <2>0, <3>2 DEF LayoutInv, BoundariesInv, ClampedCuts
      <4>2. boundaries[g] < in.audioLen
        BY <2>0, <2>2, <2>4
      <4>3. Cut(g - 1) <= boundaries[g]
        <5>1. in.audioLen \in Nat /\ Cut(g - 1) \in Nat /\ boundaries[g - 1] \in Nat
          BY <2>0, <2>2, <2>3, <3>2
        <5> QED BY <4>1, <4>2, <5>1, ClampFacts
      <4> QED BY <4>3, <2>2, <2>3, <2>4
    <3> QED BY <3>1, <3>2, <2>0
  <2>6. ASSUME g < in.gridT PROVE a < Cut(g)
    <3>1. (g + 1) - 1 = g /\ g + 1 \in 2 .. Len(boundaries) /\ g + 1 <= in.gridT
      BY <2>0, <2>6
    <3>2. boundaries[g + 1] = MinOf(in.audioLen, MaxOf(Cut(g), boundaries[g]))
      BY <1>1, <3>1 DEF LayoutInv, BoundariesInv, ClampedCuts
    <3>3. boundaries[g + 1] <= Cut(g) \/ boundaries[g + 1] <= boundaries[g]
      <4>1. in.audioLen \in Nat /\ Cut(g) \in Nat /\ boundaries[g] \in Nat
        BY <2>0, <2>2, <2>3
      <4> QED BY <3>2, <4>1, ClampFacts
    <3> QED BY <3>3, <2>2, <2>3, <2>4
  <2> QED BY <2>5, <2>6
<1>2. ASSUME LayoutInv, NEW g \in 1 .. Len(spans), NEW a \in spans[g].lo .. spans[g].hi - 1
      PROVE  /\ (g - 1) * in.secs.num * PosPerSec < (a + 1) * in.secs.den
             /\ g < in.gridT => (a + 1) * in.secs.den <= g * in.secs.num * PosPerSec
  <2> DEFINE x == (g - 1) * in.secs.num * PosPerSec
             y == g * in.secs.num * PosPerSec
  <2>1. in.secs.num \in Nat /\ in.secs.den \in Nat \ {0} /\ PosPerSec \in Nat
    BY <1>2, LayoutAssumption DEF LayoutInv, LayoutTypeOK, VideoInputs
  <2>2. g \in Nat /\ g - 1 \in Nat /\ a \in Nat
    <3>1. spans[g] \in Span
      BY <1>2 DEF LayoutInv, LayoutTypeOK
    <3> QED BY <1>2, <3>1 DEF Span
  <2>3. (g - 1) * in.secs.num \in Nat /\ g * in.secs.num \in Nat
    BY <2>1, <2>2, MulNat
  <2>4. x \in Nat /\ y \in Nat
    BY <2>1, <2>3, MulNat
  <2>5. x \div in.secs.den <= a /\ (g < in.gridT => a < y \div in.secs.den)
    BY <1>1, <1>2 DEF Cut
  <2> HIDE DEF x, y
  <2>6. x < (a + 1) * in.secs.den
    BY <2>1, <2>2, <2>4, <2>5, AtOrAfterFloor
  <2>7. g < in.gridT => (a + 1) * in.secs.den <= y
    BY <2>1, <2>2, <2>4, <2>5, BeforeFloor
  <2> QED BY <2>6, <2>7 DEF x, y
<1>3. LayoutInv => AudioInItsGrid
  BY <1>2 DEF AudioInItsGrid
<1> QED BY <1>3, LayoutStarts, LayoutSteps, PTL DEF LayoutSpec

-----------------------------------------------------------------------------
(* The borrowing of loaders.                                               *)


InAudio == {"audioPatch", "loadAudio", "audioExit"}
InVideo == {"videoPatch", "decode", "videoExit"}

\* How many times a thread has taken the lock, from where it is.
Level(t) ==
    IF pc[t] \in InAudio THEN 1
    ELSE IF pc[t] = "videoEnter" THEN (IF call[t].kind = "call" THEN 0 ELSE 1)
    ELSE IF pc[t] \in InVideo THEN (IF call[t].kind = "call" THEN 1 ELSE 2)
    ELSE 0

\* The call fits where the thread is.
CallFits ==
    \A t \in Threads :
        /\ pc[t] \in {"audioEnter", "audioPatch", "loadAudio", "audioExit"} => call[t].kind # "call"
        /\ pc[t] \in {"audioPatch", "loadAudio"} => call[t].kind = "vocal"
        /\ pc[t] = "videoPatch" => call[t].backend # "orig"

\* The lock has one holder, and counts what its holder took.
LockInv ==
    /\ \A t, u \in owner : t = u
    /\ \A t \in Threads : t \in owner <=> Level(t) > 0
    /\ \A t \in owner : depth = Level(t)
    /\ owner = {} => depth = 0

\* Where a thread has replaced load_video, and load_audio.
VideoPatched(t) == pc[t] \in {"decode", "videoExit"} /\ call[t].backend # "orig"
AudioPatched(t) ==
    call[t].kind = "vocal" /\ pc[t] \in {"loadAudio", "audioExit", "videoEnter", "videoPatch",
                                "decode", "videoExit"}

\* The loaders are the holder's, and the holder has the originals.
HolderSees(t) ==
    /\ VideoPatched(t) => /\ loadVideo = [mod \in Modules |-> call[t].backend]
                          /\ savedVideo[t] = Untouched
    /\ ~VideoPatched(t) => loadVideo = Untouched
    /\ AudioPatched(t) => loadAudio = "videoTrack" /\ savedAudio[t] = "orig"
    /\ ~AudioPatched(t) => loadAudio = "orig"

LoadersInv ==
    /\ owner = {} => loadVideo = Untouched /\ loadAudio = "orig"
    /\ \A t \in owner : HolderSees(t)

Shape ==
    /\ owner \subseteq Threads /\ depth \in Int
    /\ loadVideo \in [Modules -> Backends \cup {"orig"}]
    /\ loadAudio \in {"orig", "videoTrack"}
    /\ pc \in [Threads -> Steps]
    /\ call \in [Threads -> Calls]
    /\ savedVideo \in [Threads -> [Modules -> Backends \cup {"orig"}]]
    /\ savedAudio \in [Threads -> {"orig", "videoTrack"}]

PatchInv == Shape /\ CallFits /\ LockInv /\ LoadersInv

-----------------------------------------------------------------------------
\* Before the first call nothing is patched and the lock is free.
LEMMA PatchStarts == PatchInit => PatchInv
<1> SUFFICES ASSUME PatchInit PROVE PatchInv
  OBVIOUS
<1>1. Untouched \in [Modules -> Backends \cup {"orig"}]
  BY DEF Untouched
<1>2. Shape
  BY <1>1 DEF PatchInit, Shape, Steps, Calls, NoCall
<1>3. CallFits
  BY DEF PatchInit, CallFits, NoCall
<1>4. LockInv
  BY DEF PatchInit, LockInv, Level, InAudio, InVideo
<1>5. LoadersInv
  BY DEF PatchInit, LoadersInv
<1> QED  BY <1>2, <1>3, <1>4, <1>5 DEF PatchInv

\* Every step of a call keeps the types.
LEMMA ShapeStep ==
    ASSUME Shape, NEW t \in Threads, Start(t) \/ Proceed(t)
    PROVE  Shape'
<1>0. /\ depth - 1 \in Int /\ depth + 1 \in Int
      /\ \A step : step \in Steps /\ goto(t, step) => pc' \in [Threads -> Steps]
  BY DEF Shape, goto
<1>1. CASE Start(t)
  <2>1. PICK new \in Calls :
            /\ call' = [call EXCEPT ![t] = new]
            /\ goto(t, IF new.kind = "call" THEN "videoEnter" ELSE "audioEnter")
    BY <1>1 DEF Start
  <2>2. pc' \in [Threads -> Steps]
    BY <1>0, <2>1 DEF Steps
  <2> QED  BY <1>1, <2>1, <2>2 DEF Shape, Start, loaders
<1>2. CASE AudioEnter(t)
  <2>1. pc' \in [Threads -> Steps]
    BY <1>0, <1>2 DEF AudioEnter, Steps
  <2> QED  BY <1>0, <1>2, <2>1 DEF Shape, AudioEnter, Acquire, loaders
<1>3. CASE VideoEnter(t)
  <2>1. pc' \in [Threads -> Steps]
    BY <1>0, <1>3 DEF VideoEnter, Steps
  <2> QED  BY <1>0, <1>3, <2>1 DEF Shape, VideoEnter, Acquire, loaders
<1>4. CASE AudioPatch(t)
  <2>1. pc' \in [Threads -> Steps]
    BY <1>0, <1>4 DEF AudioPatch, Steps
  <2> QED  BY <1>4, <2>1 DEF Shape, AudioPatch
<1>5. CASE LoadAudio(t)
  <2>1. pc' \in [Threads -> Steps]
    BY <1>0, <1>5 DEF LoadAudio, Steps
  <2> QED  BY <1>5, <2>1 DEF Shape, LoadAudio, loaders
<1>6. CASE SkipVideo(t)
  <2>1. pc' \in [Threads -> Steps]
    BY <1>0, <1>6 DEF SkipVideo, Steps
  <2> QED  BY <1>6, <2>1 DEF Shape, SkipVideo, loaders
<1>7. CASE Decode(t)
  <2>1. pc' \in [Threads -> Steps]
    BY <1>0, <1>7 DEF Decode, Steps
  <2> QED  BY <1>7, <2>1 DEF Shape, Decode, loaders
<1>8. CASE AudioExit(t)
  <2>1. pc' \in [Threads -> Steps]
    BY <1>0, <1>8 DEF AudioExit, Steps
  <2>2. loadAudio' \in {"orig", "videoTrack"}
    BY <1>8 DEF AudioExit, Shape
  <2> QED  BY <1>0, <1>8, <2>1, <2>2 DEF Shape, AudioExit, Release
<1>9. CASE VideoPatch(t)
  <2>1. pc' \in [Threads -> Steps]
    BY <1>0, <1>9 DEF VideoPatch, Steps
  <2>2. call[t].backend \in Backends \cup {"orig"}
    BY DEF Shape, Calls
  <2>3. loadVideo' \in [Modules -> Backends \cup {"orig"}]
    BY <1>9, <2>2 DEF VideoPatch
  <2> QED  BY <1>9, <2>1, <2>3 DEF Shape, VideoPatch
<1>10. CASE VideoExit(t)
  <2>1. pc' \in [Threads -> Steps]
    BY <1>0, <1>10 DEF VideoExit, Steps
  <2>2. loadVideo' \in [Modules -> Backends \cup {"orig"}]
    BY <1>10 DEF VideoExit, Shape, Restored
  <2> QED  BY <1>0, <1>10, <2>1, <2>2 DEF Shape, VideoExit, Release
<1> QED  BY <1>1, <1>2, <1>3, <1>4, <1>5, <1>6, <1>7, <1>8, <1>9, <1>10 DEF Proceed

\* What a step of one thread leaves to the others.
LEMMA OthersStay ==
    ASSUME Shape, NEW t \in Threads, Start(t) \/ Proceed(t)
    PROVE  \A u \in Threads \ {t} :
               /\ pc'[u] = pc[u] /\ call'[u] = call[u]
               /\ savedVideo'[u] = savedVideo[u] /\ savedAudio'[u] = savedAudio[u]
               /\ Level(u)' = Level(u)
               /\ (VideoPatched(u)' <=> VideoPatched(u)) /\ (AudioPatched(u)' <=> AudioPatched(u))
<1> SUFFICES ASSUME NEW u \in Threads \ {t}
             PROVE  /\ pc'[u] = pc[u] /\ call'[u] = call[u]
                    /\ savedVideo'[u] = savedVideo[u] /\ savedAudio'[u] = savedAudio[u]
  BY DEF Level, VideoPatched, AudioPatched
<1>1. CASE Start(t)
  BY <1>1 DEF Shape, Start, goto, loaders
<1>2. CASE AudioEnter(t) \/ VideoEnter(t) \/ LoadAudio(t) \/ SkipVideo(t) \/ Decode(t)
  BY <1>2 DEF Shape, AudioEnter, VideoEnter, LoadAudio, SkipVideo, Decode, goto, loaders
<1>3. CASE AudioPatch(t) \/ VideoPatch(t)
  BY <1>3 DEF Shape, AudioPatch, VideoPatch, goto
<1>4. CASE AudioExit(t) \/ VideoExit(t)
  BY <1>4 DEF Shape, AudioExit, VideoExit, goto
<1> QED  BY <1>1, <1>2, <1>3, <1>4 DEF Proceed

\* Where a call may be after each step.
LEMMA CallStep ==
    ASSUME PatchInv, NEW t \in Threads, Start(t) \/ Proceed(t)
    PROVE  CallFits'
<1> USE DEF PatchInv, Shape, CallFits, goto, loaders
<1>1. CASE Start(t)
  BY <1>1 DEF Start, Calls
<1>2. CASE AudioEnter(t) \/ VideoEnter(t)
  BY <1>2 DEF AudioEnter, VideoEnter
<1>3. CASE AudioPatch(t) \/ LoadAudio(t) \/ AudioExit(t)
  BY <1>3 DEF AudioPatch, LoadAudio, AudioExit
<1>4. CASE SkipVideo(t) \/ VideoPatch(t) \/ Decode(t) \/ VideoExit(t)
  BY <1>4 DEF SkipVideo, VideoPatch, Decode, VideoExit
<1> QED  BY <1>1, <1>2, <1>3, <1>4 DEF Proceed

\* The reentrant lock stays with one thread and counts its levels.
LEMMA LockStep ==
    ASSUME PatchInv, NEW t \in Threads, Start(t) \/ Proceed(t)
    PROVE  LockInv'
<1> USE DEF PatchInv, Shape, CallFits, LockInv, goto, loaders
<1>0. /\ \A u \in Threads : Level(u) \in {0, 1, 2}
      /\ \A u \in Threads \ {t} : Level(u)' = Level(u)
  BY OthersStay DEF Level
<1> USE DEF InAudio, InVideo
<1>1. CASE Start(t)
  <2>1. PICK new \in Calls :
            /\ call' = [call EXCEPT ![t] = new]
            /\ goto(t, IF new.kind = "call" THEN "videoEnter" ELSE "audioEnter")
    BY <1>1 DEF Start
  <2>2. /\ pc[t] = "idle" /\ call'[t].kind = new.kind
        /\ pc'[t] = IF new.kind = "call" THEN "videoEnter" ELSE "audioEnter"
    BY <1>1, <2>1 DEF Start
  <2>3. Level(t)' = 0 /\ Level(t) = 0 /\ UNCHANGED <<owner, depth>>
    BY <1>1, <2>2 DEF Start, Level
  <2> QED  BY <2>3, <1>0
<1>4. CASE AudioPatch(t) \/ LoadAudio(t) \/ SkipVideo(t) \/ VideoPatch(t) \/ Decode(t)
  <2>1. Level(t)' = Level(t) /\ UNCHANGED <<owner, depth>>
    BY <1>4 DEF Level, AudioPatch, LoadAudio, SkipVideo, VideoPatch, Decode
  <2> QED  BY <2>1, <1>0
<1>2. CASE AudioEnter(t) \/ VideoEnter(t)
  <2>1. /\ Level(t)' = Level(t) + 1 /\ owner \subseteq {t} /\ owner' = {t}
        /\ depth' = depth + 1
    BY <1>2 DEF Level, AudioEnter, VideoEnter, Acquire
  <2>2. depth = Level(t)
    BY <2>1, <1>0
  <2> QED  BY <2>1, <2>2, <1>0
<1>3. CASE AudioExit(t) \/ VideoExit(t)
  <2>1. /\ Level(t)' = Level(t) - 1 /\ Level(t) > 0
        /\ depth' = depth - 1 /\ owner' = IF depth = 1 THEN {} ELSE owner
    BY <1>3 DEF Level, AudioExit, VideoExit, Release
  <2>2. t \in owner /\ depth = Level(t) /\ owner = {t}
    BY <2>1
  <2> QED  BY <2>1, <2>2, <1>0
<1> QED  BY <1>1, <1>2, <1>3, <1>4 DEF Proceed

\* Only the holder touches the loaders, and it gives back what it found.
LEMMA LoadersStep ==
    ASSUME PatchInv, NEW t \in Threads, Start(t) \/ Proceed(t)
    PROVE  LoadersInv'
<1>0. /\ pc \in [Threads -> Steps] /\ owner \subseteq Threads
      /\ savedVideo \in [Threads -> [Modules -> Backends \cup {"orig"}]]
      /\ savedAudio \in [Threads -> {"orig", "videoTrack"}]
  BY DEF PatchInv, Shape
<1>10. ASSUME UNCHANGED <<loadVideo, loadAudio>>, NEW u \in Threads \ {t}, HolderSees(u)
       PROVE  HolderSees(u)'
  <2>1. /\ call'[u] = call[u]
        /\ savedVideo'[u] = savedVideo[u] /\ savedAudio'[u] = savedAudio[u]
        /\ (VideoPatched(u)' <=> VideoPatched(u)) /\ (AudioPatched(u)' <=> AudioPatched(u))
    BY OthersStay DEF PatchInv
  <2> QED  BY <1>10, <2>1 DEF HolderSees
<1>1. CASE Start(t)
  <2>1. t \notin owner /\ UNCHANGED <<owner, loadVideo, loadAudio>>
    BY <1>1 DEF PatchInv, LockInv, Start, loaders, Level, InAudio, InVideo
  <2>2. \A u \in owner : HolderSees(u)'
    BY <2>1, <1>0, <1>10 DEF PatchInv, LoadersInv
  <2> QED  BY <2>1, <2>2 DEF PatchInv, LoadersInv
<1>2. CASE AudioEnter(t) \/ VideoEnter(t)
  <2>1. owner \subseteq {t} /\ owner' = {t} /\ UNCHANGED <<call, loaders>>
    BY <1>2 DEF AudioEnter, VideoEnter, Acquire
  <2>2. ~VideoPatched(t) /\ ~VideoPatched(t)'
    BY <1>0, <1>2 DEF AudioEnter, VideoEnter, VideoPatched, goto
  <2>3. loadVideo = Untouched
    BY <2>1, <2>2 DEF PatchInv, LoadersInv, HolderSees
  <2>4. AudioPatched(t)' <=> (t \in owner /\ AudioPatched(t))
    BY <1>0, <1>2 DEF PatchInv, LockInv, CallFits, AudioEnter, VideoEnter, Level, InAudio, InVideo,
                      AudioPatched, goto
  <2>5. HolderSees(t)'
    BY <2>1, <2>2, <2>3, <2>4 DEF PatchInv, LoadersInv, HolderSees, loaders
  <2> QED  BY <2>1, <2>5 DEF LoadersInv
<1>3. ASSUME pc[t] \notin {"idle", "audioEnter", "videoEnter"}
      PROVE  owner = {t} /\ HolderSees(t) /\ depth = Level(t)
  BY <1>0, <1>3 DEF PatchInv, LockInv, LoadersInv, Level, InAudio, InVideo, Steps
<1>4. CASE AudioPatch(t)
  <2>1. owner = {t} /\ HolderSees(t) /\ UNCHANGED owner
    BY <1>3, <1>4 DEF AudioPatch
  <2>2. ~AudioPatched(t) /\ ~VideoPatched(t) /\ ~VideoPatched(t)' /\ savedAudio'[t] = loadAudio
    BY <1>0, <1>4 DEF AudioPatch, AudioPatched, VideoPatched, goto
  <2>3. AudioPatched(t)'
    BY <1>0, <1>4 DEF AudioPatch, AudioPatched, goto, PatchInv, CallFits
  <2>4. HolderSees(t)'
    BY <1>4, <2>1, <2>2, <2>3 DEF HolderSees, AudioPatch
  <2> QED  BY <2>1, <2>4 DEF LoadersInv
<1>5. CASE LoadAudio(t) \/ Decode(t)
  <2>1. owner = {t} /\ HolderSees(t) /\ UNCHANGED <<owner, call, loaders>>
    BY <1>3, <1>5 DEF LoadAudio, Decode
  <2>2. (AudioPatched(t)' <=> AudioPatched(t)) /\ (VideoPatched(t)' <=> VideoPatched(t))
    BY <1>0, <1>5 DEF LoadAudio, Decode, AudioPatched, VideoPatched, goto
  <2>3. HolderSees(t)'
    BY <2>1, <2>2 DEF HolderSees, loaders
  <2> QED  BY <2>1, <2>3 DEF LoadersInv
<1>6. CASE AudioExit(t)
  <2>1. HolderSees(t) /\ depth = 1
    BY <1>3, <1>6 DEF AudioExit, Level, InAudio
  <2>2. ~VideoPatched(t) /\ (AudioPatched(t) <=> call[t].kind = "vocal")
    BY <1>6 DEF AudioExit, VideoPatched, AudioPatched
  <2>3. owner' = {} /\ loadVideo' = Untouched /\ loadAudio' = "orig"
    BY <1>6, <2>1, <2>2 DEF AudioExit, Release, HolderSees
  <2> QED  BY <2>3 DEF LoadersInv
<1>7. CASE VideoPatch(t)
  <2>1. owner = {t} /\ HolderSees(t) /\ UNCHANGED <<owner, call, loadAudio, savedAudio>>
    BY <1>3, <1>7 DEF VideoPatch
  <2>2. ~VideoPatched(t) /\ (AudioPatched(t)' <=> AudioPatched(t)) /\ savedVideo'[t] = loadVideo
    BY <1>0, <1>7 DEF VideoPatch, VideoPatched, AudioPatched, goto
  <2>3. VideoPatched(t)'
    BY <1>0, <1>7 DEF VideoPatch, VideoPatched, goto, PatchInv, CallFits
  <2>4. HolderSees(t)'
    BY <1>7, <2>1, <2>2, <2>3 DEF HolderSees, VideoPatch
  <2> QED  BY <2>1, <2>4 DEF LoadersInv
<1>8. CASE VideoExit(t)
  <2>1. owner = {t} /\ HolderSees(t) /\ depth = Level(t)
    BY <1>3, <1>8 DEF VideoExit
  <2>2. VideoPatched(t) <=> call[t].backend # "orig"
    BY <1>8 DEF VideoExit, VideoPatched
  <2>3. loadVideo' = Untouched
    BY <1>8, <2>1, <2>2 DEF VideoExit, HolderSees, Restored
  <2>4. CASE call[t].kind = "call"
    <3>1. depth = 1 /\ ~AudioPatched(t)
      BY <1>8, <2>1, <2>4 DEF VideoExit, Level, InAudio, InVideo, AudioPatched
    <3>2. owner' = {} /\ loadAudio' = "orig"
      BY <1>8, <2>1, <3>1 DEF VideoExit, Release, HolderSees
    <3> QED  BY <2>3, <3>2 DEF LoadersInv
  <2>5. CASE call[t].kind # "call"
    <3>1. depth = 2
      BY <1>8, <2>1, <2>5 DEF VideoExit, Level, InAudio, InVideo
    <3>2. owner' = {t} /\ UNCHANGED <<call, loadAudio, savedVideo, savedAudio>>
      BY <1>8, <2>1, <3>1 DEF VideoExit, Release
    <3>3. ~VideoPatched(t)' /\ (AudioPatched(t)' <=> AudioPatched(t))
      BY <1>0, <1>8, <2>5 DEF VideoExit, VideoPatched, AudioPatched, goto
    <3>4. HolderSees(t)'
      BY <2>1, <2>3, <3>2, <3>3 DEF HolderSees
    <3> QED  BY <3>2, <3>4 DEF LoadersInv
  <2> QED  BY <2>4, <2>5
<1>9. CASE SkipVideo(t)
  <2>1. UNCHANGED <<owner, call, loaders>>
    BY <1>9 DEF SkipVideo
  <2>2. /\ ~VideoPatched(t) /\ ~VideoPatched(t)'
        /\ call[t].kind # "call" => (AudioPatched(t)' <=> AudioPatched(t))
    BY <1>0, <1>9 DEF SkipVideo, VideoPatched, AudioPatched, goto
  <2>3. t \in owner => call[t].kind # "call"
    BY <1>9 DEF SkipVideo, PatchInv, LockInv, Level, InAudio, InVideo
  <2>4. t \in owner => HolderSees(t)'
    BY <2>1, <2>2, <2>3 DEF PatchInv, LoadersInv, HolderSees, loaders
  <2>5. \A u \in owner \ {t} : HolderSees(u)'
    BY <1>0, <1>10, <2>1 DEF PatchInv, LoadersInv, loaders
  <2> QED  BY <2>1, <2>4, <2>5 DEF PatchInv, LoadersInv, loaders
<1> QED  BY <1>1, <1>2, <1>4, <1>5, <1>6, <1>7, <1>8, <1>9 DEF Proceed

\* Every step of every thread keeps the inductive invariant.
LEMMA PatchSteps == PatchInv /\ [PatchNext]_patchVars => PatchInv'
<1> SUFFICES ASSUME PatchInv, [PatchNext]_patchVars PROVE PatchInv'
  OBVIOUS
<1>1. CASE PatchNext
  <2>1. PICK t \in Threads : Start(t) \/ Proceed(t)
    BY <1>1 DEF PatchNext
  <2> QED  BY <2>1, ShapeStep, CallStep, LockStep, LoadersStep DEF PatchInv
<1>2. CASE UNCHANGED patchVars
  <2>1. Shape' /\ CallFits'
    BY <1>2 DEF patchVars, PatchInv, Shape, CallFits
  <2>2. LockInv'
    BY <1>2 DEF patchVars, PatchInv, LockInv, Level
  <2>3. LoadersInv'
    BY <1>2 DEF patchVars, PatchInv, LoadersInv, HolderSees, VideoPatched, AudioPatched
  <2> QED  BY <2>1, <2>2, <2>3 DEF PatchInv
<1> QED  BY <1>1, <1>2

\* The state of the calls is well formed; the lock is never taken more than twice.
THEOREM PatchTypes == PatchSpec => []PatchTypeOK
<1>1. PatchInv => PatchTypeOK
  <2> SUFFICES ASSUME PatchInv PROVE PatchTypeOK
    OBVIOUS
  <2>1. depth \in 0 .. 2
    BY DEF PatchInv, Shape, LockInv, Level
  <2> QED  BY <2>1 DEF PatchInv, Shape, PatchTypeOK
<1> QED  BY <1>1, PatchStarts, PatchSteps, PTL DEF PatchSpec

\* Every call decodes with its own loaders, whatever the other threads do.
THEOREM PatchOwnLoaders == PatchSpec => []OwnLoaders
<1>1. PatchInv => OwnLoaders
  <2> SUFFICES ASSUME PatchInv, NEW t \in Threads, pc[t] \in {"decode", "loadAudio"}
               PROVE  /\ pc[t] = "decode" => loadVideo = [mod \in Modules |-> call[t].backend]
                      /\ pc[t] = "loadAudio" => loadAudio = "videoTrack"
                      /\ pc[t] = "decode" =>
                             loadAudio = IF call[t].kind = "vocal" THEN "videoTrack" ELSE "orig"
    BY DEF OwnLoaders
  <2>1. t \in owner
    BY DEF PatchInv, LockInv, Level, InAudio, InVideo
  <2> QED  BY <2>1 DEF PatchInv, LoadersInv, HolderSees, CallFits, VideoPatched, AudioPatched, Untouched
<1> QED  BY <1>1, PatchStarts, PatchSteps, PTL DEF PatchSpec

\* When nobody is inside, transformers has its own loaders back.
THEOREM PatchRestored == PatchSpec => []LoadersRestored
<1>1. PatchInv => LoadersRestored
  BY DEF PatchInv, LockInv, LoadersInv, LoadersRestored
<1> QED  BY <1>1, PatchStarts, PatchSteps, PTL DEF PatchSpec

-----------------------------------------------------------------------------
(* The expansion of prompts: numbers, counts and the search for a pattern. *)

LEMMA MinFacts ==
    ASSUME NEW S \in SUBSET Nat, S # {}
    PROVE  Min(S) \in S /\ \A y \in S : Min(S) <= y
<1>1. PICK x \in S : \A y \in S : ~(<<y, x>> \in OpToRel(<, Nat))
  BY NatLessThanWellFounded, WFMin, Zenon
<1>2. \A y \in S : ~(y < x)
  BY <1>1 DEF OpToRel
<1>3. \A y \in S : x <= y
  BY <1>2
<1> QED BY <1>3 DEF Min

LEMMA DisjointCount ==
    ASSUME NEW S, IsFiniteSet(S), NEW T, IsFiniteSet(T), S \cap T = {}
    PROVE  /\ IsFiniteSet(S \cup T)
           /\ Cardinality(S \cup T) = Cardinality(S) + Cardinality(T)
<1>1. Cardinality(S \cap T) = 0
  BY FS_EmptySet
<1>2. Cardinality(S) \in Nat /\ Cardinality(T) \in Nat
  BY FS_CardinalityType
<1>3. /\ IsFiniteSet(S \cup T)
      /\ Cardinality(S \cup T) = Cardinality(S) + Cardinality(T) - Cardinality(S \cap T)
  BY FS_Union
<1> QED BY <1>1, <1>2, <1>3

LEMMA KindFacts ==
    /\ Placeholder["audio"] = "audioPlaceholder"
    /\ Placeholder["image"] = "imagePlaceholder"
    /\ Placeholder["video"] = "videoPlaceholder"
    /\ \A kind \in Kinds : Placeholder[kind] \notin Tokens /\ kind \in Tokens
    /\ \A a, b \in Kinds : Placeholder[a] = Placeholder[b] => a = b
BY DEF Placeholder, Kinds, Tokens

\* v is u with L elements from place i on replaced by one.
Spliced(v, u, i, L) ==
    /\ i \in Nat \ {0} /\ L \in Nat \ {0} /\ i + L - 1 <= Len(u)
    /\ Len(v) = Len(u) - L + 1
    /\ \A k \in 1 .. i - 1 : v[k] = u[k]
    /\ \A k \in i + 1 .. Len(v) : v[k] = u[k + L - 1]

\* What is taken out and put in is the difference in the occurrences of a token.
LEMMA SplicedCounts ==
    ASSUME NEW S, NEW u \in Seq(S), NEW v \in Seq(S), NEW i, NEW L, Spliced(v, u, i, L), NEW t
    PROVE  /\ Occurrences(t, u) \in Nat /\ Occurrences(t, v) \in Nat
           /\ Cardinality({k \in i .. i + L - 1 : u[k] = t}) \in Nat
           /\ Occurrences(t, v) + Cardinality({k \in i .. i + L - 1 : u[k] = t})
                = Occurrences(t, u) + (IF v[i] = t THEN 1 ELSE 0)
<1> DEFINE n == Len(u)
           m == Len(v)
           A == {k \in 1 .. i - 1 : u[k] = t}
           B == {k \in i .. i + L - 1 : u[k] = t}
           C == {k \in i + L .. n : u[k] = t}
           D == {k \in {i} : v[k] = t}
           E == {k \in i + 1 .. m : v[k] = t}
<1>0. /\ n \in Nat /\ m \in Nat /\ i \in Nat /\ L \in Nat /\ i >= 1 /\ L >= 1
      /\ DOMAIN u = 1 .. n /\ DOMAIN v = 1 .. m
      /\ i + L - 1 <= n /\ m = n - L + 1
  BY DEF Spliced
<1>1. /\ \A k \in 1 .. i - 1 : v[k] = u[k]
      /\ \A k \in i + 1 .. m : v[k] = u[k + L - 1]
  BY DEF Spliced
<1> HIDE DEF n, m
<1>2. {k \in DOMAIN u : u[k] = t} = (A \cup B) \cup C
  BY <1>0
<1>3. {k \in DOMAIN v : v[k] = t} = (A \cup D) \cup E
  BY <1>0, <1>1
<1>4. IsFiniteSet(A) /\ IsFiniteSet(B) /\ IsFiniteSet(C) /\ IsFiniteSet(D) /\ IsFiniteSet(E)
  <2>1. 1 \in Int /\ i - 1 \in Int /\ i + L - 1 \in Int /\ i + L \in Int /\ i + 1 \in Int
        /\ i \in Int /\ n \in Int /\ m \in Int
    BY <1>0
  <2>2. IsFiniteSet(1 .. i - 1) /\ IsFiniteSet(i .. i + L - 1) /\ IsFiniteSet(i + L .. n)
        /\ IsFiniteSet(i + 1 .. m)
    BY <2>1, FS_Interval
  <2>3. A \subseteq 1 .. i - 1 /\ B \subseteq i .. i + L - 1 /\ C \subseteq i + L .. n
        /\ E \subseteq i + 1 .. m /\ D \subseteq {i}
    OBVIOUS
  <2>4. IsFiniteSet({i})
    BY FS_Singleton
  <2> QED BY <2>2, <2>3, <2>4, FS_Subset
<1>5. A \cap B = {} /\ (A \cup B) \cap C = {} /\ A \cap D = {} /\ (A \cup D) \cap E = {}
  BY <1>0
<1>6. /\ Cardinality(A) \in Nat /\ Cardinality(B) \in Nat /\ Cardinality(C) \in Nat
      /\ Cardinality(D) \in Nat /\ Cardinality(E) \in Nat
  BY <1>4, FS_CardinalityType
<1>7. Cardinality(C) = Cardinality(E)
  <2> DEFINE f == [k \in C |-> k - (L - 1)]
  <2>1. f \in Bijection(C, E)
    <3>1. \A k \in C : k - (L - 1) \in E
      <4> SUFFICES ASSUME NEW k \in C PROVE k - (L - 1) \in E
        OBVIOUS
      <4>1. k \in Nat /\ k >= i + L /\ k <= n /\ u[k] = t
        BY <1>0
      <4>2. k - (L - 1) \in i + 1 .. m /\ (k - (L - 1)) + L - 1 = k
        BY <1>0, <4>1
      <4>3. v[k - (L - 1)] = u[(k - (L - 1)) + L - 1]
        BY <1>1, <4>2
      <4> QED BY <4>1, <4>2, <4>3
    <3>2. \A k \in E : k + (L - 1) \in C /\ (k + (L - 1)) - (L - 1) = k
      <4> SUFFICES ASSUME NEW k \in E PROVE k + (L - 1) \in C /\ (k + (L - 1)) - (L - 1) = k
        OBVIOUS
      <4>1. k \in Nat /\ k >= i + 1 /\ k <= m /\ v[k] = t /\ v[k] = u[k + L - 1]
        BY <1>0, <1>1
      <4>2. k + (L - 1) = k + L - 1 /\ (k + (L - 1)) - (L - 1) = k /\ k + (L - 1) \in i + L .. n
        BY <1>0, <4>1
      <4> QED BY <4>1, <4>2
    <3>3. f \in [C -> E] /\ \A a, b \in C : f[a] = f[b] => a = b
      <4>1. \A a \in C : a \in Int
        BY <1>0
      <4>2. f \in [C -> E]
        BY <3>1
      <4> HIDE DEF C
      <4>3. \A a, b \in C : a - (L - 1) = b - (L - 1) => a = b
        BY <1>0, <4>1
      <4> QED BY <4>2, <4>3
    <3>4. \A k \in E : \E a \in C : f[a] = k
      BY <3>2
    <3> QED BY <3>3, <3>4, Fun_IsBij
  <2>2. ExistsBijection(C, E)
    BY <2>1 DEF ExistsBijection
  <2> QED BY <1>4, <2>2, FS_Bijection
<1>8. Cardinality((A \cup B) \cup C) = Cardinality(A) + Cardinality(B) + Cardinality(C)
  <2>1. Cardinality(A \cup B) = Cardinality(A) + Cardinality(B) /\ IsFiniteSet(A \cup B)
    BY <1>4, <1>5, DisjointCount
  <2>2. Cardinality((A \cup B) \cup C) = Cardinality(A \cup B) + Cardinality(C)
    BY <1>4, <1>5, <2>1, DisjointCount
  <2> QED BY <2>1, <2>2
<1>9. Cardinality((A \cup D) \cup E) = Cardinality(A) + Cardinality(D) + Cardinality(E)
  <2>1. Cardinality(A \cup D) = Cardinality(A) + Cardinality(D) /\ IsFiniteSet(A \cup D)
    BY <1>4, <1>5, DisjointCount
  <2>2. Cardinality((A \cup D) \cup E) = Cardinality(A \cup D) + Cardinality(E)
    BY <1>4, <1>5, <2>1, DisjointCount
  <2> QED BY <2>1, <2>2
<1>10. Cardinality(D) = IF v[i] = t THEN 1 ELSE 0
  <2>1. CASE v[i] = t
    <3>1. D = {i}
      BY <2>1
    <3> QED BY <2>1, <3>1, FS_Singleton
  <2>2. CASE v[i] # t
    <3>1. D = {}
      BY <2>2
    <3> QED BY <2>2, <3>1, FS_EmptySet
  <2> QED BY <2>1, <2>2
<1> HIDE DEF A, B, C, D, E
<1>11. Occurrences(t, u) = Cardinality(A) + Cardinality(B) + Cardinality(C)
  BY <1>2, <1>8 DEF Occurrences
<1>12. Occurrences(t, v) = Cardinality(A) + Cardinality(D) + Cardinality(E)
  BY <1>3, <1>9 DEF Occurrences
<1>13. B = {k \in i .. i + L - 1 : u[k] = t}
  BY DEF B
<1> QED BY <1>6, <1>7, <1>10, <1>11, <1>12, <1>13

\* The elements of a sample: tokens of its text, and placeholders.
AllToks == Tokens \cup {Placeholder[kind] : kind \in Kinds}
Element == [tok : AllToks, item : Nat, track : Nat]

LEMMA ToksFacts ==
    ASSUME NEW s \in Seq(Element)
    PROVE  /\ Toks(s) \in Seq(AllToks) /\ Len(Toks(s)) = Len(s)
           /\ DOMAIN Toks(s) = 1 .. Len(s) /\ DOMAIN s = 1 .. Len(s) /\ Len(s) \in Nat
           /\ \A k \in 1 .. Len(s) : Toks(s)[k] = s[k].tok /\ s[k] \in Element
<1>1. Len(s) \in Nat /\ DOMAIN s = 1 .. Len(s) /\ \A k \in 1 .. Len(s) : s[k] \in Element
  OBVIOUS
<1>2. Toks(s) = [k \in 1 .. Len(s) |-> s[k].tok]
  BY <1>1 DEF Toks
<1>3. \A k \in 1 .. Len(s) : s[k].tok \in AllToks
  BY <1>1 DEF Element
<1>4. Toks(s) \in Seq(AllToks) /\ Len(Toks(s)) = Len(s)
  BY <1>1, <1>2, <1>3
<1> QED BY <1>1, <1>2, <1>4

\* The first place of the pattern, if there is one, is replaced by the new element.
LEMMA ReplaceOnceFacts ==
    ASSUME sample \in Seq(Element), NEW new \in Element,
           NEW T, NEW pattern \in Seq(T), Len(pattern) >= 1,
           Matches(pattern, Toks(sample)) # {}
    PROVE  \E i \in 1 .. Len(sample) :
              /\ i \in Matches(pattern, Toks(sample))
              /\ \A k \in Matches(pattern, Toks(sample)) : i <= k
              /\ \A j \in 1 .. Len(pattern) : sample[i + j - 1].tok = pattern[j]
              /\ ReplaceOnce(pattern, new) \in Seq(Element)
              /\ Spliced(ReplaceOnce(pattern, new), sample, i, Len(pattern))
              /\ ReplaceOnce(pattern, new)[i] = new
<1> DEFINE found == Matches(pattern, Toks(sample))
           i == Min(found)
           L == Len(pattern)
           n == Len(sample)
           a == SubSeq(sample, 1, i - 1)
           b == SubSeq(sample, i + L, n)
           r == (a \o <<new>>) \o b
<1>0. n \in Nat /\ L \in Nat /\ L >= 1 /\ DOMAIN pattern = 1 .. L
  OBVIOUS
<1>1. /\ found \subseteq 1 .. n - L + 1 /\ Len(Toks(sample)) = n
      /\ \A k \in found : \A j \in 1 .. L : Toks(sample)[k + j - 1] = pattern[j]
  BY <1>0, ToksFacts DEF Matches
<1>2. found \in SUBSET Nat /\ found # {}
  BY <1>0, <1>1
<1>3. i \in found /\ \A k \in found : i <= k
  <2> HIDE DEF found
  <2> QED BY <1>2, MinFacts
<1>4. ReplaceOnce(pattern, new) = r
  BY DEF ReplaceOnce
<1> HIDE DEF i, found
<1>5. i \in 1 .. n - L + 1 /\ i \in Nat /\ i >= 1 /\ i + L - 1 <= n
  BY <1>0, <1>1, <1>3
<1>6. \A j \in 1 .. L : sample[i + j - 1].tok = pattern[j]
  <2> SUFFICES ASSUME NEW j \in 1 .. L PROVE sample[i + j - 1].tok = pattern[j]
    OBVIOUS
  <2>1. i + j - 1 \in 1 .. n
    BY <1>0, <1>5
  <2>2. Toks(sample)[i + j - 1] = sample[i + j - 1].tok
    BY <2>1, ToksFacts
  <2> QED BY <1>1, <1>3, <2>2
<1>7. /\ a \in Seq(Element) /\ Len(a) = i - 1 /\ \A k \in 1 .. i - 1 : a[k] = sample[k]
  <2>1. i - 1 \in 0 .. n
    BY <1>0, <1>5
  <2> QED BY <1>0, <1>5, <2>1
<1>8. /\ b \in Seq(Element) /\ Len(b) = n - (i + L) + 1
      /\ \A k \in 1 .. Len(b) : b[k] = sample[i + L + k - 1]
  BY <1>0, <1>5
<1>9. <<new>> \in Seq(Element) /\ Len(<<new>>) = 1 /\ <<new>>[1] = new
  OBVIOUS
<1> HIDE DEF a, b, n, L
<1>10. /\ a \o <<new>> \in Seq(Element) /\ Len(a \o <<new>>) = i
       /\ \A k \in 1 .. i - 1 : (a \o <<new>>)[k] = sample[k]
       /\ (a \o <<new>>)[i] = new
  BY <1>5, <1>7, <1>9
<1> DEFINE c == a \o <<new>>
<1>c. c \in Seq(Element) /\ Len(c) = i /\ b \in Seq(Element) /\ Len(b) = n - (i + L) + 1
  BY <1>8, <1>10
<1> HIDE DEF c
<1>d. r = c \o b
  BY DEF c
<1> HIDE DEF r
<1>11. r \in Seq(Element) /\ Len(r) = n - L + 1
  <2>1. r \in Seq(Element) /\ Len(r) = Len(c) + Len(b)
    BY <1>c, <1>d, ConcatProperties, Zenon
  <2> QED BY <1>0, <1>5, <1>c, <2>1
<1>12. \A k \in 1 .. i : r[k] = c[k]
  BY <1>5, <1>c, <1>d
<1>13. \A k \in i + 1 .. n - L + 1 : r[k] = sample[k + L - 1]
  <2> SUFFICES ASSUME NEW k \in i + 1 .. n - L + 1 PROVE r[k] = sample[k + L - 1]
    OBVIOUS
  <2>0. /\ k \in Len(c) + 1 .. Len(c) + Len(b) /\ k - Len(c) = k - i
        /\ k \in 1 .. Len(c) + Len(b) /\ ~(k <= Len(c))
    BY <1>0, <1>5, <1>c
  <2>1. r[k] = b[k - i]
    BY <1>c, <1>d, <2>0
  <2>2. k - i \in 1 .. Len(b) /\ i + L + (k - i) - 1 = k + L - 1
    BY <1>0, <1>5, <1>8
  <2> QED BY <1>8, <2>1, <2>2
<1>14. r[i] = new /\ \A k \in 1 .. i - 1 : r[k] = sample[k]
  BY <1>5, <1>10, <1>12 DEF c
<1>15. Spliced(r, sample, i, L)
  <2> HIDE DEF r
  <2> QED BY <1>0, <1>5, <1>11, <1>13, <1>14 DEF Spliced, n
<1>16. i \in 1 .. n
  BY <1>0, <1>5
<1> HIDE DEF r
<1>17. ReplaceOnce(pattern, new)[i] = new
  BY <1>4, <1>14
<1> QED
  BY <1>3, <1>4, <1>6, <1>11, <1>15, <1>16, <1>17 DEF n, L, found

\* The tokens are spliced with the elements.
LEMMA SplicedToks ==
    ASSUME NEW s \in Seq(Element), NEW r \in Seq(Element), NEW i, NEW L, Spliced(r, s, i, L)
    PROVE  Spliced(Toks(r), Toks(s), i, L) /\ Toks(r)[i] = r[i].tok
<1>1. /\ i \in Nat \ {0} /\ L \in Nat \ {0} /\ i + L - 1 <= Len(s) /\ Len(r) = Len(s) - L + 1
      /\ \A k \in 1 .. i - 1 : r[k] = s[k]
      /\ \A k \in i + 1 .. Len(r) : r[k] = s[k + L - 1]
  BY DEF Spliced
<1>2. /\ Len(Toks(r)) = Len(r) /\ Len(Toks(s)) = Len(s) /\ Len(s) \in Nat
      /\ \A k \in 1 .. Len(s) : Toks(s)[k] = s[k].tok
      /\ \A k \in 1 .. Len(r) : Toks(r)[k] = r[k].tok
  BY ToksFacts
<1>3. \A k \in 1 .. i - 1 : k \in 1 .. Len(s) /\ k \in 1 .. Len(r)
  BY <1>1, <1>2
<1>4. \A k \in i + 1 .. Len(r) : k \in 1 .. Len(r) /\ k + L - 1 \in 1 .. Len(s)
  BY <1>1, <1>2
<1>5. i \in 1 .. Len(r)
  BY <1>1, <1>2
<1>6. \A k \in 1 .. i - 1 : Toks(r)[k] = Toks(s)[k]
  BY <1>1, <1>2, <1>3
<1>7. \A k \in i + 1 .. Len(r) : Toks(r)[k] = Toks(s)[k + L - 1]
  BY <1>1, <1>2, <1>4
<1> QED BY <1>1, <1>2, <1>5, <1>6, <1>7 DEF Spliced

-----------------------------------------------------------------------------
(* The invariant of the counts.                                            *)

Cur == input.text[sampleNo]

ExpandShape ==
    /\ input \in CallInputs
    /\ stage \in {"next", "scan", "done"}
    /\ sampleNo \in 0 .. Len(input.text)
    /\ stage = "scan" => sampleNo >= 1
    /\ sample \in Seq(Element)
    /\ \A p \in positions : sampleNo >= 1 /\ p \in DOMAIN Cur /\ Cur[p] \in Kinds
    /\ stage = "next" => positions = {}
    /\ videoCount \in Nat
    /\ cursor \in [Kinds -> Nat]
    /\ processed \in Seq(Seq(Element))
    /\ outcome \in {"running", "returned", "raised"}
    /\ stage # "done" => outcome = "running"

\* What is left of the text shows nothing.
TokensBare ==
    \A k \in DOMAIN sample : sample[k].tok \in Tokens => sample[k].item = 0 /\ sample[k].track = 0

\* The media tokens still in the sample are the ones the scan has not come to, so
\* that every search succeeds; markers are taken out in pairs.
Remaining ==
    stage = "scan" =>
        /\ \A kind \in Kinds :
              Occurrences(kind, Toks(sample)) = Cardinality({p \in positions : Cur[p] = kind})
        /\ Occurrences("abos", Toks(sample)) = Occurrences("abos", Cur)
        /\ Occurrences("aeos", Toks(sample)) = Occurrences("aeos", Cur)
        /\ Occurrences("vbos", Toks(sample)) + Occurrences("veos", Cur)
             = Occurrences("veos", Toks(sample)) + Occurrences("vbos", Cur)
        /\ videoCount > 0 <=> \E p \in DOMAIN Cur \ positions : Cur[p] = "video"

LEMMA InputFacts ==
    ASSUME input \in CallInputs
    PROVE  /\ Len(input.text) \in Nat /\ DOMAIN input.text = 1 .. Len(input.text)
           /\ \A i \in 1 .. Len(input.text) :
                 /\ input.text[i] \in Seq(Tokens) /\ Len(input.text[i]) \in Nat
                 /\ DOMAIN input.text[i] = 1 .. Len(input.text[i])
                 /\ \A j \in DOMAIN input.text[i] : input.text[i][j] \in Tokens
           /\ input.count \in [Kinds -> Nat]
           /\ input.mode \in {"silent", "vocal"}
<1>1. PICK n \in 1 .. MaxBatch : input.text \in [1 .. n -> Samples]
  BY DEF CallInputs
<1>2. n \in Nat /\ Samples \subseteq Seq(Tokens)
  BY <1>1, PromptExpandAssumption
<1>3. Len(input.text) = n /\ DOMAIN input.text = 1 .. n
  BY <1>1, <1>2
<1>4. \A i \in 1 .. n : input.text[i] \in Seq(Tokens)
  BY <1>1, <1>2
<1>5. input.count \in [Kinds -> Nat]
  <2>1. input.count \in [Kinds -> UNION {0 .. MaxMedia[kind] : kind \in Kinds}]
    BY DEF CallInputs
  <2>2. \A kind \in Kinds : 0 .. MaxMedia[kind] \subseteq Nat
    BY PromptExpandAssumption
  <2>3. UNION {0 .. MaxMedia[kind] : kind \in Kinds} \subseteq Nat
    BY <2>2
  <2> QED BY <2>1, <2>3
<1>6. input.mode \in {"silent", "vocal"}
  BY DEF CallInputs
<1>7. \A s \in Seq(Tokens) : Len(s) \in Nat /\ DOMAIN s = 1 .. Len(s) /\ \A j \in DOMAIN s : s[j] \in Tokens
  OBVIOUS
<1> QED BY <1>2, <1>3, <1>4, <1>5, <1>6, <1>7

LEMMA OccurrencesFacts ==
    ASSUME NEW S, NEW u \in Seq(S), NEW t
    PROVE  /\ Occurrences(t, u) \in Nat /\ IsFiniteSet(DOMAIN u)
           /\ Occurrences(t, u) = 0 <=> \A k \in DOMAIN u : u[k] # t
<1> DEFINE Q == {i \in DOMAIN u : u[i] = t}
<1>1. DOMAIN u = 1 .. Len(u) /\ Len(u) \in Int /\ 1 \in Int
  OBVIOUS
<1>2. IsFiniteSet(DOMAIN u)
  BY <1>1, FS_Interval
<1>3. IsFiniteSet(Q)
  <2>1. Q \subseteq DOMAIN u
    OBVIOUS
  <2> QED BY <1>2, <2>1, FS_Subset
<1>4. Cardinality(Q) \in Nat /\ (Cardinality(Q) = 0 <=> Q = {})
  BY <1>3, FS_CardinalityType, FS_EmptySet
<1>5. Q = {} <=> \A k \in DOMAIN u : u[k] # t
  OBVIOUS
<1>6. Occurrences(t, u) = Cardinality(Q)
  BY DEF Occurrences
<1> HIDE DEF Q
<1> QED BY <1>2, <1>4, <1>5, <1>6

\* A token of the kind, bare or with its markers, has become a placeholder.
Swapped(kind, r, s, i, L) ==
    /\ Spliced(r, s, i, L)
    /\ r[i].tok = Placeholder[kind]
    /\ \/ L = 1 /\ s[i].tok = kind
       \/ /\ L = 3 /\ kind = "video"
          /\ s[i].tok = "vbos" /\ s[i + 1].tok = "video" /\ s[i + 2].tok = "veos"

LEMMA SwappedCounts ==
    ASSUME NEW kind \in Kinds, NEW s \in Seq(Element), NEW r \in Seq(Element),
           NEW i, NEW L, Swapped(kind, r, s, i, L)
    PROVE  /\ Occurrences(kind, Toks(r)) + 1 = Occurrences(kind, Toks(s))
           /\ \A t \in Tokens \ {kind, "vbos", "veos"} : Occurrences(t, Toks(r)) = Occurrences(t, Toks(s))
           /\ Occurrences("vbos", Toks(r)) + Occurrences("veos", Toks(s))
                = Occurrences("veos", Toks(r)) + Occurrences("vbos", Toks(s))
<1> DEFINE u == Toks(s)  v == Toks(r)
           K(t) == {k \in i .. i + L - 1 : u[k] = t}
<1>0. Spliced(v, u, i, L) /\ v[i] = Placeholder[kind]
  BY SplicedToks DEF Swapped
<1>1. u \in Seq(AllToks) /\ v \in Seq(AllToks) /\ Len(u) = Len(s) /\ Len(s) \in Nat
      /\ \A k \in 1 .. Len(s) : u[k] = s[k].tok
  BY ToksFacts
<1>2. i \in Nat /\ i >= 1 /\ L \in Nat /\ L >= 1 /\ i + L - 1 <= Len(u)
  BY <1>0 DEF Spliced
<1> HIDE DEF u, v
<1>3. \A t \in Tokens : v[i] # t
  BY <1>0, KindFacts
<1>4. \A t \in Tokens : /\ Occurrences(t, u) \in Nat /\ Occurrences(t, v) \in Nat
                        /\ Cardinality(K(t)) \in Nat
                        /\ Occurrences(t, v) + Cardinality(K(t)) = Occurrences(t, u)
  <2> SUFFICES ASSUME NEW t \in Tokens
               PROVE  /\ Occurrences(t, u) \in Nat /\ Occurrences(t, v) \in Nat
                      /\ Cardinality(K(t)) \in Nat
                      /\ Occurrences(t, v) + Cardinality(K(t)) = Occurrences(t, u)
    OBVIOUS
  <2>1. /\ Occurrences(t, u) \in Nat /\ Occurrences(t, v) \in Nat
        /\ Cardinality(K(t)) \in Nat
        /\ Occurrences(t, v) + Cardinality(K(t)) = Occurrences(t, u) + (IF v[i] = t THEN 1 ELSE 0)
    <3>1. u \in Seq(AllToks) /\ v \in Seq(AllToks) /\ Spliced(v, u, i, L)
      BY <1>0, <1>1
    <3>2. /\ Occurrences(t, u) \in Nat /\ Occurrences(t, v) \in Nat
          /\ Cardinality({k \in i .. i + L - 1 : u[k] = t}) \in Nat
          /\ Occurrences(t, v) + Cardinality({k \in i .. i + L - 1 : u[k] = t})
               = Occurrences(t, u) + (IF v[i] = t THEN 1 ELSE 0)
      <4> HIDE DEF K
      <4> QED BY <3>1, SplicedCounts, SMTT(20)
    <3> QED BY <3>2, Zenon
  <2>2. (IF v[i] = t THEN 1 ELSE 0) = 0
    BY <1>3
  <2> HIDE DEF K
  <2> QED BY <2>1, <2>2
<1>c. Cardinality({}) = 0 /\ \A x : Cardinality({x}) = 1
  BY FS_EmptySet, FS_Singleton
<1>t. kind \in Tokens /\ "vbos" \in Tokens /\ "veos" \in Tokens /\ "video" \in Tokens
      /\ kind # "vbos" /\ kind # "veos"
  BY DEF Tokens, Kinds
<1>5. CASE L = 1 /\ s[i].tok = kind
  <2>1. i .. i + L - 1 = {i} /\ u[i] = kind
    BY <1>1, <1>2, <1>5
  <2>2. K(kind) = {i} /\ \A t : t # kind => K(t) = {}
    BY <2>1
  <2> HIDE DEF K
  <2>3. Cardinality(K(kind)) = 1 /\ \A t : t # kind => Cardinality(K(t)) = 0
    BY <1>c, <2>2
  <2>4. Occurrences(kind, v) + 1 = Occurrences(kind, u)
    BY <1>4, <1>t, <2>3
  <2>5. \A t \in Tokens : t # kind => Occurrences(t, v) = Occurrences(t, u)
    BY <1>4, <2>3
  <2>6. Occurrences("vbos", v) = Occurrences("vbos", u) /\ Occurrences("veos", v) = Occurrences("veos", u)
        /\ Occurrences("vbos", v) \in Nat /\ Occurrences("veos", v) \in Nat
    BY <1>4, <1>t, <2>5
  <2>7. Occurrences("vbos", v) + Occurrences("veos", u) = Occurrences("veos", v) + Occurrences("vbos", u)
    BY <2>6
  <2> QED BY <2>4, <2>5, <2>7 DEF u, v
<1>6. CASE /\ L = 3 /\ kind = "video"
           /\ s[i].tok = "vbos" /\ s[i + 1].tok = "video" /\ s[i + 2].tok = "veos"
  <2>1. i .. i + L - 1 = {i, i + 1, i + 2} /\ u[i] = "vbos" /\ u[i + 1] = "video" /\ u[i + 2] = "veos"
    BY <1>1, <1>2, <1>6
  <2>2. /\ K("video") = {i + 1} /\ K("vbos") = {i} /\ K("veos") = {i + 2}
        /\ \A t : t \notin {"video", "vbos", "veos"} => K(t) = {}
    BY <1>2, <2>1
  <2> HIDE DEF K
  <2>3. /\ Cardinality(K("video")) = 1 /\ Cardinality(K("vbos")) = 1 /\ Cardinality(K("veos")) = 1
        /\ \A t : t \notin {"video", "vbos", "veos"} => Cardinality(K(t)) = 0
    BY <1>c, <2>2
  <2>4. Occurrences(kind, v) + 1 = Occurrences(kind, u)
    BY <1>4, <1>6, <1>t, <2>3
  <2>5. \A t \in Tokens \ {kind, "vbos", "veos"} : Occurrences(t, v) = Occurrences(t, u)
    BY <1>4, <1>6, <2>3
  <2>6. /\ Occurrences("vbos", v) + 1 = Occurrences("vbos", u)
        /\ Occurrences("veos", v) + 1 = Occurrences("veos", u)
        /\ Occurrences("vbos", v) \in Nat /\ Occurrences("veos", v) \in Nat
    BY <1>4, <1>t, <2>3
  <2>7. Occurrences("vbos", v) + Occurrences("veos", u) = Occurrences("veos", v) + Occurrences("vbos", u)
    BY <2>6
  <2> QED BY <2>4, <2>5, <2>7 DEF u, v
<1> QED BY <1>5, <1>6 DEF Swapped

\* The scan is at a token of this kind, at the first position left.
LEMMA AtTokenFacts ==
    ASSUME ExpandShape, NEW kind \in Kinds, AtToken(kind)
    PROVE  /\ stage = "scan" /\ sampleNo \in 1 .. Len(input.text)
           /\ Cur \in Seq(Tokens) /\ DOMAIN Cur = 1 .. Len(Cur) /\ Len(Cur) \in Nat
           /\ positions \subseteq DOMAIN Cur
           /\ Min(positions) \in positions /\ Min(positions) \in DOMAIN Cur
           /\ \A p \in positions : Min(positions) <= p
           /\ Cur[Min(positions)] = kind
<1>1. stage = "scan" /\ positions # {} /\ Cur[Min(positions)] = kind
  BY DEF AtToken, Cur
<1>2. sampleNo \in 1 .. Len(input.text) /\ Len(input.text) \in Nat
  BY <1>1, InputFacts DEF ExpandShape
<1>3. Cur \in Seq(Tokens) /\ DOMAIN Cur = 1 .. Len(Cur) /\ Len(Cur) \in Nat
  BY <1>2, InputFacts DEF ExpandShape, Cur
<1>4. positions \subseteq DOMAIN Cur
  BY DEF ExpandShape
<1>5. positions \in SUBSET Nat
  BY <1>3, <1>4
<1>6. Min(positions) \in positions /\ \A p \in positions : Min(positions) <= p
  BY <1>1, <1>5, MinFacts
<1> QED BY <1>1, <1>2, <1>3, <1>4, <1>6

LEMMA StillThere ==
    ASSUME ExpandShape, Remaining, NEW kind \in Kinds, AtToken(kind)
    PROVE  \E k \in 1 .. Len(sample) : sample[k].tok = kind
<1> DEFINE P == {p \in positions : Cur[p] = kind}
<1>1. stage = "scan" /\ Min(positions) \in P /\ P \subseteq DOMAIN Cur /\ Cur \in Seq(Tokens)
  BY AtTokenFacts
<1>2. IsFiniteSet(DOMAIN Cur)
  BY <1>1, OccurrencesFacts
<1>3. IsFiniteSet(P)
  BY <1>1, <1>2, FS_Subset
<1>4. Cardinality(P) # 0
  BY <1>1, <1>3, FS_EmptySet
<1>5. Occurrences(kind, Toks(sample)) = Cardinality(P)
  BY <1>1 DEF Remaining
<1> HIDE DEF P
<1>6. sample \in Seq(Element)
  BY DEF ExpandShape
<1>7. Toks(sample) \in Seq(AllToks) /\ DOMAIN Toks(sample) = 1 .. Len(sample)
      /\ \A k \in 1 .. Len(sample) : Toks(sample)[k] = sample[k].tok
  BY <1>6, ToksFacts
<1>8. ~ \A k \in DOMAIN Toks(sample) : Toks(sample)[k] # kind
  BY <1>4, <1>5, <1>7, OccurrencesFacts
<1> QED BY <1>7, <1>8

LEMMA MatchesOfOne ==
    ASSUME sample \in Seq(Element), NEW kind
    PROVE  Matches(<<kind>>, Toks(sample)) = {k \in 1 .. Len(sample) : sample[k].tok = kind}
<1> DEFINE u == Toks(sample)
<1>1. Len(u) = Len(sample) /\ Len(sample) \in Nat /\ \A k \in 1 .. Len(sample) : u[k] = sample[k].tok
  BY ToksFacts
<1> HIDE DEF u
<1>2. Len(<<kind>>) = 1 /\ DOMAIN <<kind>> = {1} /\ <<kind>>[1] = kind
  OBVIOUS
<1>3. Matches(<<kind>>, u) = {k \in 1 .. Len(u) - 1 + 1 : u[k + 1 - 1] = kind}
  BY <1>2 DEF Matches
<1>4. \A k \in 1 .. Len(u) - 1 + 1 : u[k + 1 - 1] = u[k]
  BY <1>1
<1>5. 1 .. Len(u) - 1 + 1 = 1 .. Len(u)
  BY <1>1
<1> QED BY <1>1, <1>3, <1>4, <1>5 DEF u

LEMMA MatchesWrapped ==
    ASSUME NEW S, NEW u \in Seq(S)
    PROVE  Matches(Wrapped, u)
             = {k \in 1 .. Len(u) - 2 : u[k] = "vbos" /\ u[k + 1] = "video" /\ u[k + 2] = "veos"}
<1>1. Len(Wrapped) = 3 /\ DOMAIN Wrapped = {1, 2, 3}
      /\ Wrapped[1] = "vbos" /\ Wrapped[2] = "video" /\ Wrapped[3] = "veos"
  BY DEF Wrapped
<1>2. Len(u) \in Nat
  OBVIOUS
<1>3. Matches(Wrapped, u) = {k \in 1 .. Len(u) - 3 + 1 :
            u[k + 1 - 1] = "vbos" /\ u[k + 2 - 1] = "video" /\ u[k + 3 - 1] = "veos"}
  BY <1>1 DEF Matches
<1>4. \A k \in 1 .. Len(u) - 3 + 1 : k + 1 - 1 = k /\ k + 2 - 1 = k + 1 /\ k + 3 - 1 = k + 2
  BY <1>2
<1>5. 1 .. Len(u) - 3 + 1 = 1 .. Len(u) - 2
  BY <1>2
<1> QED BY <1>3, <1>4, <1>5

\* The first token of the kind that is left becomes a placeholder.
LEMMA SingleSwap ==
    ASSUME ExpandShape, Remaining, NEW kind \in Kinds, AtToken(kind),
           NEW new \in Element, new.tok = Placeholder[kind]
    PROVE  \E i \in 1 .. Len(sample) :
              /\ ReplaceOnce(<<kind>>, new) \in Seq(Element)
              /\ Swapped(kind, ReplaceOnce(<<kind>>, new), sample, i, 1)
              /\ ReplaceOnce(<<kind>>, new)[i] = new
              /\ \A k \in 1 .. Len(sample) : sample[k].tok = kind => i <= k
<1> DEFINE M == Matches(<<kind>>, Toks(sample))
           r == ReplaceOnce(<<kind>>, new)
<1>1. sample \in Seq(Element)
  BY DEF ExpandShape
<1>2. M = {k \in 1 .. Len(sample) : sample[k].tok = kind}
  BY <1>1, MatchesOfOne
<1>3. M # {}
  BY <1>2, StillThere
<1> DEFINE pat == <<kind>>
<1>4. pat \in Seq(Kinds) /\ Len(pat) = 1 /\ Len(pat) >= 1
  OBVIOUS
<1> HIDE DEF pat, M
<1>a. M = Matches(pat, Toks(sample)) /\ r = ReplaceOnce(pat, new)
  BY DEF pat, M
<1> HIDE DEF r
<1>5. PICK i \in 1 .. Len(sample) :
              /\ i \in M
              /\ \A k \in M : i <= k
              /\ r \in Seq(Element)
              /\ Spliced(r, sample, i, 1)
              /\ r[i] = new
  <2>1. \E i \in 1 .. Len(sample) :
              /\ i \in M /\ \A k \in M : i <= k
              /\ r \in Seq(Element) /\ Spliced(r, sample, i, Len(pat)) /\ r[i] = new
    BY <1>1, <1>3, <1>4, <1>a, ReplaceOnceFacts, Zenon
  <2> QED BY <1>4, <2>1
<1>6. sample[i].tok = kind
  BY <1>2, <1>5
<1>7. Swapped(kind, r, sample, i, 1)
  BY <1>5, <1>6 DEF Swapped
<1>8. \A k \in 1 .. Len(sample) : sample[k].tok = kind => i <= k
  BY <1>2, <1>5
<1> QED BY <1>5, <1>7, <1>8 DEF r

ClipElement(kind) == [tok |-> Placeholder[kind], item |-> cursor[kind] + 1, track |-> 0]
VideoElement ==
    [tok |-> Placeholder["video"], item |-> cursor["video"] + 1,
     track |-> IF Vocal THEN cursor["audio"] + 1 ELSE 0]

LEMMA NewElements ==
    ASSUME ExpandShape
    PROVE  /\ VideoElement \in Element
           /\ \A kind \in Kinds : ClipElement(kind) \in Element
<1>1. \A kind \in Kinds : cursor[kind] \in Nat /\ Placeholder[kind] \in AllToks
  BY DEF ExpandShape, AllToks
<1>2. "video" \in Kinds /\ "audio" \in Kinds
  BY DEF Kinds
<1>3. cursor["video"] + 1 \in Nat /\ cursor["audio"] + 1 \in Nat /\ 0 \in Nat
  BY <1>1, <1>2
<1>4. (IF Vocal THEN cursor["audio"] + 1 ELSE 0) \in Nat
  BY <1>3
<1>5. VideoElement \in Element
  BY <1>1, <1>2, <1>3, <1>4 DEF VideoElement, Element
<1>6. ASSUME NEW kind \in Kinds PROVE ClipElement(kind) \in Element
  <2>1. cursor[kind] + 1 \in Nat
    BY <1>1
  <2> QED BY <1>1, <1>3, <2>1 DEF ClipElement, Element
<1> QED BY <1>5, <1>6

LEMMA ClipSwap ==
    ASSUME ExpandShape, Remaining, NEW kind \in Kinds, PlaceClip(kind)
    PROVE  \E i \in 1 .. Len(sample) :
              /\ sample' \in Seq(Element)
              /\ Swapped(kind, sample', sample, i, 1)
              /\ sample'[i] = ClipElement(kind)
              /\ \A k \in 1 .. Len(sample) : sample[k].tok = kind => i <= k
<1>1. sample' = ReplaceOnce(<<kind>>, ClipElement(kind)) /\ AtToken(kind)
  BY DEF PlaceClip, ClipElement
<1>2. ClipElement(kind) \in Element /\ ClipElement(kind).tok = Placeholder[kind]
  BY NewElements DEF ClipElement
<1> QED BY <1>1, <1>2, SingleSwap

\* The first wrapped video token, or else the first one.
LEMMA VideoSwap ==
    ASSUME ExpandShape, Remaining, PlaceVideo
    PROVE  LET W == Matches(Wrapped, Toks(sample)) IN
           \E i \in 1 .. Len(sample), L \in {1, 3} :
              /\ sample' \in Seq(Element)
              /\ Swapped("video", sample', sample, i, L)
              /\ sample'[i] = VideoElement
              /\ W # {} => L = 3 /\ i \in W /\ \A k \in W : i <= k
              /\ W = {} => L = 1 /\ \A k \in 1 .. Len(sample) : sample[k].tok = "video" => i <= k
<1> DEFINE W == Matches(Wrapped, Toks(sample))
<1>1. sample' = ReplaceOnce(VideoPattern, VideoElement) /\ AtToken("video")
  BY DEF PlaceVideo, VideoElement
<1>2. "video" \in Kinds /\ VideoElement \in Element /\ VideoElement.tok = Placeholder["video"]
  BY NewElements DEF VideoElement, Kinds
<1>3. CASE W = {}
  <2>1. sample' = ReplaceOnce(<<"video">>, VideoElement)
    BY <1>1, <1>3 DEF VideoPattern
  <2>2. PICK i \in 1 .. Len(sample) :
              /\ sample' \in Seq(Element)
              /\ Swapped("video", sample', sample, i, 1)
              /\ sample'[i] = VideoElement
              /\ \A k \in 1 .. Len(sample) : sample[k].tok = "video" => i <= k
    BY <1>1, <1>2, <2>1, SingleSwap
  <2> QED BY <1>3, <2>2
<1>4. CASE W # {}
  <2>1. sample' = ReplaceOnce(Wrapped, VideoElement)
    BY <1>1, <1>4 DEF VideoPattern
  <2>2. /\ Wrapped \in Seq({"vbos", "video", "veos"}) /\ Len(Wrapped) = 3 /\ Len(Wrapped) >= 1
        /\ Wrapped[1] = "vbos" /\ Wrapped[2] = "video" /\ Wrapped[3] = "veos"
    BY DEF Wrapped
  <2>3. sample \in Seq(Element)
    BY DEF ExpandShape
  <2>4. PICK i \in 1 .. Len(sample) :
              /\ i \in W
              /\ \A k \in W : i <= k
              /\ \A j \in 1 .. 3 : sample[i + j - 1].tok = Wrapped[j]
              /\ sample' \in Seq(Element)
              /\ Spliced(sample', sample, i, 3)
              /\ sample'[i] = VideoElement
    <3>1. \E i \in 1 .. Len(sample) :
              /\ i \in W
              /\ \A k \in W : i <= k
              /\ \A j \in 1 .. Len(Wrapped) : sample[i + j - 1].tok = Wrapped[j]
              /\ ReplaceOnce(Wrapped, VideoElement) \in Seq(Element)
              /\ Spliced(ReplaceOnce(Wrapped, VideoElement), sample, i, Len(Wrapped))
              /\ ReplaceOnce(Wrapped, VideoElement)[i] = VideoElement
      BY <1>2, <1>4, <2>2, <2>3, ReplaceOnceFacts, Zenon
    <3> QED BY <2>1, <2>2, <3>1
  <2>5. sample[i].tok = "vbos" /\ sample[i + 1].tok = "video" /\ sample[i + 2].tok = "veos"
    <3>1. i + 1 - 1 = i /\ i + 2 - 1 = i + 1 /\ i + 3 - 1 = i + 2
      BY <2>3
    <3>2. /\ sample[i + 1 - 1].tok = "vbos" /\ sample[i + 2 - 1].tok = "video"
          /\ sample[i + 3 - 1].tok = "veos"
      BY <2>2, <2>4
    <3> QED BY <3>1, <3>2
  <2>6. Swapped("video", sample', sample, i, 3)
    BY <1>2, <2>4, <2>5 DEF Swapped
  <2> QED BY <1>4, <2>4, <2>6
<1> QED BY <1>3, <1>4

\* One more medium is placed: a search and the next position, whichever the kind.
PlaceStep(kind, i, L) ==
    /\ AtToken(kind)
    /\ i \in 1 .. Len(sample) /\ sample' \in Seq(Element)
    /\ Swapped(kind, sample', sample, i, L)
    /\ positions' = positions \ {Min(positions)}
    /\ videoCount' = IF kind = "video" THEN videoCount + 1 ELSE videoCount
    /\ cursor \in [Kinds -> Nat] /\ cursor' \in [Kinds -> Nat]
    /\ cursor'[kind] = cursor[kind] + 1
    /\ \A other \in Kinds : other # kind =>
          cursor'[other] = IF other = "audio" /\ kind = "video" /\ Vocal
                           THEN cursor[other] + 1 ELSE cursor[other]
    /\ sample'[i].item = cursor[kind] + 1
    /\ sample'[i].track = IF kind = "video" /\ Vocal THEN cursor["audio"] + 1 ELSE 0
    /\ UNCHANGED <<input, stage, sampleNo, processed, outcome>>

LEMMA ClipPlaces ==
    ASSUME ExpandShape, Remaining, NEW kind \in {"audio", "image"}, PlaceClip(kind)
    PROVE  \E i : /\ PlaceStep(kind, i, 1)
                  /\ \A k \in 1 .. Len(sample) : sample[k].tok = kind => i <= k
<1>1. kind \in Kinds /\ kind # "video"
  BY DEF Kinds
<1>2. PICK i \in 1 .. Len(sample) :
              /\ sample' \in Seq(Element)
              /\ Swapped(kind, sample', sample, i, 1)
              /\ sample'[i] = ClipElement(kind)
              /\ \A k \in 1 .. Len(sample) : sample[k].tok = kind => i <= k
  BY <1>1, ClipSwap
<1>3. sample'[i].item = cursor[kind] + 1 /\ sample'[i].track = 0
  BY <1>2 DEF ClipElement
<1>4. /\ cursor \in [Kinds -> Nat]
      /\ cursor' = [cursor EXCEPT ![kind] = @ + 1]
  BY DEF ExpandShape, PlaceClip
<1>5. /\ cursor' \in [Kinds -> Nat] /\ cursor'[kind] = cursor[kind] + 1
      /\ \A other \in Kinds : other # kind => cursor'[other] = cursor[other]
  BY <1>1, <1>4
<1>6. /\ AtToken(kind) /\ positions' = positions \ {Min(positions)} /\ videoCount' = videoCount
      /\ UNCHANGED <<input, stage, sampleNo, processed, outcome>>
  BY DEF PlaceClip
<1> QED BY <1>1, <1>2, <1>3, <1>4, <1>5, <1>6 DEF PlaceStep

LEMMA VideoPlaces ==
    ASSUME ExpandShape, Remaining, PlaceVideo
    PROVE  LET W == Matches(Wrapped, Toks(sample)) IN
           \E i, L : /\ PlaceStep("video", i, L)
                     /\ W # {} => L = 3 /\ i \in W /\ \A k \in W : i <= k
                     /\ W = {} => L = 1 /\ \A k \in 1 .. Len(sample) : sample[k].tok = "video" => i <= k
<1> DEFINE W == Matches(Wrapped, Toks(sample))
           Least(i, L) == /\ W # {} => L = 3 /\ i \in W /\ \A k \in W : i <= k
                          /\ W = {} => L = 1 /\ \A k \in 1 .. Len(sample) : sample[k].tok = "video" => i <= k
<1>1. "video" \in Kinds /\ "audio" \in Kinds /\ "video" # "audio"
  BY DEF Kinds
<1>2. PICK i \in 1 .. Len(sample), L \in {1, 3} :
              /\ sample' \in Seq(Element)
              /\ Swapped("video", sample', sample, i, L)
              /\ sample'[i] = VideoElement
              /\ Least(i, L)
  BY VideoSwap
<1>3. sample'[i].item = cursor["video"] + 1 /\ sample'[i].track = IF Vocal THEN cursor["audio"] + 1 ELSE 0
  BY <1>2 DEF VideoElement
<1>4. /\ cursor \in [Kinds -> Nat]
      /\ cursor' = [cursor EXCEPT !["video"] = @ + 1, !["audio"] = IF Vocal THEN @ + 1 ELSE @]
  BY DEF ExpandShape, PlaceVideo
<1>5. /\ cursor' \in [Kinds -> Nat] /\ cursor'["video"] = cursor["video"] + 1
      /\ \A other \in Kinds : other # "video" =>
            cursor'[other] = IF other = "audio" /\ Vocal THEN cursor[other] + 1 ELSE cursor[other]
  BY <1>1, <1>4
<1>6. /\ AtToken("video") /\ positions' = positions \ {Min(positions)} /\ videoCount' = videoCount + 1
      /\ UNCHANGED <<input, stage, sampleNo, processed, outcome>>
  BY DEF PlaceVideo
<1>7. PlaceStep("video", i, L)
  <2> HIDE DEF W
  <2> QED BY <1>2, <1>3, <1>4, <1>5, <1>6 DEF PlaceStep
<1> QED BY <1>2, <1>7

LEMMA PlaceRemaining ==
    ASSUME ExpandShape, Remaining, TokensBare, NEW kind \in Kinds, NEW i, NEW L, PlaceStep(kind, i, L)
    PROVE  Remaining' /\ TokensBare' /\ ExpandShape'
<1> DEFINE q == Min(positions)
           Left(t) == {p \in positions : Cur[p] = t}
<1>1. /\ stage = "scan" /\ sampleNo \in 1 .. Len(input.text)
      /\ Cur \in Seq(Tokens) /\ DOMAIN Cur = 1 .. Len(Cur)
      /\ positions \subseteq DOMAIN Cur
      /\ q \in positions /\ q \in DOMAIN Cur /\ Cur[q] = kind
  BY AtTokenFacts DEF PlaceStep
<1>2. Cur' = Cur /\ stage' = stage /\ positions' = positions \ {q}
  BY DEF PlaceStep, Cur
<1>3. sample \in Seq(Element) /\ sample' \in Seq(Element)
  BY DEF ExpandShape, PlaceStep
<1>4. /\ Occurrences(kind, Toks(sample')) + 1 = Occurrences(kind, Toks(sample))
      /\ \A t \in Tokens \ {kind, "vbos", "veos"} :
            Occurrences(t, Toks(sample')) = Occurrences(t, Toks(sample))
      /\ Occurrences("vbos", Toks(sample')) + Occurrences("veos", Toks(sample))
           = Occurrences("veos", Toks(sample')) + Occurrences("vbos", Toks(sample))
  BY <1>3, SwappedCounts DEF PlaceStep
<1>n. /\ \A t : Occurrences(t, Toks(sample')) \in Nat /\ Occurrences(t, Toks(sample)) \in Nat
      /\ \A t : Occurrences(t, Cur) \in Nat
  BY <1>1, <1>3, ToksFacts, OccurrencesFacts
<1>5. /\ \A k \in Kinds : Occurrences(k, Toks(sample)) = Cardinality(Left(k))
      /\ Occurrences("abos", Toks(sample)) = Occurrences("abos", Cur)
      /\ Occurrences("aeos", Toks(sample)) = Occurrences("aeos", Cur)
      /\ Occurrences("vbos", Toks(sample)) + Occurrences("veos", Cur)
           = Occurrences("veos", Toks(sample)) + Occurrences("vbos", Cur)
      /\ videoCount > 0 <=> \E p \in DOMAIN Cur \ positions : Cur[p] = "video"
  BY <1>1 DEF Remaining
<1> DEFINE After(t) == {p \in positions' : Cur'[p] = t}
<1>6. After(kind) = Left(kind) \ {q} /\ q \in Left(kind) /\ \A k : k # kind => After(k) = Left(k)
  BY <1>1, <1>2
<1>7. \A k : IsFiniteSet(Left(k))
  <2>1. IsFiniteSet(DOMAIN Cur)
    BY <1>1, OccurrencesFacts
  <2>2. \A k : Left(k) \subseteq DOMAIN Cur
    BY <1>1
  <2> QED BY <2>1, <2>2, FS_Subset
<1> HIDE DEF After, Left
<1>8. Cardinality(After(kind)) = Cardinality(Left(kind)) - 1 /\ Cardinality(Left(kind)) \in Nat
  BY <1>6, <1>7, FS_RemoveElement, FS_CardinalityType
<1>9. ASSUME NEW k \in Kinds PROVE Occurrences(k, Toks(sample')) = Cardinality(After(k))
  <2>1. CASE k = kind
    BY <1>4, <1>5, <1>8, <1>n, <2>1
  <2>2. CASE k # kind
    <3>1. k \in Tokens \ {kind, "vbos", "veos"}
      BY <2>2 DEF Kinds, Tokens
    <3> QED BY <1>4, <1>5, <1>6, <2>2, <3>1
  <2> QED BY <2>1, <2>2
<1>10. /\ Occurrences("abos", Toks(sample')) = Occurrences("abos", Cur)
       /\ Occurrences("aeos", Toks(sample')) = Occurrences("aeos", Cur)
  <2>1. {"abos", "aeos"} \subseteq Tokens \ {kind, "vbos", "veos"}
    BY DEF Kinds, Tokens
  <2> QED BY <1>4, <1>5, <2>1
<1>11. Occurrences("vbos", Toks(sample')) + Occurrences("veos", Cur)
           = Occurrences("veos", Toks(sample')) + Occurrences("vbos", Cur)
  BY <1>4, <1>5, <1>n
<1>12. videoCount' > 0 <=> \E p \in DOMAIN Cur \ positions' : Cur[p] = "video"
  <2>1. videoCount \in Nat /\ videoCount' = IF kind = "video" THEN videoCount + 1 ELSE videoCount
    BY DEF ExpandShape, PlaceStep
  <2>2. CASE kind = "video"
    <3>1. videoCount' > 0
      BY <2>1, <2>2
    <3>2. q \in DOMAIN Cur \ positions' /\ Cur[q] = "video"
      BY <1>1, <1>2, <2>2
    <3> QED BY <3>1, <3>2
  <2>3. CASE kind # "video"
    <3>1. (\E p \in DOMAIN Cur \ positions' : Cur[p] = "video")
            <=> (\E p \in DOMAIN Cur \ positions : Cur[p] = "video")
      BY <1>1, <1>2, <2>3
    <3> QED BY <1>5, <2>1, <2>3, <3>1
  <2> QED BY <2>2, <2>3
<1>13. Remaining'
  BY <1>1, <1>2, <1>9, <1>10, <1>11, <1>12 DEF Remaining, After
<1>14. TokensBare'
  <2> DEFINE n == Len(sample)
  <2>1. /\ i \in Nat \ {0} /\ L \in Nat \ {0} /\ i + L - 1 <= n
        /\ Len(sample') = n - L + 1
        /\ \A k \in 1 .. i - 1 : sample'[k] = sample[k]
        /\ \A k \in i + 1 .. Len(sample') : sample'[k] = sample[k + L - 1]
        /\ sample'[i].tok \notin Tokens
    BY KindFacts DEF PlaceStep, Swapped, Spliced
  <2>2. n \in Nat /\ DOMAIN sample = 1 .. n /\ DOMAIN sample' = 1 .. Len(sample')
    BY <1>3
  <2> SUFFICES ASSUME NEW k \in 1 .. Len(sample'), sample'[k].tok \in Tokens
               PROVE  sample'[k].item = 0 /\ sample'[k].track = 0
    BY <2>2 DEF TokensBare
  <2> HIDE DEF n
  <2>3. CASE k < i
    <3>1. k \in 1 .. i - 1 /\ k \in 1 .. n
      BY <2>1, <2>2, <2>3
    <3> QED BY <2>1, <2>2, <3>1 DEF TokensBare
  <2>4. CASE k > i
    <3>1. k \in i + 1 .. Len(sample') /\ k + L - 1 \in 1 .. n
      BY <2>1, <2>2, <2>4
    <3> QED BY <2>1, <2>2, <3>1 DEF TokensBare
  <2> QED BY <2>1, <2>2, <2>3, <2>4
<1>15. ExpandShape'
  <2>1. /\ UNCHANGED <<input, stage, sampleNo, processed, outcome>>
        /\ videoCount' \in Nat
    BY DEF ExpandShape, PlaceStep
  <2>2. cursor' \in [Kinds -> Nat]
    BY DEF PlaceStep
  <2>3. \A p \in positions' : sampleNo' >= 1 /\ p \in DOMAIN Cur' /\ Cur'[p] \in Kinds
    BY <1>2, <2>1 DEF ExpandShape
  <2> QED BY <1>1, <1>3, <2>1, <2>2, <2>3 DEF ExpandShape
<1> QED BY <1>13, <1>14, <1>15

LEMMA RestoredFacts ==
    ASSUME sample \in Seq(Element)
    PROVE  /\ TokensRestored \in Seq(Element)
           /\ Len(TokensRestored) = Len(sample) /\ DOMAIN TokensRestored = 1 .. Len(sample)
           /\ \A k \in 1 .. Len(sample) :
                 /\ TokensRestored[k].item = sample[k].item /\ TokensRestored[k].track = sample[k].track
                 /\ sample[k].tok \in Tokens => TokensRestored[k].tok = sample[k].tok
                 /\ \A kind \in Kinds : sample[k].tok = Placeholder[kind] => TokensRestored[k].tok = kind
<1> DEFINE R(t) == IF \E kind \in Kinds : t = Placeholder[kind]
                   THEN CHOOSE kind \in Kinds : t = Placeholder[kind] ELSE t
<1>1. /\ Len(sample) \in Nat /\ DOMAIN sample = 1 .. Len(sample)
      /\ \A k \in 1 .. Len(sample) : sample[k] \in Element
  OBVIOUS
<1>2. TokensRestored = [k \in 1 .. Len(sample) |-> [sample[k] EXCEPT !.tok = R(sample[k].tok)]]
  BY <1>1 DEF TokensRestored
<1>3. \A t \in Tokens : R(t) = t
  BY KindFacts
<1>4. \A kind \in Kinds : R(Placeholder[kind]) = kind
  BY KindFacts
<1>5. \A t \in AllToks : R(t) \in AllToks
  BY <1>3, <1>4 DEF AllToks, Tokens
<1> HIDE DEF R
<1>6. ASSUME NEW k \in 1 .. Len(sample)
      PROVE  /\ TokensRestored[k] \in Element /\ TokensRestored[k].tok = R(sample[k].tok)
             /\ TokensRestored[k].item = sample[k].item /\ TokensRestored[k].track = sample[k].track
  <2>1. sample[k] \in Element /\ sample[k].tok \in AllToks
    BY <1>1 DEF Element
  <2>2. TokensRestored[k] = [sample[k] EXCEPT !.tok = R(sample[k].tok)]
    BY <1>2
  <2> QED BY <1>5, <2>1, <2>2 DEF Element
<1>7. /\ TokensRestored \in Seq(Element) /\ Len(TokensRestored) = Len(sample)
      /\ DOMAIN TokensRestored = 1 .. Len(sample)
  <2> DEFINE f == TokensRestored
  <2>1. f = [k \in 1 .. Len(sample) |-> f[k]]
    BY <1>2
  <2>2. \A k \in 1 .. Len(sample) : f[k] \in Element
    BY <1>6
  <2> HIDE DEF f
  <2>3. f \in Seq(Element) /\ Len(f) = Len(sample) /\ DOMAIN f = 1 .. Len(sample)
    BY <1>1, <2>1, <2>2
  <2> QED BY <2>3 DEF f
<1> QED BY <1>3, <1>4, <1>6, <1>7

LEMMA BeginFacts ==
    ASSUME ExpandShape, BeginSample
    PROVE  /\ ExpandShape' /\ TokensBare' /\ Remaining'
           /\ sampleNo' \in 1 .. Len(input.text) /\ Cur' \in Seq(Tokens)
           /\ Len(sample') = Len(Cur')
           /\ \A k \in 1 .. Len(Cur') : sample'[k] = Raw(Cur'[k])
           /\ positions' = {i \in DOMAIN Cur' : Cur'[i] \in Kinds}
<1> DEFINE tokens == input.text[sampleNo + 1]
           n == Len(tokens)
<1>1. /\ stage = "next" /\ sampleNo < Len(input.text) /\ sampleNo' = sampleNo + 1
      /\ sample' = [i \in DOMAIN tokens |-> Raw(tokens[i])]
      /\ positions' = {i \in DOMAIN tokens : tokens[i] \in Kinds}
      /\ videoCount' = 0 /\ stage' = "scan"
      /\ input' = input /\ cursor' = cursor /\ processed' = processed /\ outcome' = outcome
  BY DEF BeginSample
<1>2. /\ sampleNo' \in 1 .. Len(input.text) /\ sampleNo + 1 \in 1 .. Len(input.text)
      /\ sampleNo' \in 0 .. Len(input'.text) /\ sampleNo' >= 1
  BY <1>1, InputFacts DEF ExpandShape
<1>3. /\ tokens \in Seq(Tokens) /\ n \in Nat /\ DOMAIN tokens = 1 .. n
      /\ \A j \in 1 .. n : tokens[j] \in Tokens
  BY <1>2, InputFacts DEF ExpandShape
<1>4. Cur' = tokens
  BY <1>1 DEF Cur
<1> HIDE DEF tokens, n
<1>5. ASSUME NEW k \in 1 .. n
      PROVE  /\ sample'[k] = Raw(tokens[k]) /\ sample'[k] \in Element /\ sample'[k].tok = tokens[k]
             /\ sample'[k].item = 0 /\ sample'[k].track = 0
  <2>1. sample'[k] = [tok |-> tokens[k], item |-> 0, track |-> 0] /\ tokens[k] \in AllToks
    BY <1>1, <1>3 DEF Raw, AllToks
  <2> QED BY <2>1 DEF Raw, Element
<1>6. sample' \in Seq(Element) /\ Len(sample') = n /\ DOMAIN sample' = 1 .. n
  <2>1. sample' = [k \in 1 .. n |-> Raw(tokens[k])]
    BY <1>1, <1>3
  <2> QED BY <1>3, <1>5, <2>1
<1>7. TokensBare'
  BY <1>5, <1>6 DEF TokensBare
<1>8. ExpandShape'
  BY <1>1, <1>2, <1>4, <1>6 DEF ExpandShape
<1>9. Remaining'
  <2>1. Toks(sample') = tokens
    <3>1. DOMAIN Toks(sample') = DOMAIN tokens /\ \A k \in DOMAIN tokens : Toks(sample')[k] = tokens[k]
      BY <1>3, <1>5, <1>6, ToksFacts
    <3>2. Toks(sample') \in Seq(AllToks)
      BY <1>6, ToksFacts
    <3> QED BY <1>3, <3>1, <3>2
  <2>2. ASSUME NEW kind \in Kinds
        PROVE  Occurrences(kind, tokens) = Cardinality({p \in positions' : tokens[p] = kind})
    <3>1. {p \in positions' : tokens[p] = kind} = {k \in DOMAIN tokens : tokens[k] = kind}
      BY <1>1
    <3> QED BY <3>1 DEF Occurrences
  <2>3. ~ \E p \in DOMAIN tokens \ positions' : tokens[p] = "video"
    BY <1>1 DEF Kinds
  <2>4. ~(videoCount' > 0)
    BY <1>1
  <2>5. \A t : Occurrences(t, tokens) \in Nat
    BY <1>3, OccurrencesFacts
  <2>6. Occurrences("vbos", tokens) + Occurrences("veos", tokens)
          = Occurrences("veos", tokens) + Occurrences("vbos", tokens)
    BY <2>5
  <2> QED BY <1>4, <2>1, <2>2, <2>3, <2>4, <2>6 DEF Remaining
<1> QED BY <1>1, <1>2, <1>3, <1>4, <1>5, <1>6, <1>7, <1>8, <1>9 DEF n

LEMMA CountStarts == ExpandInit => ExpandShape /\ TokensBare /\ Remaining
<1> SUFFICES ASSUME ExpandInit PROVE ExpandShape /\ TokensBare /\ Remaining
  OBVIOUS
<1>1. Len(input.text) \in Nat
  BY InputFacts DEF ExpandInit
<1>2. cursor \in [Kinds -> Nat]
  BY DEF ExpandInit
<1> QED BY <1>1, <1>2 DEF ExpandInit, ExpandShape, TokensBare, Remaining

\* The scan of a sample ends, or the call does.
LEMMA CountOtherSteps ==
    ASSUME ExpandShape, TokensBare, Remaining,
           RaiseShort \/ EndSample \/ FinishCall \/ UNCHANGED expandVars
    PROVE  ExpandShape' /\ TokensBare' /\ Remaining'
<1>1. UNCHANGED <<input, sampleNo, sample, positions, videoCount, cursor>>
  BY DEF RaiseShort, EndSample, FinishCall, Raise, expandVars
<1>2. TokensBare' /\ Cur' = Cur
  BY <1>1 DEF TokensBare, Cur
<1>3. CASE UNCHANGED expandVars
  BY <1>1, <1>2, <1>3 DEF ExpandShape, Remaining, expandVars
<1>4. CASE RaiseShort
  BY <1>1, <1>2, <1>4 DEF ExpandShape, Remaining, RaiseShort, Raise
<1>5. CASE FinishCall
  BY <1>1, <1>2, <1>5 DEF ExpandShape, Remaining, FinishCall, Raise
<1>6. CASE EndSample
  <2>1. TokensRestored \in Seq(Element)
    BY RestoredFacts DEF ExpandShape
  <2>2. processed' \in Seq(Seq(Element))
    BY <1>6, <2>1 DEF EndSample, ExpandShape
  <2>3. positions = {} /\ \/ stage' = "done" /\ outcome' = "raised"
                          \/ stage' = "next" /\ outcome' = outcome /\ stage = "scan"
    BY <1>6 DEF EndSample, Raise
  <2> QED BY <1>1, <1>2, <2>2, <2>3 DEF ExpandShape, Remaining
<1> QED BY <1>3, <1>4, <1>5, <1>6

LEMMA CountSteps ==
    ASSUME ExpandShape, TokensBare, Remaining, [ExpandNext]_expandVars
    PROVE  ExpandShape' /\ TokensBare' /\ Remaining'
<1>1. CASE BeginSample
  BY <1>1, BeginFacts
<1>2. ASSUME NEW kind \in {"audio", "image"}, PlaceClip(kind)
      PROVE  ExpandShape' /\ TokensBare' /\ Remaining'
  <2>1. kind \in Kinds
    BY DEF Kinds
  <2> QED BY <1>2, <2>1, ClipPlaces, PlaceRemaining
<1>3. CASE PlaceVideo
  <2>1. "video" \in Kinds /\ \E i, L : PlaceStep("video", i, L)
    BY <1>3, VideoPlaces DEF Kinds
  <2> QED BY <2>1, PlaceRemaining
<1>4. CASE RaiseShort \/ EndSample \/ FinishCall \/ UNCHANGED expandVars
  BY <1>4, CountOtherSteps
<1> QED BY <1>1, <1>2, <1>3, <1>4 DEF ExpandNext

-----------------------------------------------------------------------------
(* The cursors count the tokens the scan has come past, hence the outcome. *)

LEMMA PlacesMember ==
    ASSUME NEW texts
    PROVE  \A place : place \in Places(texts)
               <=> \E i \in DOMAIN texts : \E j \in DOMAIN texts[i] : place = <<i, j>>
BY DEF Places

LEMMA PlacesFinite ==
    ASSUME NEW texts, IsFiniteSet(DOMAIN texts), \A i \in DOMAIN texts : IsFiniteSet(DOMAIN texts[i])
    PROVE  IsFiniteSet(Places(texts))
<1> DEFINE S == {{i} \X DOMAIN texts[i] : i \in DOMAIN texts}
           f == [i \in DOMAIN texts |-> {i} \X DOMAIN texts[i]]
<1>1. f \in Surjection(DOMAIN texts, S)
  BY Fun_IsSurj
<1>2. IsFiniteSet(S)
  BY <1>1, FS_Surjection DEF ExistsSurjection
<1>3. \A T \in S : IsFiniteSet(T)
  <2> SUFFICES ASSUME NEW i \in DOMAIN texts PROVE IsFiniteSet({i} \X DOMAIN texts[i])
    OBVIOUS
  <2>1. IsFiniteSet({i})
    BY FS_Singleton
  <2> QED BY <2>1, FS_Product
<1>4. IsFiniteSet(UNION S)
  BY <1>2, <1>3, FS_UNION
<1> QED BY <1>4 DEF Places

\* The tokens of a kind in the call, and those of them the scan has come past.
Wanted(kind) == {place \in Places(input.text) : input.text[place[1]][place[2]] = kind}
Visited(kind) ==
    {place \in Wanted(kind) :
        place[1] <= sampleNo /\ (place[1] = sampleNo => place[2] \notin positions)}

Counted ==
    \A kind \in Kinds :
        cursor[kind] = Cardinality(Visited(kind))
                         + (IF kind = "audio" /\ Vocal THEN Cardinality(Visited("video")) ELSE 0)

\* The prompts behind the scan close their markers if they must.
Closes(tokens) == Vocal /\ Occurrences("video", tokens) > 0 => Balanced(tokens)
ClosedBefore ==
    \A i \in 1 .. Len(input.text) :
        i < sampleNo \/ (i = sampleNo /\ stage = "next") => Closes(input.text[i])

LEMMA WantedFacts ==
    ASSUME ExpandShape, NEW kind
    PROVE  /\ IsFiniteSet(Wanted(kind)) /\ IsFiniteSet(Visited(kind))
           /\ Cardinality(Wanted(kind)) \in Nat /\ Cardinality(Visited(kind)) \in Nat
           /\ Cardinality(Visited(kind)) <= Cardinality(Wanted(kind))
           /\ Visited(kind) # Wanted(kind) => Cardinality(Visited(kind)) < Cardinality(Wanted(kind))
           /\ Asked(kind) = Cardinality(Wanted(kind))
<1>1. IsFiniteSet(Places(input.text))
  <2>1. /\ Len(input.text) \in Int /\ 1 \in Int /\ DOMAIN input.text = 1 .. Len(input.text)
        /\ \A i \in DOMAIN input.text : input.text[i] \in Seq(Tokens)
    <3>1. input \in CallInputs
      BY DEF ExpandShape
    <3>2. /\ Len(input.text) \in Nat /\ DOMAIN input.text = 1 .. Len(input.text)
          /\ \A i \in 1 .. Len(input.text) : input.text[i] \in Seq(Tokens)
      BY <3>1, InputFacts
    <3> QED BY <3>2
  <2>2. IsFiniteSet(DOMAIN input.text)
    BY <2>1, FS_Interval
  <2>3. \A i \in DOMAIN input.text : IsFiniteSet(DOMAIN input.text[i])
    BY <2>1, OccurrencesFacts
  <2> QED BY <2>2, <2>3, PlacesFinite
<1>2. Wanted(kind) \subseteq Places(input.text) /\ Visited(kind) \subseteq Wanted(kind)
  BY DEF Wanted, Visited
<1>3. IsFiniteSet(Wanted(kind)) /\ IsFiniteSet(Visited(kind))
  BY <1>1, <1>2, FS_Subset
<1>4. /\ Cardinality(Wanted(kind)) \in Nat /\ Cardinality(Visited(kind)) \in Nat
      /\ Cardinality(Visited(kind)) <= Cardinality(Wanted(kind))
      /\ Visited(kind) # Wanted(kind) => Cardinality(Visited(kind)) < Cardinality(Wanted(kind))
  BY <1>2, <1>3, FS_Subset, FS_CardinalityType
<1>5. Asked(kind) = Cardinality(Wanted(kind))
  BY DEF Asked, Wanted
<1> QED BY <1>3, <1>4, <1>5

LEMMA PlaceCounted ==
    ASSUME ExpandShape, Counted, NEW kind \in Kinds, NEW i, NEW L, PlaceStep(kind, i, L), ExpandShape'
    PROVE  Counted'
<1> DEFINE q == Min(positions)
           x == <<sampleNo, q>>
<1>1. /\ stage = "scan" /\ sampleNo \in 1 .. Len(input.text) /\ positions \subseteq DOMAIN Cur
      /\ q \in positions /\ q \in DOMAIN Cur /\ Cur[q] = kind
  BY AtTokenFacts DEF PlaceStep
<1>2. /\ input' = input /\ sampleNo' = sampleNo /\ positions' = positions \ {q}
      /\ Cur = input.text[sampleNo] /\ DOMAIN input.text = 1 .. Len(input.text)
  BY InputFacts DEF PlaceStep, Cur, ExpandShape
<1>3. sampleNo \in Nat
  BY DEF ExpandShape
<1> HIDE DEF q
<1>4. /\ x \in Wanted(kind) /\ x \notin Visited(kind) /\ x[1] = sampleNo /\ x[2] = q
      /\ \A k : Wanted(k)' = Wanted(k)
  BY <1>1, <1>2, PlacesMember DEF Wanted, Visited
<1>5. Visited(kind)' = Visited(kind) \cup {x}
  <2>1. ASSUME NEW place \in Wanted(kind) PROVE place \in Visited(kind)' <=> place \in Visited(kind) \cup {x}
    <3>1. PICK a, b : place = <<a, b>> /\ a \in 1 .. Len(input.text)
      BY <1>2, PlacesMember DEF Wanted
    <3>2. place[1] = a /\ place[2] = b
      BY <3>1
    <3>3. place \in Visited(kind)' <=> (a <= sampleNo /\ (a = sampleNo => b \notin positions \ {q}))
      BY <1>2, <1>4, <3>2 DEF Visited
    <3>4. place \in Visited(kind) <=> (a <= sampleNo /\ (a = sampleNo => b \notin positions))
      BY <3>2 DEF Visited
    <3>5. place = x <=> a = sampleNo /\ b = q
      BY <3>1
    <3> HIDE DEF x
    <3>6. sampleNo <= sampleNo
      BY <1>3
    <3> QED BY <3>3, <3>4, <3>5, <3>6
  <2>2. Visited(kind)' \subseteq Wanted(kind) /\ Visited(kind) \subseteq Wanted(kind)
    BY <1>4 DEF Visited
  <2> HIDE DEF x
  <2> QED BY <1>4, <2>1, <2>2
<1>6. ASSUME NEW k, k # kind PROVE Visited(k)' = Visited(k)
  <2>1. ASSUME NEW place \in Wanted(k) PROVE place \in Visited(k)' <=> place \in Visited(k)
    <3>1. PICK a, b : place = <<a, b>> /\ input.text[a][b] = k
      BY PlacesMember DEF Wanted
    <3>2. place[1] = a /\ place[2] = b
      BY <3>1
    <3>3. place \in Visited(k)' <=> (a <= sampleNo /\ (a = sampleNo => b \notin positions \ {q}))
      BY <1>2, <1>4, <3>2 DEF Visited
    <3>4. place \in Visited(k) <=> (a <= sampleNo /\ (a = sampleNo => b \notin positions))
      BY <3>2 DEF Visited
    <3>5. ~(a = sampleNo /\ b = q)
      BY <1>1, <1>2, <1>6, <3>1
    <3> QED BY <3>3, <3>4, <3>5
  <2>2. Visited(k)' \subseteq Wanted(k) /\ Visited(k) \subseteq Wanted(k)
    BY <1>4 DEF Visited
  <2> QED BY <2>1, <2>2
<1> HIDE DEF x
<1>7. Cardinality(Visited(kind)') = Cardinality(Visited(kind)) + 1
  BY <1>4, <1>5, WantedFacts, FS_AddElement
<1>8. \A k : k # kind => Cardinality(Visited(k)') = Cardinality(Visited(k))
  BY <1>6
<1>9. \A k : Cardinality(Visited(k)) \in Nat
  BY WantedFacts
<1>10. /\ cursor \in [Kinds -> Nat]
       /\ cursor'[kind] = cursor[kind] + 1
       /\ \A other \in Kinds : other # kind =>
            cursor'[other] = IF other = "audio" /\ kind = "video" /\ Vocal
                             THEN cursor[other] + 1 ELSE cursor[other]
       /\ Vocal' = Vocal
  BY <1>2 DEF PlaceStep, Vocal
<1>11. \A k \in Kinds :
        cursor[k] = Cardinality(Visited(k))
                         + (IF k = "audio" /\ Vocal THEN Cardinality(Visited("video")) ELSE 0)
  BY DEF Counted
<1> SUFFICES ASSUME NEW k \in Kinds
             PROVE  cursor'[k] = Cardinality(Visited(k)')
                         + (IF k = "audio" /\ Vocal THEN Cardinality(Visited("video")') ELSE 0)
  BY <1>10 DEF Counted
<1> DEFINE c(j) == Cardinality(Visited(j))  d(j) == Cardinality(Visited(j)')
<1>12. /\ d(kind) = c(kind) + 1 /\ \A j : j # kind => d(j) = c(j)
       /\ \A j : c(j) \in Nat
       /\ \A j \in Kinds : cursor[j] = c(j) + (IF j = "audio" /\ Vocal THEN c("video") ELSE 0)
  BY <1>7, <1>8, <1>9, <1>11
<1> HIDE DEF c, d
<1>13. cursor'[k] = d(k) + (IF k = "audio" /\ Vocal THEN d("video") ELSE 0)
  <2>1. CASE k = kind /\ k = "audio"
    <3>1. "video" # kind
      BY <2>1
    <3> QED BY <1>10, <1>12, <2>1, <3>1
  <2>2. CASE k = kind /\ k # "audio"
    BY <1>10, <1>12, <2>2
  <2>3. CASE k # kind /\ k = "audio" /\ Vocal /\ kind = "video"
    BY <1>10, <1>12, <2>3
  <2>4. CASE k # kind /\ ~(k = "audio" /\ Vocal /\ kind = "video")
    BY <1>10, <1>12, <2>4
  <2> QED BY <2>1, <2>2, <2>3, <2>4
<1> QED BY <1>13 DEF d

LEMMA BeginCounted ==
    ASSUME ExpandShape, Counted, BeginSample
    PROVE  Counted'
<1>1. /\ input' = input /\ cursor' = cursor /\ sampleNo' = sampleNo + 1 /\ sampleNo \in Nat
      /\ positions = {} /\ stage = "next"
  BY DEF ExpandShape, BeginSample
<1>2. /\ positions' = {j \in DOMAIN Cur' : Cur'[j] \in Kinds} /\ Cur' = input.text[sampleNo + 1]
  BY <1>1, BeginFacts DEF Cur
<1>3. ASSUME NEW k \in Kinds PROVE Visited(k)' = Visited(k)
  <2>0. Wanted(k)' = Wanted(k)
    BY <1>1 DEF Wanted
  <2>1. ASSUME NEW place \in Wanted(k) PROVE place \in Visited(k)' <=> place \in Visited(k)
    <3>1. PICK a, b : /\ place = <<a, b>> /\ a \in DOMAIN input.text
                         /\ b \in DOMAIN input.text[a] /\ input.text[a][b] = k
      BY PlacesMember DEF Wanted
    <3>2. place[1] = a /\ place[2] = b
      BY <3>1
    <3>3. place \in Visited(k)' <=> (a <= sampleNo + 1 /\ (a = sampleNo + 1 => b \notin positions'))
      BY <1>1, <2>0, <3>2 DEF Visited
    <3>4. place \in Visited(k) <=> (a <= sampleNo /\ (a = sampleNo => b \notin positions))
      BY <3>2 DEF Visited
    <3>5. a = sampleNo + 1 => b \in positions'
      BY <1>2, <1>3, <3>1
    <3>6. a \in Nat
      BY <3>1, InputFacts DEF ExpandShape
    <3> QED BY <1>1, <3>3, <3>4, <3>5, <3>6
  <2>2. Visited(k)' \subseteq Wanted(k) /\ Visited(k) \subseteq Wanted(k)
    BY <2>0 DEF Visited
  <2> QED BY <2>1, <2>2
<1>4. Visited("video")' = Visited("video")
  BY <1>3 DEF Kinds
<1>5. Vocal' = Vocal
  BY <1>1 DEF Vocal
<1> QED BY <1>1, <1>3, <1>4, <1>5 DEF Counted

\* With every position visited, the markers of the sample are those of its text.
LEMMA ScannedMarkers ==
    ASSUME ExpandShape, Remaining, stage = "scan", positions = {}
    PROVE  /\ MarkersWrong <=> ~Closes(Cur)
           /\ MarkersWrong => Vocal /\ Occurrences("video", Cur) > 0 /\ ~Balanced(Cur)
           /\ \A k \in DOMAIN sample : sample[k].tok \notin Kinds
<1>1. sampleNo \in 1 .. Len(input.text)
  BY InputFacts DEF ExpandShape
<1>2. Cur \in Seq(Tokens) /\ sample \in Seq(Element)
  BY <1>1, InputFacts DEF ExpandShape, Cur
<1> DEFINE o(t) == Occurrences(t, Toks(sample))  e(t) == Occurrences(t, Cur)
<1>3. \A t : o(t) \in Nat /\ e(t) \in Nat
  BY <1>2, ToksFacts, OccurrencesFacts
<1>4. o("abos") = e("abos") /\ o("aeos") = e("aeos") /\ o("vbos") + e("veos") = o("veos") + e("vbos")
  BY DEF Remaining
<1>5. Balanced(Toks(sample)) <=> Balanced(Cur)
  <2>1. Balanced(Toks(sample)) <=> o("vbos") = o("veos") /\ o("abos") = o("aeos")
    BY DEF Balanced
  <2>2. Balanced(Cur) <=> e("vbos") = e("veos") /\ e("abos") = e("aeos")
    BY DEF Balanced
  <2> HIDE DEF o, e
  <2> QED BY <1>3, <1>4, <2>1, <2>2
<1>6. videoCount > 0 <=> \E p \in DOMAIN Cur : Cur[p] = "video"
  BY DEF Remaining
<1>7. e("video") > 0 <=> \E p \in DOMAIN Cur : Cur[p] = "video"
  <2>1. e("video") = 0 <=> \A p \in DOMAIN Cur : Cur[p] # "video"
    BY <1>2, OccurrencesFacts
  <2>2. e("video") \in Nat
    BY <1>3
  <2> HIDE DEF e
  <2> QED BY <2>1, <2>2
<1>8. MarkersWrong <=> Vocal /\ Occurrences("video", Cur) > 0 /\ ~Balanced(Cur)
  BY <1>5, <1>6, <1>7 DEF MarkersWrong
<1>9. ASSUME NEW k \in DOMAIN sample PROVE sample[k].tok \notin Kinds
  <2> SUFFICES ASSUME NEW kind \in Kinds, sample[k].tok = kind PROVE FALSE
    OBVIOUS
  <2>1. {p \in positions : Cur[p] = kind} = {}
    OBVIOUS
  <2>2. Occurrences(kind, Toks(sample)) = 0
    BY <2>1, FS_EmptySet DEF Remaining
  <2>3. /\ Toks(sample) \in Seq(AllToks) /\ DOMAIN Toks(sample) = DOMAIN sample
        /\ Toks(sample)[k] = sample[k].tok
    BY <1>2, ToksFacts
  <2> QED BY <2>2, <2>3, OccurrencesFacts
<1> QED BY <1>8, <1>9 DEF Closes

Matching ==
    /\ Asked("image") = input.count["image"]
    /\ Asked("video") = input.count["video"]
    /\ Asked("audio") + (IF Vocal THEN Asked("video") ELSE 0) = input.count["audio"]
    /\ \A i \in DOMAIN input.text : Closes(input.text[i])

LEMMA MatchingFacts ==
    /\ ReturnsExactlyOnMatch <=> (stage = "done" => (outcome = "returned" <=> Matching \/ MediaOnly))
    /\ input' = input => (Matching' <=> Matching) /\ (MediaOnly' <=> MediaOnly)
<1>1. ReturnsExactlyOnMatch <=> (stage = "done" => (outcome = "returned" <=> Matching \/ MediaOnly))
  BY DEF ReturnsExactlyOnMatch, Matching, Closes
<1>2. ASSUME input' = input PROVE (Matching' <=> Matching) /\ (MediaOnly' <=> MediaOnly)
  <2>1. Vocal' = Vocal /\ \A k : Asked(k)' = Asked(k)
    BY <1>2 DEF Vocal, Asked
  <2> QED BY <1>2, <2>1 DEF Matching, Closes, MediaOnly
<1> QED BY <1>1, <1>2

\* A token for which there is nothing left.
LEMMA ShortOutcome ==
    ASSUME ExpandShape, Counted, NEW kind \in Kinds, AtToken(kind),
           UsedUp(kind) \/ (kind = "video" /\ Vocal /\ UsedUp("audio"))
    PROVE  ~Matching /\ ~MediaOnly
<1> DEFINE q == Min(positions)
           x == <<sampleNo, q>>
           w(k) == Cardinality(Wanted(k))  v(k) == Cardinality(Visited(k))
<1>1. /\ sampleNo \in 1 .. Len(input.text)
      /\ Cur \in Seq(Tokens) /\ q \in positions /\ q \in DOMAIN Cur /\ Cur[q] = kind
  BY AtTokenFacts
<1>2. DOMAIN input.text = 1 .. Len(input.text) /\ input.count \in [Kinds -> Nat]
  BY InputFacts DEF ExpandShape
<1>3. ~MediaOnly
  BY <1>1, <1>2 DEF MediaOnly, Cur
<1>4. x \in Wanted(kind) /\ x \notin Visited(kind)
  BY <1>1, <1>2, PlacesMember DEF Wanted, Visited, Cur
<1>5. v(kind) < w(kind) /\ \A k : v(k) \in Nat /\ w(k) \in Nat /\ v(k) <= w(k) /\ Asked(k) = w(k)
  <2>1. Visited(kind) # Wanted(kind)
    BY <1>4
  <2> QED BY <2>1, WantedFacts
<1>6. \A k \in Kinds : cursor[k] = v(k) + (IF k = "audio" /\ Vocal THEN v("video") ELSE 0)
  BY DEF Counted
<1>7. "audio" \in Kinds /\ "video" \in Kinds /\ \A k \in Kinds : k \in {"audio", "image", "video"}
  BY DEF Kinds
<1> HIDE DEF v, w
<1>8. SUFFICES ASSUME Matching PROVE FALSE
  BY <1>3
<1>9. /\ w("image") = input.count["image"] /\ w("video") = input.count["video"]
      /\ w("audio") + (IF Vocal THEN w("video") ELSE 0) = input.count["audio"]
  BY <1>5, <1>8 DEF Matching
<1>10. CASE UsedUp(kind) /\ kind # "audio"
  <2>1. cursor[kind] = v(kind) /\ cursor[kind] >= input.count[kind]
    BY <1>5, <1>6, <1>10 DEF UsedUp
  <2>2. input.count[kind] = w(kind)
    BY <1>7, <1>9, <1>10
  <2>3. v(kind) \in Nat /\ w(kind) \in Nat
    BY <1>5
  <2> QED BY <1>5, <2>1, <2>2, <2>3
<1>11. CASE UsedUp("audio") /\ (kind = "audio" \/ (kind = "video" /\ Vocal))
  <2>1. cursor["audio"] >= input.count["audio"]
    BY <1>11 DEF UsedUp
  <2>2. cursor["audio"] = v("audio") + (IF Vocal THEN v("video") ELSE 0)
    BY <1>6, <1>7
  <2>3. /\ v("audio") \in Nat /\ w("audio") \in Nat /\ v("video") \in Nat /\ w("video") \in Nat
        /\ v("audio") <= w("audio") /\ v("video") <= w("video")
    BY <1>5
  <2>4. CASE Vocal
    BY <1>5, <1>9, <1>11, <2>1, <2>2, <2>3, <2>4
  <2>5. CASE ~Vocal
    BY <1>5, <1>9, <1>11, <2>1, <2>2, <2>3, <2>5
  <2> QED BY <2>4, <2>5
<1>12. CASE UsedUp(kind) /\ kind = "audio"
  <2>1. UsedUp("audio")
    BY <1>12
  <2> QED BY <1>11, <1>12, <2>1
<1> QED BY <1>10, <1>11, <1>12

\* After the last sample every token of the call was visited.
LEMMA FinalCounts ==
    ASSUME ExpandShape, Counted, ClosedBefore, stage = "next", sampleNo = Len(input.text)
    PROVE  Matching <=> ~Unconsumed
<1>1. /\ DOMAIN input.text = 1 .. Len(input.text) /\ Len(input.text) \in Nat
      /\ input.count \in [Kinds -> Nat] /\ positions = {}
  BY InputFacts DEF ExpandShape
<1>2. \A k : Visited(k) = Wanted(k)
  <2> SUFFICES ASSUME NEW k, NEW place \in Wanted(k) PROVE place \in Visited(k)
    BY DEF Visited
  <2>1. place[1] \in 1 .. Len(input.text)
    BY <1>1, PlacesMember DEF Wanted
  <2> QED BY <1>1, <2>1 DEF Visited
<1> DEFINE w(k) == Cardinality(Wanted(k))
<1>3. \A k : Asked(k) = w(k) /\ w(k) \in Nat
  BY WantedFacts
<1>4. \A k \in Kinds : cursor[k] = w(k) + (IF k = "audio" /\ Vocal THEN w("video") ELSE 0)
  BY <1>2 DEF Counted
<1> HIDE DEF w
<1>5. \A i \in DOMAIN input.text : Closes(input.text[i])
  BY <1>1 DEF ClosedBefore
<1>6. Kinds = {"audio", "image", "video"}
  BY DEF Kinds
<1>7. /\ cursor["image"] = w("image") /\ cursor["video"] = w("video")
      /\ cursor["audio"] = w("audio") + (IF Vocal THEN w("video") ELSE 0)
  BY <1>3, <1>4, <1>6
<1>8. Matching <=> \A k \in Kinds : cursor[k] = input.count[k]
  BY <1>3, <1>5, <1>6, <1>7 DEF Matching
<1> QED BY <1>8 DEF Unconsumed

OutcomeInv == ExpandShape /\ TokensBare /\ Remaining /\ Counted /\ ClosedBefore /\ ReturnsExactlyOnMatch

LEMMA OutcomeStarts == ExpandInit => OutcomeInv
<1> SUFFICES ASSUME ExpandInit PROVE OutcomeInv
  OBVIOUS
<1>1. ExpandShape /\ TokensBare /\ Remaining
  BY CountStarts
<1>2. \A k : Visited(k) = {}
  <2> SUFFICES ASSUME NEW k, NEW place \in Wanted(k) PROVE place \notin Visited(k)
    BY DEF Visited
  <2>1. place[1] \in 1 .. Len(input.text) /\ sampleNo = 0
    BY <1>1, InputFacts, PlacesMember DEF Wanted, ExpandInit, ExpandShape
  <2> QED BY <2>1 DEF Visited
<1>3. Cardinality({}) = 0 /\ \A k \in Kinds : cursor[k] = 0
  BY FS_EmptySet DEF ExpandInit
<1>4. Counted
  BY <1>2, <1>3 DEF Counted
<1>5. ClosedBefore
  BY InputFacts DEF ClosedBefore, ExpandInit
<1>6. ReturnsExactlyOnMatch
  BY MatchingFacts DEF ExpandInit
<1> QED BY <1>1, <1>4, <1>5, <1>6 DEF OutcomeInv

LEMMA OutcomeSteps == OutcomeInv /\ [ExpandNext]_expandVars => OutcomeInv'
<1> SUFFICES ASSUME OutcomeInv, [ExpandNext]_expandVars PROVE OutcomeInv'
  OBVIOUS
<1>1. /\ ExpandShape /\ TokensBare /\ Remaining /\ Counted /\ ClosedBefore /\ ReturnsExactlyOnMatch
      /\ ExpandShape' /\ TokensBare' /\ Remaining'
  BY CountSteps DEF OutcomeInv
<1> SUFFICES Counted' /\ ClosedBefore' /\ ReturnsExactlyOnMatch'
  BY <1>1 DEF OutcomeInv
<1>2. CASE BeginSample
  <2>1. Counted'
    BY <1>1, <1>2, BeginCounted
  <2>2. stage = "next" /\ stage' = "scan" /\ sampleNo' = sampleNo + 1 /\ input' = input /\ sampleNo \in Nat
    BY <1>1, <1>2 DEF BeginSample, ExpandShape
  <2>3. Vocal' = Vocal /\ Len(input.text) \in Nat
    BY <1>1, <2>2, InputFacts DEF Vocal, ExpandShape
  <2>4. ClosedBefore'
    BY <1>1, <2>2, <2>3 DEF ClosedBefore, Closes
  <2>5. ReturnsExactlyOnMatch'
    BY <2>2 DEF ReturnsExactlyOnMatch
  <2> QED BY <2>1, <2>4, <2>5
<1>3. ASSUME NEW kind \in Kinds, NEW i, NEW L, PlaceStep(kind, i, L)
      PROVE  Counted' /\ ClosedBefore' /\ ReturnsExactlyOnMatch'
  <2>1. Counted'
    BY <1>1, <1>3, PlaceCounted
  <2>2. stage = "scan" /\ stage' = stage /\ sampleNo' = sampleNo /\ input' = input
    BY <1>3 DEF PlaceStep, AtToken
  <2>3. ClosedBefore'
    BY <1>1, <2>2 DEF ClosedBefore, Closes, Vocal
  <2>4. ReturnsExactlyOnMatch'
    BY <2>2 DEF ReturnsExactlyOnMatch
  <2> QED BY <2>1, <2>3, <2>4
<1>4. CASE \E kind \in {"audio", "image"} : PlaceClip(kind)
  <2>1. \E kind \in Kinds : \E i, L : PlaceStep(kind, i, L)
    BY <1>1, <1>4, ClipPlaces DEF Kinds
  <2> QED BY <1>3, <2>1
<1>5. CASE PlaceVideo
  <2>1. "video" \in Kinds /\ \E i, L : PlaceStep("video", i, L)
    BY <1>1, <1>5, VideoPlaces DEF Kinds
  <2> QED BY <1>3, <2>1
<1>6. ASSUME UNCHANGED <<input, sampleNo, positions, cursor>>
      PROVE  Counted' /\ (Matching' <=> Matching) /\ (MediaOnly' <=> MediaOnly)
  <2>1. (\A k : Visited(k)' = Visited(k)) /\ Vocal' = Vocal
    BY <1>6 DEF Visited, Wanted, Vocal
  <2> QED BY <1>1, <1>6, <2>1, MatchingFacts DEF Counted
<1>r. ReturnsExactlyOnMatch' <=> (stage' = "done" => (outcome' = "returned" <=> (Matching \/ MediaOnly)'))
  BY DEF ReturnsExactlyOnMatch, Matching, Closes
<1>7. CASE RaiseShort
  <2>1. UNCHANGED <<input, sampleNo, positions, cursor>> /\ stage' = "done" /\ outcome' = "raised"
        /\ stage = "scan"
    BY <1>7 DEF RaiseShort, Raise, AtToken
  <2>2. ~Matching /\ ~MediaOnly
    BY <1>1, <1>7, ShortOutcome DEF RaiseShort
  <2>3. ClosedBefore'
    BY <1>1, <2>1 DEF ClosedBefore, Closes, Vocal
  <2> QED BY <1>6, <1>r, <2>1, <2>2, <2>3
<1>8. CASE FinishCall
  <2>1. /\ UNCHANGED <<input, sampleNo, positions, cursor>> /\ stage' = "done"
        /\ stage = "next" /\ sampleNo = Len(input.text)
        /\ outcome' = "returned" \/ outcome' = "raised"
        /\ outcome' = "returned" <=> ~Unconsumed \/ MediaOnly
    BY <1>8 DEF FinishCall, Raise
  <2>2. Matching <=> ~Unconsumed
    BY <1>1, <2>1, FinalCounts
  <2>3. ClosedBefore'
    BY <1>1, <2>1 DEF ClosedBefore, Closes, Vocal
  <2> QED BY <1>6, <1>r, <2>1, <2>2, <2>3
<1>9. CASE EndSample
  <2>1. /\ UNCHANGED <<input, sampleNo, positions, cursor>>
        /\ stage = "scan" /\ positions = {}
        /\ \/ MarkersWrong /\ stage' = "done" /\ outcome' = "raised"
           \/ ~MarkersWrong /\ stage' = "next"
    BY <1>9 DEF EndSample, Raise
  <2>2. /\ MarkersWrong <=> ~Closes(Cur)
        /\ MarkersWrong => Vocal /\ Occurrences("video", Cur) > 0 /\ ~Balanced(Cur)
    BY <1>1, <2>1, ScannedMarkers
  <2>3. /\ DOMAIN input.text = 1 .. Len(input.text) /\ sampleNo \in 1 .. Len(input.text)
        /\ Len(input.text) \in Nat /\ Cur = input.text[sampleNo] /\ Cur \in Seq(Tokens)
    BY <1>1, <2>1, InputFacts DEF ExpandShape, Cur
  <2>4. CASE MarkersWrong
    <3>1. ~Matching
      BY <2>2, <2>3, <2>4 DEF Matching
    <3>2. ~MediaOnly
      <4>1. ~(Occurrences("video", Cur) = 0)
        BY <2>2, <2>4
      <4>2. \E k \in DOMAIN Cur : Cur[k] = "video"
        BY <2>3, <4>1, OccurrencesFacts
      <4>3. Cur # << >>
        BY <4>2
      <4> QED BY <2>3, <4>3 DEF MediaOnly
    <3>3. ClosedBefore'
      BY <1>1, <2>1, <2>4 DEF ClosedBefore, Closes, Vocal
    <3> QED BY <1>6, <1>r, <2>1, <2>4, <3>1, <3>2, <3>3
  <2>5. CASE ~MarkersWrong
    <3>1. Closes(Cur) /\ stage' = "next"
      BY <2>1, <2>2, <2>5
    <3>2. \A i \in 1 .. Len(input.text) : i < sampleNo \/ i = sampleNo => Closes(input.text[i])
      BY <1>1, <2>3, <3>1 DEF ClosedBefore
    <3>3. ClosedBefore'
      BY <2>1, <3>2 DEF ClosedBefore, Closes, Vocal
    <3> QED BY <1>6, <1>r, <2>1, <3>1, <3>3
  <2> QED BY <2>4, <2>5
<1>10. CASE UNCHANGED expandVars
  <2>1. UNCHANGED <<input, sampleNo, positions, cursor, stage, outcome>>
    BY <1>10 DEF expandVars
  <2>2. ClosedBefore'
    BY <1>1, <2>1 DEF ClosedBefore, Closes, Vocal
  <2> QED BY <1>1, <1>6, <1>r, <2>1, <2>2, MatchingFacts
<1> QED BY <1>2, <1>4, <1>5, <1>7, <1>8, <1>9, <1>10 DEF ExpandNext

\* For any prompts, batch and numbers of media, the call returns exactly when the
\* prompts ask for what is supplied and close the markers they open
\* (replace_multimodal_special_tokens).
THEOREM ReturnsExactlyOnMatchHolds == ExpandSpec => []ReturnsExactlyOnMatch
<1>1. OutcomeInv => ReturnsExactlyOnMatch
  BY DEF OutcomeInv
<1> QED BY <1>1, OutcomeStarts, OutcomeSteps, PTL DEF ExpandSpec

-----------------------------------------------------------------------------
(* What is shown.                                                          *)

\* As Shown, of an element that may still be a placeholder.
ShownOf(kind, element) ==
    IF element.tok \in {kind, Placeholder[kind]} THEN element.item
    ELSE IF kind = "audio" THEN element.track ELSE 0

\* The media of a kind shown by the sample, and by the prompts behind it.
SampleShows(kind) == {ShownOf(kind, sample[k]) : k \in DOMAIN sample} \ {0}
BatchShows(kind) == {ShownAt(kind, place) : place \in Showing(kind)}

\* The prompts behind the scan show the first media of a kind, the sample the next
\* ones, up to the cursor, and none is shown twice.
ShownInv ==
    \A kind \in Kinds :
        /\ \E b \in Nat :
              /\ b <= cursor[kind] /\ BatchShows(kind) = 1 .. b
              /\ stage = "scan" => SampleShows(kind) = b + 1 .. cursor[kind]
              /\ stage = "next" \/ outcome = "returned" => b = cursor[kind]
        /\ \A p, q \in Showing(kind) : ShownAt(kind, p) = ShownAt(kind, q) => p = q
        /\ stage = "scan" =>
              \A j, k \in DOMAIN sample :
                  ShownOf(kind, sample[j]) > 0 /\ ShownOf(kind, sample[j]) = ShownOf(kind, sample[k])
                      => j = k

\* No placeholder and no media token is without its medium.
Carries ==
    /\ \A k \in DOMAIN sample : sample[k].tok \notin Tokens => sample[k].item > 0
    /\ \A i \in DOMAIN processed : \A j \in DOMAIN processed[i] :
          processed[i][j].tok \in Kinds => processed[i][j].item > 0

\* A call that returns has used all it was given.
Consumed == outcome = "returned" => MediaOnly \/ \A kind \in Kinds : cursor[kind] = input.count[kind]

\* Where the elements around a splice come from, and where they go.
LEMMA SplicedPlaces ==
    ASSUME NEW S, NEW s \in Seq(S), NEW r \in Seq(S), NEW i, NEW L, Spliced(r, s, i, L)
    PROVE  /\ i \in 1 .. Len(r) /\ Len(r) \in Nat /\ Len(s) \in Nat /\ L \in Nat
           /\ DOMAIN r = 1 .. Len(r) /\ DOMAIN s = 1 .. Len(s)
           /\ \A j \in 1 .. Len(r) :
                 \/ j = i
                 \/ j < i /\ j \in 1 .. Len(s) /\ r[j] = s[j]
                 \/ j > i /\ j + L - 1 \in 1 .. Len(s) /\ r[j] = s[j + L - 1]
           /\ \A m \in 1 .. Len(s) :
                 \/ m < i /\ m \in 1 .. Len(r) /\ r[m] = s[m]
                 \/ m \in i .. i + L - 1
                 \/ m > i + L - 1 /\ m - L + 1 \in 1 .. Len(r) /\ m - L + 1 > i /\ r[m - L + 1] = s[m]
<1>1. /\ i \in Nat \ {0} /\ L \in Nat \ {0} /\ i + L - 1 <= Len(s)
      /\ Len(r) = Len(s) - L + 1
      /\ \A k \in 1 .. i - 1 : r[k] = s[k]
      /\ \A k \in i + 1 .. Len(r) : r[k] = s[k + L - 1]
  BY DEF Spliced
<1>2. Len(r) \in Nat /\ Len(s) \in Nat /\ DOMAIN r = 1 .. Len(r) /\ DOMAIN s = 1 .. Len(s)
  OBVIOUS
<1>3. i \in 1 .. Len(r)
  BY <1>1, <1>2
<1>4. ASSUME NEW j \in 1 .. Len(r)
      PROVE  \/ j = i
             \/ j < i /\ j \in 1 .. Len(s) /\ r[j] = s[j]
             \/ j > i /\ j + L - 1 \in 1 .. Len(s) /\ r[j] = s[j + L - 1]
  <2>1. CASE j < i
    <3>1. j \in 1 .. i - 1 /\ j \in 1 .. Len(s)
      BY <1>1, <1>2, <2>1
    <3> QED BY <1>1, <2>1, <3>1
  <2>2. CASE j > i
    <3>1. j \in i + 1 .. Len(r) /\ j + L - 1 \in 1 .. Len(s)
      BY <1>1, <1>2, <2>2
    <3> QED BY <1>1, <2>2, <3>1
  <2> QED BY <1>1, <1>2, <2>1, <2>2
<1>5. ASSUME NEW m \in 1 .. Len(s)
      PROVE  \/ m < i /\ m \in 1 .. Len(r) /\ r[m] = s[m]
             \/ m \in i .. i + L - 1
             \/ m > i + L - 1 /\ m - L + 1 \in 1 .. Len(r) /\ m - L + 1 > i /\ r[m - L + 1] = s[m]
  <2>1. CASE m < i
    <3>1. m \in 1 .. i - 1 /\ m \in 1 .. Len(r)
      BY <1>1, <1>2, <2>1
    <3> QED BY <1>1, <2>1, <3>1
  <2>2. CASE m > i + L - 1
    <3> DEFINE h == m - L + 1
    <3>1. h \in i + 1 .. Len(r) /\ h \in 1 .. Len(r) /\ h > i
      BY <1>1, <1>2, <2>2
    <3>2. h + L - 1 = m
      BY <1>1, <1>2
    <3> HIDE DEF h
    <3>3. r[h] = s[m]
      BY <1>1, <3>1, <3>2
    <3> QED BY <2>2, <3>1, <3>3 DEF h
  <2> QED BY <1>1, <1>2, <2>1, <2>2
<1> QED BY <1>1, <1>2, <1>3, <1>4, <1>5

LEMMA ShownOfFacts ==
    ASSUME NEW kind \in Kinds, NEW e \in Element
    PROVE  /\ ShownOf(kind, e) \in Nat
           /\ e.item = 0 /\ e.track = 0 => ShownOf(kind, e) = 0
BY DEF ShownOf, Element

\* The new element shows the medium the cursor was at, and the rest what it showed.
LEMMA PlaceShows ==
    ASSUME ExpandShape, TokensBare, NEW kind \in Kinds, NEW i, NEW L, PlaceStep(kind, i, L), NEW k \in Kinds
    PROVE  /\ \/ cursor'[k] = cursor[k] + 1 /\ ShownOf(k, sample'[i]) = cursor[k] + 1
              \/ cursor'[k] = cursor[k] /\ ShownOf(k, sample'[i]) = 0
           /\ SampleShows(k)' = SampleShows(k) \cup ({ShownOf(k, sample'[i])} \ {0})
           /\ \A m \in i .. i + L - 1 : m \in 1 .. Len(sample) => ShownOf(k, sample[m]) = 0
<1>1. /\ sample \in Seq(Element) /\ sample' \in Seq(Element)
      /\ Spliced(sample', sample, i, L) /\ sample'[i].tok = Placeholder[kind]
      /\ sample'[i].item = cursor[kind] + 1
      /\ sample'[i].track = IF kind = "video" /\ Vocal THEN cursor["audio"] + 1 ELSE 0
      /\ cursor'[kind] = cursor[kind] + 1
      /\ \A other \in Kinds : other # kind =>
            cursor'[other] = IF other = "audio" /\ kind = "video" /\ Vocal
                             THEN cursor[other] + 1 ELSE cursor[other]
  BY DEF ExpandShape, PlaceStep, Swapped
<1>2. \/ cursor'[k] = cursor[k] + 1 /\ ShownOf(k, sample'[i]) = cursor[k] + 1
      \/ cursor'[k] = cursor[k] /\ ShownOf(k, sample'[i]) = 0
  <2>1. CASE k = kind
    <3>1. ShownOf(k, sample'[i]) = sample'[i].item
      BY <1>1, <2>1 DEF ShownOf
    <3> QED BY <1>1, <2>1, <3>1
  <2>2. CASE k # kind
    <3>1. sample'[i].tok \notin {k, Placeholder[k]}
      BY <1>1, <2>2, KindFacts
    <3>2. ShownOf(k, sample'[i]) = IF k = "audio" THEN sample'[i].track ELSE 0
      BY <3>1 DEF ShownOf
    <3> QED BY <1>1, <2>2, <3>2
  <2> QED BY <2>1, <2>2
<1>3. /\ i \in 1 .. Len(sample') /\ DOMAIN sample' = 1 .. Len(sample') /\ DOMAIN sample = 1 .. Len(sample)
      /\ \A j \in 1 .. Len(sample') :
                 \/ j = i
                 \/ j < i /\ j \in 1 .. Len(sample) /\ sample'[j] = sample[j]
                 \/ j > i /\ j + L - 1 \in 1 .. Len(sample) /\ sample'[j] = sample[j + L - 1]
      /\ \A m \in 1 .. Len(sample) :
                 \/ m < i /\ m \in 1 .. Len(sample') /\ sample'[m] = sample[m]
                 \/ m \in i .. i + L - 1
                 \/ m > i + L - 1 /\ m - L + 1 \in 1 .. Len(sample') /\ m - L + 1 > i
                      /\ sample'[m - L + 1] = sample[m]
  BY <1>1, SplicedPlaces
<1>4. ASSUME NEW m \in i .. i + L - 1, m \in 1 .. Len(sample) PROVE ShownOf(k, sample[m]) = 0
  <2>1. sample[m].tok \in Tokens
    <3>0. i \in Nat
      BY <1>1 DEF Spliced
    <3>1. CASE L = 1 /\ sample[i].tok = kind
      <4>1. m = i
        BY <3>0, <3>1
      <4> QED BY <3>1, <4>1, KindFacts
    <3>2. CASE L = 3 /\ sample[i].tok = "vbos" /\ sample[i + 1].tok = "video" /\ sample[i + 2].tok = "veos"
      <4>1. m = i \/ m = i + 1 \/ m = i + 2
        BY <3>0, <3>2
      <4> QED BY <3>2, <4>1 DEF Tokens, Kinds
    <3> QED BY <3>1, <3>2 DEF PlaceStep, Swapped
  <2>2. sample[m] \in Element /\ sample[m].item = 0 /\ sample[m].track = 0
    BY <1>1, <1>3, <1>4, <2>1 DEF TokensBare
  <2> QED BY <2>2, ShownOfFacts
<1> DEFINE f(j) == ShownOf(k, sample[j])  g(j) == ShownOf(k, sample'[j])
<1>5. \A j \in 1 .. Len(sample') : j = i \/ \E m \in 1 .. Len(sample) : g(j) = f(m)
  BY <1>3
<1>6. \A m \in 1 .. Len(sample) : f(m) = 0 \/ \E j \in 1 .. Len(sample') : f(m) = g(j)
  BY <1>3, <1>4
<1>7. /\ SampleShows(k) = {f(j) : j \in 1 .. Len(sample)} \ {0}
      /\ SampleShows(k)' = {g(j) : j \in 1 .. Len(sample')} \ {0}
  BY <1>3 DEF SampleShows
<1> HIDE DEF f, g
<1>8. SampleShows(k)' = SampleShows(k) \cup ({g(i)} \ {0})
  BY <1>3, <1>5, <1>6, <1>7
<1> QED BY <1>2, <1>4, <1>8 DEF g

LEMMA PlaceShown ==
    ASSUME ExpandShape, TokensBare, ShownInv, NEW kind \in Kinds, NEW i, NEW L, PlaceStep(kind, i, L)
    PROVE  ShownInv'
<1>1. /\ stage = "scan" /\ stage' = stage /\ processed' = processed /\ outcome' = outcome
      /\ outcome = "running" /\ cursor \in [Kinds -> Nat]
  BY AtTokenFacts DEF PlaceStep, ExpandShape
<1>2. sample \in Seq(Element) /\ sample' \in Seq(Element) /\ Spliced(sample', sample, i, L)
  BY DEF PlaceStep, ExpandShape, Swapped
<1> SUFFICES ASSUME NEW k \in Kinds
             PROVE  /\ \E b \in Nat :
                          /\ b <= cursor'[k] /\ BatchShows(k)' = 1 .. b
                          /\ SampleShows(k)' = b + 1 .. cursor'[k]
                    /\ \A p, q \in Showing(k)' : ShownAt(k, p)' = ShownAt(k, q)' => p = q
                    /\ \A j, m \in DOMAIN sample' :
                          ShownOf(k, sample'[j]) > 0 /\ ShownOf(k, sample'[j]) = ShownOf(k, sample'[m])
                              => j = m
  BY <1>1 DEF ShownInv
<1>3. Showing(k)' = Showing(k) /\ BatchShows(k)' = BatchShows(k) /\ \A p : ShownAt(k, p)' = ShownAt(k, p)
  BY <1>1 DEF Showing, ShownAt, BatchShows
<1>4. PICK b \in Nat : /\ b <= cursor[k] /\ BatchShows(k) = 1 .. b
                       /\ SampleShows(k) = b + 1 .. cursor[k]
  BY <1>1 DEF ShownInv
<1> DEFINE x == ShownOf(k, sample'[i])
<1>5. /\ \/ cursor'[k] = cursor[k] + 1 /\ x = cursor[k] + 1
         \/ cursor'[k] = cursor[k] /\ x = 0
      /\ SampleShows(k)' = SampleShows(k) \cup ({x} \ {0})
      /\ \A m \in i .. i + L - 1 : m \in 1 .. Len(sample) => ShownOf(k, sample[m]) = 0
  BY PlaceShows
<1>6. cursor[k] \in Nat
  BY <1>1
<1>7. b <= cursor'[k] /\ SampleShows(k)' = b + 1 .. cursor'[k]
  <2> HIDE DEF x
  <2>1. CASE cursor'[k] = cursor[k] + 1 /\ x = cursor[k] + 1
    <3>1. b + 1 .. cursor'[k] = (b + 1 .. cursor[k]) \cup {x} /\ x # 0
      BY <1>4, <1>6, <2>1
    <3> QED BY <1>4, <1>5, <1>6, <2>1, <3>1
  <2>2. CASE cursor'[k] = cursor[k] /\ x = 0
    BY <1>4, <1>5, <2>2
  <2> QED BY <1>5, <2>1, <2>2
<1>8. x = 0 \/ x \notin SampleShows(k)
  <2> HIDE DEF x
  <2> QED BY <1>4, <1>5, <1>6
<1>9. /\ i \in 1 .. Len(sample') /\ L \in Nat /\ i \in Nat
      /\ DOMAIN sample' = 1 .. Len(sample') /\ DOMAIN sample = 1 .. Len(sample)
      /\ \A j \in 1 .. Len(sample') :
                 \/ j = i
                 \/ j < i /\ j \in 1 .. Len(sample) /\ sample'[j] = sample[j]
                 \/ j > i /\ j + L - 1 \in 1 .. Len(sample) /\ sample'[j] = sample[j + L - 1]
  BY <1>2, SplicedPlaces
<1>L. L >= 1
  BY <1>2 DEF Spliced
<1> DEFINE f(j) == ShownOf(k, sample[j])  g(j) == ShownOf(k, sample'[j])
<1>10. \A j, m \in 1 .. Len(sample) : f(j) > 0 /\ f(j) = f(m) => j = m
  BY <1>1, <1>9 DEF ShownInv
<1>11. \A j \in 1 .. Len(sample) : f(j) > 0 => f(j) \in SampleShows(k)
  <2>1. \A j \in 1 .. Len(sample) : f(j) \in Nat
    BY <1>2, <1>9, ShownOfFacts
  <2>2. \A n \in Nat : n > 0 => n # 0
    OBVIOUS
  <2> QED BY <1>9, <2>1, <2>2 DEF SampleShows
<1>12. \A j \in 1 .. Len(sample') :
                 \/ j = i
                 \/ j < i /\ j \in 1 .. Len(sample) /\ g(j) = f(j)
                 \/ j > i /\ j + L - 1 \in 1 .. Len(sample) /\ g(j) = f(j + L - 1)
  BY <1>9
<1>13. g(i) = x /\ x \in Nat
  BY <1>2, <1>9, ShownOfFacts
<1>14. \A j, m \in 1 .. Len(sample') : g(j) > 0 /\ g(j) = g(m) => j = m
  <2> HIDE DEF f, g, x
  <2> SUFFICES ASSUME NEW j \in 1 .. Len(sample'), NEW m \in 1 .. Len(sample'), g(j) > 0, g(j) = g(m)
               PROVE  j = m
    OBVIOUS
  <2>1. CASE j = i /\ m # i
    <3>1. PICK n \in 1 .. Len(sample) : g(m) = f(n)
      BY <1>12, <2>1
    <3>a. g(j) = x
      BY <1>13, <2>1
    <3>b. f(n) = x /\ f(n) > 0
      BY <3>1, <3>a
    <3>2. x \in SampleShows(k) /\ x # 0
      BY <1>11, <1>13, <3>b
    <3> QED BY <1>8, <3>2
  <2>2. CASE j # i /\ m = i
    <3>1. PICK n \in 1 .. Len(sample) : g(j) = f(n)
      BY <1>12, <2>2
    <3>2. x \in SampleShows(k) /\ x # 0
      BY <1>11, <1>13, <2>2, <3>1
    <3> QED BY <1>8, <3>2
  <2>3. CASE j # i /\ m # i
    <3>0. j \in Nat /\ m \in Nat
      OBVIOUS
    <3>1. CASE j < i /\ m < i
      BY <1>10, <1>12, <2>3, <3>0, <3>1, <1>9
    <3>2. CASE j > i /\ m > i
      <4>1. j + L - 1 = m + L - 1
        BY <1>10, <1>12, <2>3, <3>0, <3>2, <1>9
      <4> QED BY <4>1, <1>9, <3>0
    <3>3. CASE j < i /\ m > i
      <4>1. j = m + L - 1
        BY <1>10, <1>12, <2>3, <3>0, <3>3, <1>9
      <4> QED BY <4>1, <1>9, <1>L, <3>0, <3>3
    <3>4. CASE j > i /\ m < i
      <4>1. j + L - 1 = m
        BY <1>10, <1>12, <2>3, <3>0, <3>4, <1>9
      <4> QED BY <4>1, <1>9, <1>L, <3>0, <3>4
    <3> QED BY <1>9, <2>3, <3>0, <3>1, <3>2, <3>3, <3>4
  <2> QED BY <2>1, <2>2, <2>3
<1>15. \A p, q \in Showing(k)' : ShownAt(k, p)' = ShownAt(k, q)' => p = q
  BY <1>3 DEF ShownInv
<1> QED BY <1>3, <1>4, <1>7, <1>9, <1>14, <1>15

\* A prompt is added behind the others.
LEMMA AppendShows ==
    ASSUME processed \in Seq(Seq(Element)), NEW t \in Seq(Element), processed' = Append(processed, t),
           NEW k, NEW N \in Nat, N = Len(processed) + 1
    PROVE  /\ \A place : place \in Showing(k)'
                 <=> \/ place \in Showing(k)
                     \/ \E j \in DOMAIN t : place = <<N, j>> /\ Shown(k, t[j]) > 0
           /\ \A place \in Showing(k) : ShownAt(k, place)' = ShownAt(k, place) /\ place[1] \in 1 .. N - 1
           /\ \A j \in DOMAIN t : ShownAt(k, <<N, j>>)' = Shown(k, t[j])
<1> DEFINE n == Len(processed)
<1>1. /\ n \in Nat /\ DOMAIN processed = 1 .. n /\ DOMAIN processed' = 1 .. N
      /\ (\A i \in 1 .. n : processed'[i] = processed[i]) /\ processed'[N] = t
      /\ N \notin 1 .. n /\ 1 .. N = (1 .. n) \cup {N} /\ N - 1 = n
  OBVIOUS
<1> HIDE DEF n
<1>2. ASSUME NEW i \in 1 .. n, NEW j PROVE ShownAt(k, <<i, j>>)' = ShownAt(k, <<i, j>>)
  BY <1>1 DEF ShownAt
<1>3. ASSUME NEW j PROVE ShownAt(k, <<N, j>>)' = Shown(k, t[j])
  BY <1>1 DEF ShownAt
<1>4. ASSUME NEW place \in Showing(k) PROVE ShownAt(k, place)' = ShownAt(k, place) /\ place[1] \in 1 .. n
  <2>1. PICK i, j : i \in 1 .. n /\ place = <<i, j>>
    BY <1>1, PlacesMember DEF Showing
  <2> QED BY <1>2, <2>1
<1>5. ASSUME NEW place
      PROVE  place \in Showing(k)' <=> \/ place \in Showing(k)
                                       \/ \E j \in DOMAIN t : place = <<N, j>> /\ Shown(k, t[j]) > 0
  <2>1. place \in Showing(k)' <=> (\E i \in 1 .. N : \E j \in DOMAIN processed'[i] : place = <<i, j>>)
                                     /\ ShownAt(k, place)' > 0
    <3>1. Showing(k)' = {p \in Places(processed') : ShownAt(k, p)' > 0}
      BY DEF Showing
    <3>2. place \in Places(processed')
             <=> \E i \in DOMAIN processed' : \E j \in DOMAIN processed'[i] : place = <<i, j>>
      BY DEF Places
    <3> QED BY <1>1, <3>1, <3>2
  <2>2. place \in Showing(k) <=> (\E i \in 1 .. n : \E j \in DOMAIN processed[i] : place = <<i, j>>)
                                     /\ ShownAt(k, place) > 0
    BY <1>1, PlacesMember DEF Showing
  <2>3. (\E i \in 1 .. N : \E j \in DOMAIN processed'[i] : place = <<i, j>>)
          <=> \/ \E i \in 1 .. n : \E j \in DOMAIN processed[i] : place = <<i, j>>
              \/ \E j \in DOMAIN t : place = <<N, j>>
    BY <1>1
  <2>4. ASSUME NEW j \in DOMAIN t, place = <<N, j>> PROVE ShownAt(k, place)' = Shown(k, t[j])
    BY <1>3, <2>4
  <2>5. ASSUME NEW i \in 1 .. n, NEW j, place = <<i, j>> PROVE ShownAt(k, place)' = ShownAt(k, place)
    BY <1>2, <2>5
  <2> QED BY <2>1, <2>2, <2>3, <2>4, <2>5
<1> QED BY <1>1, <1>3, <1>4, <1>5

\* The restored sample shows what its placeholders stood for.
LEMMA RestoredShows ==
    ASSUME ExpandShape, TokensBare, Remaining, stage = "scan", positions = {}, NEW k \in Kinds
    PROVE  \A j \in 1 .. Len(sample) : Shown(k, TokensRestored[j]) = ShownOf(k, sample[j])
<1>1. sample \in Seq(Element) /\ DOMAIN sample = 1 .. Len(sample)
  BY DEF ExpandShape
<1> SUFFICES ASSUME NEW j \in 1 .. Len(sample) PROVE Shown(k, TokensRestored[j]) = ShownOf(k, sample[j])
  OBVIOUS
<1> DEFINE e == sample[j]  d == TokensRestored[j]
<1>2. e \in Element /\ e.tok \notin Kinds /\ e.tok \in AllToks
  <2>1. j \in DOMAIN sample /\ e \in Element
    BY <1>1
  <2>2. e.tok \notin Kinds
    BY <2>1, ScannedMarkers
  <2> QED BY <2>1, <2>2 DEF Element
<1>3. /\ d.item = e.item /\ d.track = e.track
      /\ e.tok \in Tokens => d.tok = e.tok
      /\ \A kind \in Kinds : e.tok = Placeholder[kind] => d.tok = kind
  BY <1>1, RestoredFacts
<1>4. CASE e.tok \in Tokens
  <2>1. d.tok # k /\ e.tok \notin {k, Placeholder[k]}
    BY <1>2, <1>3, <1>4, KindFacts
  <2> QED BY <1>3, <2>1 DEF Shown, ShownOf
<1>5. CASE e.tok \notin Tokens
  <2>1. PICK kind \in Kinds : e.tok = Placeholder[kind]
    BY <1>2, <1>5 DEF AllToks
  <2>2. d.tok = kind
    BY <1>3, <2>1
  <2>3. d.tok = k <=> e.tok \in {k, Placeholder[k]}
    BY <2>1, <2>2, KindFacts
  <2> QED BY <1>3, <2>3 DEF Shown, ShownOf
<1> QED BY <1>4, <1>5

LEMMA EndShown ==
    ASSUME ExpandShape, TokensBare, Remaining, ShownInv, EndSample
    PROVE  ShownInv'
<1>1. /\ stage = "scan" /\ positions = {} /\ processed' = Append(processed, TokensRestored)
      /\ cursor' = cursor /\ stage' \in {"next", "done"} /\ outcome' \in {outcome, "raised"}
      /\ outcome = "running" /\ processed \in Seq(Seq(Element)) /\ sample \in Seq(Element)
      /\ cursor \in [Kinds -> Nat]
  BY DEF EndSample, Raise, ExpandShape
<1> DEFINE n == Len(sample)
<1>N. PICK N \in Nat : N = Len(processed) + 1
  BY <1>1
<1>2. TokensRestored \in Seq(Element) /\ DOMAIN TokensRestored = 1 .. n /\ DOMAIN sample = 1 .. n
  BY <1>1, RestoredFacts
<1> SUFFICES ASSUME NEW k \in Kinds
             PROVE  /\ BatchShows(k)' = 1 .. cursor[k]
                    /\ \A p, q \in Showing(k)' : ShownAt(k, p)' = ShownAt(k, q)' => p = q
  <2>1. \A k \in Kinds : cursor'[k] \in Nat /\ cursor'[k] <= cursor'[k]
    BY <1>1
  <2>2. stage' # "scan"
    BY <1>1
  <2> QED BY <1>1, <2>1, <2>2 DEF ShownInv
<1>3. PICK b \in Nat : /\ b <= cursor[k] /\ BatchShows(k) = 1 .. b
                       /\ SampleShows(k) = b + 1 .. cursor[k]
  BY <1>1 DEF ShownInv
<1> DEFINE f(j) == ShownOf(k, sample[j])
<1>4. \A j \in 1 .. n : Shown(k, TokensRestored[j]) = f(j) /\ f(j) \in Nat
  <2>1. \A j \in 1 .. n : Shown(k, TokensRestored[j]) = f(j)
    BY <1>1, RestoredShows
  <2>2. \A j \in 1 .. n : sample[j] \in Element
    BY <1>1, <1>2
  <2>3. \A j \in 1 .. n : f(j) \in Nat
    BY <2>2, ShownOfFacts
  <2> QED BY <2>1, <2>3
<1>5. /\ \A place : place \in Showing(k)'
                 <=> place \in Showing(k) \/ \E j \in 1 .. n : place = <<N, j>> /\ f(j) > 0
      /\ \A place \in Showing(k) : ShownAt(k, place)' = ShownAt(k, place)
      /\ \A j \in 1 .. n : ShownAt(k, <<N, j>>)' = f(j)
  <2>1. PICK t \in Seq(Element) : t = TokensRestored
    BY <1>2
  <2>2. processed' = Append(processed, t) /\ DOMAIN t = 1 .. n /\ \A j \in 1 .. n : Shown(k, t[j]) = f(j)
    BY <1>1, <1>2, <1>4, <2>1
  <2> HIDE DEF f
  <2>3. /\ \A place : place \in Showing(k)'
                 <=> place \in Showing(k) \/ \E j \in DOMAIN t : place = <<N, j>> /\ Shown(k, t[j]) > 0
        /\ \A place \in Showing(k) : ShownAt(k, place)' = ShownAt(k, place)
        /\ \A j \in DOMAIN t : ShownAt(k, <<N, j>>)' = Shown(k, t[j])
    BY <1>1, <1>N, <2>2, AppendShows
  <2> QED BY <2>2, <2>3
<1>6. SampleShows(k) = {f(j) : j \in 1 .. n} \ {0}
  BY <1>2 DEF SampleShows
<1>7. \A j, m \in 1 .. n : f(j) > 0 /\ f(j) = f(m) => j = m
  BY <1>1, <1>2 DEF ShownInv
<1>8. \A j \in 1 .. n : f(j) > 0 => f(j) \in b + 1 .. cursor[k]
  <2> HIDE DEF f
  <2> QED BY <1>3, <1>4, <1>6
<1>9. \A x \in b + 1 .. cursor[k] : \E j \in 1 .. n : f(j) = x /\ f(j) > 0
  <2> HIDE DEF f
  <2> QED BY <1>3, <1>4, <1>6
<1>10. \A place \in Showing(k) : ShownAt(k, place) \in 1 .. b
  BY <1>3 DEF BatchShows
<1>11. \A x \in 1 .. b : \E place \in Showing(k) : ShownAt(k, place) = x
  BY <1>3 DEF BatchShows
<1> HIDE DEF f
<1>c. cursor[k] \in Nat
  BY <1>1
<1>12. \A place \in Showing(k)' : ShownAt(k, place)' \in 1 .. cursor[k]
  BY <1>3, <1>5, <1>8, <1>10, <1>c
<1>13. \A x \in 1 .. cursor[k] : \E place \in Showing(k)' : ShownAt(k, place)' = x
  <2> SUFFICES ASSUME NEW x \in 1 .. cursor[k] PROVE \E place \in Showing(k)' : ShownAt(k, place)' = x
    OBVIOUS
  <2>1. CASE x <= b
    <3>1. x \in 1 .. b
      BY <1>3, <1>c, <2>1
    <3> QED BY <1>5, <1>11, <3>1
  <2>2. CASE ~(x <= b)
    <3>1. x \in b + 1 .. cursor[k]
      BY <1>3, <1>c, <2>2
    <3> QED BY <1>5, <1>9, <3>1
  <2> QED BY <2>1, <2>2
<1>14. BatchShows(k)' = 1 .. cursor[k]
  BY <1>12, <1>13 DEF BatchShows
<1>15. \A p, q \in Showing(k)' : ShownAt(k, p)' = ShownAt(k, q)' => p = q
  <2> SUFFICES ASSUME NEW p, NEW q, p \in Showing(k)', q \in Showing(k)', ShownAt(k, p)' = ShownAt(k, q)'
               PROVE  p = q
    OBVIOUS
  <2>1. \A y \in 1 .. b : \A z \in b + 1 .. cursor[k] : y # z
    BY <1>3, <1>c
  <2>2. \A y, z \in Showing(k) : ShownAt(k, y) = ShownAt(k, z) => y = z
    BY DEF ShownInv
  <2>3. CASE p \in Showing(k) /\ q \in Showing(k)
    BY <1>5, <2>2, <2>3
  <2>4. CASE p \in Showing(k) /\ q \notin Showing(k)
    <3>1. PICK j \in 1 .. n : q = <<N, j>> /\ f(j) > 0
      BY <1>5, <2>4
    <3> QED BY <1>5, <1>8, <1>10, <2>1, <2>4, <3>1
  <2>5. CASE p \notin Showing(k) /\ q \in Showing(k)
    <3>1. PICK j \in 1 .. n : p = <<N, j>> /\ f(j) > 0
      BY <1>5, <2>5
    <3> QED BY <1>5, <1>8, <1>10, <2>1, <2>5, <3>1
  <2>6. CASE p \notin Showing(k) /\ q \notin Showing(k)
    <3>1. PICK j \in 1 .. n : p = <<N, j>> /\ f(j) > 0
      BY <1>5, <2>6
    <3>2. PICK m \in 1 .. n : q = <<N, m>> /\ f(m) > 0
      BY <1>5, <2>6
    <3> QED BY <1>5, <1>7, <3>1, <3>2
  <2> QED BY <2>3, <2>4, <2>5, <2>6
<1> QED BY <1>14, <1>15

LEMMA BeginShown ==
    ASSUME ExpandShape, ShownInv, BeginSample
    PROVE  ShownInv'
<1>1. /\ stage = "next" /\ stage' = "scan" /\ processed' = processed /\ cursor' = cursor
      /\ outcome' = outcome /\ outcome = "running" /\ cursor \in [Kinds -> Nat]
  BY DEF BeginSample, ExpandShape
<1>2. /\ Cur' \in Seq(Tokens) /\ Len(sample') = Len(Cur') /\ sample' \in Seq(Element)
      /\ \A k \in 1 .. Len(Cur') : sample'[k] = Raw(Cur'[k])
  BY BeginFacts DEF ExpandShape
<1>3. \A k \in DOMAIN sample' : sample'[k] \in Element /\ sample'[k].item = 0 /\ sample'[k].track = 0
  <2> SUFFICES ASSUME NEW k \in 1 .. Len(sample')
               PROVE  sample'[k] \in Element /\ sample'[k].item = 0 /\ sample'[k].track = 0
    BY <1>2
  <2>1. sample'[k] = [tok |-> Cur'[k], item |-> 0, track |-> 0]
    BY <1>2 DEF Raw
  <2> QED BY <1>2, <2>1
<1> SUFFICES ASSUME NEW kind \in Kinds
             PROVE  /\ \E b \in Nat :
                          /\ b <= cursor[kind] /\ BatchShows(kind)' = 1 .. b
                          /\ SampleShows(kind)' = b + 1 .. cursor[kind]
                    /\ \A p, q \in Showing(kind)' : ShownAt(kind, p)' = ShownAt(kind, q)' => p = q
                    /\ \A j, k \in DOMAIN sample' : ~(ShownOf(kind, sample'[j]) > 0)
  BY <1>1 DEF ShownInv
<1>4. /\ Showing(kind)' = Showing(kind) /\ BatchShows(kind)' = BatchShows(kind)
      /\ \A p : ShownAt(kind, p)' = ShownAt(kind, p)
  BY <1>1 DEF Showing, ShownAt, BatchShows
<1>5. BatchShows(kind) = 1 .. cursor[kind] /\ cursor[kind] \in Nat
  BY <1>1 DEF ShownInv
<1>6. \A j \in DOMAIN sample' : ShownOf(kind, sample'[j]) = 0
  BY <1>3, ShownOfFacts
<1>7. SampleShows(kind)' = {}
  BY <1>6 DEF SampleShows
<1>8. cursor[kind] + 1 .. cursor[kind] = {} /\ cursor[kind] <= cursor[kind] /\ ~(0 > 0)
  BY <1>5
<1>9. \A p, q \in Showing(kind)' : ShownAt(kind, p)' = ShownAt(kind, q)' => p = q
  BY <1>4 DEF ShownInv
<1> QED BY <1>4, <1>5, <1>6, <1>7, <1>8, <1>9

LEMMA OtherShown ==
    ASSUME ExpandShape, ShownInv, RaiseShort \/ FinishCall \/ UNCHANGED expandVars
    PROVE  ShownInv'
<1>1. /\ UNCHANGED <<sample, processed, cursor>>
      /\ stage' \in {"done", stage}
      /\ stage' # stage => outcome' # "returned" \/ stage = "next"
      /\ stage' = stage => outcome' = outcome \/ outcome' # "returned"
  BY DEF RaiseShort, FinishCall, Raise, expandVars
<1> SUFFICES ASSUME NEW kind \in Kinds
             PROVE  /\ \E b \in Nat :
                          /\ b <= cursor'[kind] /\ BatchShows(kind)' = 1 .. b
                          /\ stage' = "scan" => SampleShows(kind)' = b + 1 .. cursor'[kind]
                          /\ stage' = "next" \/ outcome' = "returned" => b = cursor'[kind]
                    /\ \A p, q \in Showing(kind)' : ShownAt(kind, p)' = ShownAt(kind, q)' => p = q
                    /\ stage' = "scan" =>
                          \A j, k \in DOMAIN sample' :
                              (/\ ShownOf(kind, sample'[j]) > 0
                               /\ ShownOf(kind, sample'[j]) = ShownOf(kind, sample'[k])) => j = k
  BY DEF ShownInv
<1>2. /\ Showing(kind)' = Showing(kind) /\ BatchShows(kind)' = BatchShows(kind)
      /\ SampleShows(kind)' = SampleShows(kind) /\ \A p : ShownAt(kind, p)' = ShownAt(kind, p)
  BY <1>1 DEF Showing, ShownAt, BatchShows, SampleShows
<1>3. PICK b \in Nat :
              /\ b <= cursor[kind] /\ BatchShows(kind) = 1 .. b
              /\ stage = "scan" => SampleShows(kind) = b + 1 .. cursor[kind]
              /\ stage = "next" \/ outcome = "returned" => b = cursor[kind]
  BY DEF ShownInv
<1>4. /\ stage' = "scan" => stage = "scan"
      /\ stage' = "next" \/ outcome' = "returned" => stage = "next" \/ outcome = "returned"
  BY <1>1
<1>5. /\ b <= cursor'[kind] /\ BatchShows(kind)' = 1 .. b
      /\ stage' = "scan" => SampleShows(kind)' = b + 1 .. cursor'[kind]
      /\ stage' = "next" \/ outcome' = "returned" => b = cursor'[kind]
  BY <1>1, <1>2, <1>3, <1>4
<1>6. \A p, q \in Showing(kind)' : ShownAt(kind, p)' = ShownAt(kind, q)' => p = q
  BY <1>2 DEF ShownInv
<1>7. stage' = "scan" =>
          \A j, k \in DOMAIN sample' :
              ShownOf(kind, sample'[j]) > 0 /\ ShownOf(kind, sample'[j]) = ShownOf(kind, sample'[k]) => j = k
  <2>1. stage = "scan" =>
            \A j, k \in DOMAIN sample :
                ShownOf(kind, sample[j]) > 0 /\ ShownOf(kind, sample[j]) = ShownOf(kind, sample[k]) => j = k
    BY DEF ShownInv
  <2>2. sample' = sample
    BY <1>1
  <2> QED BY <1>4, <2>1, <2>2
<1> QED BY <1>5, <1>6, <1>7

LEMMA PlaceCarries ==
    ASSUME ExpandShape, Carries, NEW kind \in Kinds, NEW i, NEW L, PlaceStep(kind, i, L)
    PROVE  Carries'
<1>1. /\ sample \in Seq(Element) /\ sample' \in Seq(Element) /\ Spliced(sample', sample, i, L)
      /\ sample'[i].item = cursor[kind] + 1 /\ cursor[kind] \in Nat /\ processed' = processed
  BY DEF ExpandShape, PlaceStep, Swapped
<1>2. /\ DOMAIN sample' = 1 .. Len(sample') /\ DOMAIN sample = 1 .. Len(sample)
      /\ \A j \in 1 .. Len(sample') :
                 \/ j = i
                 \/ j < i /\ j \in 1 .. Len(sample) /\ sample'[j] = sample[j]
                 \/ j > i /\ j + L - 1 \in 1 .. Len(sample) /\ sample'[j] = sample[j + L - 1]
  BY <1>1, SplicedPlaces
<1>3. sample'[i].item > 0
  BY <1>1
<1>4. \A j \in DOMAIN sample' : sample'[j].tok \notin Tokens => sample'[j].item > 0
  <2> SUFFICES ASSUME NEW j \in 1 .. Len(sample'), sample'[j].tok \notin Tokens PROVE sample'[j].item > 0
    BY <1>2
  <2>1. j = i \/ \E m \in DOMAIN sample : sample'[j] = sample[m]
    BY <1>2
  <2> QED BY <1>3, <2>1 DEF Carries
<1> QED BY <1>1, <1>4 DEF Carries

LEMMA EndCarries ==
    ASSUME ExpandShape, TokensBare, Remaining, Carries, EndSample
    PROVE  Carries'
<1>1. /\ stage = "scan" /\ positions = {} /\ processed' = Append(processed, TokensRestored)
      /\ sample' = sample /\ sample \in Seq(Element) /\ processed \in Seq(Seq(Element))
  BY DEF EndSample, Raise, ExpandShape
<1>2. /\ TokensRestored \in Seq(Element) /\ DOMAIN TokensRestored = 1 .. Len(sample)
      /\ DOMAIN sample = 1 .. Len(sample)
      /\ \A k \in 1 .. Len(sample) :
            /\ TokensRestored[k].item = sample[k].item
            /\ sample[k].tok \in Tokens => TokensRestored[k].tok = sample[k].tok
  BY <1>1, RestoredFacts
<1>3. \A k \in DOMAIN TokensRestored : TokensRestored[k].tok \in Kinds => TokensRestored[k].item > 0
  <2> SUFFICES ASSUME NEW k \in 1 .. Len(sample), TokensRestored[k].tok \in Kinds
               PROVE  sample[k].item > 0
    BY <1>2
  <2>1. sample[k].tok \notin Kinds
    BY <1>1, <1>2, ScannedMarkers
  <2>2. sample[k].tok \notin Tokens
    BY <1>2, <2>1
  <2> QED BY <1>2, <2>2 DEF Carries
<1>4. /\ DOMAIN processed = 1 .. Len(processed) /\ DOMAIN processed' = 1 .. Len(processed) + 1
      /\ \A i \in 1 .. Len(processed) : processed'[i] = processed[i]
      /\ processed'[Len(processed) + 1] = TokensRestored
      /\ \A i \in 1 .. Len(processed) + 1 : i \in 1 .. Len(processed) \/ i = Len(processed) + 1
  BY <1>1, <1>2
<1>5. \A i \in DOMAIN processed' : \A j \in DOMAIN processed'[i] :
          processed'[i][j].tok \in Kinds => processed'[i][j].item > 0
  BY <1>3, <1>4 DEF Carries
<1> QED BY <1>1, <1>5 DEF Carries

LEMMA BeginCarries ==
    ASSUME ExpandShape, Carries, BeginSample
    PROVE  Carries'
<1>1. /\ processed' = processed /\ Cur' \in Seq(Tokens) /\ Len(sample') = Len(Cur') /\ sample' \in Seq(Element)
      /\ \A k \in 1 .. Len(Cur') : sample'[k] = Raw(Cur'[k])
  BY BeginFacts DEF ExpandShape, BeginSample
<1>2. \A k \in DOMAIN sample' : sample'[k].tok \in Tokens
  <2> SUFFICES ASSUME NEW k \in 1 .. Len(Cur') PROVE sample'[k].tok \in Tokens
    BY <1>1
  <2>0. sample'[k] = Raw(Cur'[k])
    BY <1>1
  <2>1. sample'[k].tok = Cur'[k]
    BY <2>0 DEF Raw
  <2> QED BY <1>1, <2>1
<1> QED BY <1>1, <1>2 DEF Carries

PlacedInv == OutcomeInv /\ ShownInv /\ Carries /\ Consumed

LEMMA PlacedStarts == ExpandInit => PlacedInv
<1> SUFFICES ASSUME ExpandInit PROVE PlacedInv
  OBVIOUS
<1>1. OutcomeInv /\ Consumed /\ Carries
  BY OutcomeStarts DEF ExpandInit, Consumed, Carries
<1>2. \A kind \in Kinds : Showing(kind) = {} /\ cursor[kind] = 0
  BY PlacesMember DEF ExpandInit, Showing
<1>3. \A kind \in Kinds : BatchShows(kind) = 1 .. 0
  BY <1>2 DEF BatchShows
<1>4. stage = "next"
  BY DEF ExpandInit
<1>5. \A kind \in Kinds : 0 \in Nat /\ 0 <= cursor[kind] /\ 0 = cursor[kind]
  BY <1>2
<1>6. ShownInv
  BY <1>2, <1>3, <1>4, <1>5, Zenon DEF ShownInv
<1> QED BY <1>1, <1>6 DEF PlacedInv

LEMMA PlacedSteps == PlacedInv /\ [ExpandNext]_expandVars => PlacedInv'
<1> SUFFICES ASSUME PlacedInv, [ExpandNext]_expandVars PROVE PlacedInv'
  OBVIOUS
<1>1. OutcomeInv' /\ ExpandShape /\ TokensBare /\ Remaining /\ ShownInv /\ Carries /\ Consumed
  BY OutcomeSteps DEF PlacedInv, OutcomeInv
<1> SUFFICES ShownInv' /\ Carries' /\ Consumed'
  BY <1>1 DEF PlacedInv
<1>2. CASE BeginSample
  <2>1. ShownInv' /\ Carries'
    BY <1>1, <1>2, BeginShown, BeginCarries
  <2>2. outcome' # "returned"
    BY <1>1, <1>2 DEF BeginSample, ExpandShape
  <2> QED BY <2>1, <2>2 DEF Consumed
<1>3. ASSUME NEW kind \in Kinds, NEW i, NEW L, PlaceStep(kind, i, L)
      PROVE  ShownInv' /\ Carries' /\ Consumed'
  <2>1. ShownInv' /\ Carries'
    BY <1>1, <1>3, PlaceShown, PlaceCarries
  <2>2. outcome' # "returned"
    BY <1>1, <1>3 DEF PlaceStep, AtToken, ExpandShape
  <2> QED BY <2>1, <2>2 DEF Consumed
<1>4. CASE \E kind \in {"audio", "image"} : PlaceClip(kind)
  <2>1. \E kind \in Kinds : \E i, L : PlaceStep(kind, i, L)
    BY <1>1, <1>4, ClipPlaces DEF Kinds
  <2> QED BY <1>3, <2>1
<1>5. CASE PlaceVideo
  <2>1. "video" \in Kinds /\ \E i, L : PlaceStep("video", i, L)
    BY <1>1, <1>5, VideoPlaces DEF Kinds
  <2> QED BY <1>3, <2>1
<1>6. CASE EndSample
  <2>1. ShownInv' /\ Carries'
    BY <1>1, <1>6, EndShown, EndCarries
  <2>2. outcome' # "returned"
    BY <1>1, <1>6 DEF EndSample, Raise, ExpandShape
  <2> QED BY <2>1, <2>2 DEF Consumed
<1>7. CASE RaiseShort \/ FinishCall \/ UNCHANGED expandVars
  <2>1. ShownInv'
    BY <1>1, <1>7, OtherShown
  <2>2. UNCHANGED <<sample, processed, cursor, input>>
    BY <1>7 DEF RaiseShort, FinishCall, Raise, expandVars
  <2>3. Carries'
    BY <1>1, <2>2 DEF Carries
  <2>4. Consumed'
    <3>1. outcome' = "returned" => outcome = "returned" \/ MediaOnly \/ ~Unconsumed
      BY <1>7 DEF RaiseShort, FinishCall, Raise, expandVars
    <3>2. MediaOnly' <=> MediaOnly
      BY <2>2 DEF MediaOnly
    <3> QED BY <1>1, <2>2, <3>1, <3>2 DEF Consumed, Unconsumed
  <2> QED BY <2>1, <2>3, <2>4
<1> QED BY <1>2, <1>4, <1>5, <1>6, <1>7 DEF ExpandNext

\* For any prompts, batch and numbers of media, a call that returns with a prompt has
\* placed every medium and every track exactly once, wherever the text search of
\* replace_multimodal_special_tokens put it, and no media token is left over.
THEOREM EveryMediumPlacedOnceHolds == ExpandSpec => []EveryMediumPlacedOnce
<1>1. ASSUME PlacedInv PROVE EveryMediumPlacedOnce
  <2>1. ShownInv /\ Carries /\ Consumed
    BY <1>1 DEF PlacedInv
  <2> SUFFICES ASSUME outcome = "returned", \E i \in DOMAIN input.text : input.text[i] # <<>>
               PROVE  /\ \A kind \in Kinds :
                            /\ {ShownAt(kind, place) : place \in Showing(kind)} = 1 .. input.count[kind]
                            /\ \A p, q \in Showing(kind) : ShownAt(kind, p) = ShownAt(kind, q) => p = q
                      /\ \A i \in DOMAIN processed : \A j \in DOMAIN processed[i] :
                            processed[i][j].tok \in Kinds => processed[i][j].item > 0
    BY DEF EveryMediumPlacedOnce
  <2>2. \A kind \in Kinds : cursor[kind] = input.count[kind]
    BY <2>1 DEF Consumed, MediaOnly
  <2>3. \A kind \in Kinds : BatchShows(kind) = 1 .. cursor[kind]
    BY <2>1 DEF ShownInv
  <2>4. \A kind \in Kinds : {ShownAt(kind, place) : place \in Showing(kind)} = 1 .. input.count[kind]
    BY <2>2, <2>3 DEF BatchShows
  <2> QED BY <2>1, <2>4 DEF ShownInv, Carries
<1> QED BY <1>1, PlacedStarts, PlacedSteps, PTL DEF ExpandSpec

-----------------------------------------------------------------------------
(* The order of the media.                                                 *)

AllPlain == \A i \in DOMAIN input.text : ~Mixed(input.text[i])

\* From place m on the sample is its text, d places further; before m nothing is left
\* to be replaced, and the scan is there too.
Aligned(m, d) ==
    /\ m \in 1 .. Len(sample) + 1 /\ d \in Nat /\ Len(sample) + d = Len(Cur)
    /\ \A k \in m .. Len(sample) : sample[k].tok = Cur[k + d]
    /\ \A k \in 1 .. m - 1 : sample[k].tok \notin Kinds
    /\ positions = {p \in DOMAIN Cur : p >= m + d /\ Cur[p] \in Kinds}
    /\ m > 1 => sample[m - 1].tok \notin Tokens
    /\ m + d > 1 => Cur[m + d - 1] # "vbos"

\* The media of a kind stand in order, in the sample and in the prompts behind it.
SampleOrdered(kind) ==
    \A j, k \in DOMAIN sample :
        j < k /\ ShownOf(kind, sample[j]) > 0 /\ ShownOf(kind, sample[k]) > 0
            => ShownOf(kind, sample[j]) < ShownOf(kind, sample[k])
BatchOrdered(kind) ==
    \A p, q \in Showing(kind) : Earlier(p, q) => ShownAt(kind, p) < ShownAt(kind, q)

Ordered ==
    AllPlain =>
        /\ \A kind \in Kinds : BatchOrdered(kind)
        /\ stage = "scan" =>
              (\E m, d : Aligned(m, d)) /\ (\A kind \in Kinds : SampleOrdered(kind))

\* The text search finds the token the scan is at: the first of its kind ...
LEMMA FindsSingle ==
    ASSUME ExpandShape, NEW m, NEW d, Aligned(m, d), NEW kind \in Kinds, AtToken(kind),
           NEW i \in 1 .. Len(sample), sample[i].tok = kind,
           \A k \in 1 .. Len(sample) : sample[k].tok = kind => i <= k
    PROVE  i + d = Min(positions) /\ i >= m
<1> DEFINE q == Min(positions)
           n == Len(sample)
<1>1. /\ DOMAIN Cur = 1 .. Len(Cur) /\ Len(Cur) \in Nat
      /\ q \in positions /\ q \in DOMAIN Cur /\ Cur[q] = kind /\ \A p \in positions : q <= p
  BY AtTokenFacts
<1>2. n \in Nat
  BY DEF ExpandShape
<1>3. /\ m \in 1 .. n + 1 /\ d \in Nat /\ n + d = Len(Cur)
      /\ \A k \in m .. n : sample[k].tok = Cur[k + d]
      /\ \A k \in 1 .. m - 1 : sample[k].tok \notin Kinds
      /\ positions = {p \in DOMAIN Cur : p >= m + d /\ Cur[p] \in Kinds}
  BY DEF Aligned
<1> HIDE DEF q, n
<1>4. i \in 1 .. n
  BY DEF n
<1>5. i >= m
  <2> SUFFICES ASSUME i < m PROVE FALSE
    BY <1>2, <1>3, <1>4
  <2>1. i \in 1 .. m - 1
    BY <1>2, <1>3, <1>4
  <2> QED BY <1>3, <2>1
<1>6. i + d >= q
  <2>1. i \in m .. n /\ i + d \in 1 .. Len(Cur) /\ i + d >= m + d
    BY <1>2, <1>3, <1>4, <1>5
  <2>2. i + d \in positions
    BY <1>1, <1>3, <2>1
  <2> QED BY <1>1, <1>3, <1>4, <2>2
<1>7. i <= q - d
  <2>1. q >= m + d /\ q <= Len(Cur) /\ q \in Nat
    BY <1>1, <1>3
  <2>2. q - d \in m .. n /\ q - d \in 1 .. n /\ (q - d) + d = q
    BY <1>2, <1>3, <2>1
  <2>3. sample[q - d].tok = kind
    BY <1>1, <1>3, <2>2
  <2> QED BY <2>2, <2>3 DEF n
<1>8. i + d = q
  BY <1>1, <1>2, <1>3, <1>4, <1>6, <1>7
<1> QED BY <1>5, <1>8 DEF q

\* ... or, of a video, the first wrapped one.
LEMMA FindsVideo ==
    ASSUME ExpandShape, NEW m, NEW d, Aligned(m, d), AtToken("video"), ~Mixed(Cur),
           NEW i \in 1 .. Len(sample), NEW L, sample[i].tok = "video" \/ L # 1,
           LET W == Matches(Wrapped, Toks(sample)) IN
              /\ W # {} => L = 3 /\ i \in W /\ \A k \in W : i <= k
              /\ W = {} => L = 1 /\ \A k \in 1 .. Len(sample) : sample[k].tok = "video" => i <= k
    PROVE  /\ i >= m
           /\ \/ L = 1 /\ i + d = Min(positions)
              \/ /\ L = 3 /\ i + 1 + d = Min(positions)
                 /\ Min(positions) + 1 \in DOMAIN Cur /\ Cur[Min(positions) + 1] = "veos"
<1> DEFINE q == Min(positions)
           n == Len(sample)
           W == Matches(Wrapped, Toks(sample))
<1>0. "video" \in Kinds
  BY DEF Kinds
<1>1. /\ Cur \in Seq(Tokens) /\ DOMAIN Cur = 1 .. Len(Cur) /\ Len(Cur) \in Nat
      /\ q \in positions /\ q \in DOMAIN Cur /\ Cur[q] = "video" /\ \A p \in positions : q <= p
  BY <1>0, AtTokenFacts
<1>2. sample \in Seq(Element) /\ n \in Nat
  BY DEF ExpandShape
<1>3. /\ m \in 1 .. n + 1 /\ d \in Nat /\ n + d = Len(Cur)
      /\ \A k \in m .. n : sample[k].tok = Cur[k + d]
      /\ \A k \in 1 .. m - 1 : sample[k].tok \notin Kinds
      /\ positions = {p \in DOMAIN Cur : p >= m + d /\ Cur[p] \in Kinds}
      /\ m > 1 => sample[m - 1].tok \notin Tokens
      /\ m + d > 1 => Cur[m + d - 1] # "vbos"
  BY DEF Aligned
<1>4. /\ Toks(sample) \in Seq(AllToks) /\ Len(Toks(sample)) = n
      /\ \A k \in 1 .. n : Toks(sample)[k] = sample[k].tok
  BY <1>2, ToksFacts
<1>w. W = {k \in 1 .. n - 2 : /\ sample[k].tok = "vbos" /\ sample[k + 1].tok = "video"
                              /\ sample[k + 2].tok = "veos"}
  <2>1. W = {k \in 1 .. n - 2 : /\ Toks(sample)[k] = "vbos" /\ Toks(sample)[k + 1] = "video"
                                /\ Toks(sample)[k + 2] = "veos"}
    BY <1>4, MatchesWrapped
  <2>2. \A k \in 1 .. n - 2 : k \in 1 .. n /\ k + 1 \in 1 .. n /\ k + 2 \in 1 .. n
    BY <1>2
  <2> QED BY <1>4, <2>1, <2>2
<1>v. Matches(Wrapped, Cur)
        = {k \in 1 .. Len(Cur) - 2 : Cur[k] = "vbos" /\ Cur[k + 1] = "video" /\ Cur[k + 2] = "veos"}
  BY <1>1, MatchesWrapped
<1>p. q >= m + d /\ q <= Len(Cur) /\ q \in Nat /\ q >= 1 /\ m \in Nat /\ m >= 1 /\ m <= n + 1
  BY <1>1, <1>2, <1>3
<1>i. i \in 1 .. n
  OBVIOUS
<1> HIDE DEF q, n, W
\* A video token of the sample is at or behind m, at a position still to be visited.
<1>5. ASSUME NEW k \in 1 .. n, sample[k].tok = "video"
      PROVE  k >= m /\ k + d >= q /\ Cur[k + d] = "video"
  <2>1. k >= m
    <3> SUFFICES ASSUME k < m PROVE FALSE
      BY <1>p
    <3>1. k \in 1 .. m - 1
      BY <1>p
    <3> QED BY <1>0, <1>3, <1>5, <3>1
  <2>2. k \in m .. n /\ k + d \in 1 .. Len(Cur) /\ k + d >= m + d
    BY <1>2, <1>3, <1>p, <2>1
  <2>3. Cur[k + d] = "video"
    BY <1>3, <1>5, <2>2
  <2>4. k + d \in positions
    BY <1>0, <1>1, <1>3, <2>2, <2>3
  <2> QED BY <1>1, <2>1, <2>3, <2>4
<1>6. CASE Matches(Wrapped, Cur) = {}
  <2>1. W = {}
    <3> SUFFICES ASSUME NEW k \in W PROVE FALSE
      OBVIOUS
    <3>1. /\ k \in 1 .. n - 2 /\ sample[k].tok = "vbos" /\ sample[k + 1].tok = "video"
          /\ sample[k + 2].tok = "veos"
      BY <1>w
    <3>2. k + 1 \in 1 .. n /\ k \in Nat /\ k >= 1 /\ k + 2 <= n
      BY <1>2, <3>1
    <3>3. k + 1 >= m /\ Cur[(k + 1) + d] = "video"
      BY <1>5, <3>1, <3>2
    <3>4. CASE k >= m
      <4>1. k \in m .. n /\ k + 2 \in m .. n
        BY <1>2, <1>p, <3>2, <3>4
      <4>2. Cur[k + d] = "vbos" /\ Cur[(k + 2) + d] = "veos"
        BY <1>3, <3>1, <4>1
      <4>3. k + d \in 1 .. Len(Cur) - 2 /\ (k + d) + 1 = (k + 1) + d /\ (k + d) + 2 = (k + 2) + d
        BY <1>1, <1>2, <1>3, <3>2
      <4>4. k + d \in Matches(Wrapped, Cur)
        BY <1>v, <3>3, <4>2, <4>3
      <4> QED BY <1>6, <4>4
    <3>5. CASE ~(k >= m)
      <4>1. m - 1 = k /\ m > 1
        BY <1>p, <3>2, <3>3, <3>5
      <4>2. "vbos" \in Tokens
        BY DEF Tokens
      <4> QED BY <1>3, <3>1, <4>1, <4>2
    <3> QED BY <3>4, <3>5
  <2>2. L = 1 /\ (\A k \in 1 .. n : sample[k].tok = "video" => i <= k) /\ sample[i].tok = "video"
    BY <2>1 DEF W, n
  <2>3. i + d = Min(positions) /\ i >= m
    BY <1>0, <2>2, FindsSingle DEF n
  <2> QED BY <2>2, <2>3
<1>7. CASE Matches(Wrapped, Cur) # {}
  <2>1. q - 1 \in Matches(Wrapped, Cur)
    BY <1>1, <1>7 DEF Mixed
  <2>2. q - 1 \in 1 .. Len(Cur) - 2 /\ Cur[q - 1] = "vbos" /\ Cur[(q - 1) + 2] = "veos"
    BY <1>v, <2>1
  <2>3. (q - 1) + 2 = q + 1 /\ q >= 2 /\ q + 1 <= Len(Cur)
    BY <1>1, <1>p, <2>2
  <2>4. q - 1 >= m + d
    <3> SUFFICES ASSUME q = m + d PROVE FALSE
      BY <1>3, <1>p
    <3>1. m + d > 1 /\ m + d - 1 = q - 1
      BY <1>3, <1>p, <2>3
    <3> QED BY <1>3, <2>2, <3>1
  <2> DEFINE h == q - 1 - d
  <2>5. /\ h \in m .. n /\ h + 1 \in m .. n /\ h + 2 \in m .. n /\ h \in 1 .. n - 2
        /\ h + d = q - 1 /\ (h + 1) + d = q /\ (h + 2) + d = q + 1
    <3>1. d \in Nat /\ n + d = Len(Cur) /\ q \in Nat /\ m \in Nat /\ m >= 1 /\ n \in Nat
      BY <1>2, <1>3, <1>p
    <3>2. h \in Int /\ h + d = q - 1 /\ (h + 1) + d = q /\ (h + 2) + d = q + 1
      BY <3>1
    <3>3. h >= m
      BY <2>4, <3>1
    <3>4. h + 2 <= n
      BY <2>3, <3>1
    <3> HIDE DEF h
    <3> QED BY <3>1, <3>2, <3>3, <3>4
  <2> HIDE DEF h
  <2>6. sample[h].tok = "vbos" /\ sample[h + 1].tok = "video" /\ sample[h + 2].tok = "veos"
    BY <1>1, <1>3, <2>2, <2>3, <2>5
  <2>7. h \in W
    BY <1>w, <2>5, <2>6
  <2>8. L = 3 /\ i \in W /\ i <= h
    BY <2>7 DEF W
  <2>9. i \in 1 .. n - 2 /\ sample[i + 1].tok = "video" /\ i + 1 \in 1 .. n
    BY <1>2, <1>w, <2>8
  <2>10. (i + 1) + d >= q
    BY <1>5, <2>9
  <2>11. i = h
    BY <1>2, <1>3, <1>p, <2>5, <2>8, <2>9, <2>10
  <2>12. i >= m /\ i + 1 + d = q
    BY <1>p, <1>3, <2>5, <2>9, <2>11
  <2>13. q + 1 \in DOMAIN Cur /\ Cur[q + 1] = "veos"
    BY <1>1, <1>p, <2>2, <2>3
  <2> QED BY <2>8, <2>12, <2>13 DEF q
<1> QED BY <1>6, <1>7

\* The sample stays aligned, behind the new element.
LEMMA PlaceAligned ==
    ASSUME ExpandShape, NEW m, NEW d, Aligned(m, d), NEW kind \in Kinds, NEW i, NEW L,
           PlaceStep(kind, i, L), i >= m,
           \/ L = 1 /\ i + d = Min(positions)
           \/ /\ L = 3 /\ i + 1 + d = Min(positions)
              /\ Min(positions) + 1 \in DOMAIN Cur /\ Cur[Min(positions) + 1] = "veos"
    PROVE  Aligned(i + 1, d + L - 1)'
<1> DEFINE q == Min(positions)
           n == Len(sample)
           r == Len(sample')
           e == d + L - 1
<1>1. /\ Cur \in Seq(Tokens) /\ DOMAIN Cur = 1 .. Len(Cur) /\ Len(Cur) \in Nat
      /\ q \in positions /\ q \in DOMAIN Cur /\ Cur[q] = kind /\ \A p \in positions : q <= p
  BY AtTokenFacts DEF PlaceStep
<1>2. /\ sample \in Seq(Element) /\ n \in Nat /\ sample' \in Seq(Element) /\ r \in Nat /\ i \in 1 .. n
      /\ positions' = positions \ {q} /\ Cur' = Cur /\ sample'[i].tok = Placeholder[kind]
      /\ Spliced(sample', sample, i, L)
  BY DEF ExpandShape, PlaceStep, Swapped, Cur
<1>3. /\ m \in 1 .. n + 1 /\ d \in Nat /\ n + d = Len(Cur)
      /\ \A k \in m .. n : sample[k].tok = Cur[k + d]
      /\ \A k \in 1 .. m - 1 : sample[k].tok \notin Kinds
      /\ positions = {p \in DOMAIN Cur : p >= m + d /\ Cur[p] \in Kinds}
  BY DEF Aligned
<1>4. /\ L \in Nat /\ L >= 1 /\ i + L - 1 <= n /\ r = n - L + 1
      /\ \A k \in 1 .. i - 1 : sample'[k] = sample[k]
      /\ \A k \in i + 1 .. r : sample'[k] = sample[k + L - 1]
  BY <1>2 DEF Spliced
<1>5. \/ L = 1 /\ i + d = q
      \/ L = 3 /\ i + 1 + d = q /\ q + 1 \in DOMAIN Cur /\ Cur[q + 1] = "veos"
  OBVIOUS
<1>k. sample'[i].tok \notin Tokens /\ sample'[i].tok \notin Kinds /\ kind # "vbos" /\ "veos" \notin Kinds
  BY <1>2, KindFacts DEF Kinds, Tokens
<1> HIDE DEF q, n, r
<1>6. e \in Nat /\ i + 1 \in 1 .. r + 1 /\ r + e = Len(Cur) /\ i \in Nat /\ m \in Nat /\ i >= 1 /\ q \in Nat
  <2>1. i \in Nat /\ i >= 1 /\ m \in Nat /\ q \in Nat
    BY <1>1, <1>2, <1>3
  <2>2. e \in Nat
    BY <1>3, <1>4
  <2>3. r + e = Len(Cur)
    <3>1. n \in Nat /\ d \in Nat /\ L \in Nat /\ r = n - L + 1 /\ n + d = Len(Cur)
      BY <1>2, <1>3, <1>4
    <3>2. (n - L + 1) + (d + L - 1) = n + d
      BY <3>1
    <3> QED BY <3>1, <3>2
  <2>4. i <= r
    BY <1>2, <1>4, <2>1
  <2>5. i + 1 \in 1 .. r + 1
    BY <1>2, <2>1, <2>4
  <2> HIDE DEF e
  <2> QED BY <2>1, <2>2, <2>3, <2>5
<1>7. \A k \in i + 1 .. r : sample'[k].tok = Cur[k + e]
  <2> SUFFICES ASSUME NEW k \in i + 1 .. r PROVE sample'[k].tok = Cur[k + e]
    OBVIOUS
  <2>1. k + L - 1 \in m .. n /\ (k + L - 1) + d = k + e
    BY <1>2, <1>3, <1>4, <1>6
  <2>2. sample'[k] = sample[k + L - 1]
    BY <1>4
  <2> QED BY <1>3, <2>1, <2>2
<1>8. \A k \in 1 .. (i + 1) - 1 : sample'[k].tok \notin Kinds
  <2> SUFFICES ASSUME NEW k \in 1 .. i PROVE sample'[k].tok \notin Kinds
    BY <1>6
  <2>1. CASE k = i
    BY <1>k, <2>1
  <2>2. CASE k # i
    <3>1. k \in 1 .. i - 1 /\ k \in Nat /\ k < i
      BY <1>6, <2>2
    <3>2. sample'[k] = sample[k]
      BY <1>4, <3>1
    <3>3. CASE k < m
      <4>1. k \in 1 .. m - 1
        BY <1>6, <3>1, <3>3
      <4> QED BY <1>3, <3>2, <4>1
    <3>4. CASE k >= m
      <4>0. k \in Nat /\ m \in Nat /\ d \in Nat /\ n \in Nat /\ k <= n /\ k >= 1 /\ n + d = Len(Cur)
        BY <1>2, <1>3, <1>6, <3>1
      <4>1. k \in m .. n /\ k + d \in 1 .. Len(Cur) /\ k + d >= m + d
        BY <3>4, <4>0
      <4>2. k + d < q
        BY <1>3, <1>5, <1>6, <3>1
      <4>3. ~(q <= k + d)
        BY <1>3, <1>6, <3>1, <4>2
      <4>4. k + d \notin positions
        BY <1>1, <4>3
      <4>5. Cur[k + d] \notin Kinds
        BY <1>1, <1>3, <4>1, <4>4
      <4> QED BY <1>3, <3>2, <4>1, <4>5
    <3> QED BY <1>6, <3>1, <3>3, <3>4
  <2> QED BY <2>1, <2>2
<1>9. positions' = {p \in DOMAIN Cur : p >= (i + 1) + e /\ Cur[p] \in Kinds}
  <2> SUFFICES ASSUME NEW p \in DOMAIN Cur, Cur[p] \in Kinds
               PROVE  p \in positions' <=> p >= (i + 1) + e
    BY <1>2, <1>3
  <2>0. p \in Nat
    BY <1>1
  <2>1. p \in positions <=> p >= m + d
    BY <1>3
  <2>2. p \in positions => p >= q
    BY <1>1
  <2>3. q >= m + d
    BY <1>1, <1>3
  <2>4. CASE L = 1 /\ i + d = q
    <3>1. (i + 1) + e = q + 1
      BY <1>3, <1>6, <2>4
    <3>2. p >= q + 1 <=> p # q /\ p >= q
      BY <1>6, <2>0
    <3>3. p >= q => p >= m + d
      BY <1>3, <1>6, <2>0, <2>3
    <3> QED BY <1>2, <2>1, <2>2, <3>1, <3>2, <3>3
  <2>5. CASE L = 3 /\ i + 1 + d = q /\ q + 1 \in DOMAIN Cur /\ Cur[q + 1] = "veos"
    <3>1. (i + 1) + e = q + 2
      BY <1>3, <1>6, <2>5
    <3>2. p # q + 1
      BY <1>k, <2>5
    <3>3. p >= q + 2 <=> p # q /\ p >= q
      BY <1>6, <2>0, <3>2
    <3>4. p >= q => p >= m + d
      BY <1>3, <1>6, <2>0, <2>3
    <3> QED BY <1>2, <2>1, <2>2, <3>1, <3>3, <3>4
  <2> QED BY <1>5, <2>4, <2>5
<1>10. Cur[(i + 1) + e - 1] # "vbos"
  <2>1. CASE L = 1 /\ i + d = q
    <3>1. (i + 1) + e - 1 = q
      BY <1>3, <1>6, <2>1
    <3> QED BY <1>1, <1>k, <3>1
  <2>2. CASE L = 3 /\ i + 1 + d = q /\ q + 1 \in DOMAIN Cur /\ Cur[q + 1] = "veos"
    <3>1. (i + 1) + e - 1 = q + 1
      BY <1>3, <1>6, <2>2
    <3> QED BY <2>2, <3>1
  <2> QED BY <1>5, <2>1, <2>2
<1>11. sample'[(i + 1) - 1].tok \notin Tokens
  <2>1. (i + 1) - 1 = i
    BY <1>6
  <2> QED BY <1>k, <2>1
<1> QED BY <1>2, <1>6, <1>7, <1>8, <1>9, <1>10, <1>11 DEF Aligned, r

\* The new element comes behind all that show a medium, and shows a later one.
LEMMA PlaceOrders ==
    ASSUME ExpandShape, TokensBare, ShownInv, NEW m, NEW d, Aligned(m, d),
           NEW kind \in Kinds, NEW i, NEW L, PlaceStep(kind, i, L), i >= m,
           NEW k \in Kinds, SampleOrdered(k)
    PROVE  SampleOrdered(k)'
<1>1. /\ stage = "scan" /\ cursor \in [Kinds -> Nat] /\ sample \in Seq(Element) /\ sample' \in Seq(Element)
      /\ Spliced(sample', sample, i, L) /\ Cur \in Seq(Tokens)
  BY AtTokenFacts DEF PlaceStep, ExpandShape, Swapped
<1> DEFINE f(j) == ShownOf(k, sample[j])  g(j) == ShownOf(k, sample'[j])  n == Len(sample)
<1>2. /\ i \in 1 .. Len(sample') /\ L \in Nat /\ i \in Nat /\ n \in Nat /\ Len(sample') \in Nat
      /\ DOMAIN sample' = 1 .. Len(sample') /\ DOMAIN sample = 1 .. n
      /\ \A j \in 1 .. Len(sample') :
                 \/ j = i
                 \/ j < i /\ j \in 1 .. n /\ sample'[j] = sample[j]
                 \/ j > i /\ j + L - 1 \in 1 .. n /\ sample'[j] = sample[j + L - 1]
  BY <1>1, SplicedPlaces
<1>3. L >= 1
  BY <1>1 DEF Spliced
<1>4. /\ m \in 1 .. n + 1 /\ d \in Nat /\ n + d = Len(Cur)
      /\ \A j \in m .. n : sample[j].tok = Cur[j + d]
  BY DEF Aligned
<1>5. PICK b \in Nat : b <= cursor[k] /\ SampleShows(k) = b + 1 .. cursor[k]
  BY <1>1 DEF ShownInv
<1>6. \/ g(i) = cursor[k] + 1
      \/ g(i) = 0
  BY PlaceShows
<1>7. \A j \in 1 .. n : f(j) \in Nat /\ (f(j) > 0 => f(j) <= cursor[k])
  <2> SUFFICES ASSUME NEW j \in 1 .. n PROVE f(j) \in Nat /\ (f(j) > 0 => f(j) <= cursor[k])
    OBVIOUS
  <2>1. f(j) \in Nat
    BY <1>1, <1>2, ShownOfFacts
  <2>2. f(j) # 0 => f(j) \in SampleShows(k)
    BY <1>2 DEF SampleShows
  <2> HIDE DEF f
  <2> QED BY <1>1, <1>5, <2>1, <2>2
<1>8. \A j, l \in 1 .. n : j < l /\ f(j) > 0 /\ f(l) > 0 => f(j) < f(l)
  BY <1>2 DEF SampleOrdered
<1> HIDE DEF n
<1>9. \A j \in m .. n : f(j) = 0
  <2> SUFFICES ASSUME NEW j \in m .. n PROVE f(j) = 0
    OBVIOUS
  <2>1. j \in 1 .. n /\ j + d \in 1 .. Len(Cur)
    BY <1>2, <1>4
  <2>2. sample[j].tok \in Tokens
    BY <1>1, <1>4, <2>1
  <2>3. sample[j] \in Element /\ sample[j].item = 0 /\ sample[j].track = 0
    BY <1>1, <1>2, <2>1, <2>2 DEF TokensBare
  <2> QED BY <2>3, ShownOfFacts
<1>10. \A j \in 1 .. Len(sample') :
                 \/ j = i
                 \/ j < i /\ j \in 1 .. n /\ g(j) = f(j)
                 \/ j > i /\ g(j) = 0
  <2> SUFFICES ASSUME NEW j \in 1 .. Len(sample'), j # i
               PROVE  (j < i /\ j \in 1 .. n /\ g(j) = f(j)) \/ (j > i /\ g(j) = 0)
    OBVIOUS
  <2>1. CASE j < i /\ j \in 1 .. n /\ sample'[j] = sample[j]
    BY <2>1
  <2>2. CASE j > i /\ j + L - 1 \in 1 .. n /\ sample'[j] = sample[j + L - 1]
    <3>1. j + L - 1 >= m
      BY <1>2, <1>3, <1>4, <2>2
    <3>2. j + L - 1 \in m .. n
      BY <1>2, <1>4, <2>2, <3>1
    <3>3. g(j) = f(j + L - 1)
      BY <2>2
    <3> HIDE DEF f, g
    <3> QED BY <1>9, <2>2, <3>2, <3>3
  <2> QED BY <1>2, <2>1, <2>2
<1>11. SUFFICES ASSUME NEW j \in 1 .. Len(sample'), NEW l \in 1 .. Len(sample'), j < l, g(j) > 0, g(l) > 0
                PROVE  g(j) < g(l)
  BY <1>2 DEF SampleOrdered
<1> HIDE DEF f, g
<1>12. ~(0 > 0) /\ j \in Nat /\ l \in Nat /\ cursor[k] \in Nat
  BY <1>1
<1>13. l <= i
  BY <1>2, <1>10, <1>11, <1>12
<1>14. j < i
  BY <1>2, <1>11, <1>12, <1>13
<1>15. j \in 1 .. n /\ g(j) = f(j)
  BY <1>2, <1>10, <1>12, <1>14
<1>16. CASE l = i
  <2>1. g(l) = cursor[k] + 1
    BY <1>6, <1>11, <1>12, <1>16
  <2>2. f(j) \in Nat /\ f(j) <= cursor[k]
    BY <1>7, <1>11, <1>15
  <2> QED BY <1>12, <1>15, <2>1, <2>2
<1>17. CASE l # i
  <2>1. l \in 1 .. n /\ g(l) = f(l)
    BY <1>2, <1>10, <1>12, <1>13, <1>17
  <2> QED BY <1>8, <1>11, <1>15, <2>1
<1> QED BY <1>16, <1>17

LEMMA PlaceOrdered ==
    ASSUME ExpandShape, TokensBare, ShownInv, Ordered, NEW m, NEW d, NEW kind \in Kinds, NEW i, NEW L,
           PlaceStep(kind, i, L),
           AllPlain =>
              /\ Aligned(m, d) /\ i >= m
              /\ \/ L = 1 /\ i + d = Min(positions)
                 \/ /\ L = 3 /\ i + 1 + d = Min(positions)
                    /\ Min(positions) + 1 \in DOMAIN Cur /\ Cur[Min(positions) + 1] = "veos"
    PROVE  Ordered'
<1>1. stage = "scan" /\ stage' = stage /\ processed' = processed /\ input' = input
  BY DEF PlaceStep, AtToken
<1>2. AllPlain' <=> AllPlain
  BY <1>1 DEF AllPlain
<1> SUFFICES ASSUME AllPlain
             PROVE  /\ \A k \in Kinds : BatchOrdered(k)'
                    /\ \E h, e : Aligned(h, e)'
                    /\ \A k \in Kinds : SampleOrdered(k)'
  BY <1>2 DEF Ordered
<1>3. \A k \in Kinds : BatchOrdered(k)'
  <2>1. \A k \in Kinds : BatchOrdered(k)' <=> BatchOrdered(k)
    BY <1>1 DEF BatchOrdered, Showing, ShownAt
  <2> QED BY <2>1 DEF Ordered
<1>4. Aligned(i + 1, d + L - 1)'
  BY PlaceAligned
<1>5. \A k \in Kinds : SampleOrdered(k)'
  <2>1. \A k \in Kinds : SampleOrdered(k)
    BY <1>1 DEF Ordered
  <2> QED BY <2>1, PlaceOrders
<1> QED BY <1>3, <1>4, <1>5

LEMMA ClipOrdered ==
    ASSUME ExpandShape, TokensBare, Remaining, ShownInv, Ordered, NEW kind \in {"audio", "image"},
           PlaceClip(kind)
    PROVE  Ordered'
<1>1. kind \in Kinds
  BY DEF Kinds
<1>2. PICK i : PlaceStep(kind, i, 1) /\ \A k \in 1 .. Len(sample) : sample[k].tok = kind => i <= k
  BY ClipPlaces
<1>3. i \in 1 .. Len(sample) /\ sample[i].tok = kind /\ AtToken(kind) /\ stage = "scan"
  <2>1. i \in 1 .. Len(sample) /\ AtToken(kind) /\ stage = "scan" /\ Swapped(kind, sample', sample, i, 1)
    BY <1>2 DEF PlaceStep, AtToken
  <2> QED BY <2>1 DEF Swapped
<1>4. \E m, d : AllPlain => Aligned(m, d)
  BY <1>3 DEF Ordered
<1>5. PICK m, d : AllPlain => Aligned(m, d)
  BY <1>4
<1>6. AllPlain => Aligned(m, d) /\ i >= m /\ i + d = Min(positions)
  BY <1>1, <1>2, <1>3, <1>5, FindsSingle
<1> QED BY <1>1, <1>2, <1>6, PlaceOrdered

LEMMA VideoOrdered ==
    ASSUME ExpandShape, TokensBare, Remaining, ShownInv, Ordered, PlaceVideo
    PROVE  Ordered'
<1> DEFINE W == Matches(Wrapped, Toks(sample))
<1>1. "video" \in Kinds
  BY DEF Kinds
<1>2. PICK i, L : /\ PlaceStep("video", i, L)
                  /\ W # {} => L = 3 /\ i \in W /\ \A k \in W : i <= k
                  /\ W = {} => L = 1 /\ \A k \in 1 .. Len(sample) : sample[k].tok = "video" => i <= k
  BY VideoPlaces
<1>3. /\ i \in 1 .. Len(sample) /\ (sample[i].tok = "video" \/ L # 1) /\ AtToken("video") /\ stage = "scan"
  <2>1. i \in 1 .. Len(sample) /\ AtToken("video") /\ stage = "scan" /\ Swapped("video", sample', sample, i, L)
    BY <1>2 DEF PlaceStep, AtToken
  <2> QED BY <2>1 DEF Swapped
<1>4. \E m, d : AllPlain => Aligned(m, d)
  BY <1>3 DEF Ordered
<1>5. PICK m, d : AllPlain => Aligned(m, d)
  BY <1>4
<1>6. AllPlain => ~Mixed(Cur)
  <2>1. sampleNo \in DOMAIN input.text
    <3>1. sampleNo \in 1 .. Len(input.text)
      BY <1>1, <1>3, AtTokenFacts
    <3> QED BY <3>1, InputFacts DEF ExpandShape
  <2> QED BY <2>1 DEF AllPlain, Cur
<1>7. AllPlain =>
          /\ i >= m
          /\ \/ L = 1 /\ i + d = Min(positions)
             \/ /\ L = 3 /\ i + 1 + d = Min(positions)
                /\ Min(positions) + 1 \in DOMAIN Cur /\ Cur[Min(positions) + 1] = "veos"
  <2> SUFFICES ASSUME AllPlain
               PROVE  /\ i >= m
                      /\ \/ L = 1 /\ i + d = Min(positions)
                         \/ /\ L = 3 /\ i + 1 + d = Min(positions)
                            /\ Min(positions) + 1 \in DOMAIN Cur /\ Cur[Min(positions) + 1] = "veos"
    OBVIOUS
  <2> QED BY <1>2, <1>3, <1>5, <1>6, FindsVideo
<1> QED BY <1>1, <1>2, <1>5, <1>7, PlaceOrdered

LEMMA BeginOrdered ==
    ASSUME ExpandShape, Ordered, BeginSample
    PROVE  Ordered'
<1>1. processed' = processed /\ input' = input /\ stage' = "scan"
  BY DEF BeginSample
<1>2. AllPlain' <=> AllPlain
  BY <1>1 DEF AllPlain
<1>3. PICK N \in Nat : N = Len(Cur')
  BY BeginFacts
<1>4. /\ Cur' \in Seq(Tokens) /\ DOMAIN Cur' = 1 .. N /\ Len(sample') = N /\ sample' \in Seq(Element)
      /\ \A k \in 1 .. N : sample'[k] = Raw(Cur'[k])
      /\ positions' = {i \in DOMAIN Cur' : Cur'[i] \in Kinds}
  BY <1>3, BeginFacts DEF ExpandShape
<1>5. \A k \in 1 .. N : sample'[k].tok = Cur'[k] /\ sample'[k].item = 0 /\ sample'[k].track = 0
  <2> SUFFICES ASSUME NEW k \in 1 .. N
               PROVE  sample'[k].tok = Cur'[k] /\ sample'[k].item = 0 /\ sample'[k].track = 0
    OBVIOUS
  <2>1. sample'[k] = [tok |-> Cur'[k], item |-> 0, track |-> 0]
    BY <1>4 DEF Raw
  <2> QED BY <2>1
<1>6. Aligned(1, 0)'
  <2>1. 1 \in 1 .. N + 1 /\ 0 \in Nat /\ N + 0 = N /\ ~(1 > 1) /\ ~(1 + 0 > 1) /\ 1 .. 1 - 1 = {}
    OBVIOUS
  <2>2. \A k \in 1 .. N : k + 0 = k /\ k >= 1 + 0
    OBVIOUS
  <2>3. \A k \in 1 .. N : sample'[k].tok = Cur'[k + 0]
    BY <1>5, <2>2
  <2>4. positions' = {p \in DOMAIN Cur' : p >= 1 + 0 /\ Cur'[p] \in Kinds}
    BY <1>4, <2>2
  <2> QED BY <1>3, <1>4, <2>1, <2>3, <2>4 DEF Aligned
<1>7. ASSUME NEW kind \in Kinds PROVE SampleOrdered(kind)'
  <2>1. \A k \in DOMAIN sample' : ShownOf(kind, sample'[k]) = 0
    BY <1>4, <1>5, ShownOfFacts
  <2>2. ~(0 > 0)
    OBVIOUS
  <2> QED BY <2>1, <2>2 DEF SampleOrdered
<1>8. ASSUME NEW kind \in Kinds, BatchOrdered(kind) PROVE BatchOrdered(kind)'
  BY <1>1, <1>8 DEF BatchOrdered, Showing, ShownAt
<1> QED BY <1>1, <1>2, <1>6, <1>7, <1>8 DEF Ordered

\* The sample goes behind the prompts, and its media are the later ones.
LEMMA EndOrders ==
    ASSUME ExpandShape, TokensBare, Remaining, ShownInv, EndSample,
           NEW k \in Kinds, BatchOrdered(k), SampleOrdered(k)
    PROVE  BatchOrdered(k)'
<1>1. /\ stage = "scan" /\ positions = {} /\ processed' = Append(processed, TokensRestored)
      /\ processed \in Seq(Seq(Element)) /\ sample \in Seq(Element) /\ cursor \in [Kinds -> Nat]
  BY DEF EndSample, Raise, ExpandShape
<1> DEFINE n == Len(sample)
           f(j) == ShownOf(k, sample[j])
<1>N. PICK N \in Nat : N = Len(processed) + 1
  BY <1>1
<1>2. TokensRestored \in Seq(Element) /\ DOMAIN TokensRestored = 1 .. n /\ DOMAIN sample = 1 .. n
  BY <1>1, RestoredFacts
<1>3. PICK b \in Nat : /\ b <= cursor[k] /\ BatchShows(k) = 1 .. b
                       /\ SampleShows(k) = b + 1 .. cursor[k]
  BY <1>1 DEF ShownInv
<1>4. \A j \in 1 .. n : Shown(k, TokensRestored[j]) = f(j) /\ f(j) \in Nat
  <2>1. \A j \in 1 .. n : Shown(k, TokensRestored[j]) = f(j)
    BY <1>1, RestoredShows
  <2>2. \A j \in 1 .. n : sample[j] \in Element
    BY <1>1, <1>2
  <2>3. \A j \in 1 .. n : f(j) \in Nat
    BY <2>2, ShownOfFacts
  <2> QED BY <2>1, <2>3
<1>5. /\ \A place : place \in Showing(k)'
                 <=> place \in Showing(k) \/ \E j \in 1 .. n : place = <<N, j>> /\ f(j) > 0
      /\ \A place \in Showing(k) : ShownAt(k, place)' = ShownAt(k, place) /\ place[1] \in 1 .. N - 1
      /\ \A j \in 1 .. n : ShownAt(k, <<N, j>>)' = f(j)
  <2>1. PICK t \in Seq(Element) : t = TokensRestored
    BY <1>2
  <2>2. processed' = Append(processed, t) /\ DOMAIN t = 1 .. n /\ \A j \in 1 .. n : Shown(k, t[j]) = f(j)
    BY <1>1, <1>2, <1>4, <2>1
  <2> HIDE DEF f
  <2>3. /\ \A place : place \in Showing(k)'
                 <=> place \in Showing(k) \/ \E j \in DOMAIN t : place = <<N, j>> /\ Shown(k, t[j]) > 0
        /\ \A place \in Showing(k) : ShownAt(k, place)' = ShownAt(k, place) /\ place[1] \in 1 .. N - 1
        /\ \A j \in DOMAIN t : ShownAt(k, <<N, j>>)' = Shown(k, t[j])
    BY <1>1, <1>N, <2>2, AppendShows
  <2> QED BY <2>2, <2>3
<1>6. \A j \in 1 .. n : f(j) > 0 => f(j) >= b + 1
  <2>1. SampleShows(k) = {f(j) : j \in 1 .. n} \ {0}
    BY <1>2 DEF SampleShows
  <2> HIDE DEF f
  <2> SUFFICES ASSUME NEW j \in 1 .. n, f(j) > 0 PROVE f(j) >= b + 1
    OBVIOUS
  <2>2. f(j) \in SampleShows(k)
    BY <1>4, <2>1
  <2> QED BY <1>1, <1>3, <2>2
<1>7. \A place \in Showing(k) : ShownAt(k, place) \in 1 .. b
  BY <1>3 DEF BatchShows
<1>8. \A j, l \in 1 .. n : j < l /\ f(j) > 0 /\ f(l) > 0 => f(j) < f(l)
  BY <1>2 DEF SampleOrdered
<1>9. SUFFICES ASSUME NEW p, NEW q, p \in Showing(k)', q \in Showing(k)', Earlier(p, q)
               PROVE  ShownAt(k, p)' < ShownAt(k, q)'
  BY DEF BatchOrdered
<1> HIDE DEF f, n
<1>10. CASE p \in Showing(k) /\ q \in Showing(k)
  BY <1>5, <1>9, <1>10 DEF BatchOrdered
<1>11. CASE p \in Showing(k) /\ q \notin Showing(k)
  <2>1. PICK j \in 1 .. n : q = <<N, j>> /\ f(j) > 0
    BY <1>5, <1>9, <1>11
  <2>2. ShownAt(k, p)' \in 1 .. b /\ ShownAt(k, q)' = f(j)
    BY <1>5, <1>7, <1>11, <2>1
  <2>3. f(j) >= b + 1 /\ f(j) \in Nat
    BY <1>4, <1>6, <2>1
  <2> QED BY <1>3, <2>2, <2>3
<1>12. CASE p \notin Showing(k) /\ q \in Showing(k)
  <2>1. PICK j \in 1 .. n : p = <<N, j>> /\ f(j) > 0
    BY <1>5, <1>9, <1>12
  <2>2. q[1] \in 1 .. N - 1 /\ p[1] = N
    BY <1>5, <1>12, <2>1
  <2>3. ~(p[1] < q[1]) /\ p[1] # q[1]
    BY <2>2
  <2> QED BY <1>9, <2>3 DEF Earlier
<1>13. CASE p \notin Showing(k) /\ q \notin Showing(k)
  <2>1. PICK j \in 1 .. n : p = <<N, j>> /\ f(j) > 0
    BY <1>5, <1>9, <1>13
  <2>2. PICK l \in 1 .. n : q = <<N, l>> /\ f(l) > 0
    BY <1>5, <1>9, <1>13
  <2>3. p[1] = N /\ p[2] = j /\ q[1] = N /\ q[2] = l /\ ~(N < N)
    BY <2>1, <2>2
  <2>4. j < l
    BY <1>9, <2>3 DEF Earlier
  <2>5. f(j) < f(l)
    BY <1>8, <2>1, <2>2, <2>4
  <2>6. ShownAt(k, p)' = f(j) /\ ShownAt(k, q)' = f(l)
    BY <1>5, <2>1, <2>2
  <2> QED BY <2>5, <2>6
<1> QED BY <1>10, <1>11, <1>12, <1>13

LEMMA EndOrdered ==
    ASSUME ExpandShape, TokensBare, Remaining, ShownInv, Ordered, EndSample
    PROVE  Ordered'
<1>1. stage = "scan" /\ stage' # "scan" /\ input' = input
  BY DEF EndSample, Raise
<1>2. AllPlain' <=> AllPlain
  BY <1>1 DEF AllPlain
<1>3. AllPlain => \A k \in Kinds : BatchOrdered(k) /\ SampleOrdered(k)
  BY <1>1 DEF Ordered
<1>4. AllPlain => \A k \in Kinds : BatchOrdered(k)'
  BY <1>3, EndOrders
<1> QED BY <1>1, <1>2, <1>4 DEF Ordered

LEMMA OtherOrdered ==
    ASSUME Ordered, RaiseShort \/ FinishCall \/ UNCHANGED expandVars
    PROVE  Ordered'
<1>1. /\ UNCHANGED <<sample, processed, positions, input, sampleNo>>
      /\ stage' = stage \/ stage' # "scan"
  BY DEF RaiseShort, FinishCall, Raise, expandVars
<1>2. AllPlain' <=> AllPlain
  BY <1>1 DEF AllPlain
<1>3. \A k \in Kinds : (BatchOrdered(k)' <=> BatchOrdered(k)) /\ (SampleOrdered(k)' <=> SampleOrdered(k))
  BY <1>1 DEF BatchOrdered, SampleOrdered, Showing, ShownAt
<1>4. \A m, d : Aligned(m, d)' <=> Aligned(m, d)
  BY <1>1 DEF Aligned, Cur
<1> QED BY <1>1, <1>2, <1>3, <1>4 DEF Ordered

\* For any prompts, batch and numbers of media, the media of every kind appear over
\* the whole batch in the order of the lists supplied, none left out, in prompts that
\* write all their videos the same way: replace_multimodal_special_tokens searches the
\* text from its beginning and still replaces the very token it is at.
THEOREM MediaInTextOrderHolds == ExpandSpec => []MediaInTextOrder
<1>1. ExpandInit => PlacedInv /\ Ordered
  <2> SUFFICES ASSUME ExpandInit PROVE Ordered
    BY PlacedStarts
  <2>1. stage # "scan" /\ \A kind \in Kinds : Showing(kind) = {}
    BY PlacesMember DEF ExpandInit, Showing
  <2> QED BY <2>1 DEF Ordered, BatchOrdered
<1>2. PlacedInv /\ Ordered /\ [ExpandNext]_expandVars => (PlacedInv /\ Ordered)'
  <2> SUFFICES ASSUME PlacedInv, Ordered, [ExpandNext]_expandVars PROVE Ordered'
    BY PlacedSteps
  <2>1. ExpandShape /\ TokensBare /\ Remaining /\ ShownInv
    BY DEF PlacedInv, OutcomeInv
  <2>2. CASE BeginSample
    BY <2>1, <2>2, BeginOrdered
  <2>3. CASE \E kind \in {"audio", "image"} : PlaceClip(kind)
    BY <2>1, <2>3, ClipOrdered
  <2>4. CASE PlaceVideo
    BY <2>1, <2>4, VideoOrdered
  <2>5. CASE EndSample
    BY <2>1, <2>5, EndOrdered
  <2>6. CASE RaiseShort \/ FinishCall \/ UNCHANGED expandVars
    BY <2>6, OtherOrdered
  <2> QED BY <2>2, <2>3, <2>4, <2>5, <2>6 DEF ExpandNext
<1>3. PlacedInv /\ Ordered => MediaInTextOrder
  <2> SUFFICES ASSUME PlacedInv, Ordered, AllPlain, NEW kind \in Kinds, NEW p \in Showing(kind)
               PROVE  /\ \A q \in Showing(kind) : Earlier(p, q) => ShownAt(kind, p) < ShownAt(kind, q)
                      /\ \A n \in 1 .. ShownAt(kind, p) : \E q \in Showing(kind) : ShownAt(kind, q) = n
    BY DEF MediaInTextOrder, AllPlain
  <2>1. \A q \in Showing(kind) : Earlier(p, q) => ShownAt(kind, p) < ShownAt(kind, q)
    BY DEF Ordered, BatchOrdered
  <2>2. PICK b \in Nat : BatchShows(kind) = 1 .. b
    BY DEF PlacedInv, ShownInv
  <2>3. ShownAt(kind, p) \in 1 .. b
    BY <2>2 DEF BatchShows
  <2>4. \A n \in 1 .. ShownAt(kind, p) : n \in 1 .. b
    BY <2>3
  <2>5. \A n \in 1 .. b : \E q \in Showing(kind) : ShownAt(kind, q) = n
    BY <2>2 DEF BatchShows
  <2> QED BY <2>1, <2>4, <2>5
<1> QED BY <1>1, <1>2, <1>3, PTL DEF ExpandSpec
=============================================================================
