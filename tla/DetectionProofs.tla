-------------------------- MODULE DetectionProofs --------------------------
(***************************************************************************)
(* Proofs about Detection, for any sizes of canvas and frames, any number  *)
(* of slots, any candidates and any settings: the padding of every slot    *)
(* stays grey whatever sizes it has had, the corners of an armor whose     *)
(* edges lean less than 45 degrees are published in the pose solver's      *)
(* order, and what is published is one armor of its frame, and the best    *)
(* there is.                                                               *)
(***************************************************************************)
EXTENDS Detection, FiniteSetTheorems, WellFoundedInduction, TLAPS

LEMMA RoundInt ==
  ASSUME NEW num \in Int, NEW den \in Nat \ {0}
  PROVE  Round(num, den) \in Int
  BY DEF Round

LEMMA ScaleInt ==
  ASSUME NEW size \in Sized
  PROVE  Scale(size).num \in Nat \ {0} /\ Scale(size).den \in Nat \ {0}
  BY DetectionAssumption DEF Scale, Sized

LEMMA FitInt ==
  ASSUME NEW size \in Sized
  PROVE  /\ FitW(size) \in Int /\ FitH(size) \in Int
         /\ PadW(size) \in Int /\ PadH(size) \in Int
<1>1. size[1] \in Int /\ size[2] \in Int
  BY DEF Sized
<1>2. size[1] * Scale(size).num \in Int /\ size[2] * Scale(size).num \in Int
  BY <1>1, ScaleInt
<1>3. FitW(size) \in Int /\ FitH(size) \in Int
  BY <1>2, ScaleInt, RoundInt DEF FitW, FitH
<1>. QED
  BY <1>3, DetectionAssumption DEF PadW, PadH

LEMMA ClampInt ==
  ASSUME NEW v \in Int, NEW top \in Int
  PROVE  Clamp(v, top) \in Int
  BY DEF Clamp

-----------------------------------------------------------------------------
(* The padding.                                                            *)

\* These pixels are the ones around the picture that may be left unpainted.
Unpainted(pixels, size) ==
  \A p \in pixels \ Picture(size) :
    \/ p[1] = InputW - 1 /\ FitW(size) = InputW - 1
    \/ p[2] = InputH - 1 /\ FitH(size) = InputH - 1

\* The pixels that do not show the padding's grey.
Coloured(shown) == {p \in Watched : shown[p] # None}

\* One axis: a pixel outside the picture where no strip is painted.
LEMMA OneShort ==
  ASSUME NEW input \in Nat \ {0}, NEW fit \in Int, NEW v \in 0 .. input - 1,
         ~ ((input - fit) \div 2 > 0),
         v \notin (input - fit) \div 2 .. (input - fit) \div 2 + fit - 1
  PROVE  v = input - 1 /\ fit = input - 1
  OBVIOUS

LEMMA PaintedGrey ==
  ASSUME NEW pixels \in SUBSET Watched, NEW size \in Sized
  PROVE  Unpainted((pixels \ Strips(size)) \cup Picture(size), size)
<1>. SUFFICES ASSUME NEW p \in (pixels \ Strips(size)) \ Picture(size)
              PROVE  \/ p[1] = InputW - 1 /\ FitW(size) = InputW - 1
                     \/ p[2] = InputH - 1 /\ FitH(size) = InputH - 1
  BY DEF Unpainted
<1>. DEFINE rows == PadH(size) .. PadH(size) + FitH(size) - 1
            columns == PadW(size) .. PadW(size) + FitW(size) - 1
<1>1. p \in (0 .. InputW - 1) \X (0 .. InputH - 1) /\ p \in Watched
  BY DetectionAssumption
<1>2. p[1] \in 0 .. InputW - 1 /\ p[2] \in 0 .. InputH - 1 /\ p = <<p[1], p[2]>>
  BY <1>1
<1>3. p[1] \notin columns \/ p[2] \notin rows
  BY <1>1, <1>2 DEF Picture
<1>4. /\ PadH(size) > 0 => p[2] \in rows
      /\ PadW(size) > 0 /\ p[2] \in rows => p[1] \in columns
  BY <1>1 DEF Strips
<1>5. CASE p[2] \notin rows
  BY <1>2, <1>4, <1>5, FitInt, OneShort, DetectionAssumption DEF PadH
<1>6. CASE p[2] \in rows
  BY <1>2, <1>3, <1>4, <1>6, FitInt, OneShort, DetectionAssumption DEF PadW
<1>. QED
  BY <1>5, <1>6

LEMMA ShownGrey ==
  ASSUME NEW pixels, NEW size, Unpainted(pixels, size)
  PROVE  Unpainted(pixels \cup Picture(size), size)
  BY DEF Unpainted

-----------------------------------------------------------------------------
(* Types.                                                                  *)

LEMMA FrameTypes ==
  ASSUME NEW f \in Frames
  PROVE  /\ f.size \in Sized /\ f.size # None
         /\ f.size[1] \in Nat \ {0} /\ f.size[2] \in Nat \ {0}
         /\ f.scene.seen \in Seq(Candidates)
         /\ \A n \in DOMAIN f.scene.seen : f.scene.seen[n] \in Candidates
         /\ f.scene.leading \in Nat /\ f.scene.leading >= Classes
<1>1. f \in [size : Sized, scene : [seen : Seq(Candidates), leading : Nat]] /\ f.scene.leading >= Classes
  BY DetectionAssumption
<1>2. f.size \in Sized /\ f.scene \in [seen : Seq(Candidates), leading : Nat]
  BY <1>1
<1>3. f.scene.seen \in Seq(Candidates) /\ f.scene.leading \in Nat
  BY <1>2
<1>4. \A n \in DOMAIN f.scene.seen : f.scene.seen[n] \in Candidates
  BY <1>3
<1>5. f.size # None
  BY <1>2, DetectionAssumption
<1>. QED
  BY <1>1, <1>2, <1>3, <1>4, <1>5 DEF Sized

LEMMA CandidateTypes ==
  ASSUME NEW c \in Candidates
  PROVE  /\ \A n \in 1 .. 4 : /\ c.quad[n] \in Int \X Int
                              /\ c.quad[n][1] \in Int /\ c.quad[n][2] \in Int
                              /\ c.box[n] \in Int
                              /\ c.marks[n] \in 0 .. Unit
         /\ c.probs \in [1 .. Classes -> 0 .. Unit]
         /\ \A n \in 1 .. Classes : c.probs[n] \in 0 .. Unit
         /\ c.finite \in BOOLEAN
<1>1. /\ c.quad \in [1 .. 4 -> Int \X Int] /\ c.box \in [1 .. 4 -> Int]
      /\ c.marks \in [1 .. 4 -> 0 .. Unit] /\ c.probs \in [1 .. Classes -> 0 .. Unit]
      /\ c.finite \in BOOLEAN
  BY DEF Candidates
<1>2. \A n \in 1 .. 4 : c.quad[n] \in Int \X Int
  BY <1>1
<1>. QED
  BY <1>1, <1>2

LEMMA UseClassesNat ==
  ASSUME NEW leading \in Nat, setting \in Settings
  PROVE  UseClasses(leading) \in Nat
<1>0. setting.stride \in {2, 3} /\ Classes \in Nat
  BY DetectionAssumption
<1>1. Channels \in Nat
  BY <1>0 DEF Channels
<1>. QED
  BY <1>1, DetectionAssumption DEF UseClasses, Lesser

LEMMA SubmitCaches ==
  ASSUME NEW s \in Slots, NEW frame \in Frames, Submit(s, frame)
  PROVE  /\ cached' = [cached EXCEPT ![s] = frame.size]
         /\ canvas' = [canvas EXCEPT ![s] = [p \in Watched |->
              IF p \in Picture(frame.size) THEN frame.size
              ELSE IF cached[s] # frame.size /\ p \in Strips(frame.size) THEN None ELSE canvas[s][p]]]
  BY DEF Submit, FitFor, Stale

(* The variables keep their types.                                         *)
THEOREM DetectionType == Spec => []TypeOK
<1>1. Init => TypeOK
  BY DEF Init, TypeOK
<1>2. TypeOK /\ [Next]_detectionVars => TypeOK'
  <2>. SUFFICES ASSUME TypeOK, [Next]_detectionVars PROVE TypeOK'
    OBVIOUS
  <2>1. ASSUME NEW s \in Slots, NEW frame \in Frames, Submit(s, frame) PROVE TypeOK'
    <3>. DEFINE sizes == {f.size : f \in Frames} \cup {None}
    <3>1. /\ cached' = [cached EXCEPT ![s] = frame.size]
          /\ canvas' = [canvas EXCEPT ![s] = [p \in Watched |->
               IF p \in Picture(frame.size) THEN frame.size
               ELSE IF cached[s] # frame.size /\ p \in Strips(frame.size) THEN None ELSE canvas[s][p]]]
      BY <2>1, SubmitCaches
    <3>2. canvas[s] \in [Watched -> sizes] /\ frame.size \in sizes /\ None \in sizes
      BY DEF TypeOK
    <3>3. cached' \in [Slots -> sizes]
      BY <3>1 DEF TypeOK
    <3>. HIDE DEF sizes
    <3>4. [p \in Watched |->
            IF p \in Picture(frame.size) THEN frame.size
            ELSE IF cached[s] # frame.size /\ p \in Strips(frame.size) THEN None ELSE canvas[s][p]]
            \in [Watched -> sizes]
      BY <3>2
    <3>5. canvas' \in [Slots -> [Watched -> sizes]]
      BY <3>1, <3>4 DEF TypeOK, sizes
    <3>. QED
      BY <2>1, <3>3, <3>5 DEF Submit, TypeOK, sizes
  <2>2. ASSUME NEW s \in Slots, Finish(s) PROVE TypeOK'
    <3>1. job[s] \in Frames
      BY <2>2 DEF Finish, TypeOK
    <3>2. useClasses' \in Nat \cup {None}
      BY <2>2, <3>1, UseClassesNat, DetectionAssumption DEF Finish, TypeOK
    <3>. QED
      BY <2>2, <3>2 DEF Finish, TypeOK
  <2>3. CASE UNCHANGED detectionVars
    BY <2>3 DEF detectionVars, TypeOK
  <2>. QED
    BY <2>1, <2>2, <2>3 DEF Next
<1>. QED
  BY <1>1, <1>2, PTL DEF Spec

\* What is not grey is part of a picture of the size it shows.
Painted == \A s \in Slots : \A p \in Watched : canvas[s][p] # None => p \in Picture(canvas[s][p])

GreyAround == \A s \in Slots : cached[s] # None => Unpainted(Coloured(canvas[s]), cached[s])

LEMMA PaintedHolds == Spec => []Painted
<1>1. Init => Painted
  BY DEF Init, Painted
<1>2. TypeOK /\ Painted /\ [Next]_detectionVars => Painted'
  <2>. SUFFICES ASSUME TypeOK, Painted, [Next]_detectionVars,
                       NEW t \in Slots, NEW p \in Watched, canvas'[t][p] # None
                PROVE  p \in Picture(canvas'[t][p])
    BY DEF Painted, Picture, FitW, FitH, PadW, PadH, Scale, Round
  <2>1. ASSUME NEW s \in Slots, NEW frame \in Frames, Submit(s, frame)
        PROVE  p \in Picture(canvas'[t][p])
    <3>1. canvas'[t][p] = IF t # s THEN canvas[t][p]
                          ELSE IF p \in Picture(frame.size) THEN frame.size
                          ELSE IF cached[s] # frame.size /\ p \in Strips(frame.size) THEN None
                          ELSE canvas[s][p]
      BY <2>1, SubmitCaches DEF TypeOK
    <3>. QED
      BY <3>1 DEF Painted
  <2>2. ASSUME NEW s \in Slots, Finish(s) PROVE canvas' = canvas
    BY <2>2 DEF Finish
  <2>3. CASE UNCHANGED detectionVars
    BY <2>3 DEF detectionVars, Painted
  <2>. QED
    BY <2>1, <2>2, <2>3 DEF Next, Painted
<1>. QED
  BY <1>1, <1>2, DetectionType, PTL DEF Spec

LEMMA GreyAroundHolds == Spec => []GreyAround
<1>1. Init => GreyAround
  BY DEF Init, GreyAround
<1>2. TypeOK /\ GreyAround /\ [Next]_detectionVars => GreyAround'
  <2>. SUFFICES ASSUME TypeOK, GreyAround, [Next]_detectionVars PROVE GreyAround'
    OBVIOUS
  <2>1. ASSUME NEW s \in Slots, NEW frame \in Frames, Submit(s, frame) PROVE GreyAround'
    <3>1. /\ cached' = [cached EXCEPT ![s] = frame.size]
          /\ canvas' = [canvas EXCEPT ![s] = [p \in Watched |->
               IF p \in Picture(frame.size) THEN frame.size
               ELSE IF cached[s] # frame.size /\ p \in Strips(frame.size) THEN None ELSE canvas[s][p]]]
      BY <2>1, SubmitCaches
    <3>2. frame.size \in Sized /\ frame.size # None /\ Picture(frame.size) \subseteq Watched
      BY FrameTypes DEF Picture
    <3>3. cached'[s] = frame.size
      BY <3>1 DEF TypeOK
    <3>4. Unpainted(Coloured(canvas'[s]), frame.size)
      <4>1. CASE cached[s] # frame.size
        <5>1. Coloured(canvas'[s]) = (Coloured(canvas[s]) \ Strips(frame.size)) \cup Picture(frame.size)
          BY <3>1, <3>2, <4>1 DEF TypeOK, Coloured
        <5>2. Coloured(canvas[s]) \in SUBSET Watched
          BY DEF Coloured
        <5>. QED
          BY <5>1, <5>2, <3>2, PaintedGrey
      <4>2. CASE cached[s] = frame.size
        <5>1. Coloured(canvas'[s]) = Coloured(canvas[s]) \cup Picture(frame.size)
          BY <3>1, <3>2, <4>2 DEF TypeOK, Coloured
        <5>. QED
          BY <5>1, <4>2, <3>2, ShownGrey DEF GreyAround
      <4>. QED
        BY <4>1, <4>2
    <3>5. \A t \in Slots \ {s} : cached'[t] = cached[t] /\ canvas'[t] = canvas[t]
      BY <3>1 DEF TypeOK
    <3>6. \A t \in Slots : cached'[t] # None => Unpainted(Coloured(canvas'[t]), cached'[t])
      BY <3>3, <3>4, <3>5 DEF GreyAround
    <3>. QED
      BY <3>6 DEF GreyAround, Unpainted, Coloured
  <2>2. ASSUME NEW s \in Slots, Finish(s) PROVE GreyAround'
    BY <2>2 DEF Finish, GreyAround, Unpainted, Coloured
  <2>3. CASE UNCHANGED detectionVars
    BY <2>3 DEF detectionVars, GreyAround, Unpainted, Coloured
  <2>. QED
    BY <2>1, <2>2, <2>3 DEF Next
<1>. QED
  BY <1>1, <1>2, DetectionType, PTL DEF Spec

(* Whatever sizes a slot has had, its canvas shows grey outside the        *)
(* picture, but for what they left in the last row or column of a picture  *)
(* one short of it.                                                        *)
THEOREM PaddingStaysGrey == Spec => []StripsGrey
<1>1. Painted /\ GreyAround => StripsGrey
  <2>. SUFFICES ASSUME Painted, GreyAround, NEW s \in Slots, cached[s] # None,
                       NEW p \in Watched \ Picture(cached[s]), canvas[s][p] # None
                PROVE  /\ canvas[s][p] # cached[s]
                       /\ \/ p[1] = InputW - 1 /\ FitW(cached[s]) = InputW - 1
                          \/ p[2] = InputH - 1 /\ FitH(cached[s]) = InputH - 1
    BY DEF StripsGrey
  <2>1. p \in Picture(canvas[s][p])
    BY DEF Painted
  <2>2. p \in Coloured(canvas[s]) \ Picture(cached[s])
    BY DEF Coloured
  <2>. QED
    BY <2>1, <2>2 DEF GreyAround, Unpainted
<1>. QED
  BY <1>1, PaintedHolds, GreyAroundHolds, PTL

-----------------------------------------------------------------------------
(* The corners.                                                            *)

\* The coordinates of the four points of an upright quadrilateral.
LEMMA UprightOrder ==
  ASSUME NEW tl \in Int \X Int, NEW tr \in Int \X Int, NEW br \in Int \X Int, NEW bl \in Int \X Int,
         Upright(tl, tr, br, bl)
  PROVE  /\ tl[1] + tl[2] < tr[1] + tr[2] /\ tl[1] + tl[2] < bl[1] + bl[2]
         /\ tr[1] + tr[2] < br[1] + br[2] /\ bl[1] + bl[2] < br[1] + br[2]
         /\ bl[1] - bl[2] < tl[1] - tl[2] /\ bl[1] - bl[2] < br[1] - br[2]
         /\ tl[1] - tl[2] < tr[1] - tr[2] /\ br[1] - br[2] < tr[1] - tr[2]
  BY DEF Upright

\* The first index with the least value, when one value is the least.
LEMMA OneLeast ==
  ASSUME NEW f \in [1 .. 4 -> Int], NEW i \in 1 .. 4,
         \A n \in 1 .. 4 : n # i => f[i] < f[n]
  PROVE  i = CHOOSE n \in 1 .. 4 : /\ \A m \in 1 .. 4 : f[n] <= f[m]
                                   /\ \A m \in 1 .. n - 1 : f[n] < f[m]
<1>1. /\ \A m \in 1 .. 4 : f[i] <= f[m]
      /\ \A m \in 1 .. i - 1 : f[i] < f[m]
  <2>1. \A m \in 1 .. 4 : f[m] \in Int
    OBVIOUS
  <2>2. \A m \in 1 .. 4 : m # i => f[i] < f[m]
    OBVIOUS
  <2>3. \A m \in 1 .. 4 : f[i] <= f[m]
    BY <2>1, <2>2
  <2>4. \A m \in 1 .. i - 1 : m \in 1 .. 4 /\ m # i
    OBVIOUS
  <2>. QED
    BY <2>2, <2>3, <2>4
<1>2. ASSUME NEW n \in 1 .. 4, \A m \in 1 .. 4 : f[n] <= f[m] PROVE n = i
  BY <1>2
<1>. QED
  BY <1>1, <1>2

(* Four corners whose edges lean less than 45 degrees come out as top      *)
(* left, top right, bottom right and bottom left, in whatever order they   *)
(* are given.                                                              *)
THEOREM UprightCornersOrdered ==
  \A p \in [1 .. 4 -> Int \X Int] : \A i, j, k, l \in 1 .. 4 :
    Upright(p[i], p[j], p[k], p[l]) => OrderCorners(p) = <<p[i], p[j], p[k], p[l]>>
<1>. SUFFICES ASSUME NEW p \in [1 .. 4 -> Int \X Int],
                     NEW i \in 1 .. 4, NEW j \in 1 .. 4, NEW k \in 1 .. 4, NEW l \in 1 .. 4,
                     Upright(p[i], p[j], p[k], p[l])
              PROVE  OrderCorners(p) = <<p[i], p[j], p[k], p[l]>>
  OBVIOUS
<1>. DEFINE First(f) == CHOOSE n \in 1 .. 4 : /\ \A m \in 1 .. 4 : f[n] <= f[m]
                                              /\ \A m \in 1 .. n - 1 : f[n] < f[m]
            sum == [n \in 1 .. 4 |-> p[n][1] + p[n][2]]
            diff == [n \in 1 .. 4 |-> p[n][1] - p[n][2]]
            nsum == [n \in 1 .. 4 |-> -sum[n]]
            ndiff == [n \in 1 .. 4 |-> -diff[n]]
<1>1. \A n \in 1 .. 4 : p[n] \in Int \X Int
  OBVIOUS
<1>2. \A n \in 1 .. 4 : p[n][1] \in Int /\ p[n][2] \in Int
  BY <1>1
<1>3. /\ sum \in [1 .. 4 -> Int] /\ diff \in [1 .. 4 -> Int]
      /\ nsum \in [1 .. 4 -> Int] /\ ndiff \in [1 .. 4 -> Int]
  BY <1>2
<1>4. /\ sum[i] < sum[j] /\ sum[i] < sum[l] /\ sum[j] < sum[k] /\ sum[l] < sum[k]
      /\ diff[l] < diff[i] /\ diff[l] < diff[k] /\ diff[i] < diff[j] /\ diff[k] < diff[j]
  BY <1>1, UprightOrder
<1>. HIDE DEF sum, diff
<1>5. {i, j, k, l} = 1 .. 4
  <2>1. i # j /\ i # k /\ i # l /\ j # k /\ j # l /\ k # l
    BY <1>3, <1>4
  <2>. QED
    BY <2>1
<1>6. sum[i] < sum[k] /\ diff[l] < diff[j]
  BY <1>3, <1>4
<1>7. /\ \A n \in 1 .. 4 : n # i => sum[i] < sum[n]
      /\ \A n \in 1 .. 4 : n # j => ndiff[j] < ndiff[n]
      /\ \A n \in 1 .. 4 : n # k => nsum[k] < nsum[n]
      /\ \A n \in 1 .. 4 : n # l => diff[l] < diff[n]
  BY <1>3, <1>4, <1>5, <1>6
<1>. HIDE DEF nsum, ndiff
<1>8. First(sum) = i /\ First(ndiff) = j /\ First(nsum) = k /\ First(diff) = l
  BY <1>3, <1>7, OneLeast
<1>9. OrderCorners(p) = <<p[First(sum)], p[First(ndiff)], p[First(nsum)], p[First(diff)]>>
  BY DEF OrderCorners, sum, diff, nsum, ndiff
<1>. QED
  BY <1>8, <1>9

\* OrderCorners picks among the points it is given.
LEMMA LeastExists ==
  ASSUME NEW f \in [1 .. 4 -> Int]
  PROVE  \E n \in 1 .. 4 : /\ \A m \in 1 .. 4 : f[n] <= f[m]
                           /\ \A m \in 1 .. n - 1 : f[n] < f[m]
<1>1. f[1] \in Int /\ f[2] \in Int /\ f[3] \in Int /\ f[4] \in Int
  OBVIOUS
<1>2. \A m \in Int : m \in 1 .. 4 <=> m \in {1, 2, 3, 4}
  OBVIOUS
<1>3. CASE f[1] <= f[2] /\ f[1] <= f[3] /\ f[1] <= f[4]
  <2>. WITNESS 1 \in 1 .. 4
  <2>. QED
    BY <1>1, <1>2, <1>3
<1>4. CASE f[2] < f[1] /\ f[2] <= f[3] /\ f[2] <= f[4]
  <2>. WITNESS 2 \in 1 .. 4
  <2>. QED
    BY <1>1, <1>2, <1>4
<1>5. CASE f[3] < f[1] /\ f[3] < f[2] /\ f[3] <= f[4]
  <2>. WITNESS 3 \in 1 .. 4
  <2>. QED
    BY <1>1, <1>2, <1>5
<1>6. CASE f[4] < f[1] /\ f[4] < f[2] /\ f[4] < f[3]
  <2>. WITNESS 4 \in 1 .. 4
  <2>. QED
    BY <1>1, <1>2, <1>6
<1>. QED
  BY <1>1, <1>3, <1>4, <1>5, <1>6

LEMMA OrderedAmong ==
  ASSUME NEW p \in [1 .. 4 -> Int \X Int], NEW n \in 1 .. 4
  PROVE  \E m \in 1 .. 4 : OrderCorners(p)[n] = p[m]
<1>. DEFINE First(f) == CHOOSE k \in 1 .. 4 : /\ \A m \in 1 .. 4 : f[k] <= f[m]
                                              /\ \A m \in 1 .. k - 1 : f[k] < f[m]
            sum == [k \in 1 .. 4 |-> p[k][1] + p[k][2]]
            diff == [k \in 1 .. 4 |-> p[k][1] - p[k][2]]
            nsum == [k \in 1 .. 4 |-> -sum[k]]
            ndiff == [k \in 1 .. 4 |-> -diff[k]]
<1>1. \A k \in 1 .. 4 : p[k] \in Int \X Int
  OBVIOUS
<1>2. \A k \in 1 .. 4 : p[k][1] \in Int /\ p[k][2] \in Int
  BY <1>1
<1>3. /\ sum \in [1 .. 4 -> Int] /\ diff \in [1 .. 4 -> Int]
      /\ nsum \in [1 .. 4 -> Int] /\ ndiff \in [1 .. 4 -> Int]
  BY <1>2
<1>4. OrderCorners(p) = <<p[First(sum)], p[First(ndiff)], p[First(nsum)], p[First(diff)]>>
  BY DEF OrderCorners
<1>5. ASSUME NEW f \in [1 .. 4 -> Int] PROVE First(f) \in 1 .. 4
  BY LeastExists
<1>. HIDE DEF First, sum, diff, nsum, ndiff
<1>6. /\ First(sum) \in 1 .. 4 /\ First(diff) \in 1 .. 4
      /\ First(nsum) \in 1 .. 4 /\ First(ndiff) \in 1 .. 4
  BY <1>3, <1>5
<1>7. n = 1 \/ n = 2 \/ n = 3 \/ n = 4
  OBVIOUS
<1>. QED
  BY <1>4, <1>6, <1>7

\* What finishSlot publishes: the sorted corners of a point of the output.
Sorted(corners) == \E r \in [1 .. 4 -> Int \X Int] : corners = OrderCorners(r)

CornersInv ==
  /\ \A s \in Slots : job[s] # None => cached[s] # None
  /\ answer # None =>
       /\ \E f \in Frames : answer.size = f.size /\ answer.scene = f.scene.seen
       /\ answer.best # None => Sorted(answer.best.corners) /\ Allowed(answer.best.class)

LEMMA AtInt ==
  ASSUME NEW c \in Candidates, NEW size \in Sized
  PROVE  At(c, size) \in [1 .. 4 -> Int \X Int]
<1>1. size[1] \in Int /\ size[2] \in Int /\ Unit \in Int
  BY DetectionAssumption DEF Sized
<1>2. (size[1] - 1) * Unit \in Int /\ (size[2] - 1) * Unit \in Int
  BY <1>1
<1>3. \A k \in 1 .. 4 : /\ Clamp(c.quad[k][1], (size[1] - 1) * Unit) \in Int
                        /\ Clamp(c.quad[k][2], (size[2] - 1) * Unit) \in Int
  BY <1>2, CandidateTypes, ClampInt
<1>. QED
  BY <1>3 DEF At

LEMMA CornersInvOrdered == CornersInv => CornersOrdered
<1>. SUFFICES ASSUME CornersInv, Published,
                     NEW m \in DOMAIN answer.scene,
                     NEW q, q = At(answer.scene[m], answer.size),
                     {q[n] : n \in 1 .. 4} = {answer.best.corners[n] : n \in 1 .. 4},
                     NEW i \in 1 .. 4, NEW j \in 1 .. 4, NEW k \in 1 .. 4, NEW l \in 1 .. 4,
                     Upright(q[i], q[j], q[k], q[l])
              PROVE  answer.best.corners = <<q[i], q[j], q[k], q[l]>>
  BY DEF CornersOrdered
<1>1. PICK r \in [1 .. 4 -> Int \X Int] : answer.best.corners = OrderCorners(r)
  BY DEF CornersInv, Published, Sorted
<1>2. q \in [1 .. 4 -> Int \X Int]
  BY AtInt, FrameTypes DEF CornersInv, Published
<1>3. \A n \in 1 .. 4 : \E h \in 1 .. 4 : q[n] = r[h]
  BY <1>1, OrderedAmong
<1>a. PICK a \in 1 .. 4 : q[i] = r[a]
  BY <1>3
<1>b. PICK b \in 1 .. 4 : q[j] = r[b]
  BY <1>3
<1>c. PICK c \in 1 .. 4 : q[k] = r[c]
  BY <1>3
<1>d. PICK d \in 1 .. 4 : q[l] = r[d]
  BY <1>3
<1>4. q[i] = r[a] /\ q[j] = r[b] /\ q[k] = r[c] /\ q[l] = r[d]
  BY <1>a, <1>b, <1>c, <1>d
<1>5. Upright(r[a], r[b], r[c], r[d])
  BY <1>4
<1>6. OrderCorners(r) = <<r[a], r[b], r[c], r[d]>>
  <2>1. \A e, f, g, h \in 1 .. 4 :
          Upright(r[e], r[f], r[g], r[h]) => OrderCorners(r) = <<r[e], r[f], r[g], r[h]>>
    BY UprightCornersOrdered, Zenon
  <2>. QED
    BY <1>5, <2>1
<1>. QED
  BY <1>1, <1>4, <1>6

\* The rows of a candidate are as many whole numbers as the output has.
LEMMA ToCanvasInt ==
  ASSUME NEW v \in Int, NEW pad \in Int, NEW fit \in Int, NEW length \in Nat \ {0}
  PROVE  ToCanvas(v, pad, fit, length) \in Int
<1>1. v * fit \in Int /\ pad * Unit \in Int
  BY DetectionAssumption
<1>. QED
  BY <1>1 DEF ToCanvas

LEMMA CornerRowInt ==
  ASSUME NEW c \in Candidates, NEW n \in 1 .. 4, NEW fit \in Sized, NEW size \in Sized,
         setting.stride \in {2, 3}
  PROVE  /\ CornerRow(c, n, fit, size) \in Seq(Int)
         /\ Len(CornerRow(c, n, fit, size)) = setting.stride
<1>. DEFINE x == ToCanvas(c.quad[n][1], PadW(fit), FitW(fit), size[1])
            y == ToCanvas(c.quad[n][2], PadH(fit), FitH(fit), size[2])
<1>1. c.quad[n][1] \in Int /\ c.quad[n][2] \in Int /\ c.marks[n] \in Int
  BY CandidateTypes, DetectionAssumption
<1>3. x \in Int /\ y \in Int
  <2>1. size[1] \in Nat \ {0} /\ size[2] \in Nat \ {0}
    BY DEF Sized
  <2>. QED
    BY <1>1, <2>1, FitInt, ToCanvasInt
<1>. HIDE DEF x, y
<1>4. CornerRow(c, n, fit, size) = IF setting.stride = 3 THEN <<x, y, c.marks[n]>> ELSE <<x, y>>
  BY DEF CornerRow, x, y
<1>5. CASE setting.stride = 3
  <2>1. CornerRow(c, n, fit, size) = <<x, y, c.marks[n]>>
    BY <1>4, <1>5
  <2>. QED
    BY <1>1, <1>3, <1>5, <2>1
<1>6. CASE setting.stride = 2
  <2>1. CornerRow(c, n, fit, size) = <<x, y>>
    BY <1>4, <1>6
  <2>. QED
    BY <1>3, <1>6, <2>1
<1>. QED
  BY <1>5, <1>6

LEMMA Concat ==
  ASSUME NEW a \in Seq(Int), NEW b \in Seq(Int)
  PROVE  /\ a \o b \in Seq(Int) /\ Len(a \o b) = Len(a) + Len(b)
         /\ \A n \in 1 .. Len(a) : (a \o b)[n] = a[n]
         /\ \A n \in 1 .. Len(b) : (a \o b)[Len(a) + n] = b[n]
<1>1. a \o b \in Seq(Int) /\ Len(a \o b) = Len(a) + Len(b)
  OBVIOUS
<1>2. ASSUME NEW n \in 1 .. Len(a) PROVE (a \o b)[n] = a[n]
  OBVIOUS
<1>3. ASSUME NEW n \in 1 .. Len(b) PROVE (a \o b)[Len(a) + n] = b[n]
  OBVIOUS
<1>. QED
  BY <1>1, <1>2, <1>3

\* Where the elements of a sequence and of four others of the same length
\* are when they are put together.
Placed(row, p, a, b, c, d, t) ==
  /\ row \in Seq(Int) /\ Len(row) = Len(p) + 4 * t
  /\ \A n \in 1 .. Len(p) : row[n] = p[n]
  /\ \A n \in 1 .. t : /\ row[Len(p) + n] = a[n]
                       /\ row[Len(p) + t + n] = b[n]
                       /\ row[Len(p) + 2 * t + n] = c[n]
                       /\ row[Len(p) + 3 * t + n] = d[n]

LEMMA FourAfter ==
  ASSUME NEW p, NEW a, NEW b, NEW c, NEW d, NEW t, NEW row,
         row = p \o a \o b \o c \o d, p \in Seq(Int), t \in Nat,
         a \in Seq(Int) /\ Len(a) = t, b \in Seq(Int) /\ Len(b) = t,
         c \in Seq(Int) /\ Len(c) = t, d \in Seq(Int) /\ Len(d) = t
  PROVE  Placed(row, p, a, b, c, d, t)
<1>. DEFINE one == p \o a
            two == one \o b
            three == two \o c
            four == three \o d
<1>0. Len(p) \in Nat /\ row = four
  OBVIOUS
<1>1. /\ one \in Seq(Int) /\ Len(one) = Len(p) + t
      /\ \A n \in 1 .. Len(p) : one[n] = p[n]
      /\ \A n \in 1 .. t : one[Len(p) + n] = a[n]
  <2>1. /\ one \in Seq(Int) /\ Len(one) = Len(p) + Len(a)
        /\ \A n \in 1 .. Len(p) : one[n] = p[n]
        /\ \A n \in 1 .. Len(a) : one[Len(p) + n] = a[n]
    BY Concat
  <2>. HIDE DEF one
  <2>. QED
    BY <2>1
<1>. HIDE DEF one
<1>2. /\ two \in Seq(Int) /\ Len(two) = Len(p) + 2 * t
      /\ \A n \in 1 .. Len(p) + t : two[n] = one[n]
      /\ \A n \in 1 .. t : two[Len(p) + t + n] = b[n]
  <2>1. /\ two \in Seq(Int) /\ Len(two) = Len(one) + Len(b)
        /\ \A n \in 1 .. Len(one) : two[n] = one[n]
        /\ \A n \in 1 .. Len(b) : two[Len(one) + n] = b[n]
    BY <1>1, Concat
  <2>. HIDE DEF two
  <2>. QED
    BY <1>0, <1>1, <2>1
<1>. HIDE DEF two
<1>3. /\ three \in Seq(Int) /\ Len(three) = Len(p) + 3 * t
      /\ \A n \in 1 .. Len(p) + 2 * t : three[n] = two[n]
      /\ \A n \in 1 .. t : three[Len(p) + 2 * t + n] = c[n]
  <2>1. /\ three \in Seq(Int) /\ Len(three) = Len(two) + Len(c)
        /\ \A n \in 1 .. Len(two) : three[n] = two[n]
        /\ \A n \in 1 .. Len(c) : three[Len(two) + n] = c[n]
    BY <1>2, Concat
  <2>. HIDE DEF three
  <2>. QED
    BY <1>0, <1>2, <2>1
<1>. HIDE DEF three
<1>4. /\ four \in Seq(Int) /\ Len(four) = Len(p) + 4 * t
      /\ \A n \in 1 .. Len(p) + 3 * t : four[n] = three[n]
      /\ \A n \in 1 .. t : four[Len(p) + 3 * t + n] = d[n]
  <2>1. /\ four \in Seq(Int) /\ Len(four) = Len(three) + Len(d)
        /\ \A n \in 1 .. Len(three) : four[n] = three[n]
        /\ \A n \in 1 .. Len(d) : four[Len(three) + n] = d[n]
    BY <1>3, Concat
  <2>. HIDE DEF four
  <2>. QED
    BY <1>0, <1>3, <2>1
<1>. HIDE DEF four
<1>5. ASSUME NEW n \in 1 .. Len(p) PROVE four[n] = p[n]
  <2>1. n \in 1 .. Len(p) + t /\ n \in 1 .. Len(p) + 2 * t /\ n \in 1 .. Len(p) + 3 * t
    BY <1>0
  <2>. QED
    BY <1>1, <1>2, <1>3, <1>4, <2>1
<1>6. ASSUME NEW n \in 1 .. t
      PROVE  /\ four[Len(p) + n] = a[n] /\ four[Len(p) + t + n] = b[n]
             /\ four[Len(p) + 2 * t + n] = c[n] /\ four[Len(p) + 3 * t + n] = d[n]
  <2>1. /\ Len(p) + n \in 1 .. Len(p) + t
        /\ Len(p) + n \in 1 .. Len(p) + 2 * t /\ Len(p) + t + n \in 1 .. Len(p) + 2 * t
        /\ Len(p) + n \in 1 .. Len(p) + 3 * t /\ Len(p) + t + n \in 1 .. Len(p) + 3 * t
        /\ Len(p) + 2 * t + n \in 1 .. Len(p) + 3 * t
    BY <1>0
  <2>2. four[Len(p) + n] = a[n]
    <3>1. four[Len(p) + n] = three[Len(p) + n]
      BY <1>4, <2>1
    <3>2. three[Len(p) + n] = two[Len(p) + n]
      BY <1>3, <2>1
    <3>3. two[Len(p) + n] = one[Len(p) + n]
      BY <1>2, <2>1
    <3>. QED
      BY <1>1, <3>1, <3>2, <3>3
  <2>3. four[Len(p) + t + n] = b[n]
    BY <1>2, <1>3, <1>4, <2>1
  <2>4. four[Len(p) + 2 * t + n] = c[n]
    BY <1>3, <1>4, <2>1
  <2>. QED
    BY <1>4, <2>2, <2>3, <2>4
<1>. QED
  BY <1>0, <1>4, <1>5, <1>6 DEF Placed

\* The rows of a candidate: its classes, then its corners.
LEMMA OutputRows ==
  ASSUME NEW c \in Candidates, NEW fit \in Sized, NEW size \in Sized, setting.stride \in {2, 3}
  PROVE  /\ Output(c, fit, size) \in Seq(Int) /\ Len(Output(c, fit, size)) = Channels
         /\ \A n \in 1 .. Classes : Output(c, fit, size)[n] = c.probs[n]
         /\ \A n \in 1 .. 4, m \in 1 .. setting.stride :
              Output(c, fit, size)[Classes + setting.stride * (n - 1) + m] = CornerRow(c, n, fit, size)[m]
<1>. DEFINE row == Output(c, fit, size)
            r(n) == CornerRow(c, n, fit, size)
            t == setting.stride
<1>0. Classes \in Nat /\ t \in Nat
  BY DetectionAssumption
<1>1. \A n \in 1 .. 4 : r(n) \in Seq(Int) /\ Len(r(n)) = t
  BY CornerRowInt
<1>2. c.probs \in Seq(Int) /\ Len(c.probs) = Classes
  BY CandidateTypes, DetectionAssumption
<1>3. row = c.probs \o r(1) \o r(2) \o r(3) \o r(4)
  BY DEF Output
<1>4. /\ r(1) \in Seq(Int) /\ Len(r(1)) = t /\ r(2) \in Seq(Int) /\ Len(r(2)) = t
      /\ r(3) \in Seq(Int) /\ Len(r(3)) = t /\ r(4) \in Seq(Int) /\ Len(r(4)) = t
  BY <1>1
<1>. HIDE DEF row, r, t
<1>5. /\ row \in Seq(Int) /\ Len(row) = Classes + 4 * t
      /\ \A n \in 1 .. Classes : row[n] = c.probs[n]
      /\ \A n \in 1 .. t : /\ row[Classes + n] = r(1)[n]
                           /\ row[Classes + t + n] = r(2)[n]
                           /\ row[Classes + 2 * t + n] = r(3)[n]
                           /\ row[Classes + 3 * t + n] = r(4)[n]
  <2>. DEFINE p == c.probs
              a1 == r(1)
              a2 == r(2)
              a3 == r(3)
              a4 == r(4)
  <2>1. /\ a1 \in Seq(Int) /\ Len(a1) = t /\ a2 \in Seq(Int) /\ Len(a2) = t
        /\ a3 \in Seq(Int) /\ Len(a3) = t /\ a4 \in Seq(Int) /\ Len(a4) = t
        /\ row = p \o a1 \o a2 \o a3 \o a4
    BY <1>3, <1>4
  <2>2. p \in Seq(Int) /\ Len(p) = Classes
    BY <1>2
  <2>. HIDE DEF p, a1, a2, a3, a4
  <2>3. Placed(row, p, a1, a2, a3, a4, t)
    BY <1>0, <2>1, <2>2, FourAfter
  <2>. QED
    BY <2>2, <2>3 DEF p, a1, a2, a3, a4, Placed
<1>6. ASSUME NEW n \in 1 .. 4, NEW m \in 1 .. t PROVE row[Classes + t * (n - 1) + m] = r(n)[m]
  <2>1. n = 1 \/ n = 2 \/ n = 3 \/ n = 4
    OBVIOUS
  <2>2. /\ n = 1 => Classes + t * (n - 1) + m = Classes + m
        /\ n = 2 => Classes + t * (n - 1) + m = Classes + t + m
        /\ n = 3 => Classes + t * (n - 1) + m = Classes + 2 * t + m
        /\ n = 4 => Classes + t * (n - 1) + m = Classes + 3 * t + m
    BY <1>0
  <2>. QED
    BY <1>5, <2>1, <2>2
<1>7. Len(row) = Channels
  BY <1>5 DEF Channels, t
<1>. QED
  BY <1>5, <1>6, <1>7 DEF row, r, t

LEMMA OutputInt ==
  ASSUME NEW c \in Candidates, NEW fit \in Sized, NEW size \in Sized, setting.stride \in {2, 3}
  PROVE  \A n \in 1 .. Channels : Output(c, fit, size)[n] \in Int
  BY OutputRows

LEMMA CornersSorted ==
  ASSUME NEW c \in Candidates, NEW fit \in Sized, NEW size \in Sized, setting.stride \in {2, 3},
         NEW use \in Nat, Stride(use) # 0
  PROVE  Sorted(Corners(Output(c, fit, size), use, fit, size))
<1>. DEFINE row == Output(c, fit, size)
            stride == Stride(use)
<1>1. \A n \in 1 .. Channels : row[n] \in Int
  BY OutputInt
<1>2. Channels \in Int /\ stride \in {2, 3} /\ use + 4 * stride <= Channels
  BY DetectionAssumption DEF Stride, Channels
<1>. HIDE DEF row, stride
<1>3. \A n \in 1 .. 4 : /\ row[use + stride * (n - 1) + 1] \in Int
                        /\ row[use + stride * (n - 1) + 1 + 1] \in Int
  <2>. TAKE n \in 1 .. 4
  <2>1. stride * (n - 1) \in Nat /\ stride * (n - 1) + stride <= 4 * stride
    BY <1>2
  <2>2. /\ use + stride * (n - 1) + 1 \in 1 .. Channels
        /\ use + stride * (n - 1) + 1 + 1 \in 1 .. Channels
    BY <1>2, <2>1
  <2>. QED
    BY <1>1, <2>2
<1>4. ASSUME NEW v \in Int, NEW pad \in Int, NEW length \in Nat \ {0}
      PROVE  FromCanvas(v, pad, fit, length) \in Int
  <2>1. pad * Unit \in Int /\ (length - 1) * Unit \in Int
    BY DetectionAssumption
  <2>2. (v - pad * Unit) * Scale(fit).den \in Int
    BY <2>1, ScaleInt
  <2>3. ((v - pad * Unit) * Scale(fit).den) \div Scale(fit).num \in Int
    BY <2>2, ScaleInt
  <2>. QED
    BY <2>1, <2>3, ClampInt DEF FromCanvas
<1>5. size[1] \in Nat \ {0} /\ size[2] \in Nat \ {0} /\ PadW(fit) \in Int /\ PadH(fit) \in Int
  BY FitInt DEF Sized
<1>6. [n \in 1 .. 4 |-> PointAt(row, use + stride * (n - 1) + 1, fit, size)] \in [1 .. 4 -> Int \X Int]
  BY <1>3, <1>4, <1>5 DEF PointAt
<1>. QED
  BY <1>6 DEF Corners, Sorted, row, stride

LEMMA CornersInvHolds == Spec => []CornersInv
<1>1. Init => CornersInv
  BY DEF Init, CornersInv
<1>2. TypeOK /\ CornersInv /\ [Next]_detectionVars => CornersInv'
  <2>. SUFFICES ASSUME TypeOK, CornersInv, [Next]_detectionVars PROVE CornersInv'
    OBVIOUS
  <2>1. ASSUME NEW s \in Slots, NEW frame \in Frames, Submit(s, frame) PROVE CornersInv'
    <3>1. /\ cached' = [cached EXCEPT ![s] = frame.size]
          /\ job' = [job EXCEPT ![s] = frame] /\ answer' = None
      BY <2>1, SubmitCaches DEF Submit
    <3>2. frame.size # None
      BY FrameTypes
    <3>3. \A t \in Slots : job'[t] # None => cached'[t] # None
      BY <3>1, <3>2 DEF TypeOK, CornersInv
    <3>. QED
      BY <3>1, <3>3 DEF CornersInv
  <2>2. ASSUME NEW s \in Slots, Finish(s) PROVE CornersInv'
    <3>. DEFINE size == job[s].size
                scene == job[s].scene.seen
                use == useClasses'
    <3>1. job[s] \in Frames /\ setting.stride \in {2, 3}
      BY <2>2, DetectionAssumption DEF Finish, TypeOK
    <3>2. use \in Nat
      <4>1. useClasses \in Nat \cup {None}
        BY DEF TypeOK
      <4>2. UseClasses(job[s].scene.leading) \in Nat
        BY <3>1, UseClassesNat, DetectionAssumption DEF TypeOK
      <4>. QED
        BY <2>2, <4>1, <4>2 DEF Finish
    <3>. HIDE DEF use
    <3>3. PICK cut \in Cuts(Decode(scene, cached[s], size, use)) :
            \E keep \in Kept(cut) : \E looked \in Looked(keep) : \E best \in Answers(looked, scene, size) :
              answer' = [size |-> size, scene |-> scene, best |-> best]
      BY <2>2 DEF Finish, use
    <3>k. PICK keep \in Kept(cut) :
            \E looked \in Looked(keep) : \E best \in Answers(looked, scene, size) :
              answer' = [size |-> size, scene |-> scene, best |-> best]
      BY <3>3
    <3>l. PICK looked \in Looked(keep) :
            \E best \in Answers(looked, scene, size) :
              answer' = [size |-> size, scene |-> scene, best |-> best]
      BY <3>k
    <3>4. PICK best \in Answers(looked, scene, size) :
            answer' = [size |-> size, scene |-> scene, best |-> best]
      BY <3>l
    <3>5. looked \subseteq Decode(scene, cached[s], size, use)
      <4>1. \A d, k : \A t \in Top(d, k) : t \subseteq d
        BY DEF Top
      <4>2. cut \subseteq Decode(scene, cached[s], size, use)
        BY <4>1 DEF Cuts
      <4>3. keep \subseteq cut
        BY DEF Kept
      <4>4. looked \subseteq keep
        BY <4>1 DEF Looked
      <4>. QED
        BY <4>2, <4>3, <4>4
    <3>6. ASSUME best # None PROVE Sorted(best.corners) /\ Allowed(best.class)
      <4>1. PICK a \in Best(looked) : best.corners = a.corners /\ best.class = a.class
        BY <3>6 DEF Answers
      <4>a. Allowed(a.class)
        BY <3>5 DEF Best, Decode
      <4>2. PICK n \in DOMAIN scene : a = Decoded(scene[n], cached[s], size, use)
        BY <3>5 DEF Best, Decode
      <4>3. Seen(scene[n], Output(scene[n], cached[s], size), use)
        BY <4>2 DEF Best, Decoded
      <4>4. a.corners = Corners(Output(scene[n], cached[s], size), use, cached[s], size)
        BY <4>2, <4>3 DEF Decoded
      <4>5. Stride(use) # 0
        BY <4>3 DEF Seen
      <4>6. scene[n] \in Candidates
        BY <3>1, FrameTypes
      <4>7. size \in Sized
        BY <3>1, FrameTypes
      <4>8. cached[s] \in Sized
        BY <2>2, FrameTypes DEF TypeOK, CornersInv, Finish
      <4>. QED
        BY <3>1, <3>2, <4>1, <4>a, <4>4, <4>5, <4>6, <4>7, <4>8, CornersSorted
    <3>7. \A t \in Slots : job'[t] # None => cached'[t] # None
      BY <2>2 DEF Finish, TypeOK, CornersInv
    <3>8. /\ \E f \in Frames : answer'.size = f.size /\ answer'.scene = f.scene.seen
          /\ answer'.best = best
      BY <3>1, <3>4
    <3>9. setting' = setting
      BY <2>2 DEF Finish
    <3>. QED
      BY <3>6, <3>7, <3>8, <3>9 DEF CornersInv, Allowed, AllowedTable
  <2>3. CASE UNCHANGED detectionVars
    BY <2>3 DEF detectionVars, CornersInv, Allowed, AllowedTable
  <2>. QED
    BY <2>1, <2>2, <2>3 DEF Next
<1>. QED
  BY <1>1, <1>2, DetectionType, PTL DEF Spec

(* Whatever is published, an armor whose edges lean less than 45 degrees   *)
(* is published with its corners in the pose solver's order.               *)
THEOREM PublishedCornersOrdered == Spec => []CornersOrdered
  BY CornersInvHolds, CornersInvOrdered, PTL

(* With the labels at hand, only the wanted colour is published.           *)
THEOREM OnlyWantedColour == Spec => []ColourKept
<1>1. TypeOK /\ CornersInv => ColourKept
  <2>. SUFFICES ASSUME TypeOK, CornersInv, Published,
                       setting.wanted # "any", setting.labels # <<>>
                PROVE  /\ answer.best.class \in DOMAIN setting.labels
                       /\ setting.labels[answer.best.class] = setting.wanted
    BY DEF ColourKept
  <2>. DEFINE table == [n \in DOMAIN setting.labels |-> setting.labels[n] = setting.wanted]
  <2>1. AllowedTable = table /\ Allowed(answer.best.class)
    BY DEF AllowedTable, CornersInv, Published
  <2>3. DOMAIN setting.labels # {}
    BY DetectionAssumption DEF TypeOK
  <2>4. DOMAIN table = DOMAIN setting.labels /\ DOMAIN <<>> = {}
    OBVIOUS
  <2>. HIDE DEF table
  <2>5. table # <<>>
    BY <2>3, <2>4
  <2>6. answer.best.class \in DOMAIN table /\ table[answer.best.class]
    BY <2>1, <2>5 DEF Allowed
  <2>. QED
    BY <2>4, <2>6 DEF table
<1>. QED
  BY <1>1, CornersInvHolds, DetectionType, PTL

-----------------------------------------------------------------------------
(* What run() makes of a candidate with the right layout.                  *)

LEMMA LeastNat ==
  ASSUME NEW T \in SUBSET Nat, T # {}
  PROVE  \E x \in T : \A y \in T : x <= y
<1>. DEFINE R == OpToRel(<, Nat)
<1>1. IsWellFoundedOn(R, Nat)
  BY NatLessThanWellFounded
<1>2. \A x, y \in Nat : y < x => <<y, x>> \in R
  BY DEF OpToRel
<1>. HIDE DEF R
<1>a. \E x \in T : \A y \in T : ~ (<<y, x>> \in R)
  BY <1>1, WFMin
<1>3. PICK x \in T : \A y \in T : ~ (<<y, x>> \in R)
  BY <1>a
<1>4. ASSUME NEW y \in T PROVE x <= y
  <2>1. x \in Nat /\ y \in Nat /\ ~ (y < x)
    BY <1>2, <1>3
  <2>. QED
    BY <2>1
<1>. QED
  BY <1>4

\* The first class with the highest probability exists.
LEMMA LikelyMost ==
  ASSUME NEW c \in Candidates
  PROVE  /\ Likely(c) \in 1 .. Classes
         /\ \A m \in 1 .. Classes : c.probs[m] <= c.probs[Likely(c)]
         /\ \A m \in 1 .. Likely(c) - 1 : c.probs[m] < c.probs[Likely(c)]
<1>. DEFINE p == c.probs
            T == {Unit - p[n] : n \in 1 .. Classes}
<1>1. Classes \in Nat \ {0} /\ Unit \in Nat /\ \A n \in 1 .. Classes : p[n] \in 0 .. Unit
  BY CandidateTypes, DetectionAssumption
<1>. HIDE DEF p
<1>2. PICK t \in T : \A y \in T : t <= y
  <2>1. T \in SUBSET Nat
    BY <1>1
  <2>2. Unit - p[1] \in T
    BY <1>1
  <2>. QED
    BY <2>1, <2>2, LeastNat
<1>3. PICK most \in 1 .. Classes : t = Unit - p[most]
  BY <1>2
<1>4. ASSUME NEW m \in 1 .. Classes PROVE p[m] <= p[most]
  <2>1. Unit - p[m] \in T
    OBVIOUS
  <2>2. Unit - p[most] <= Unit - p[m]
    BY <1>2, <1>3, <2>1
  <2>3. p[m] \in Int /\ p[most] \in Int
    BY <1>1
  <2>. QED
    BY <1>1, <2>2, <2>3
<1>. DEFINE F == {n \in 1 .. Classes : p[n] = p[most]}
<1>5. PICK first \in F : \A y \in F : first <= y
  <2>1. F \in SUBSET Nat /\ most \in F
    BY <1>1
  <2>. QED
    BY <2>1, LeastNat
<1>6. first \in 1 .. Classes /\ \A m \in 1 .. Classes : p[m] < p[first] \/ (p[m] = p[first] /\ first <= m)
  BY <1>1, <1>4, <1>5
<1>7. /\ Likely(c) \in 1 .. Classes
      /\ \A m \in 1 .. Classes : p[m] < p[Likely(c)] \/ (p[m] = p[Likely(c)] /\ Likely(c) <= m)
  BY <1>6 DEF Likely, p
<1>8. \A m \in 1 .. Classes : p[m] <= p[Likely(c)]
  BY <1>1, <1>7
<1>9. \A m \in 1 .. Likely(c) - 1 : p[m] < p[Likely(c)]
  BY <1>1, <1>7
<1>. QED
  BY <1>7, <1>8, <1>9 DEF p

\* It is the class the loop over the class rows finds, with its probability.
LEMMA BestOfRow ==
  ASSUME NEW c \in Candidates, NEW row, \A n \in 1 .. Classes : row[n] = c.probs[n]
  PROVE  /\ BestScore(row, Classes) = c.probs[Likely(c)]
         /\ c.probs[Likely(c)] > 0 => BestClass(row, Classes) = Likely(c)
<1>. DEFINE p == c.probs
            best == Likely(c)
<1>1. Classes \in Nat \ {0} /\ Unit \in Nat /\ \A n \in 1 .. Classes : p[n] \in 0 .. Unit
  BY CandidateTypes, DetectionAssumption
<1>2. /\ best \in 1 .. Classes
      /\ \A m \in 1 .. Classes : p[m] <= p[best]
      /\ \A m \in 1 .. best - 1 : p[m] < p[best]
  BY LikelyMost
<1>3. \A n \in 1 .. Classes : ToProb(row[n]) = p[n]
  BY <1>1 DEF ToProb
<1>. HIDE DEF p, best
<1>4. BestScore(row, Classes) = p[best]
  <2>1. p[best] \in {ToProb(row[n]) : n \in 1 .. Classes} /\ \A n \in 1 .. Classes : ToProb(row[n]) <= p[best]
    <3>1. ToProb(row[best]) = p[best]
      BY <1>2, <1>3
    <3>2. ToProb(row[best]) \in {ToProb(row[n]) : n \in 1 .. Classes}
      BY <1>2
    <3>3. \A n \in 1 .. Classes : ToProb(row[n]) <= p[best]
      BY <1>2, <1>3
    <3>. QED
      BY <3>1, <3>2, <3>3
  <2>2. ASSUME NEW v \in {ToProb(row[n]) : n \in 1 .. Classes}, \A n \in 1 .. Classes : ToProb(row[n]) <= v
        PROVE  v = p[best]
    <3>1. PICK n \in 1 .. Classes : v = p[n]
      BY <1>3
    <3>2. p[n] <= p[best] /\ p[best] <= p[n] /\ p[n] \in Int /\ p[best] \in Int
      BY <1>1, <1>2, <1>3, <2>2, <3>1
    <3>. QED
      BY <3>1, <3>2
  <2>. QED
    BY <2>1, <2>2 DEF BestScore
<1>5. ASSUME p[best] > 0 PROVE BestClass(row, Classes) = best
  <2>1. /\ ToProb(row[best]) = p[best]
        /\ \A m \in 1 .. best - 1 : ToProb(row[m]) < p[best]
    <3>1. \A m \in 1 .. best - 1 : m \in 1 .. Classes
      BY <1>1, <1>2
    <3>. QED
      BY <1>2, <1>3, <3>1
  <2>2. ASSUME NEW n \in 1 .. Classes, ToProb(row[n]) = p[best], \A m \in 1 .. n - 1 : ToProb(row[m]) < p[best]
        PROVE  n = best
    <3>1. p[n] = p[best] /\ p[n] \in Int
      BY <1>1, <1>3, <2>2
    <3>2. ~ (n < best)
      BY <1>2, <3>1
    <3>3. ~ (best < n)
      BY <1>1, <1>2, <1>3, <2>2, <3>1
    <3>. QED
      BY <1>2, <3>2, <3>3
  <2>3. BestScore(row, Classes) # 0
    BY <1>1, <1>2, <1>4, <1>5
  <2>. QED
    BY <1>2, <1>4, <2>1, <2>2, <2>3 DEF BestClass
<1>. QED
  BY <1>4, <1>5 DEF p, best

\* The corners are where the right number of classes says.
LEMMA StrideRight ==
  ASSUME setting.stride \in {2, 3}
  PROVE  Stride(Classes) = setting.stride
  BY DetectionAssumption DEF Stride, Channels

Cornered(c) == c.finite /\ (setting.stride = 3 => \A n \in 1 .. 4 : 20 * c.marks[n] >= Unit)

LEMMA SeenAsIs ==
  ASSUME NEW c \in Candidates, NEW size \in Sized, setting.stride \in {2, 3}
  PROVE  Seen(c, Output(c, size, size), Classes) <=> Cornered(c)
<1>. DEFINE row == Output(c, size, size)
<1>1. Stride(Classes) = setting.stride /\ Stride(Classes) # 0
  BY StrideRight
<1>2. ASSUME setting.stride = 3, NEW n \in 0 .. 3
      PROVE  ToProb(row[Classes + 3 * n + 3]) = c.marks[n + 1]
  <2>1. n + 1 \in 1 .. 4 /\ (n + 1) - 1 = n
    OBVIOUS
  <2>2. row[Classes + 3 * ((n + 1) - 1) + 3] = CornerRow(c, n + 1, size, size)[3]
    BY <1>2, <2>1, OutputRows
  <2>3. CornerRow(c, n + 1, size, size)[3] = c.marks[n + 1]
    BY <1>2 DEF CornerRow
  <2>4. c.marks[n + 1] \in 0 .. Unit
    BY <2>1, CandidateTypes
  <2>. QED
    BY <2>1, <2>2, <2>3, <2>4 DEF ToProb
<1>3. \A n \in 1 .. 4 : n - 1 \in 0 .. 3 /\ (n - 1) + 1 = n
  OBVIOUS
<1>4. \A n \in 0 .. 3 : n + 1 \in 1 .. 4
  OBVIOUS
<1>. HIDE DEF row
<1>5. setting.stride = 3 =>
        ((\A n \in 0 .. 3 : 20 * ToProb(row[Classes + 3 * n + 3]) >= Unit)
          <=> (\A n \in 1 .. 4 : 20 * c.marks[n] >= Unit))
  BY <1>2, <1>3, <1>4
<1>. QED
  BY <1>1, <1>5 DEF Seen, Cornered, row

-----------------------------------------------------------------------------
(* To the canvas and back.                                                 *)

\* Products and quotients keep the order.
LEMMA MulMono ==
  ASSUME NEW a \in Int, NEW b \in Int, a <= b, NEW k \in Nat
  PROVE  a * k <= b * k
  OBVIOUS

\* A factor that is not zero can be cancelled.
LEMMA Cancel ==
  ASSUME NEW x \in Int, NEW y \in Int, NEW k \in Nat \ {0}, k * x <= k * y
  PROVE  x <= y
<1>. SUFFICES ASSUME y < x PROVE FALSE
  OBVIOUS
<1>1. y + 1 <= x
  OBVIOUS
<1>2. (y + 1) * k <= x * k
  BY <1>1, MulMono
<1>. QED
  BY <1>2

\* The quotient is the greatest number that fits.
LEMMA DivBounds ==
  ASSUME NEW a \in Int, NEW k \in Nat \ {0}
  PROVE  /\ a \div k \in Int
         /\ k * (a \div k) <= a
         /\ a < k * (a \div k) + k
  OBVIOUS

LEMMA DivMono ==
  ASSUME NEW a \in Int, NEW b \in Int, a <= b, NEW k \in Nat \ {0}
  PROVE  a \div k <= b \div k
<1>. DEFINE q == a \div k
            r == b \div k
<1>1. q \in Int /\ r \in Int /\ k * q <= a /\ b < k * r + k
  BY DivBounds
<1>. HIDE DEF q, r
<1>2. k * q <= k * (r + 1) - 1
  BY <1>1
<1>3. ~ (r + 1 <= q)
  <2>. SUFFICES ASSUME r + 1 <= q PROVE FALSE
    OBVIOUS
  <2>1. (r + 1) * k <= q * k
    BY <1>1, MulMono
  <2>. QED
    BY <1>1, <1>2, <2>1
<1>4. q <= r
  BY <1>1, <1>3
<1>. QED
  BY <1>4 DEF q, r

\* To the canvas (a division by the frame's width W) and back (one by the
\* scale n over d): how far the result g is from v when the fit F is the
\* nearest whole number to W times the scale.
LEMMA Trip ==
  ASSUME NEW W \in Nat \ {0}, NEW U \in Nat, NEW n \in Nat \ {0}, NEW d \in Nat \ {0}, NEW F \in Int,
         NEW v \in 0 .. W * U, NEW q \in Int, NEW g \in Int,
         W * q <= v * F, v * F < W * q + W,
         n * g <= q * d, q * d < n * g + n,
         2 * d * F <= 2 * W * n + d, 2 * W * n - d <= 2 * d * F
  PROVE  /\ 2 * n * (g - v) <= U * d
         /\ 2 * n * (v - g) <= (U + 2) * d + 2 * n
<1>0. W * U \in Nat /\ v \in Nat /\ v <= W * U
  OBVIOUS
<1>1. v * d <= (W * U) * d
  BY <1>0, MulMono
<1>2. (2 * d * F) * v <= (2 * W * n + d) * v
  <2>1. 2 * d * F \in Int /\ 2 * W * n + d \in Int
    OBVIOUS
  <2>. QED BY <1>0, <2>1, MulMono
<1>3. (2 * W * n - d) * v <= (2 * d * F) * v
  <2>1. 2 * d * F \in Int /\ 2 * W * n - d \in Int
    OBVIOUS
  <2>. QED BY <1>0, <2>1, MulMono
<1>4. W * (2 * n * (g - v)) <= W * (U * d)
  <2>1. (n * g) * (2 * W) <= (q * d) * (2 * W)
    <3>1. n * g \in Int /\ q * d \in Int /\ 2 * W \in Nat
      OBVIOUS
    <3>. QED BY <3>1, MulMono
  <2>2. (W * q) * (2 * d) <= (v * F) * (2 * d)
    <3>1. W * q \in Int /\ v * F \in Int /\ 2 * d \in Nat
      OBVIOUS
    <3>. QED BY <3>1, MulMono
  <2>3. (n * g) * (2 * W) <= (2 * W * n) * v + v * d
    BY <1>2, <2>1, <2>2
  <2>. QED BY <1>1, <2>3
<1>5. W * (2 * n * (v - g)) <= W * ((U + 2) * d + 2 * n)
  <2>1. (q * d) * (2 * W) <= (n * g + n) * (2 * W)
    <3>1. n * g + n \in Int /\ q * d \in Int /\ 2 * W \in Nat
      OBVIOUS
    <3>. QED BY <3>1, MulMono
  <2>2. (v * F) * (2 * d) <= (W * q + W) * (2 * d)
    <3>1. W * q + W \in Int /\ v * F \in Int /\ 2 * d \in Nat
      OBVIOUS
    <3>. QED BY <3>1, MulMono
  <2>3. (2 * W * n) * v - v * d <= (v * F) * (2 * d)
    BY <1>3
  <2>4. (2 * W * n) * v - v * d <= (n * g) * (2 * W) + n * (2 * W) + W * (2 * d)
    BY <2>1, <2>2, <2>3
  <2>. QED BY <1>1, <2>4
<1>6. /\ 2 * n * (g - v) \in Int /\ U * d \in Int
      /\ 2 * n * (v - g) \in Int /\ (U + 2) * d + 2 * n \in Int
  OBVIOUS
<1>7. 2 * n * (g - v) <= U * d
  BY <1>4, <1>6, Cancel
<1>8. 2 * n * (v - g) <= (U + 2) * d + 2 * n
  BY <1>5, <1>6, Cancel
<1>. QED
  BY <1>7, <1>8

\* A coordinate taken to the canvas and back, before it is clamped.
Back(v, fit, length, num, den) == (((v * fit) \div length) * den) \div num

LEMMA BackMono ==
  ASSUME NEW v \in Int, NEW w \in Int, v <= w, NEW fit \in Nat,
         NEW length \in Nat \ {0}, NEW num \in Nat \ {0}, NEW den \in Nat \ {0}
  PROVE  Back(v, fit, length, num, den) <= Back(w, fit, length, num, den)
<1>. DEFINE a == (v * fit) \div length
            b == (w * fit) \div length
<1>1. v * fit <= w * fit /\ v * fit \in Int /\ w * fit \in Int
  BY MulMono
<1>2. a <= b /\ a \in Int /\ b \in Int
  BY <1>1, DivMono, DivBounds
<1>. HIDE DEF a, b
<1>3. a * den <= b * den /\ a * den \in Int /\ b * den \in Int
  BY <1>2, MulMono
<1>4. (a * den) \div num <= (b * den) \div num
  BY <1>3, DivMono
<1>. QED
  BY <1>4 DEF Back, a, b

LEMMA BackInt ==
  ASSUME NEW v \in Int, NEW fit \in Nat,
         NEW length \in Nat \ {0}, NEW num \in Nat \ {0}, NEW den \in Nat \ {0}
  PROVE  Back(v, fit, length, num, den) \in Int /\ Back(0, fit, length, num, den) = 0
<1>1. v * fit \in Int
  OBVIOUS
<1>2. ((v * fit) \div length) * den \in Int
  BY <1>1, DivBounds
<1>3. (0 * fit) \div length = 0 /\ 0 * den = 0 /\ 0 \div num = 0
  OBVIOUS
<1>. QED
  BY <1>2, <1>3, DivBounds DEF Back

\* std::round is within a half.
LEMMA RoundBounds ==
  ASSUME NEW a \in Nat, NEW den \in Nat \ {0}
  PROVE  /\ Round(a, den) \in Nat
         /\ 2 * den * Round(a, den) <= 2 * a + den
         /\ 2 * a - den <= 2 * den * Round(a, den)
<1>. DEFINE k == 2 * den
            b == 2 * a + den
            r == b \div k
<1>1. k \in Nat \ {0} /\ b \in Nat
  OBVIOUS
<1>6. Round(a, den) = r
  BY DEF Round
<1>. HIDE DEF k, b
<1>a. r \in Int /\ k * r <= b /\ b < k * r + k
  BY <1>1, DivBounds
<1>3. 0 \div k <= r /\ 0 \div k = 0
  BY <1>1, DivMono
<1>. HIDE DEF r
<1>2. (2 * den) * r <= 2 * a + den /\ 2 * a + den < (2 * den) * r + 2 * den
  BY <1>a DEF k, b
<1>5. r \in Nat
  BY <1>a, <1>3
<1>. QED
  BY <1>2, <1>5, <1>6

\* A coordinate of the frame comes back near itself.
LEMMA BackNear ==
  ASSUME NEW length \in Nat \ {0}, NEW num \in Nat \ {0}, NEW den \in Nat \ {0},
         NEW v \in 0 .. length * Unit, NEW fit, fit = Round(length * num, den)
  PROVE  /\ 2 * num * (Back(v, fit, length, num, den) - v) <= Unit * den
         /\ 2 * num * (v - Back(v, fit, length, num, den)) <= (Unit + 2) * den + 2 * num
<1>0. Unit \in Nat /\ v \in Nat /\ length * num \in Nat
  BY DetectionAssumption
<1>1. fit \in Nat /\ 2 * den * fit <= 2 * (length * num) + den /\ 2 * (length * num) - den <= 2 * den * fit
  BY <1>0, RoundBounds
<1>. DEFINE q == (v * fit) \div length
            g == (q * den) \div num
<1>2. v * fit \in Int
  BY <1>0, <1>1
<1>3. q \in Int /\ length * q <= v * fit /\ v * fit < length * q + length
  BY <1>2, DivBounds
<1>. HIDE DEF q
<1>4. q * den \in Int
  BY <1>3
<1>5. g \in Int /\ num * g <= q * den /\ q * den < num * g + num
  BY <1>4, DivBounds
<1>. HIDE DEF g
<1>6. 2 * den * fit <= 2 * length * num + den /\ 2 * length * num - den <= 2 * den * fit
  BY <1>0, <1>1
<1>7. /\ 2 * num * (g - v) <= Unit * den
      /\ 2 * num * (v - g) <= (Unit + 2) * den + 2 * num
  BY <1>0, <1>1, <1>3, <1>5, <1>6, Trip
<1>8. g = Back(v, fit, length, num, den)
  BY DEF g, q, Back
<1>. QED
  BY <1>7, <1>8

\* What Near says along one axis.
Close(v, w, num, den) == 2 * num * (v - w) <= (Unit + 2) * den + 2 * num

(* A coordinate comes back from the canvas to where it was, or to the      *)
(* nearest edge of the frame, within half a pixel of the canvas and what   *)
(* rounding adds to it, whatever the sizes.                                *)
(* Code: preprocess() and image_point_from_model, which undoes it.         *)
THEOREM RoundTrip ==
  ASSUME NEW length \in Nat \ {0}, NEW num \in Nat \ {0}, NEW den \in Nat \ {0},
         NEW v \in Int, NEW fit, fit = Round(length * num, den),
         NEW top, top = (length - 1) * Unit,
         NEW out, out = Clamp(Back(v, fit, length, num, den), top)
  PROVE  /\ out \in 0 .. top /\ Clamp(v, top) \in 0 .. top
         /\ Close(out, Clamp(v, top), num, den)
         /\ Close(Clamp(v, top), out, num, den)
<1>. DEFINE G(u) == Back(u, fit, length, num, den)
            all == length * Unit
<1>0. Unit \in Nat /\ top \in Nat /\ all \in Nat /\ top <= all
  <2>1. Unit \in Nat /\ length - 1 \in Nat
    BY DetectionAssumption
  <2>2. top = length * Unit - Unit /\ (length - 1) * Unit \in Nat
    BY <2>1
  <2>. QED
    BY <2>1, <2>2
<1>1. fit \in Nat
  BY RoundBounds
<1>2. \A u \in Int : G(u) \in Int
  BY <1>1, BackInt
<1>3. G(0) = 0
  BY <1>1, BackInt
<1>4. \A u, w \in Int : u <= w => G(u) <= G(w)
  BY <1>1, BackMono
<1>5. \A u \in 0 .. all : /\ 2 * num * (G(u) - u) <= Unit * den
                          /\ 2 * num * (u - G(u)) <= (Unit + 2) * den + 2 * num
  BY BackNear
<1>6. out = Clamp(G(v), top)
  OBVIOUS
<1>. HIDE DEF G, all
<1>7. out \in 0 .. top /\ Clamp(v, top) \in 0 .. top
  BY <1>0, <1>2, <1>6 DEF Clamp
<1>. DEFINE tol == (Unit + 2) * den + 2 * num
<1>8. tol \in Nat /\ Unit * den <= tol
  BY <1>0
<1>9. ASSUME NEW x \in Int, NEW y \in Int, NEW e \in Int, x <= e \/ x <= 0, y <= -e \/ y <= 0,
             2 * num * e <= tol, 2 * num * (-e) <= tol
      PROVE  2 * num * x <= tol /\ 2 * num * y <= tol
  <2>1. ASSUME NEW a \in Int, NEW b \in Int, a <= b PROVE 2 * num * a <= 2 * num * b
    <3>1. a * (2 * num) <= b * (2 * num)
      BY <2>1, MulMono
    <3>. QED
      BY <3>1
  <2>2. 2 * num * 0 = 0 /\ -e \in Int
    OBVIOUS
  <2>3. x <= e => 2 * num * x <= 2 * num * e
    BY <2>1
  <2>4. x <= 0 => 2 * num * x <= 0
    BY <2>1, <2>2
  <2>5. y <= -e => 2 * num * y <= 2 * num * (-e)
    BY <2>1, <2>2
  <2>6. y <= 0 => 2 * num * y <= 0
    BY <2>1, <2>2
  <2>7. /\ 2 * num * x \in Int /\ 2 * num * y \in Int
        /\ 2 * num * e \in Int /\ 2 * num * (-e) \in Int
    OBVIOUS
  <2>. HIDE DEF tol
  <2>. QED
    BY <1>8, <1>9, <2>3, <2>4, <2>5, <2>6, <2>7
<1>10. ASSUME NEW u \in 0 .. all, NEW x \in Int, NEW y \in Int,
              x <= G(u) - u \/ x <= 0, y <= u - G(u) \/ y <= 0
       PROVE  2 * num * x <= tol /\ 2 * num * y <= tol
  <2>. DEFINE e == G(u) - u
  <2>1. u \in Int /\ G(u) \in Int
    BY <1>0, <1>2
  <2>2. e \in Int /\ -e = u - G(u)
    BY <2>1
  <2>3. 2 * num * e <= Unit * den /\ 2 * num * (-e) <= tol
    BY <1>5, <2>2
  <2>4. 2 * num * e <= tol
    BY <1>0, <1>8, <2>2, <2>3
  <2>5. (x <= e \/ x <= 0) /\ (y <= -e \/ y <= 0)
    BY <1>10, <2>2
  <2>. HIDE DEF e, tol
  <2>. QED
    BY <1>9, <2>2, <2>3, <2>4, <2>5
<1>. DEFINE x == out - Clamp(v, top)
            y == Clamp(v, top) - out
<1>11. x \in Int /\ y \in Int
  BY <1>0, <1>7
<1>12. PICK u \in 0 .. all : (x <= G(u) - u \/ x <= 0) /\ (y <= u - G(u) \/ y <= 0)
  <2>1. CASE v < 0
    <3>1. G(v) <= 0
      BY <1>3, <1>4, <2>1
    <3>2. out = 0 /\ Clamp(v, top) = 0
      BY <1>0, <1>2, <1>6, <2>1, <3>1 DEF Clamp
    <3>. QED
      BY <1>0, <3>2
  <2>2. CASE v \in 0 .. all
    <3>1. (x <= G(v) - v \/ x <= 0) /\ (y <= v - G(v) \/ y <= 0)
      BY <1>0, <1>2, <1>6 DEF Clamp
    <3>. QED
      BY <2>2, <3>1
  <2>3. CASE v > all
    <3>1. G(all) <= G(v) /\ G(all) \in Int /\ G(v) \in Int
      BY <1>0, <1>2, <1>4, <2>3
    <3>2. Clamp(v, top) = top
      BY <1>0, <2>3 DEF Clamp
    <3>3. x <= 0 /\ (y <= all - G(all) \/ y <= 0)
      BY <1>0, <1>6, <1>7, <3>1, <3>2 DEF Clamp
    <3>4. all \in 0 .. all
      BY <1>0
    <3>. QED
      BY <3>3, <3>4
  <2>. QED
    BY <1>0, <2>1, <2>2, <2>3
<1>. HIDE DEF x, y, tol
<1>13. 2 * num * x <= tol /\ 2 * num * y <= tol
  BY <1>10, <1>11, <1>12
<1>. QED
  BY <1>7, <1>13 DEF Close, x, y, tol

\* The padding cancels out.
LEMMA AxisTrip ==
  ASSUME NEW size \in Sized, NEW length \in Nat \ {0}, NEW v \in Int, NEW pad \in Int, NEW fit \in Nat
  PROVE  FromCanvas(ToCanvas(v, pad, fit, length), pad, size, length)
           = Clamp(Back(v, fit, length, Scale(size).num, Scale(size).den), (length - 1) * Unit)
<1>. DEFINE q == (v * fit) \div length
<1>1. v * fit \in Int /\ pad * Unit \in Int
  BY DetectionAssumption
<1>2. q \in Int
  BY <1>1, DivBounds
<1>3. ToCanvas(v, pad, fit, length) = q + pad * Unit
  BY DEF ToCanvas
<1>. HIDE DEF q
<1>4. ToCanvas(v, pad, fit, length) - pad * Unit = q
  BY <1>1, <1>2, <1>3
<1>. QED
  BY <1>4 DEF FromCanvas, Back, q

\* A point of the output with the fit of its own frame is near the corner
\* it stands for.
LEMMA PointNear ==
  ASSUME NEW c \in Candidates, NEW size \in Sized, setting.stride \in {2, 3}, NEW k \in 1 .. 4
  PROVE  LET point == PointAt(Output(c, size, size), Classes + setting.stride * (k - 1) + 1, size, size)
         IN  point \in Int \X Int /\ Near(point, c, size)
<1>. DEFINE row == Output(c, size, size)
            at == Classes + setting.stride * (k - 1) + 1
            num == Scale(size).num
            den == Scale(size).den
            v == c.quad[k][1]
            w == c.quad[k][2]
            topW == (size[1] - 1) * Unit
            topH == (size[2] - 1) * Unit
            x == FromCanvas(ToCanvas(v, PadW(size), FitW(size), size[1]), PadW(size), size, size[1])
            y == FromCanvas(ToCanvas(w, PadH(size), FitH(size), size[2]), PadH(size), size, size[2])
<1>1. /\ size[1] \in Nat \ {0} /\ size[2] \in Nat \ {0} /\ num \in Nat \ {0} /\ den \in Nat \ {0}
      /\ v \in Int /\ w \in Int /\ PadW(size) \in Int /\ PadH(size) \in Int
  BY ScaleInt, CandidateTypes, FitInt DEF Sized
<1>2. FitW(size) = Round(size[1] * num, den) /\ FitH(size) = Round(size[2] * num, den)
  BY DEF FitW, FitH
<1>3. FitW(size) \in Nat /\ FitH(size) \in Nat
  <2>. HIDE DEF num, den
  <2>1. size[1] * num \in Nat /\ size[2] * num \in Nat
    BY <1>1
  <2>. QED
    BY <1>1, <1>2, <2>1, RoundBounds
<1>4. row[at] = CornerRow(c, k, size, size)[1] /\ row[at + 1] = CornerRow(c, k, size, size)[2]
  <2>1. 1 \in 1 .. setting.stride /\ 2 \in 1 .. setting.stride
    OBVIOUS
  <2>2. at + 1 = Classes + setting.stride * (k - 1) + 2
    BY DetectionAssumption
  <2>. QED
    BY <2>1, <2>2, OutputRows
<1>5. /\ row[at] = ToCanvas(v, PadW(size), FitW(size), size[1])
      /\ row[at + 1] = ToCanvas(w, PadH(size), FitH(size), size[2])
  BY <1>4 DEF CornerRow
<1>6. PointAt(row, at, size, size) = <<x, y>>
  BY <1>5 DEF PointAt
<1>7. /\ x = Clamp(Back(v, FitW(size), size[1], num, den), topW)
      /\ y = Clamp(Back(w, FitH(size), size[2], num, den), topH)
  <2>1. ASSUME NEW length \in Nat \ {0}, NEW u \in Int, NEW pad \in Int, NEW fit \in Nat
        PROVE  FromCanvas(ToCanvas(u, pad, fit, length), pad, size, length)
                 = Clamp(Back(u, fit, length, num, den), (length - 1) * Unit)
    BY AxisTrip
  <2>. HIDE DEF v, w, num, den
  <2>2. x = Clamp(Back(v, FitW(size), size[1], num, den), topW)
    BY <1>1, <1>3, <2>1
  <2>3. y = Clamp(Back(w, FitH(size), size[2], num, den), topH)
    BY <1>1, <1>3, <2>1
  <2>. QED
    BY <2>2, <2>3
<1>. HIDE DEF x, y, row, at, v, w, num, den
<1>8. /\ x \in 0 .. topW /\ Close(x, Clamp(v, topW), num, den) /\ Close(Clamp(v, topW), x, num, den)
      /\ y \in 0 .. topH /\ Close(y, Clamp(w, topH), num, den) /\ Close(Clamp(w, topH), y, num, den)
  BY <1>1, <1>2, <1>7, RoundTrip
<1>9. At(c, size)[k] = <<Clamp(v, topW), Clamp(w, topH)>>
  BY DEF At, v, w
<1>. HIDE DEF topW, topH
<1>10. x \in Int /\ y \in Int
  BY <1>8
<1>11. Near(<<x, y>>, c, size)
  <2>. DEFINE close(a, b) == 2 * Scale(size).num * (a - b) <= (Unit + 2) * Scale(size).den + 2 * Scale(size).num
  <2>1. \A axis \in 1 .. 2 : close(<<x, y>>[axis], At(c, size)[k][axis]) /\ close(At(c, size)[k][axis], <<x, y>>[axis])
    <3>. TAKE axis \in 1 .. 2
    <3>1. CASE axis = 1
      BY <1>8, <1>9, <3>1 DEF Close, num, den
    <3>2. CASE axis = 2
      BY <1>8, <1>9, <3>2 DEF Close, num, den
    <3>. QED
      BY <3>1, <3>2
  <2>. QED
    BY <2>1 DEF Near
<1>. QED
  BY <1>6, <1>10, <1>11 DEF row, at

\* So are the sorted corners.
LEMMA CornersNear ==
  ASSUME NEW c \in Candidates, NEW size \in Sized, setting.stride \in {2, 3}, NEW k \in 1 .. 4
  PROVE  Near(Corners(Output(c, size, size), Classes, size, size)[k], c, size)
<1>. DEFINE point(n) == PointAt(Output(c, size, size), Classes + setting.stride * (n - 1) + 1, size, size)
            r == [n \in 1 .. 4 |-> point(n)]
<1>1. \A n \in 1 .. 4 : point(n) \in Int \X Int /\ Near(point(n), c, size)
  BY PointNear
<1>2. Corners(Output(c, size, size), Classes, size, size) = OrderCorners(r)
  BY StrideRight DEF Corners
<1>. HIDE DEF point
<1>3. r \in [1 .. 4 -> Int \X Int]
  BY <1>1
<1>4. PICK m \in 1 .. 4 : OrderCorners(r)[k] = r[m]
  BY <1>3, OrderedAmong
<1>5. OrderCorners(r)[k] = point(m)
  BY <1>4
<1>. QED
  BY <1>1, <1>2, <1>5

(* With the right layout and the fit of its own frame, a candidate comes   *)
(* out with its own score, class and corners, however many channels there  *)
(* are per corner.                                                         *)
(* Code: the loop over the anchor points in run().                         *)
THEOREM DecodedRight ==
  ASSUME NEW c \in Candidates, NEW size \in Sized, setting.stride \in {2, 3}
  PROVE  LET d == Decoded(c, size, size, Classes)
         IN  /\ d.score = c.probs[Likely(c)]
             /\ d.score > 0 => d.class = Likely(c)
             /\ d.seen <=> Cornered(c)
             /\ d.seen => \A k \in 1 .. 4 : Near(d.corners[k], c, size)
             /\ d.box = Box(c, size, size)
<1>. DEFINE row == Output(c, size, size)
            d == Decoded(c, size, size, Classes)
<1>1. /\ BestScore(row, Classes) = c.probs[Likely(c)]
      /\ c.probs[Likely(c)] > 0 => BestClass(row, Classes) = Likely(c)
  BY OutputRows, BestOfRow
<1>2. Seen(c, row, Classes) <=> Cornered(c)
  BY SeenAsIs
<1>3. \A k \in 1 .. 4 : Near(Corners(row, Classes, size, size)[k], c, size)
  BY CornersNear
<1>4. d = [box |-> Box(c, size, size), class |-> BestClass(row, Classes),
           score |-> BestScore(row, Classes), seen |-> Seen(c, row, Classes),
           corners |-> IF Seen(c, row, Classes) THEN Corners(row, Classes, size, size) ELSE <<>>]
  BY DEF Decoded
<1>. HIDE DEF row, d
<1>5. /\ d.box = Box(c, size, size) /\ d.class = BestClass(row, Classes)
      /\ d.score = BestScore(row, Classes) /\ d.seen = Seen(c, row, Classes)
      /\ d.seen => d.corners = Corners(row, Classes, size, size)
  BY <1>4
<1>6. d.score = c.probs[Likely(c)] /\ (d.score > 0 => d.class = Likely(c))
  BY <1>1, <1>5
<1>7. d.seen <=> Cornered(c)
  BY <1>2, <1>5
<1>8. d.seen => \A k \in 1 .. 4 : Near(d.corners[k], c, size)
  BY <1>3, <1>5
<1>. QED
  BY <1>5, <1>6, <1>7, <1>8 DEF d

-----------------------------------------------------------------------------
(* What is published is one armor.                                         *)

\* What OneArmor says of the armor best.
OneArmorOf(best, scene, size) ==
  LET There == {c \in {scene[n] : n \in DOMAIN scene} : \A k \in 1 .. 4 : Near(best.corners[k], c, size)}
  IN  /\ best.number \in {c.number : c \in There} \cup {NoNumber}
      /\ \E c \in There : best.class = Likely(c) /\ best.score = c.probs[Likely(c)]

\* One frame, with the right layout and its own fit.
LEMMA FinishOneArmor ==
  ASSUME NEW f \in Frames, setting.stride \in {2, 3},
         NEW looked \in SUBSET {a \in Decode(f.scene.seen, f.size, f.size, Classes) : a.score > Confidence},
         NEW best \in Answers(looked, f.scene.seen, f.size), best # None
  PROVE  OneArmorOf(best, f.scene.seen, f.size)
<1>. DEFINE scene == f.scene.seen
            size == f.size
            There == {c \in {scene[n] : n \in DOMAIN scene} : \A k \in 1 .. 4 : Near(best.corners[k], c, size)}
<1>1. PICK a \in Best(looked) : \E name \in Numbers(scene, a.corners, size) :
        best = [corners |-> a.corners, class |-> a.class, score |-> a.score, number |-> name]
  BY DEF Answers
<1>2. PICK name \in Numbers(scene, a.corners, size) :
        best = [corners |-> a.corners, class |-> a.class, score |-> a.score, number |-> name]
  BY <1>1
<1>3. a \in Decode(scene, size, size, Classes) /\ a.score > Confidence /\ a.seen
  BY DEF Best
<1>4. PICK n \in DOMAIN scene : a = Decoded(scene[n], size, size, Classes)
  BY <1>3 DEF Decode
<1>. DEFINE c == scene[n]
<1>5. c \in Candidates /\ size \in Sized
  BY FrameTypes
<1>6. a.score = c.probs[Likely(c)] /\ (a.score > 0 => a.class = Likely(c))
  BY <1>4, <1>5, DecodedRight
<1>7. \A k \in 1 .. 4 : Near(a.corners[k], c, size)
  BY <1>3, <1>4, <1>5, DecodedRight
<1>8. a.score > 0
  <2>1. a.score \in Int
    BY <1>5, <1>6, CandidateTypes, LikelyMost
  <2>. QED
    BY <1>3, <2>1, DetectionAssumption
<1>. HIDE DEF scene, size, c
<1>9. best.corners = a.corners /\ best.class = a.class /\ best.score = a.score /\ best.number = name
  BY <1>2
<1>10. c \in There
  BY <1>7, <1>9 DEF c
<1>11. best.number \in {m.number : m \in There} \cup {NoNumber}
  BY <1>9 DEF Numbers
<1>12. best.class = Likely(c) /\ best.score = c.probs[Likely(c)]
  BY <1>6, <1>8, <1>9
<1>. HIDE DEF There
<1>13. \E m \in There : best.class = Likely(m) /\ best.score = m.probs[Likely(m)]
  BY <1>10, <1>12
<1>. QED
  BY <1>11, <1>13 DEF OneArmorOf, There, scene, size

-----------------------------------------------------------------------------
(* The layout and the fit in use.                                          *)

\* Every frame in flight is in its slot with its own fit, and the layout is
\* right when the configuration knows the number of classes.
InUse ==
  /\ \A s \in Slots : job[s] # None => cached[s] = job[s].size
  /\ useClasses # None /\ setting.numClasses = Classes => useClasses = Classes

\* The first output leads to the right layout.
LEMMA RightClasses ==
  ASSUME TypeOK, NEW f \in Frames, setting.numClasses = Classes
  PROVE  UseClasses(f.scene.leading) = Classes
<1>1. setting.stride \in {2, 3} /\ Classes \in Nat \ {0} /\ f.scene.leading \in Nat /\ f.scene.leading >= Classes
  BY FrameTypes, DetectionAssumption DEF TypeOK
<1>2. Channels \in Nat /\ Classes <= Channels
  BY <1>1 DEF Channels
<1>. QED
  BY <1>1, <1>2 DEF UseClasses, Lesser

LEMMA InUseHolds == Spec => []InUse
<1>1. Init => InUse
  BY DEF Init, InUse
<1>2. TypeOK /\ InUse /\ [Next]_detectionVars => InUse'
  <2>. SUFFICES ASSUME TypeOK, InUse, [Next]_detectionVars PROVE InUse'
    OBVIOUS
  <2>1. ASSUME NEW s \in Slots, NEW frame \in Frames, Submit(s, frame) PROVE InUse'
    <3>1. /\ cached' = [cached EXCEPT ![s] = frame.size]
          /\ job' = [job EXCEPT ![s] = frame] /\ UNCHANGED <<setting, useClasses>>
      BY <2>1, SubmitCaches DEF Submit
    <3>2. \A t \in Slots : job'[t] # None => cached'[t] = job'[t].size
      BY <3>1 DEF TypeOK, InUse
    <3>. QED
      BY <3>1, <3>2 DEF InUse
  <2>2. ASSUME NEW s \in Slots, Finish(s) PROVE InUse'
    <3>1. job' = [job EXCEPT ![s] = None] /\ UNCHANGED <<setting, cached>>
      BY <2>2 DEF Finish
    <3>2. \A t \in Slots : job'[t] # None => cached'[t] = job'[t].size
      BY <3>1 DEF TypeOK, InUse
    <3>3. useClasses' = IF useClasses = None THEN UseClasses(job[s].scene.leading) ELSE useClasses
      BY <2>2 DEF Finish
    <3>4. job[s] \in Frames
      BY <2>2 DEF Finish, TypeOK
    <3>5. setting.numClasses = Classes => UseClasses(job[s].scene.leading) = Classes
      BY <3>4, RightClasses
    <3>. QED
      BY <3>1, <3>2, <3>3, <3>5 DEF InUse
  <2>3. CASE UNCHANGED detectionVars
    BY <2>3 DEF detectionVars, InUse
  <2>. QED
    BY <2>1, <2>2, <2>3 DEF Next
<1>. QED
  BY <1>1, <1>2, DetectionType, PTL DEF Spec

\* What finishSlot does when the configuration knows the number of classes.
LEMMA FinishRight ==
  ASSUME TypeOK, InUse, NEW s \in Slots, Finish(s), setting.numClasses = Classes
  PROVE  \E f \in Frames : \E cut \in Cuts(Decode(f.scene.seen, f.size, f.size, Classes)) :
         \E keep \in Kept(cut) : \E looked \in Looked(keep) :
         \E best \in Answers(looked, f.scene.seen, f.size) :
           answer' = [size |-> f.size, scene |-> f.scene.seen, best |-> best]
<1>1. job[s] \in Frames /\ cached[s] = job[s].size
  BY DEF Finish, TypeOK, InUse
<1>2. useClasses' = Classes
  BY <1>1, RightClasses DEF Finish, InUse
<1>. DEFINE size == job[s].size
            scene == job[s].scene.seen
<1>3. PICK cut \in Cuts(Decode(scene, cached[s], size, useClasses')) :
        \E keep \in Kept(cut) : \E looked \in Looked(keep) : \E best \in Answers(looked, scene, size) :
          answer' = [size |-> size, scene |-> scene, best |-> best]
  BY DEF Finish
<1>4. cut \in Cuts(Decode(scene, size, size, Classes))
  BY <1>1, <1>2
<1>. QED
  BY <1>1, <1>3, <1>4

\* Nothing appears from one stage to the next.
LEMMA LookedAmong ==
  ASSUME NEW d, NEW cut \in Cuts(d), NEW keep \in Kept(cut), NEW looked \in Looked(keep)
  PROVE  /\ cut \subseteq d /\ keep \subseteq cut /\ looked \subseteq keep
         /\ \A a \in keep : a.score > Confidence
<1>1. \A e, k : \A t \in Top(e, k) : t \subseteq e
  BY DEF Top
<1>2. cut \subseteq d
  BY <1>1 DEF Cuts
<1>3. keep \subseteq cut /\ \A a \in keep : a.score > Confidence
  BY DEF Kept
<1>4. looked \subseteq keep
  BY <1>1 DEF Looked
<1>. QED
  BY <1>2, <1>3, <1>4

(* What is published is one armor of its frame, with its own class, score  *)
(* and number, whatever sizes of frames share the slots and whatever the   *)
(* first output looked like.                                               *)
THEOREM PublishedIsOneArmor == Spec => []OneArmor
<1>1. Init => OneArmor
  BY DEF Init, OneArmor, Published
<1>2. TypeOK /\ InUse /\ OneArmor /\ [Next]_detectionVars => OneArmor'
  <2>. SUFFICES ASSUME TypeOK, InUse, OneArmor, [Next]_detectionVars PROVE OneArmor'
    OBVIOUS
  <2>1. ASSUME NEW s \in Slots, NEW frame \in Frames, Submit(s, frame) PROVE OneArmor'
    BY <2>1 DEF Submit, OneArmor, Published
  <2>2. ASSUME NEW s \in Slots, Finish(s) PROVE OneArmor'
    <3>. SUFFICES ASSUME setting.numClasses = Classes, answer' # None, answer'.best # None
                  PROVE  OneArmorOf(answer'.best, answer'.scene, answer'.size)
      BY <2>2 DEF Finish, OneArmor, OneArmorOf, Published
    <3>1. setting.stride \in {2, 3}
      BY DetectionAssumption DEF TypeOK
    <3>2. PICK f \in Frames : \E cut \in Cuts(Decode(f.scene.seen, f.size, f.size, Classes)) :
            \E keep \in Kept(cut) : \E looked \in Looked(keep) :
            \E best \in Answers(looked, f.scene.seen, f.size) :
              answer' = [size |-> f.size, scene |-> f.scene.seen, best |-> best]
      BY <2>2, FinishRight
    <3>a. PICK cut \in Cuts(Decode(f.scene.seen, f.size, f.size, Classes)) :
            \E keep \in Kept(cut) : \E looked \in Looked(keep) :
            \E best \in Answers(looked, f.scene.seen, f.size) :
              answer' = [size |-> f.size, scene |-> f.scene.seen, best |-> best]
      BY <3>2
    <3>b. PICK keep \in Kept(cut) : \E looked \in Looked(keep) :
            \E best \in Answers(looked, f.scene.seen, f.size) :
              answer' = [size |-> f.size, scene |-> f.scene.seen, best |-> best]
      BY <3>a
    <3>c. PICK looked \in Looked(keep) : \E best \in Answers(looked, f.scene.seen, f.size) :
            answer' = [size |-> f.size, scene |-> f.scene.seen, best |-> best]
      BY <3>b
    <3>3. PICK best \in Answers(looked, f.scene.seen, f.size) :
            answer' = [size |-> f.size, scene |-> f.scene.seen, best |-> best]
      BY <3>c
    <3>4. looked \in SUBSET {a \in Decode(f.scene.seen, f.size, f.size, Classes) : a.score > Confidence}
      BY LookedAmong
    <3>5. answer'.best = best /\ answer'.scene = f.scene.seen /\ answer'.size = f.size
      BY <3>3
    <3>. QED
      BY <3>1, <3>4, <3>5, FinishOneArmor
  <2>3. CASE UNCHANGED detectionVars
    BY <2>3 DEF detectionVars, OneArmor, Published
  <2>. QED
    BY <2>1, <2>2, <2>3 DEF Next
<1>. QED
  BY <1>1, <1>2, DetectionType, InUseHolds, PTL DEF Spec

-----------------------------------------------------------------------------
(* Boxes.                                                                  *)

\* An edge is the place of its coordinate, to the nearest pixel.
Pixel(x, length) == Clamp(Round(x, Unit), length - 1)

\* Within the frame nothing is clamped.
LEMMA PixelIs ==
  ASSUME NEW length \in Nat \ {0}, NEW x \in 0 .. (length - 1) * Unit
  PROVE  Pixel(x, length) = Round(x, Unit) /\ Pixel(x, length) \in Nat
<1>. DEFINE k == 2 * Unit
            b == 2 * x + Unit
            r == b \div k
<1>0. Unit \in Nat \ {0} /\ (length - 1) * Unit \in Nat /\ length - 1 \in Nat
  BY DetectionAssumption
<1>1. k \in Nat \ {0} /\ b \in Nat /\ x \in Nat
  BY <1>0
<1>2. Round(x, Unit) = r
  BY DEF Round
<1>3. b < (length - 1) * k + k
  <2>1. (length - 1) * k = 2 * ((length - 1) * Unit)
    BY <1>0
  <2>. QED
    BY <1>0, <2>1
<1>4. 0 <= b
  BY <1>1
<1>. HIDE DEF k, b
<1>5. r \in Int /\ k * r <= b /\ b < k * r + k
  BY <1>1, DivBounds
<1>. HIDE DEF r
<1>6. r <= length - 1
  <2>. SUFFICES ASSUME length <= r PROVE FALSE
    BY <1>0, <1>5
  <2>1. length * k <= r * k
    BY <1>1, <1>5, MulMono
  <2>2. (length - 1) * k + k = length * k
    BY <1>1
  <2>3. r * k = k * r /\ r * k \in Int /\ length * k \in Int
    BY <1>1, <1>5
  <2>. QED
    BY <1>1, <1>3, <1>5, <2>1, <2>2, <2>3
<1>7. 0 <= r
  <2>. SUFFICES ASSUME r <= -1 PROVE FALSE
    BY <1>5
  <2>1. r * k <= (-1) * k
    BY <1>1, <1>5, MulMono
  <2>2. r * k = k * r /\ (-1) * k = -k /\ k * r \in Int
    BY <1>1, <1>5
  <2>. QED
    BY <1>1, <1>4, <1>5, <2>1, <2>2
<1>. QED
  BY <1>0, <1>2, <1>5, <1>6, <1>7 DEF Pixel, Clamp

\* Rounding keeps the order, and keeps apart what is a pixel apart.
LEMMA RoundSteps ==
  ASSUME NEW x \in Int, NEW y \in Int
  PROVE  /\ x <= y => Round(x, Unit) <= Round(y, Unit)
         /\ x + Unit <= y => Round(x, Unit) < Round(y, Unit)
<1>. DEFINE k == 2 * Unit
            a == 2 * x + Unit
            b == 2 * y + Unit
<1>1. k \in Nat \ {0} /\ a \in Int /\ b \in Int /\ Unit \in Nat \ {0}
  BY DetectionAssumption
<1>2. /\ x <= y => a <= b
      /\ x + Unit <= y => a + k <= b
  BY <1>1
<1>3. Round(x, Unit) = a \div k /\ Round(y, Unit) = b \div k
  BY DEF Round
<1>. HIDE DEF k, a, b
<1>4. a <= b => a \div k <= b \div k
  BY <1>1, DivMono
<1>5. a + k <= b => a \div k < b \div k
  <2>. SUFFICES ASSUME a + k <= b PROVE a \div k < b \div k
    OBVIOUS
  <2>. DEFINE q == a \div k
              r == b \div k
  <2>1. q \in Int /\ r \in Int /\ k * q <= a /\ b < k * r + k
    BY <1>1, DivBounds
  <2>. HIDE DEF q, r
  <2>2. ~ (r <= q)
    <3>. SUFFICES ASSUME r <= q PROVE FALSE
      OBVIOUS
    <3>1. r * k <= q * k
      BY <1>1, <2>1, MulMono
    <3>2. r * k = k * r /\ q * k = k * q /\ k * r \in Int /\ k * q \in Int
      BY <1>1, <2>1
    <3>. QED
      BY <1>1, <2>1, <3>1, <3>2
  <2>3. q < r
    BY <2>1, <2>2
  <2>. QED
    BY <2>3 DEF q, r
<1>. QED
  BY <1>2, <1>3, <1>4, <1>5

\* Edges keep their order, and stay apart when they are far enough apart.
LEMMA EdgeOrder ==
  ASSUME NEW size \in Sized, NEW length \in Nat \ {0}, NEW pad \in Int,
         NEW fit, fit = Round(length * Scale(size).num, Scale(size).den),
         NEW v \in Int, NEW w \in Int
  PROVE  LET e(u) == Edge(u, pad, size, fit, length)
             top == (length - 1) * Unit
         IN  /\ e(v) \in Nat
             /\ v <= w => e(v) <= e(w)
             /\ Scale(size).num * (Clamp(w, top) - Clamp(v, top))
                  >= (Unit + 2) * (Scale(size).num + Scale(size).den) => e(v) < e(w)
<1>. DEFINE num == Scale(size).num
            den == Scale(size).den
            top == (length - 1) * Unit
            G(u) == Back(u, fit, length, num, den)
            e(u) == Edge(u, pad, size, fit, length)
            x == Clamp(G(v), top)
            y == Clamp(G(w), top)
<1>0. Unit \in Nat \ {0} /\ num \in Nat \ {0} /\ den \in Nat \ {0}
  BY ScaleInt, DetectionAssumption
<1>1. fit \in Nat
  <2>1. length * num \in Nat
    BY <1>0
  <2>. QED
    BY <1>0, <2>1, RoundBounds
<1>2. \A u \in Int : e(u) = Pixel(Clamp(G(u), top), length)
  <2>. TAKE u \in Int
  <2>1. FromCanvas(ToCanvas(u, pad, fit, length), pad, size, length) = Clamp(G(u), top)
    BY <1>1, AxisTrip
  <2>. QED
    BY <2>1 DEF Edge, Pixel
<1>3. G(v) \in Int /\ G(w) \in Int
  BY <1>0, <1>1, BackInt
<1>4. v <= w => G(v) <= G(w)
  BY <1>0, <1>1, BackMono
<1>. HIDE DEF num, den, e
<1>5. /\ x \in 0 .. top /\ Clamp(v, top) \in 0 .. top /\ Close(x, Clamp(v, top), num, den)
      /\ y \in 0 .. top /\ Clamp(w, top) \in 0 .. top /\ Close(Clamp(w, top), y, num, den)
  <2>1. fit = Round(length * num, den)
    BY DEF num, den
  <2>. QED
    BY <1>0, <2>1, RoundTrip
<1>6. top \in Nat
  BY <1>0
<1>. HIDE DEF G
<1>7. v <= w => x <= y
  BY <1>3, <1>4, <1>6 DEF Clamp
<1>. HIDE DEF x, y
<1>8. e(v) = Round(x, Unit) /\ e(w) = Round(y, Unit) /\ e(v) \in Nat
  <2>1. e(v) = Pixel(x, length) /\ e(w) = Pixel(y, length)
    BY <1>2 DEF x, y
  <2>. QED
    BY <1>5, <2>1, PixelIs
<1>9. v <= w => e(v) <= e(w)
  BY <1>5, <1>6, <1>7, <1>8, RoundSteps
<1>10. ASSUME num * (Clamp(w, top) - Clamp(v, top)) >= (Unit + 2) * (num + den)
       PROVE  e(v) < e(w)
  <2>. DEFINE p == Clamp(v, top)
              q == Clamp(w, top)
  <2>1. p \in Int /\ q \in Int /\ x \in Int /\ y \in Int
    BY <1>5
  <2>. HIDE DEF p, q
  <2>2. /\ 2 * num * (x - p) <= (Unit + 2) * den + 2 * num
        /\ 2 * num * (q - y) <= (Unit + 2) * den + 2 * num
    BY <1>5 DEF Close, p, q
  <2>3. num * (q - p) >= (Unit + 2) * (num + den)
    BY <1>10 DEF p, q
  <2>4. num * Unit <= num * (y - x)
    BY <1>0, <2>1, <2>2, <2>3
  <2>5. Unit <= y - x
    <3>1. y - x \in Int /\ Unit \in Int
      BY <1>0, <2>1
    <3>. QED
      BY <1>0, <2>4, <3>1, Cancel
  <2>6. x + Unit <= y
    BY <1>0, <2>1, <2>5
  <2>. QED
    BY <1>8, <2>1, <2>6, RoundSteps
<1>. QED
  BY <1>8, <1>9, <1>10 DEF e, num, den

\* The same for the boxes of two candidates.
LEMMA BoxFacts ==
  ASSUME NEW c \in Candidates, NEW o \in Candidates, NEW size \in Sized
  PROVE  LET a == Box(c, size, size)
             b == Box(o, size, size)
         IN  /\ a.left \in Nat /\ a.top \in Nat /\ a.right \in Nat /\ a.bottom \in Nat
             /\ Wide(c, size) => Solid(a)
             /\ o.box[3] <= c.box[1] => b.right <= a.left
             /\ c.box[3] <= o.box[1] => a.right <= b.left
             /\ o.box[4] <= c.box[2] => b.bottom <= a.top
             /\ c.box[4] <= o.box[2] => a.bottom <= b.top
<1>. DEFINE eW(u) == Edge(u, PadW(size), size, FitW(size), size[1])
            eH(u) == Edge(u, PadH(size), size, FitH(size), size[2])
            a == Box(c, size, size)
            b == Box(o, size, size)
            far(v, w, length) ==
              Scale(size).num * (Clamp(w, (length - 1) * Unit) - Clamp(v, (length - 1) * Unit))
                >= (Unit + 2) * (Scale(size).num + Scale(size).den)
<1>1. /\ size[1] \in Nat \ {0} /\ size[2] \in Nat \ {0} /\ PadW(size) \in Int /\ PadH(size) \in Int
      /\ FitW(size) = Round(size[1] * Scale(size).num, Scale(size).den)
      /\ FitH(size) = Round(size[2] * Scale(size).num, Scale(size).den)
  BY FitInt DEF Sized, FitW, FitH
<1>2. \A v, w \in Int : eW(v) \in Nat /\ (v <= w => eW(v) <= eW(w)) /\ (far(v, w, size[1]) => eW(v) < eW(w))
  BY <1>1, EdgeOrder
<1>3. \A v, w \in Int : eH(v) \in Nat /\ (v <= w => eH(v) <= eH(w)) /\ (far(v, w, size[2]) => eH(v) < eH(w))
  BY <1>1, EdgeOrder
<1>4. /\ a.left = eW(c.box[1]) /\ a.top = eH(c.box[2]) /\ a.right = eW(c.box[3]) /\ a.bottom = eH(c.box[4])
      /\ b.left = eW(o.box[1]) /\ b.top = eH(o.box[2]) /\ b.right = eW(o.box[3]) /\ b.bottom = eH(o.box[4])
  BY DEF Box
<1>5. Wide(c, size) => far(c.box[1], c.box[3], size[1]) /\ far(c.box[2], c.box[4], size[2])
  BY DEF Wide
<1>6. /\ c.box[1] \in Int /\ c.box[2] \in Int /\ c.box[3] \in Int /\ c.box[4] \in Int
      /\ o.box[1] \in Int /\ o.box[2] \in Int /\ o.box[3] \in Int /\ o.box[4] \in Int
  BY CandidateTypes
<1>. HIDE DEF eW, eH, a, b, far
<1>7. a.left \in Nat /\ a.top \in Nat /\ a.right \in Nat /\ a.bottom \in Nat
  BY <1>2, <1>3, <1>4, <1>6
<1>8. ASSUME Wide(c, size) PROVE Solid(a)
  <2>1. eW(c.box[1]) < eW(c.box[3])
    BY <1>2, <1>5, <1>6, <1>8
  <2>2. eH(c.box[2]) < eH(c.box[4])
    BY <1>3, <1>5, <1>6, <1>8
  <2>. QED
    BY <1>4, <2>1, <2>2 DEF Solid
<1>9. /\ o.box[3] <= c.box[1] => b.right <= a.left
      /\ c.box[3] <= o.box[1] => a.right <= b.left
  BY <1>2, <1>4, <1>6
<1>10. /\ o.box[4] <= c.box[2] => b.bottom <= a.top
       /\ c.box[4] <= o.box[2] => a.bottom <= b.top
  BY <1>3, <1>4, <1>6
<1>. QED
  BY <1>7, <1>8, <1>9, <1>10 DEF a, b

\* Boxes side by side do not overlap.
LEMMA ApartNoOverlap ==
  ASSUME NEW a, NEW b, Solid(a), Solid(b),
         a.left \in Nat /\ a.top \in Nat /\ a.right \in Nat /\ a.bottom \in Nat,
         b.left \in Nat /\ b.top \in Nat /\ b.right \in Nat /\ b.bottom \in Nat,
         a.right <= b.left \/ b.right <= a.left \/ a.bottom <= b.top \/ b.bottom <= a.top
  PROVE  ~ Overlapping(a, b)
<1>1. Common(a, b) = 0
  BY DEF Common, Lesser
<1>2. ASSUME NEW x, x = a \/ x = b PROVE Area(x) \in Nat
  <2>1. x.right - x.left \in Nat /\ x.bottom - x.top \in Nat
    BY <1>2 DEF Solid
  <2>. QED
    BY <2>1 DEF Area
<1>3. (Area(a) + Area(b) - 0) * Overlap.num \in Nat /\ 0 * Overlap.den = 0
  <2>1. Area(a) \in Nat /\ Area(b) \in Nat /\ Overlap.num \in Nat /\ Overlap.den \in Nat
    BY <1>2, DetectionAssumption
  <2>. QED
    BY <2>1
<1>. QED
  BY <1>1, <1>3 DEF Overlapping

-----------------------------------------------------------------------------
(* The choice of the best.                                                 *)

\* Those of d that are no worse than a are what g makes of the members of R.
Outdone(d, a, g, R) == \A b \in d : b # a /\ b.score >= a.score => \E r \in R : b = g[r]

\* Whoever has fewer rivals than there are places is among the first.
LEMMA TopKeeps ==
  ASSUME NEW d, \A e \in d : e.score \in Int, NEW k \in Nat, NEW t \in Top(d, k), NEW a \in d,
         NEW R, IsFiniteSet(R), Cardinality(R) < k, NEW g, Outdone(d, a, g, R)
  PROVE  a \in t
<1>. SUFFICES ASSUME a \notin t PROVE FALSE
  OBVIOUS
<1>1. t \subseteq d /\ Cardinality(t) = k /\ \A e \in d \ t, b \in t : e.score <= b.score
  BY DEF Top
<1>. DEFINE f == [r \in R |-> g[r]]
            I == {g[r] : r \in R}
<1>2. f \in Surjection(R, I)
  BY DEF Surjection
<1>3. IsFiniteSet(I) /\ Cardinality(I) <= Cardinality(R)
  BY <1>2, FS_Surjection
<1>4. t \subseteq I
  <2>. SUFFICES ASSUME NEW b \in t PROVE b \in I
    OBVIOUS
  <2>1. b # a /\ b \in d /\ a.score <= b.score
    BY <1>1
  <2>2. b.score >= a.score
    BY <2>1
  <2>. QED
    BY <2>1, <2>2 DEF Outdone
<1>. HIDE DEF I
<1>5. Cardinality(t) <= Cardinality(I)
  BY <1>3, <1>4, FS_Subset
<1>6. Cardinality(I) \in Nat /\ Cardinality(R) \in Nat
  BY <1>3, FS_CardinalityType
<1>. QED
  BY <1>1, <1>3, <1>5, <1>6

\* Some armor looked at is the best.
LEMMA BestExists ==
  ASSUME NEW looked, \A a \in looked : a.score \in 0 .. Unit, NEW d \in looked, d.seen
  PROVE  Best(looked) # {} /\ \A a \in Best(looked) : a.score >= d.score
<1>. DEFINE S == {a \in looked : a.seen}
            T == {Unit - a.score : a \in S}
<1>1. Unit \in Nat
  BY DetectionAssumption
<1>2. T \in SUBSET Nat /\ T # {}
  BY <1>1
<1>3. \E x \in T : \A y \in T : x <= y
  BY <1>2, LeastNat
<1>4. PICK x \in T : \A y \in T : x <= y
  BY <1>3
<1>5. PICK a \in S : x = Unit - a.score
  BY <1>4
<1>6. ASSUME NEW b \in looked, b.seen PROVE b.score <= a.score
  <2>1. Unit - b.score \in T
    BY <1>6
  <2>2. Unit - a.score <= Unit - b.score
    BY <1>4, <1>5, <2>1
  <2>. QED
    BY <1>1, <2>2
<1>7. a \in Best(looked)
  BY <1>6 DEF Best
<1>8. ASSUME NEW b \in Best(looked) PROVE b.score >= d.score
  BY <1>8 DEF Best
<1>. QED
  BY <1>7, <1>8

\* The filter lets the wanted colour through and nothing else.
LEMMA AllowedWanted ==
  ASSUME TypeOK, setting.numClasses = Classes, NEW c \in Candidates
  PROVE  Allowed(Likely(c)) <=> Wanted(c)
<1>. DEFINE n == Likely(c)
            none == [m \in 1 .. Classes |-> FALSE]
            table == [m \in DOMAIN setting.labels |-> setting.labels[m] = setting.wanted]
<1>1. n \in 1 .. Classes /\ Classes \in Nat \ {0}
  BY LikelyMost, DetectionAssumption
<1>2. Clamp(setting.numClasses, Classes) = Classes
  BY <1>1 DEF Clamp
<1>. HIDE DEF n
<1>3. CASE setting.wanted = "any"
  <2>1. AllowedTable = <<>>
    BY <1>3 DEF AllowedTable
  <2>. QED
    BY <1>3, <2>1 DEF Allowed, Wanted
<1>4. CASE setting.wanted # "any" /\ setting.labels = <<>>
  <2>1. AllowedTable = none
    BY <1>2, <1>4 DEF AllowedTable
  <2>2. DOMAIN none = 1 .. Classes /\ DOMAIN <<>> = {} /\ 1 .. Classes # {} /\ ~ none[n]
    BY <1>1
  <2>. HIDE DEF none
  <2>3. ~ Allowed(n)
    BY <2>1, <2>2 DEF Allowed
  <2>4. n \notin DOMAIN setting.labels
    BY <1>4, <2>2
  <2>. QED
    BY <1>4, <2>3, <2>4 DEF Wanted, n
<1>5. CASE setting.wanted # "any" /\ setting.labels # <<>>
  <2>1. AllowedTable = table
    BY <1>5 DEF AllowedTable
  <2>2. DOMAIN setting.labels # {}
    BY <1>5, DetectionAssumption DEF TypeOK
  <2>3. DOMAIN table = DOMAIN setting.labels /\ DOMAIN <<>> = {}
    OBVIOUS
  <2>4. n \in DOMAIN setting.labels => (table[n] <=> setting.labels[n] = setting.wanted)
    OBVIOUS
  <2>. HIDE DEF table
  <2>5. table # <<>>
    BY <2>2, <2>3
  <2>6. Allowed(n) <=> n \in DOMAIN setting.labels /\ setting.labels[n] = setting.wanted
    BY <2>1, <2>3, <2>4, <2>5 DEF Allowed
  <2>. QED
    BY <1>5, <2>6 DEF Wanted, n
<1>. QED
  BY <1>3, <1>4, <1>5

\* The sorted corners are a sequence of points.
LEMMA OrderedSeq ==
  ASSUME NEW p \in [1 .. 4 -> Int \X Int]
  PROVE  OrderCorners(p) \in Seq(Int \X Int)
<1>1. \A n \in 1 .. 4 : OrderCorners(p)[n] \in Int \X Int
  BY OrderedAmong
<1>2. \E a, b, c, d : OrderCorners(p) = <<a, b, c, d>>
  BY DEF OrderCorners
<1>3. PICK a, b, c, d : OrderCorners(p) = <<a, b, c, d>>
  BY <1>2
<1>4. a \in Int \X Int /\ b \in Int \X Int /\ c \in Int \X Int /\ d \in Int \X Int
  BY <1>1, <1>3
<1>. QED
  BY <1>3, <1>4

\* What is published of an armor is no None.
LEMMA ArmorFound ==
  ASSUME NEW f \in Frames, setting.stride \in {2, 3}, NEW n \in DOMAIN f.scene.seen,
         NEW name \in Numbers(f.scene.seen, Decoded(f.scene.seen[n], f.size, f.size, Classes).corners, f.size)
  PROVE  LET a == Decoded(f.scene.seen[n], f.size, f.size, Classes)
         IN  a.seen /\ a.score > 0 =>
               [corners |-> a.corners, class |-> a.class, score |-> a.score, number |-> name] # None
<1>. DEFINE c == f.scene.seen[n]
            size == f.size
            a == Decoded(c, size, size, Classes)
            armor == [corners |-> a.corners, class |-> a.class, score |-> a.score, number |-> name]
<1>. SUFFICES ASSUME a.seen, a.score > 0 PROVE armor # None
  OBVIOUS
<1>1. c \in Candidates /\ size \in Sized
  BY FrameTypes
<1>2. a.score = c.probs[Likely(c)] /\ a.class = Likely(c)
  BY <1>1, DecodedRight
<1>3. a.score \in Nat /\ a.class \in Nat
  <2>1. Likely(c) \in 1 .. Classes
    BY <1>1, LikelyMost
  <2>2. c.probs[Likely(c)] \in 0 .. Unit
    BY <1>1, <2>1, CandidateTypes
  <2>. QED
    BY <1>2, <2>1, <2>2, DetectionAssumption
<1>4. a.corners \in Seq(Int \X Int)
  <2>. DEFINE point(k) == PointAt(Output(c, size, size), Classes + setting.stride * (k - 1) + 1, size, size)
  <2>1. Seen(c, Output(c, size, size), Classes)
    BY DEF Decoded
  <2>2. a.corners = Corners(Output(c, size, size), Classes, size, size)
    BY <2>1 DEF Decoded
  <2>3. Corners(Output(c, size, size), Classes, size, size) = OrderCorners([k \in 1 .. 4 |-> point(k)])
    BY StrideRight DEF Corners
  <2>4. \A k \in 1 .. 4 : point(k) \in Int \X Int
    BY <1>1, PointNear
  <2>. HIDE DEF point
  <2>5. [k \in 1 .. 4 |-> point(k)] \in [1 .. 4 -> Int \X Int]
    BY <2>4
  <2>. QED
    BY <2>2, <2>3, <2>5, OrderedSeq
<1>5. name \in Int \cup {NoNumber}
  <2>1. \A m \in DOMAIN f.scene.seen : f.scene.seen[m].number \in Int \cup {NoNumber}
    BY FrameTypes DEF Candidates
  <2>. QED
    BY <2>1 DEF Numbers
<1>. HIDE DEF a
<1>6. armor \in Armors
  BY <1>3, <1>4, <1>5 DEF Armors
<1>. QED
  BY <1>6, DetectionAssumption

\* The candidates at least as likely as c, of any colour.
Rivals(c, scene) ==
  {n \in DOMAIN scene : /\ scene[n] # c
                        /\ scene[n].probs[Likely(scene[n])] >= c.probs[Likely(c)]}

\* What Plain says in terms of the rivals.
LEMMA PlainSays ==
  ASSUME NEW c, NEW scene, NEW size, Plain(c, scene, size)
  PROVE  /\ Wanted(c) /\ Wide(c, size) /\ Cornered(c) /\ c.probs[Likely(c)] > Confidence
         /\ \A n \in Rivals(c, scene) :
              \/ scene[n].box[3] <= c.box[1] \/ c.box[3] <= scene[n].box[1]
              \/ scene[n].box[4] <= c.box[2] \/ c.box[4] <= scene[n].box[2]
         /\ TopK > 0 => Cardinality(Rivals(c, scene)) < TopK
         /\ Cardinality(Rivals(c, scene)) < MaxCandidates
  BY DEF Plain, Rivals, Cornered

\* One frame, with the right layout and its own fit.
LEMMA FinishBest ==
  ASSUME TypeOK, setting.numClasses = Classes, NEW f \in Frames,
         NEW cut \in Cuts(Decode(f.scene.seen, f.size, f.size, Classes)),
         NEW keep \in Kept(cut), NEW looked \in Looked(keep),
         NEW best \in Answers(looked, f.scene.seen, f.size),
         NEW n \in DOMAIN f.scene.seen, Plain(f.scene.seen[n], f.scene.seen, f.size)
  PROVE  best # None /\ best.score >= f.scene.seen[n].probs[Likely(f.scene.seen[n])]
<1>. DEFINE scene == f.scene.seen
            size == f.size
            c == scene[n]
            D(m) == Decoded(scene[m], size, size, Classes)
            d == D(n)
            all == Decode(scene, size, size, Classes)
            R == Rivals(c, scene)
            g == [m \in DOMAIN scene |-> D(m)]
<1>0. setting.stride \in {2, 3} /\ Unit \in Nat /\ Confidence \in Nat /\ TopK \in Nat /\ MaxCandidates \in Nat
  BY DetectionAssumption DEF TypeOK
<1>1. size \in Sized /\ c \in Candidates /\ \A m \in DOMAIN scene : scene[m] \in Candidates
  BY FrameTypes
<1>2. IsFiniteSet(R)
  <2>1. R \subseteq DOMAIN scene /\ DOMAIN scene = 1 .. Len(scene) /\ Len(scene) \in Nat
    BY FrameTypes DEF Rivals
  <2>2. IsFiniteSet(1 .. Len(scene))
    BY <2>1, FS_Interval
  <2>. QED
    BY <2>1, <2>2, FS_Subset
<1>3. \A m \in DOMAIN scene :
        /\ D(m).score = scene[m].probs[Likely(scene[m])] /\ D(m).score \in 0 .. Unit
        /\ D(m).score > 0 => D(m).class = Likely(scene[m])
        /\ D(m).seen <=> Cornered(scene[m])
        /\ D(m).box = Box(scene[m], size, size)
  <2>. TAKE m \in DOMAIN scene
  <2>1. scene[m].probs[Likely(scene[m])] \in 0 .. Unit
    BY <1>1, LikelyMost, CandidateTypes
  <2>. QED
    BY <1>0, <1>1, <2>1, DecodedRight
<1>4. /\ Wanted(c) /\ Wide(c, size) /\ Cornered(c) /\ c.probs[Likely(c)] > Confidence
      /\ \A m \in R :
           \/ scene[m].box[3] <= c.box[1] \/ c.box[3] <= scene[m].box[1]
           \/ scene[m].box[4] <= c.box[2] \/ c.box[4] <= scene[m].box[2]
      /\ TopK > 0 => Cardinality(R) < TopK
      /\ Cardinality(R) < MaxCandidates
  BY PlainSays
<1>5. d.score > Confidence /\ d.score > 0 /\ d.seen /\ d.class = Likely(c) /\ d.score = c.probs[Likely(c)]
  BY <1>0, <1>3, <1>4
<1>6. d \in all
  <2>1. Allowed(d.class)
    BY <1>1, <1>4, <1>5, AllowedWanted
  <2>2. Solid(d.box)
    BY <1>1, <1>3, <1>4, BoxFacts
  <2>3. d.score >= Confidence
    BY <1>0, <1>3, <1>5
  <2>. QED
    BY <2>1, <2>2, <2>3 DEF Decode
\* Whoever is at least as likely as c is one of its rivals.
<1>7. ASSUME NEW b \in all, b # d, b.score >= d.score
      PROVE  \E m \in R : b = D(m)
  <2>1. PICK m \in DOMAIN scene : b = D(m) /\ Allowed(D(m).class)
    BY DEF Decode
  <2>2. D(m).class = Likely(scene[m]) /\ scene[m].probs[Likely(scene[m])] >= c.probs[Likely(c)]
    <3>1. D(m).score > 0
      BY <1>0, <1>3, <1>5, <1>7, <2>1
    <3>. QED
      BY <1>3, <1>5, <1>7, <2>1, <3>1
  <2>3. scene[m] # c
    BY <1>7, <2>1
  <2>4. m \in R
    BY <2>2, <2>3 DEF Rivals
  <2>. QED
    BY <2>1, <2>4
<1>8. /\ \A e \in all : e.score \in 0 .. Unit
      /\ \A e \in all : e.score \in Int
  BY <1>0, <1>3 DEF Decode
<1>9. Outdone(all, d, g, R)
  <2>. SUFFICES ASSUME NEW b \in all, b # d, b.score >= d.score PROVE \E m \in R : b = g[m]
    BY DEF Outdone
  <2>1. PICK m \in R : b = D(m)
    BY <1>7
  <2>2. m \in DOMAIN scene
    BY DEF Rivals
  <2>. QED
    BY <2>1, <2>2
<1>10. /\ cut \subseteq all /\ keep \subseteq cut /\ looked \subseteq keep
       /\ \A a \in keep : a.score > Confidence
  BY LookedAmong
<1>. HIDE DEF R, g
<1>11. d \in cut
  <2>1. CASE TopK = 0
    BY <1>6, <2>1 DEF Cuts
  <2>2. CASE TopK > 0
    <3>1. cut \in Top(all, TopK)
      BY <1>0, <2>2 DEF Cuts
    <3>2. Cardinality(R) < TopK
      BY <1>4, <2>2
    <3>. HIDE DEF all, d
    <3>. QED
      BY <1>0, <1>2, <1>6, <1>8, <1>9, <3>1, <3>2, TopKeeps
  <2>. QED
    BY <1>0, <2>1, <2>2
<1>12. d \in keep
  <2>. SUFFICES ASSUME d \notin keep PROVE FALSE
    OBVIOUS
  <2>1. PICK b \in keep : b.score >= d.score /\ Overlapping(b.box, d.box)
    BY <1>5, <1>11 DEF Kept
  <2>2. b \in all /\ b # d
    BY <1>10
  <2>3. PICK m \in R : b = D(m)
    BY <1>7, <2>1, <2>2
  <2>4. m \in DOMAIN scene
    BY DEF R, Rivals
  <2>5. Solid(b.box) /\ Solid(d.box)
    BY <1>6, <2>2 DEF Decode
  <2>6. /\ b.box = Box(scene[m], size, size) /\ d.box = Box(c, size, size)
        /\ scene[m] \in Candidates
    BY <1>1, <1>3, <2>3, <2>4
  <2>7. ~ Overlapping(b.box, d.box)
    <3>. DEFINE x == Box(scene[m], size, size)
                y == Box(c, size, size)
    <3>1. /\ x.left \in Nat /\ x.top \in Nat /\ x.right \in Nat /\ x.bottom \in Nat
          /\ y.left \in Nat /\ y.top \in Nat /\ y.right \in Nat /\ y.bottom \in Nat
      BY <1>1, <2>6, BoxFacts
    <3>2. x.right <= y.left \/ y.right <= x.left \/ x.bottom <= y.top \/ y.bottom <= x.top
      <4>1. \/ scene[m].box[3] <= c.box[1] \/ c.box[3] <= scene[m].box[1]
            \/ scene[m].box[4] <= c.box[2] \/ c.box[4] <= scene[m].box[2]
        BY <1>4
      <4>. QED
        BY <1>1, <2>6, <4>1, BoxFacts
    <3>3. Solid(x) /\ Solid(y)
      BY <2>5, <2>6
    <3>. HIDE DEF x, y
    <3>4. ~ Overlapping(x, y)
      BY <3>1, <3>2, <3>3, ApartNoOverlap
    <3>. QED
      BY <2>6, <3>4 DEF x, y
  <2>. QED
    BY <2>1, <2>7
<1>13. d \in looked
  <2>1. CASE setting.vis
    <3>1. looked \in Top(keep, MaxCandidates) /\ Cardinality(R) < MaxCandidates
      BY <1>4, <2>1 DEF Looked
    <3>2. \A e \in keep : e.score \in Int
      BY <1>8, <1>10
    <3>3. Outdone(keep, d, g, R)
      BY <1>9, <1>10 DEF Outdone
    <3>. HIDE DEF d
    <3>. QED
      BY <1>0, <1>2, <1>12, <3>1, <3>2, <3>3, TopKeeps
  <2>2. CASE ~ setting.vis
    BY <1>12, <2>2 DEF Looked
  <2>. QED
    BY <2>1, <2>2
<1>14. Best(looked) # {} /\ \A a \in Best(looked) : a.score >= d.score
  <2>1. \A a \in looked : a.score \in 0 .. Unit
    BY <1>8, <1>10
  <2>. HIDE DEF d
  <2>. QED
    BY <1>5, <1>13, <2>1, BestExists
<1>15. PICK a \in Best(looked) : \E name \in Numbers(scene, a.corners, size) :
         best = [corners |-> a.corners, class |-> a.class, score |-> a.score, number |-> name]
  BY <1>14 DEF Answers
<1>16. PICK name \in Numbers(scene, a.corners, size) :
         best = [corners |-> a.corners, class |-> a.class, score |-> a.score, number |-> name]
  BY <1>15
<1>17. a \in keep /\ a \in all /\ a.seen
  BY <1>10 DEF Best
<1>18. PICK m \in DOMAIN scene : a = D(m)
  BY <1>17 DEF Decode
<1>19. a.score > 0
  BY <1>0, <1>3, <1>10, <1>17, <1>18
<1>20. best # None
  BY <1>0, <1>16, <1>17, <1>18, <1>19, ArmorFound
<1>21. best.score >= d.score
  BY <1>14, <1>16
<1>. QED
  BY <1>5, <1>20, <1>21

(* No armor that is well seen, apart from its rivals of any colour and     *)
(* among the first of them is missed for a weaker one or for none.         *)
THEOREM BestIsPublished == Spec => []BestPublished
<1>1. Init => BestPublished
  BY DEF Init, BestPublished
<1>2. TypeOK /\ InUse /\ BestPublished /\ [Next]_detectionVars => BestPublished'
  <2>. SUFFICES ASSUME TypeOK, InUse, BestPublished, [Next]_detectionVars PROVE BestPublished'
    OBVIOUS
  <2>1. ASSUME NEW s \in Slots, NEW frame \in Frames, Submit(s, frame) PROVE BestPublished'
    BY <2>1 DEF Submit, BestPublished
  <2>2. ASSUME NEW s \in Slots, Finish(s) PROVE BestPublished'
    <3>0. setting' = setting
      BY <2>2 DEF Finish
    <3>. SUFFICES ASSUME setting.numClasses = Classes, answer' # None, NEW n \in DOMAIN answer'.scene,
                         Plain(answer'.scene[n], answer'.scene, answer'.size)
                  PROVE  /\ answer'.best # None
                         /\ answer'.best.score >= answer'.scene[n].probs[Likely(answer'.scene[n])]
      BY <3>0 DEF BestPublished, Plain, Wanted
    <3>2. PICK f \in Frames : \E cut \in Cuts(Decode(f.scene.seen, f.size, f.size, Classes)) :
            \E keep \in Kept(cut) : \E looked \in Looked(keep) :
            \E best \in Answers(looked, f.scene.seen, f.size) :
              answer' = [size |-> f.size, scene |-> f.scene.seen, best |-> best]
      BY <2>2, FinishRight
    <3>a. PICK cut \in Cuts(Decode(f.scene.seen, f.size, f.size, Classes)) :
            \E keep \in Kept(cut) : \E looked \in Looked(keep) :
            \E best \in Answers(looked, f.scene.seen, f.size) :
              answer' = [size |-> f.size, scene |-> f.scene.seen, best |-> best]
      BY <3>2
    <3>b. PICK keep \in Kept(cut) : \E looked \in Looked(keep) :
            \E best \in Answers(looked, f.scene.seen, f.size) :
              answer' = [size |-> f.size, scene |-> f.scene.seen, best |-> best]
      BY <3>a
    <3>c. PICK looked \in Looked(keep) : \E best \in Answers(looked, f.scene.seen, f.size) :
            answer' = [size |-> f.size, scene |-> f.scene.seen, best |-> best]
      BY <3>b
    <3>3. PICK best \in Answers(looked, f.scene.seen, f.size) :
            answer' = [size |-> f.size, scene |-> f.scene.seen, best |-> best]
      BY <3>c
    <3>5. answer'.best = best /\ answer'.scene = f.scene.seen /\ answer'.size = f.size
      BY <3>3
    <3>. QED
      BY <3>5, FinishBest
  <2>3. CASE UNCHANGED detectionVars
    <3>1. setting' = setting /\ answer' = answer
      BY <2>3 DEF detectionVars
    <3>. QED
      BY <3>1 DEF BestPublished, Plain, Wanted
  <2>. QED
    BY <2>1, <2>2, <2>3 DEF Next
<1>. QED
  BY <1>1, <1>2, DetectionType, InUseHolds, PTL DEF Spec

=============================================================================
