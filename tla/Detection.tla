----------------------------- MODULE Detection -----------------------------
(***************************************************************************)
(* From a frame to the armor that is published: preprocess() fits the      *)
(* frame into the canvas of a request's slot, the network answers with     *)
(* candidates, YoloPostprocessor::run() filters them and takes them back   *)
(* to the frame, and finishSlot() publishes the best one.                  *)
(*                                                                         *)
(* Both the fit and the grey padding are kept from frame to frame, per     *)
(* slot, and the layout of the output is guessed once, from the first      *)
(* output of any slot.                                                     *)
(*                                                                         *)
(* Probabilities and coordinates are whole numbers, Unit for 1 or a pixel. *)
(* The network is external: it reports each of a frame's candidates where  *)
(* the canvas shows it.  A candidate is a record of                        *)
(*   quad     its four corners, in the order of the network                *)
(*   box      its left, top, right and bottom edge                         *)
(*   probs    a probability per class                                      *)
(*   marks    how sure the network is of each corner                       *)
(*   finite   FALSE when a corner came out as no number                    *)
(*   number   what the number classifier makes of it, NoNumber for nothing *)
(***************************************************************************)
EXTENDS Integers, Sequences, FiniteSets

CONSTANTS
  Unit, NoNumber, None,
  InputW, InputH,       \* the canvas
  Watched,              \* the pixels of it the model looks at
  Points,               \* the number of the network's anchor points
  Classes,              \* the classes the network knows
  Confidence,           \* conf_thres_
  Overlap,              \* nms_thres_ as a fraction, [num, den]
  TopK,                 \* fast_nms_topk
  MaxCandidates,        \* max_color_candidates_
  Slots, Frames,        \* requests; frames as their size and what is on them
  Settings              \* configurations tried

\* The sizes a frame can have.
Sized == (Nat \ {0}) \X (Nat \ {0})

\* The candidates of a network whose class rows are probabilities.
Candidates ==
  [quad : [1 .. 4 -> Int \X Int], box : [1 .. 4 -> Int],
   probs : [1 .. Classes -> 0 .. Unit], marks : [1 .. 4 -> 0 .. Unit],
   finite : BOOLEAN, number : Int \cup {NoNumber}]

\* What finishSlot publishes of an armor.
Armors == [corners : Seq(Int \X Int), class : Nat, score : Nat, number : Int \cup {NoNumber}]

ASSUME DetectionAssumption ==
  /\ Unit \in Nat \ {0} /\ InputW \in Nat \ {0} /\ InputH \in Nat \ {0}
  /\ Watched \subseteq (0 .. InputW - 1) \X (0 .. InputH - 1)
  /\ Classes \in Nat \ {0}
  /\ Confidence \in Nat /\ TopK \in Nat /\ MaxCandidates \in Nat
  /\ Overlap.num \in Nat /\ Overlap.den \in Nat \ {0}
  /\ \A st \in Settings :
       /\ st.numClasses \in Int /\ st.stride \in {2, 3}
       /\ DOMAIN st.labels = {} => st.labels = <<>>
  /\ \A f \in Frames :
       /\ f \in [size : Sized, scene : [seen : Seq(Candidates), leading : Nat]]
       /\ f.scene.leading >= Classes  \* the class rows are in 0 to 1
  /\ None \notin Sized \cup Armors

VARIABLES
  setting,    \* wanted: target_color_ or "any"; labels: class_labels_;
              \* numClasses: num_classes_; stride: channels per corner; vis
  useClasses, \* output_layout_.use_classes, None until it is valid
  cached,     \* per slot, cached_src_size
  canvas,     \* per slot and pixel, the size of the frame it shows, None for grey
  job,        \* per slot, size and scene of the frame in flight
  answer      \* what came of the last frame finished

detectionVars == <<setting, useClasses, cached, canvas, job, answer>>

Lesser(a, b) == IF a < b THEN a ELSE b

Clamp(v, top) == IF v < 0 THEN 0 ELSE IF v > top THEN top ELSE v

\* std::round of a fraction that is not negative.
Round(num, den) == (2 * num + den) \div (2 * den)

-----------------------------------------------------------------------------
(* The fit of a frame into the canvas.                                     *)

\* lb.scale: the smaller of the two ratios.
Scale(size) ==
  IF InputW * size[2] <= InputH * size[1] THEN [num |-> InputW, den |-> size[1]]
                                          ELSE [num |-> InputH, den |-> size[2]]

FitW(size) == Round(size[1] * Scale(size).num, Scale(size).den)
FitH(size) == Round(size[2] * Scale(size).num, Scale(size).den)
PadW(size) == (InputW - FitW(size)) \div 2
PadH(size) == (InputH - FitH(size)) \div 2

\* The rectangle the picture is resized into.
Picture(size) ==
  Watched \cap ((PadW(size) .. PadW(size) + FitW(size) - 1)
                 \X (PadH(size) .. PadH(size) + FitH(size) - 1))

\* Mutant of Strips: only what is above and to the left is painted.
StripsNear(size) == {p \in Watched : p[1] < PadW(size) \/ p[2] < PadH(size)}

\* The strips that are painted grey.
Strips(size) ==
  LET rows == PadH(size) .. PadH(size) + FitH(size) - 1
      columns == PadW(size) .. PadW(size) + FitW(size) - 1
  IN  {p \in Watched :
         \/ PadH(size) > 0 /\ p[2] \notin rows
         \/ PadW(size) > 0 /\ p[2] \in rows /\ p[1] \notin columns}

\* Mutant of Stale: the size is not looked at.
StaleOnce(s, size) == cached[s] = None

\* The fit has to be worked out, and the padding painted, again.
Stale(s, size) == cached[s] # size

\* The size whose fit is in use for a frame of this size.
FitFor(s, size) == IF Stale(s, size) THEN size ELSE cached[s]

-----------------------------------------------------------------------------
(* The network: the rows of a candidate in the output.                     *)

\* cv::resize stretches the frame to the fit, whatever the frame's size is.
ToCanvas(v, pad, fit, length) == (v * fit) \div length + pad * Unit

CornerRow(c, n, fit, size) ==
  LET x == ToCanvas(c.quad[n][1], PadW(fit), FitW(fit), size[1])
      y == ToCanvas(c.quad[n][2], PadH(fit), FitH(fit), size[2])
  IN  IF setting.stride = 3 THEN <<x, y, c.marks[n]>> ELSE <<x, y>>

\* The rows after the four of the box.
Output(c, fit, size) ==
  c.probs \o CornerRow(c, 1, fit, size) \o CornerRow(c, 2, fit, size)
          \o CornerRow(c, 3, fit, size) \o CornerRow(c, 4, fit, size)

Channels == Classes + 4 * setting.stride

-----------------------------------------------------------------------------
(* YoloPostprocessor::run.                                                 *)

\* Values that are no probabilities go through the sigmoid, which is almost
\* 1 for coordinates.
ToProb(v) == IF v \in 0 .. Unit THEN v ELSE IF v < 0 THEN 0 ELSE Unit

ExpectedPoints == (InputH \div 8) * (InputW \div 8) + (InputH \div 16) * (InputW \div 16)
                    + (InputH \div 32) * (InputW \div 32)

\* resolveOutputLayout: leading channels of the first output have nearly all
\* their values in 0 to 1.
UseClasses(leading) ==
  LET seen == IF Points = ExpectedPoints /\ leading > 0 THEN leading ELSE Channels
  IN  IF setting.numClasses > 0 THEN Lesser(setting.numClasses, seen) ELSE seen

\* rebuildAllowedClassTable; a class without a place in it is not allowed.
AllowedTable ==
  IF setting.wanted = "any" THEN <<>>
  ELSE IF setting.labels = <<>>
    THEN [n \in 1 .. Clamp(setting.numClasses, Classes) |-> FALSE]
    ELSE [n \in DOMAIN setting.labels |-> setting.labels[n] = setting.wanted]

\* Mutant of Allowed: the filter is left out.
AllowedAll(class) == TRUE

Allowed(class) ==
  AllowedTable # <<>> => class \in DOMAIN AllowedTable /\ AllowedTable[class]

\* The first class with the highest probability, and that probability.
BestScore(row, use) ==
  CHOOSE v \in {ToProb(row[n]) : n \in 1 .. use} : \A n \in 1 .. use : ToProb(row[n]) <= v
BestClass(row, use) ==
  IF BestScore(row, use) = 0 THEN 0
  ELSE CHOOSE n \in 1 .. use :
         /\ ToProb(row[n]) = BestScore(row, use)
         /\ \A m \in 1 .. n - 1 : ToProb(row[m]) < BestScore(row, use)

\* image_point_from_model, one coordinate.
FromCanvas(v, pad, fit, length) ==
  Clamp(((v - pad * Unit) * Scale(fit).den) \div Scale(fit).num, (length - 1) * Unit)

PointAt(row, at, fit, size) ==
  <<FromCanvas(row[at], PadW(fit), fit, size[1]), FromCanvas(row[at + 1], PadH(fit), fit, size[2])>>

\* Mutant of OrderCorners: the corners as the network reports them.
OrderAsReported(p) == p

\* OrderCorners: the first point with the least or the greatest sum, or
\* difference, of its coordinates.
OrderCorners(p) ==
  LET First(f) == CHOOSE n \in 1 .. 4 : /\ \A m \in 1 .. 4 : f[n] <= f[m]
                                        /\ \A m \in 1 .. n - 1 : f[n] < f[m]
      sum == [n \in 1 .. 4 |-> p[n][1] + p[n][2]]
      diff == [n \in 1 .. 4 |-> p[n][1] - p[n][2]]
  IN  <<p[First(sum)], p[First([n \in 1 .. 4 |-> -diff[n]])],
        p[First([n \in 1 .. 4 |-> -sum[n]])], p[First(diff)]>>

\* decode_keypoints: where the corners are read depends on the classes.
Stride(use) == IF Channels - use >= 12 THEN 3 ELSE IF Channels - use >= 8 THEN 2 ELSE 0

Seen(c, row, use) ==
  /\ Stride(use) # 0
  /\ c.finite
  /\ Stride(use) = 3 => \A n \in 0 .. 3 : 20 * ToProb(row[use + 3 * n + 3]) >= Unit

Corners(row, use, fit, size) ==
  OrderCorners([n \in 1 .. 4 |-> PointAt(row, use + Stride(use) * (n - 1) + 1, fit, size)])

\* decode_box.
Edge(v, pad, fit, shown, length) ==
  Clamp(Round(FromCanvas(ToCanvas(v, pad, shown, length), pad, fit, length), Unit), length - 1)

Box(c, fit, size) ==
  [left |-> Edge(c.box[1], PadW(fit), fit, FitW(fit), size[1]),
   top |-> Edge(c.box[2], PadH(fit), fit, FitH(fit), size[2]),
   right |-> Edge(c.box[3], PadW(fit), fit, FitW(fit), size[1]),
   bottom |-> Edge(c.box[4], PadH(fit), fit, FitH(fit), size[2])]

Solid(b) == b.right > b.left /\ b.bottom > b.top

Area(b) == (b.right - b.left) * (b.bottom - b.top)

Common(a, b) ==
  LET w == Lesser(a.right, b.right) - (IF a.left < b.left THEN b.left ELSE a.left)
      h == Lesser(a.bottom, b.bottom) - (IF a.top < b.top THEN b.top ELSE a.top)
  IN  IF w > 0 /\ h > 0 THEN w * h ELSE 0

\* Intersection over union above the threshold.
Overlapping(a, b) ==
  Common(a, b) * Overlap.den > (Area(a) + Area(b) - Common(a, b)) * Overlap.num

\* What the loop over the anchor points makes of candidate c.
Decoded(c, fit, size, use) ==
  LET row == Output(c, fit, size)
      seen == Seen(c, row, use)
  IN  [box |-> Box(c, fit, size), class |-> BestClass(row, use),
       score |-> BestScore(row, use), seen |-> seen,
       corners |-> IF seen THEN Corners(row, use, fit, size) ELSE <<>>]

Decode(scene, fit, size, use) ==
  {d \in {Decoded(scene[n], fit, size, use) : n \in DOMAIN scene} :
     d.score >= Confidence /\ Allowed(d.class) /\ Solid(d.box)}

\* The k candidates with the highest scores, any of those that tie.
Top(d, k) ==
  IF Cardinality(d) <= k THEN {d}
  ELSE {t \in SUBSET d : /\ Cardinality(t) = k
                         /\ \A a \in d \ t, b \in t : a.score <= b.score}

\* fast_nms_topk.
Cuts(d) == IF TopK = 0 THEN {d} ELSE Top(d, TopK)

\* cv::dnn::NMSBoxes takes the candidates by score, those that tie in any
\* order, and each that overlaps none taken before.
Kept(d) ==
  {keep \in SUBSET {a \in d : a.score > Confidence} :
     /\ \A a, b \in keep : a # b => ~ Overlapping(a.box, b.box)
     /\ \A a \in d \ keep : a.score > Confidence =>
          \E b \in keep : b.score >= a.score /\ Overlapping(b.box, a.box)}

-----------------------------------------------------------------------------
(* finishSlot.                                                             *)

\* Where the armor of candidate c is on the frame.
At(c, size) ==
  [n \in 1 .. 4 |-> <<Clamp(c.quad[n][1], (size[1] - 1) * Unit),
                       Clamp(c.quad[n][2], (size[2] - 1) * Unit)>>]

\* One of the corners of candidate c is here, within half a pixel of the
\* canvas and what rounding adds to it.
Near(point, c, size) ==
  LET Close(v, w) == 2 * Scale(size).num * (v - w) <= (Unit + 2) * Scale(size).den + 2 * Scale(size).num
  IN  \E l \in 1 .. 4 : \A axis \in 1 .. 2 :
        Close(point[axis], At(c, size)[l][axis]) /\ Close(At(c, size)[l][axis], point[axis])

\* classifyArmorNumber looks at the frame inside the corners, which shows
\* the number of an armor with these corners, if the net is sure of one.
Numbers(scene, corners, size) ==
  {NoNumber} \cup
  {scene[n].number : n \in {m \in DOMAIN scene : \A k \in 1 .. 4 : Near(corners[k], scene[m], size)}}

\* Mutant of Looked: the candidates are not sorted first.
LookedUnsorted(keep) ==
  IF setting.vis THEN {t \in SUBSET keep : Cardinality(t) = Lesser(MaxCandidates, Cardinality(keep))}
                 ELSE {keep}

\* With the debug picture, only the first candidates are looked at.
Looked(keep) == IF setting.vis THEN Top(keep, MaxCandidates) ELSE {keep}

\* Of those with corners, one with the highest confidence.
Best(looked) ==
  {a \in looked : a.seen /\ \A b \in looked : b.seen => b.score <= a.score}

\* What can be published.
Answers(looked, scene, size) ==
  IF Best(looked) = {} THEN {None}
  ELSE UNION {{[corners |-> a.corners, class |-> a.class, score |-> a.score, number |-> name] :
                 name \in Numbers(scene, a.corners, size)} : a \in Best(looked)}

-----------------------------------------------------------------------------

Init ==
  /\ setting \in Settings
  /\ useClasses = None
  /\ cached = [s \in Slots |-> None]
  /\ canvas = [s \in Slots |-> [p \in Watched |-> None]]
  /\ job = [s \in Slots |-> None]
  /\ answer = None

\* submit: a slot's canvas is painted only when the fit is new.
Submit(s, frame) ==
  /\ job[s] = None
  /\ LET size == frame.size IN
       /\ cached' = [cached EXCEPT ![s] = FitFor(s, size)]
       /\ canvas' = [canvas EXCEPT ![s] = [p \in Watched |->
                       IF p \in Picture(FitFor(s, size)) THEN size
                       ELSE IF Stale(s, size) /\ p \in Strips(size) THEN None ELSE @[p]]]
  /\ job' = [job EXCEPT ![s] = frame]
  /\ answer' = None
  /\ UNCHANGED <<setting, useClasses>>

\* finishSlot, with the output of the slot's request.
Finish(s) ==
  /\ job[s] # None
  /\ useClasses' = IF useClasses = None THEN UseClasses(job[s].scene.leading) ELSE useClasses
  /\ LET size == job[s].size
         scene == job[s].scene.seen
     IN  \E cut \in Cuts(Decode(scene, cached[s], size, useClasses')) :
         \E keep \in Kept(cut) :
         \E looked \in Looked(keep) :
         \E best \in Answers(looked, scene, size) :
           answer' = [size |-> size, scene |-> scene, best |-> best]
  /\ job' = [job EXCEPT ![s] = None]
  /\ UNCHANGED <<setting, cached, canvas>>

Next == \E s \in Slots : (\E frame \in Frames : Submit(s, frame)) \/ Finish(s)

Spec == Init /\ [][Next]_detectionVars

-----------------------------------------------------------------------------

TypeOK ==
  /\ setting \in Settings
  /\ useClasses \in Nat \cup {None}
  /\ cached \in [Slots -> {f.size : f \in Frames} \cup {None}]
  /\ canvas \in [Slots -> [Watched -> {f.size : f \in Frames} \cup {None}]]
  /\ job \in [Slots -> Frames \cup {None}]

Likely(c) ==
  CHOOSE n \in 1 .. Classes :
    \A m \in 1 .. Classes : c.probs[m] < c.probs[n] \/ (c.probs[m] = c.probs[n] /\ n <= m)

Published == answer # None /\ answer.best # None

(* Outside the picture a slot's canvas is grey, whatever sizes the slot    *)
(* has had before.  Only the last column or row, when the picture is one   *)
(* short of it, may show what an earlier frame of another size left there: *)
(* frames of one size never have anything but grey around them.            *)
(* Code: the caches of preprocess(); a gap of one leaves no padding on the *)
(* near side, and the strip on the far side is then not painted either.    *)
StripsGrey ==
  \A s \in Slots : cached[s] # None =>
    \A p \in Watched \ Picture(cached[s]) : canvas[s][p] # None =>
      /\ canvas[s][p] # cached[s]
      /\ \/ p[1] = InputW - 1 /\ FitW(cached[s]) = InputW - 1
         \/ p[2] = InputH - 1 /\ FitH(cached[s]) = InputH - 1

(* What is published belongs together and to the frame it is published     *)
(* for: corners where one of its armors is, as exactly as the canvas can   *)
(* tell, with this armor's class and score, and with the number of an      *)
(* armor that is there (or none), however many slots and sizes of frames   *)
(* share the postprocessor, and whatever the first output looked like.     *)
(* Code: the letterbox of the slot taken back in run(), the layout cached  *)
(* from the first output, and the indices through top-k, NMS and finish.   *)
OneArmor ==
  Published /\ setting.numClasses = Classes =>
    LET There == {c \in {answer.scene[n] : n \in DOMAIN answer.scene} :
                    \A k \in 1 .. 4 : Near(answer.best.corners[k], c, answer.size)}
    IN  /\ answer.best.number \in {c.number : c \in There} \cup {NoNumber}
        /\ \E c \in There : /\ answer.best.class = Likely(c)
                            /\ answer.best.score = c.probs[Likely(c)]

(* With the labels at hand nothing but the wanted colour is published,     *)
(* even when the layout makes a coordinate look like a class.              *)
(* Code: rebuildAllowedClassTable and the filter before the NMS.           *)
ColourKept ==
  Published /\ setting.wanted # "any" /\ setting.labels # <<>> =>
    /\ answer.best.class \in DOMAIN setting.labels
    /\ setting.labels[answer.best.class] = setting.wanted

Upright(tl, tr, br, bl) ==
  LET Right(a, b) == b[1] - a[1] > b[2] - a[2] /\ b[1] - a[1] > a[2] - b[2]
      Down(a, b) == b[2] - a[2] > b[1] - a[1] /\ b[2] - a[2] > a[1] - b[1]
  IN  Right(tl, tr) /\ Right(bl, br) /\ Down(tl, bl) /\ Down(tr, br)

(* An armor whose edges lean less than 45 degrees is published with its    *)
(* corners as top left, top right, bottom right, bottom left, the order    *)
(* the pose solver takes for granted, whatever order the network has.      *)
(* Code: OrderCorners.                                                     *)
CornersOrdered ==
  Published =>
    LET p == answer.best.corners
        shown == {At(answer.scene[n], answer.size) : n \in DOMAIN answer.scene}
    IN  \A q \in shown : {q[n] : n \in 1 .. 4} = {p[n] : n \in 1 .. 4} =>
          \A i, j, k, l \in 1 .. 4 :
            Upright(q[i], q[j], q[k], q[l]) => p = <<q[i], q[j], q[k], q[l]>>

Wanted(c) ==
  setting.wanted = "any" \/ (Likely(c) \in DOMAIN setting.labels /\ setting.labels[Likely(c)] = setting.wanted)

\* The box is wider and higher than a pixel of the canvas, one of the frame
\* and what rounding takes away.
Wide(c, size) ==
  LET Span(low, high, length) == Clamp(high, (length - 1) * Unit) - Clamp(low, (length - 1) * Unit)
      least == (Unit + 2) * (Scale(size).num + Scale(size).den)
  IN  /\ Scale(size).num * Span(c.box[1], c.box[3], size[1]) >= least
      /\ Scale(size).num * Span(c.box[2], c.box[4], size[2]) >= least

\* An armor the program has to see: of the wanted colour, with corners, not
\* under another candidate and among the first, whatever their colours are.
\* So it does not matter when the colour is looked at: the code does that
\* before NMS, the comment on max_color_candidates says after it.
Plain(c, scene, size) ==
  LET Rivals == {n \in DOMAIN scene : /\ scene[n] # c
                                      /\ scene[n].probs[Likely(scene[n])] >= c.probs[Likely(c)]}
  IN  /\ Wanted(c) /\ Wide(c, size)
      /\ c.probs[Likely(c)] > Confidence
      /\ c.finite /\ (setting.stride = 3 => \A n \in 1 .. 4 : 20 * c.marks[n] >= Unit)
      /\ \A n \in Rivals :
           \/ scene[n].box[3] <= c.box[1] \/ c.box[3] <= scene[n].box[1]
           \/ scene[n].box[4] <= c.box[2] \/ c.box[4] <= scene[n].box[2]
      /\ TopK > 0 => Cardinality(Rivals) < TopK
      /\ Cardinality(Rivals) < MaxCandidates

(* No armor is missed for a weaker one or for none: whoever is well seen,  *)
(* apart from the candidates of any colour that are as likely, and among   *)
(* the first of them, is at most as likely as the one published.           *)
(* Code: the filter, top-k, NMS, the limit on candidates with the debug    *)
(* picture, and the choice of the best in finishSlot.                      *)
BestPublished ==
  answer # None /\ setting.numClasses = Classes =>
    \A n \in DOMAIN answer.scene :
      LET c == answer.scene[n] IN
        Plain(c, answer.scene, answer.size) =>
          answer.best # None /\ answer.best.score >= c.probs[Likely(c)]

=============================================================================
