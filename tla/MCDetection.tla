---------------------------- MODULE MCDetection ----------------------------
(***************************************************************************)
(* A canvas of 32 by 32 watched at its edges and where pictures end, and   *)
(* frames it shows whole, halved with grey above and below, and one short  *)
(* of its last row.                                                        *)
(***************************************************************************)
EXTENDS Detection

WatchedPixels == {0, 30, 31} \X {0, 7, 8, 23, 24, 30, 31}

OverlapThreshold == [num |-> 1, den |-> 4]

\* A candidate with these corners and this box.
Candidate(quad, box, probs, number) ==
  [quad |-> quad, box |-> box, probs |-> probs, number |-> number,
   marks |-> <<20, 20, 20, 1>>, finite |-> TRUE]

Scaled(points) == [n \in DOMAIN points |-> <<points[n][1] * Unit, points[n][2] * Unit>>]
ScaledBox(b) == [n \in 1 .. 4 |-> b[n] * Unit]

Red(s) == <<0, s>>
Blue(s) == <<s, 1>>

\* Armors here and there, their corners in any order.
Left(p, n) == Candidate(Scaled(<<<<12, 12>>, <<4, 6>>, <<14, 4>>, <<2, 14>>>>), ScaledBox(<<2, 4, 14, 14>>), p, n)
Over(p, n) == Candidate(Scaled(<<<<4, 8>>, <<4, 14>>, <<14, 14>>, <<14, 8>>>>), ScaledBox(<<4, 4, 14, 14>>), p, n)
Far(p, n) == Candidate(Scaled(<<<<28, 28>>, <<20, 22>>, <<28, 20>>, <<20, 28>>>>), ScaledBox(<<20, 20, 28, 28>>), p, n)
Cut(p, n) == Candidate(Scaled(<<<<40, 20>>, <<20, 20>>, <<20, 30>>, <<40, 30>>>>), ScaledBox(<<20, 20, 40, 30>>), p, n)
Tip(p, n) == Candidate(Scaled(<<<<24, 4>>, <<28, 8>>, <<24, 12>>, <<20, 8>>>>), ScaledBox(<<20, 4, 28, 12>>), p, n)

Broken(c) == [c EXCEPT !.finite = FALSE]
Faint(c) == [c EXCEPT !.marks[2] = 0]

Seeing(seen) == [seen |-> seen, leading |-> Classes]

ScenesTried == {
  Seeing(<<Left(Red(10), 1)>>),
  Seeing(<<Left(Red(8), 1), Over(Blue(12), 2)>>),
  Seeing(<<Left(Red(8), 1), Far(Blue(12), 2)>>),
  Seeing(<<Broken(Over(Red(12), 1)), Left(Red(8), 2), Cut(Red(8), 3)>>),
  Seeing(<<Tip(Red(9), 1), Faint(Far(Red(10), 2)), Left(Red(4), 3)>>),
  Seeing(<<Left(Red(7), 1), Over(Blue(8), 4), Far(Red(9), 2), Tip(Red(7), 3)>>) }

\* An output that gives the layout away wrongly, every scene on a frame of
\* another shape than the canvas, and one scene on frames of other shapes.
FramesTried ==
  {[size |-> <<64, 32>>, scene |-> [seen |-> <<>>, leading |-> Classes + 1]]}
    \cup {[size |-> <<64, 32>>, scene |-> scene] : scene \in ScenesTried}
    \cup {[size |-> size, scene |-> Seeing(<<Left(Red(10), 1)>>)] : size \in {<<32, 32>>, <<64, 62>>}}

\* The program's own settings; the picture and any colour; three channels
\* per corner; the number of classes left open; labels that cannot be read.
Usual == [wanted |-> "red", labels |-> <<"blue", "red">>, numClasses |-> 2, stride |-> 2, vis |-> FALSE]
SettingsTried ==
  {Usual, [Usual EXCEPT !.vis = TRUE, !.wanted = "any"], [Usual EXCEPT !.stride = 3],
   [Usual EXCEPT !.stride = 3, !.numClasses = 0], [Usual EXCEPT !.labels = <<>>]}

=============================================================================
