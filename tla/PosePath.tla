------------------------------ MODULE PosePath ------------------------------
(***************************************************************************)
(* From detections to poses: the inference node publishes a result per     *)
(* frame, not always in the order of the frames; the PnP node answers      *)
(* results with poses; the tracker consumes the poses and the display node *)
(* draws them over the frames it shows.  Results go to the PnP node and to *)
(* the display node, answers to the tracker and to the display node, each  *)
(* over a topic as module LatestChannel describes it (module MessageTopic  *)
(* shows that the ring buffers implement it).                              *)
(*                                                                         *)
(* An armor is abstracted to how far its pose can be trusted: "unsolved"   *)
(* (no solution within the depth limits), "loose" (its rectangle does not  *)
(* reproject onto the corners) or "tight".  The rigid constraint and the   *)
(* visualization are switched on, as in the program's configuration.       *)
(***************************************************************************)
EXTENDS Integers, Sequences, FiniteSets

CONSTANTS Depth,        \* messages a topic holds for a subscriber: 1
          Workers,      \* inferences at a time
          None,         \* an empty std::shared_ptr
          Sights,       \* bound: what a frame may show, sets of fits
          MaxFrame      \* bound: frames taken by the inference node

Frames == 1 .. MaxFrame

Fits == {"unsolved", "loose", "tight"}

\* A result's armors, those of one fit taken together; none: no corners.
Results == [frame : Frames, armors : SUBSET Fits]

\* PnpResultMParam; no poses: has_pose is false.
Answers == [frame : Frames, poses : SUBSET (Fits \ {"unsolved"})]

ASSUME PosePathAssumption ==
  /\ Depth \in Nat \ {0}
  /\ Workers \in Nat \ {0}
  /\ MaxFrame \in Nat
  /\ Sights \subseteq SUBSET Fits
  /\ None \notin Answers \cup Results

Detectors == {"pnp", "display"}    \* subscribers of RESULT_TOPIC
Observers == {"tracker", "display"} \* subscribers of PNP_TOPIC

VARIABLES
  taken,        \* the last frame the inference node took
  inFlight,     \* frames it works on
  result,       \* the result it publishes
  resultFor,    \* the subscribers that have not got it yet
  results,      \* RESULT_TOPIC, per subscriber
  lastProcessed,\* last_processed_frame_id_
  answer,       \* the answer the PnP node publishes
  answerFor,    \* the subscribers that have not got it yet
  answers,      \* PNP_TOPIC, per subscriber
  display,      \* where the display node is
  shown,        \* the frame in its hands
  latest,       \* latest_pnp_
  lastPose,     \* history: per subscriber, frame of the last pose it took
  lastDrawn     \* history: frame of the last pose that was drawn

inferVars == <<taken, inFlight, result, resultFor>>
pnpVars == <<lastProcessed, answer, answerFor>>
displayVars == <<display, shown, latest, lastDrawn>>
vars == <<inferVars, results, pnpVars, answers, displayVars, lastPose>>

HasPose(a) == a.poses # {}

Init ==
  /\ taken = 0
  /\ inFlight = {}
  /\ result = None
  /\ resultFor = {}
  /\ results = [s \in Detectors |-> <<>>]
  /\ lastProcessed = 0
  /\ answer = None
  /\ answerFor = {}
  /\ answers = [s \in Observers |-> <<>>]
  /\ display = "wait"
  /\ shown = 0
  /\ latest = None
  /\ lastPose = [s \in Observers |-> 0]
  /\ lastDrawn = 0

\* Mutant of Put: a publication that gives way itself when the topic is full.
PutUnlessFull(q, m) == IF Len(q) < Depth THEN Append(q, m) ELSE q

\* A publication with REPLACE: the oldest message gives way.
Put(q, m) == IF Len(q) < Depth THEN Append(q, m) ELSE Append(Tail(q), m)

-----------------------------------------------------------------------------
(* The inference node (module AsyncInfer): frames are taken in order, and  *)
(* answered in any order the requests come to their ends.                  *)

TakeFrame ==
  /\ taken < MaxFrame
  /\ Cardinality(inFlight) < Workers
  /\ taken' = taken + 1
  /\ inFlight' = inFlight \cup {taken + 1}
  /\ UNCHANGED <<result, resultFor, results, pnpVars, answers, displayVars, lastPose>>

PublishResult(f, armors) ==
  /\ resultFor = {}
  /\ f \in inFlight
  /\ inFlight' = inFlight \ {f}
  /\ result' = [frame |-> f, armors |-> armors]
  /\ resultFor' = Detectors
  /\ UNCHANGED <<taken, results, pnpVars, answers, displayVars, lastPose>>

SendResult(s) ==
  /\ s \in resultFor
  /\ resultFor' = resultFor \ {s}
  /\ results' = [results EXCEPT ![s] = Put(@, result)]
  /\ UNCHANGED <<taken, inFlight, result, pnpVars, answers, displayVars, lastPose>>

-----------------------------------------------------------------------------
(* The PnP node: PnpSolverNode::run.                                       *)

ReceiveResult ==
  /\ answerFor = {}
  /\ results["pnp"] # <<>>
  /\ results' = [results EXCEPT !["pnp"] = Tail(@)]
  /\ UNCHANGED <<inferVars, answers, displayVars, lastPose>>

Received == Head(results["pnp"])

Publish(a) ==
  /\ answer' = a
  /\ answerFor' = Observers

\* PublishNoPose(*result, "no_corners"), whatever came before.
AnswerNoCorners ==
  /\ ReceiveResult
  /\ Received.armors = {}
  /\ Publish([frame |-> Received.frame, poses |-> {}])
  /\ UNCHANGED lastProcessed

\* Mutant of Stale: results are solved in the order they come.
NeverStale(r) == FALSE

Stale(r) == r.frame <= lastProcessed

DropStale ==
  /\ ReceiveResult
  /\ Received.armors # {}
  /\ Stale(Received)
  /\ UNCHANGED pnpVars

\* Mutant of Solve: last_processed_frame_id_ is not set.
SolveUnnoticed ==
  /\ ReceiveResult
  /\ Received.armors # {}
  /\ ~ Stale(Received)
  /\ Publish([frame |-> Received.frame, poses |-> Received.armors \ {"unsolved"}])
  /\ UNCHANGED lastProcessed

\* Armors without a solution are left out; the answer has no pose when no
\* armor is left.
Solve ==
  /\ ReceiveResult
  /\ Received.armors # {}
  /\ ~ Stale(Received)
  /\ lastProcessed' = Received.frame
  /\ Publish([frame |-> Received.frame, poses |-> Received.armors \ {"unsolved"}])

SendAnswer(s) ==
  /\ s \in answerFor
  /\ answerFor' = answerFor \ {s}
  /\ answers' = [answers EXCEPT ![s] = Put(@, answer)]
  /\ UNCHANGED <<inferVars, results, lastProcessed, answer, displayVars, lastPose>>

-----------------------------------------------------------------------------
(* The nodes that take poses.                                              *)

TakeAnswer(s) ==
  /\ answers[s] # <<>>
  /\ answers' = [answers EXCEPT ![s] = Tail(@)]
  /\ lastPose' = IF HasPose(Head(answers[s]))
                 THEN [lastPose EXCEPT ![s] = Head(answers[s]).frame] ELSE lastPose
  /\ UNCHANGED <<inferVars, pnpVars>>

\* CkfTrackerNode::run; what it does with the poses is module TrackerLock.
Track ==
  /\ TakeAnswer("tracker")
  /\ UNCHANGED <<results, displayVars>>

\* DisplayNode::run takes a result to show.
ReceiveShown ==
  /\ display = "wait"
  /\ results["display"] # <<>>
  /\ results' = [results EXCEPT !["display"] = Tail(@)]
  /\ shown' = Head(results["display"]).frame
  /\ display' = "drain"
  /\ UNCHANGED <<inferVars, pnpVars, answers, latest, lastDrawn, lastPose>>

\* One turn of DrainPnpResult: it goes on while the answers are older.
DrainPnpResult ==
  /\ display = "drain"
  /\ TakeAnswer("display")
  /\ latest' = Head(answers["display"])
  /\ display' = IF latest'.frame < shown THEN "drain" ELSE "draw"
  /\ UNCHANGED <<results, shown, lastDrawn>>

\* The receive with a time-out of 0 finds nothing.
Drained ==
  /\ display = "drain"
  /\ answers["display"] = <<>>
  /\ display' = "draw"
  /\ UNCHANGED <<inferVars, results, pnpVars, answers, shown, latest, lastDrawn, lastPose>>

\* The frame's own answer, or the last one when it is of an earlier frame.
\* (An answer of the frame itself is the last one taken.)
Matched == IF latest # None /\ latest.frame <= shown THEN latest ELSE None

Draw ==
  /\ display = "draw"
  /\ display' = "wait"
  /\ lastDrawn' = IF Matched # None /\ HasPose(Matched) THEN Matched.frame ELSE lastDrawn
  /\ UNCHANGED <<inferVars, results, pnpVars, answers, shown, latest, lastPose>>

-----------------------------------------------------------------------------
Infer ==
  \/ TakeFrame
  \/ \E f \in inFlight, armors \in Sights : PublishResult(f, armors)
  \/ \E s \in Detectors : SendResult(s)

Pnp == AnswerNoCorners \/ DropStale \/ Solve \/ \E s \in Observers : SendAnswer(s)

Display == ReceiveShown \/ DrainPnpResult \/ Drained \/ Draw

Next == Infer \/ Pnp \/ Track \/ Display

Spec == Init /\ [][Next]_vars

-----------------------------------------------------------------------------
(* Types; no subscriber is kept more than Depth messages.                  *)
TypeOK ==
  /\ taken \in 0 .. MaxFrame
  /\ inFlight \in SUBSET Frames
  /\ result \in Results \cup {None}
  /\ resultFor \in SUBSET Detectors
  /\ resultFor # {} => result # None
  /\ results \in [Detectors -> Seq(Results)]
  /\ \A s \in Detectors : Len(results[s]) <= Depth
  /\ lastProcessed \in 0 .. MaxFrame
  /\ answer \in Answers \cup {None}
  /\ answerFor \in SUBSET Observers
  /\ answerFor # {} => answer # None
  /\ answers \in [Observers -> Seq(Answers)]
  /\ \A s \in Observers : Len(answers[s]) <= Depth
  /\ display \in {"wait", "drain", "draw"}
  /\ shown \in 0 .. MaxFrame
  /\ latest \in Answers \cup {None}
  /\ lastPose \in [Observers -> 0 .. MaxFrame]
  /\ lastDrawn \in 0 .. MaxFrame

\* What a subscriber is still to get: its queue and the answer on its way.
OnItsWay(s) == IF s \in answerFor THEN Append(answers[s], answer) ELSE answers[s]

\* The poses in q are of later and later frames, all after last.
InOrder(q, last) ==
  /\ \A k \in DOMAIN q : HasPose(q[k]) => last < q[k].frame
  /\ \A j, k \in DOMAIN q : j < k /\ HasPose(q[j]) /\ HasPose(q[k]) => q[j].frame < q[k].frame

(* Time runs forward for the tracker and the display: the poses a          *)
(* subscriber took, those that wait for it and the one on its way to it    *)
(* are of later and later frames, although results overtake each other     *)
(* and messages are replaced (pnp_solver.cpp 773-781).                     *)
PosesInOrder == \A s \in Observers : InOrder(OnItsWay(s), lastPose[s])

\* What the PnP node is still to get.
ToPnp == IF "pnp" \in resultFor THEN Append(results["pnp"], result) ELSE results["pnp"]

Solvable(r) == r.armors \ {"unsolved"} # {}

(* Whatever is replaced in topics of one message, the last result is not   *)
(* lost: from its publication to the next one a solvable result waits for  *)
(* the PnP node, or tracker and display have its pose or are still to get  *)
(* it, unless the PnP node has been at a later frame.  Results of older    *)
(* frames that come late, and answers without a pose, push out what was    *)
(* published before them, even of a newer frame, but not this one.         *)
(* Code: PnpSolveNode::run and PublishNoPose over topics with REPLACE.     *)
LastResultNotLost ==
  result # None /\ Solvable(result) =>
    \/ lastProcessed > result.frame
    \/ \E k \in DOMAIN ToPnp : ToPnp[k] = result
    \/ \A s \in Observers :
         \/ lastPose[s] = result.frame
         \/ \E k \in DOMAIN OnItsWay(s) : /\ HasPose(OnItsWay(s)[k])
                                          /\ OnItsWay(s)[k].frame = result.frame

(* The drawn pose never jumps back to an earlier one, even when frames are *)
(* shown out of order and answers without a pose come late.                *)
DrawnPosesAdvance == [][lastDrawn' >= lastDrawn]_vars

(* The configuration's promise for the rigid constraint: a pose whose      *)
(* rectangle does not reproject tightly onto the corners is rejected.      *)
PosesRigid ==
  \A s \in Observers : \A k \in DOMAIN answers[s] : "loose" \notin answers[s][k].poses
=============================================================================
