---------------------------- MODULE TrackerLock ----------------------------
(***************************************************************************)
(* CkfTrackerNode::run: which armor the tracker's filter follows.  A frame *)
(* with poses brings the armors seen in it, each with the name the         *)
(* classifier gave it, if any.  The filter starts from the first armor and *)
(* locks its name; armors with another name are counted, not measured, and *)
(* take over the lock after SwitchAfter frames; a filter that none of its  *)
(* own armors fits restarts after ReinitAfter frames.                      *)
(*                                                                         *)
(* The filter's numbers are abstracted to what an armor does to it:        *)
(* "outside" the measurement gate, inside it but "rejected" by the update  *)
(* (NIS, NEES or a singular matrix), or "accepted".  Frames without a pose *)
(* only predict and are left out.                                          *)
(***************************************************************************)
EXTENDS Integers

CONSTANTS Names,        \* armor names
          NoName,       \* armor_name_id < 0
          SwitchAfter,  \* 30
          ReinitAfter,  \* 3
          MaxArmors     \* bound: armors in a frame

ASSUME LockAssumption ==
  /\ NoName \notin Names
  /\ SwitchAfter \in Nat \ {0}
  /\ ReinitAfter \in Nat \ {0}
  /\ MaxArmors \in Nat \ {0}

Fits == {"accepted", "rejected", "outside"}

Armors == [name : Names \cup {NoName}, fit : Fits]

\* armor_observations of a frame with a pose: at least one, each with a pose.
Frames == UNION {[1 .. n -> Armors] : n \in 1 .. MaxArmors}

VARIABLES
  busy,         \* between the subscription's return and the publication
  frame,        \* armor_observations
  next,         \* the loop's position in it
  initialized,  \* ckf_.initialized()
  target,       \* target_armor_name_id_
  gateFails,    \* gate_fail_count_
  mismatches,   \* name_mismatch_count_
  updated,      \* updated
  foreign,      \* saw_different_named_target
  candidate,    \* switch_candidate's name
  source,       \* history: name of the armor that last set or corrected the filter
  unseen,       \* history: frames without correction since one was in the gate
  strangers     \* history: frames with a foreign name since one was in the gate

lock == <<initialized, target, gateFails, mismatches>>
scan == <<updated, foreign, candidate>>
history == <<source, unseen, strangers>>
vars == <<busy, frame, next, lock, scan, history>>

Init ==
  /\ busy = FALSE
  /\ frame = <<>>
  /\ next = 1
  /\ initialized = FALSE
  /\ target = NoName
  /\ gateFails = 0
  /\ mismatches = 0
  /\ updated = FALSE
  /\ foreign = FALSE
  /\ candidate = NoName
  /\ source = NoName
  /\ unseen = 0
  /\ strangers = 0

Receive(f) ==
  /\ ~busy
  /\ busy' = TRUE
  /\ frame' = f
  /\ next' = 1
  /\ updated' = FALSE
  /\ foreign' = FALSE
  /\ candidate' = NoName
  /\ UNCHANGED <<lock, history>>

----------------------------------------------------------------------------
(* One armor of the frame.                                                 *)

Armor == frame[next]

Step ==
  /\ busy
  /\ next \in DOMAIN frame
  /\ next' = next + 1
  /\ UNCHANGED <<busy, frame>>

IsForeign == target # NoName /\ Armor.name \notin {NoName, target}

Follows == initialized /\ ~IsForeign

\* An unnamed target takes the armor's name, before the gate is tried.
AdoptedName == IF target = NoName THEN Armor.name ELSE target

InGate == Armor.fit # "outside"

StartFilter ==
  /\ Step
  /\ ~initialized
  /\ initialized' = TRUE
  /\ target' = Armor.name
  /\ gateFails' = 0
  /\ mismatches' = 0
  /\ updated' = TRUE
  /\ source' = Armor.name
  /\ unseen' = 0
  /\ strangers' = 0
  /\ UNCHANGED <<foreign, candidate>>

SkipForeign ==
  /\ Step
  /\ initialized
  /\ IsForeign
  /\ foreign' = TRUE
  /\ candidate' = Armor.name
  /\ strangers' = IF foreign THEN strangers ELSE strangers + 1
  /\ UNCHANGED <<lock, updated, source, unseen>>

MissGate ==
  /\ Step
  /\ Follows
  /\ ~InGate
  /\ target' = AdoptedName
  /\ UNCHANGED <<initialized, gateFails, mismatches, scan, history>>

\* Mutant of SeenInGate: name_mismatch_count_ is not reset.
SeenInGateCounted ==
  /\ mismatches' = mismatches
  /\ unseen' = 0
  /\ strangers' = IF foreign THEN 1 ELSE 0

\* The frame itself still counts when a foreign name was seen in it before.
SeenInGate ==
  /\ mismatches' = 0
  /\ unseen' = 0
  /\ strangers' = IF foreign THEN 1 ELSE 0

RejectUpdate ==
  /\ Step
  /\ Follows
  /\ Armor.fit = "rejected"
  /\ target' = AdoptedName
  /\ SeenInGate
  /\ UNCHANGED <<initialized, gateFails, scan, source>>

Correct ==
  /\ Step
  /\ Follows
  /\ Armor.fit = "accepted"
  /\ target' = AdoptedName
  /\ SeenInGate
  /\ gateFails' = 0
  /\ updated' = TRUE
  /\ source' = Armor.name
  /\ UNCHANGED <<initialized, foreign, candidate>>

----------------------------------------------------------------------------
(* The end of the frame.                                                   *)

Finish ==
  /\ busy
  /\ next \notin DOMAIN frame
  /\ busy' = FALSE
  /\ UNCHANGED <<frame, next, scan>>

KeepTracking ==
  /\ Finish
  /\ updated
  /\ UNCHANGED <<lock, history>>

\* Mutant of CountStranger: a foreign name excuses the gate.
CountStrangerOnly ==
  /\ Finish
  /\ ~updated
  /\ foreign
  /\ mismatches + 1 < SwitchAfter
  /\ mismatches' = mismatches + 1
  /\ gateFails' = 0
  /\ unseen' = unseen + 1
  /\ UNCHANGED <<initialized, target, source, strangers>>

CountStranger ==
  /\ Finish
  /\ ~updated
  /\ foreign
  /\ mismatches + 1 < SwitchAfter
  /\ mismatches' = mismatches + 1
  /\ unseen' = unseen + 1
  /\ UNCHANGED <<initialized, target, gateFails, source, strangers>>

\* Mutant of SwitchTarget: the filter restarts, the locked name stays.
SwitchFilterOnly ==
  /\ Finish
  /\ ~updated
  /\ foreign
  /\ mismatches + 1 >= SwitchAfter
  /\ mismatches' = 0
  /\ gateFails' = 0
  /\ source' = candidate
  /\ unseen' = 0
  /\ strangers' = 0
  /\ UNCHANGED <<initialized, target>>

SwitchTarget ==
  /\ Finish
  /\ ~updated
  /\ foreign
  /\ mismatches + 1 >= SwitchAfter
  /\ target' = candidate
  /\ mismatches' = 0
  /\ gateFails' = 0
  /\ source' = candidate
  /\ unseen' = 0
  /\ strangers' = 0
  /\ UNCHANGED initialized

CountMiss ==
  /\ Finish
  /\ ~updated
  /\ ~foreign
  /\ gateFails + 1 < ReinitAfter
  /\ gateFails' = gateFails + 1
  /\ unseen' = unseen + 1
  /\ UNCHANGED <<initialized, target, mismatches, source, strangers>>

\* Mutant of Reinit: the gate's counter is looked at first.
ReinitFirst ==
  /\ Finish
  /\ ~updated
  /\ gateFails + 1 >= ReinitAfter
  /\ gateFails' = 0
  /\ source' = frame[1].name
  /\ unseen' = 0
  /\ UNCHANGED <<initialized, target, mismatches, strangers>>

\* Restarts from the front armor; the name and its counter stay.
Reinit ==
  /\ Finish
  /\ ~updated
  /\ ~foreign
  /\ gateFails + 1 >= ReinitAfter
  /\ gateFails' = 0
  /\ source' = frame[1].name
  /\ unseen' = 0
  /\ UNCHANGED <<initialized, target, mismatches, strangers>>

----------------------------------------------------------------------------
Observe == StartFilter \/ SkipForeign \/ MissGate \/ RejectUpdate \/ Correct

Decide == KeepTracking \/ CountStranger \/ SwitchTarget \/ CountMiss \/ Reinit

Next ==
  \/ \E f \in Frames : Receive(f)
  \/ Observe
  \/ Decide

\* The node's thread finishes a frame it has begun; poses need not arrive.
Spec == Init /\ [][Next]_vars /\ WF_vars(Observe \/ Decide)

----------------------------------------------------------------------------
(* Types.  Between frames both counters are below their limits.            *)
TypeOK ==
  /\ busy \in BOOLEAN
  /\ frame \in Frames \/ (~busy /\ frame = <<>>)
  /\ next \in Nat \ {0}
  /\ initialized \in BOOLEAN
  /\ target \in Names \cup {NoName}
  /\ gateFails \in 0 .. ReinitAfter - 1
  /\ mismatches \in 0 .. SwitchAfter - 1
  /\ updated \in BOOLEAN
  /\ foreign \in BOOLEAN
  /\ candidate \in Names \cup {NoName}
  /\ source \in Names \cup {NoName}
  /\ unseen \in Nat
  /\ strangers \in Nat

(* The filter is never driven by another robot than the one it is locked   *)
(* on: what last set or corrected it bore the locked name, or no name.     *)
FilterOfTarget == source \in {NoName, target}

(* The lock on a name is not given up for a few frames of a passing robot: *)
(* there were SwitchAfter frames with a foreign name since the locked      *)
(* armor was last in the gate (1167-1180).                                 *)
NotGivenUpEarly ==
  [][target # NoName /\ target' # target => strangers >= SwitchAfter]_vars

(* A filter cannot coast on prediction for long while poses arrive, however*)
(* foreign and ill-fitting armors alternate: both counters together bound  *)
(* the frames without a measurement in its gate or a restart.              *)
FilterNotStale == unseen <= SwitchAfter + ReinitAfter - 2

(* When from some time on only armors of one name are seen, and go on      *)
(* being seen, the lock is on that name in the end, and stays on it.       *)
OnlyNamed(n) == \A k \in DOMAIN frame : frame[k].name = n

NewcomerTakesOver ==
  \A n \in Names : <>[]OnlyNamed(n) /\ []<>busy => <>[](target = n)
=============================================================================
