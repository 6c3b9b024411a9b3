------------------------- MODULE TrackerLockProofs -------------------------
(* Theorems about TrackerLock, for every number of names, every length of  *)
(* the frames and every value of the two limits.                           *)
EXTENDS TrackerLock, TLAPS

LEMMA FrameTypes == ASSUME NEW f \in Frames
                    PROVE  /\ 1 \in DOMAIN f
                           /\ \A k \in DOMAIN f : k \in Nat /\ f[k] \in Armors
<1>1. PICK n \in 1 .. MaxArmors : f \in [1 .. n -> Armors]
  BY DEF Frames
<1>2. DOMAIN f = 1 .. n
  BY <1>1
<1>3. 1 \in 1 .. n
  BY LockAssumption
<1> QED
  BY <1>1, <1>2, <1>3

\* The armor under the loop is one of the frame's.
LEMMA ArmorType == ASSUME TypeOK, Step
                   PROVE  Armor \in Armors /\ next' \in Nat \ {0}
<1>1. next \in DOMAIN frame /\ next' = next + 1 /\ next \in Nat \ {0} /\ frame \in Frames
  BY DEF Step, TypeOK
<1> QED
  BY <1>1, FrameTypes DEF Armor

\* The type invariant: counters below their limits, names of the right kind.
THEOREM LockTypes == Spec => []TypeOK
<1>1. Init => TypeOK
  <2> SUFFICES ASSUME Init PROVE TypeOK
    OBVIOUS
  <2>1. gateFails \in 0 .. ReinitAfter - 1 /\ mismatches \in 0 .. SwitchAfter - 1
    BY LockAssumption DEF Init
  <2>2. next \in Nat \ {0} /\ unseen \in Nat /\ strangers \in Nat
    BY DEF Init
  <2>3. frame \in Frames \/ (~busy /\ frame = <<>>)
    BY DEF Init
  <2>4. busy \in BOOLEAN /\ initialized \in BOOLEAN /\ updated \in BOOLEAN /\ foreign \in BOOLEAN
    BY DEF Init
  <2>5. {target, candidate, source} \subseteq Names \cup {NoName}
    BY DEF Init
  <2> QED
    BY <2>1, <2>2, <2>3, <2>4, <2>5 DEF TypeOK
<1>2. TypeOK /\ [Next]_vars => TypeOK'
  <2> SUFFICES ASSUME TypeOK, [Next]_vars PROVE TypeOK'
    OBVIOUS
  <2> USE DEF TypeOK
  <2>1. CASE \E f \in Frames : Receive(f)
    <3>1. PICK f \in Frames : Receive(f)
      BY <2>1
    <3>2. /\ busy' = TRUE /\ frame' = f /\ next' = 1
          /\ updated' = FALSE /\ foreign' = FALSE /\ candidate' = NoName
          /\ UNCHANGED <<initialized, target, gateFails, mismatches, source, unseen, strangers>>
      BY <3>1 DEF Receive, lock, history
    <3>3. frame' \in Frames \/ (~busy' /\ frame' = <<>>)
      BY <3>2
    <3>4. next' \in Nat \ {0}
      BY <3>2
    <3> QED
      BY <3>2, <3>3, <3>4
  <2>2. CASE Observe
    <3>1. Step
      BY <2>2 DEF Observe, StartFilter, SkipForeign, MissGate, RejectUpdate, Correct
    <3>2. Armor.name \in Names \cup {NoName} /\ next' \in Nat \ {0}
      BY <3>1, ArmorType DEF Armors
    <3>3. busy' = busy /\ frame' = frame /\ frame \in Frames
      BY <3>1 DEF Step
    <3>4. CASE StartFilter
      BY <3>2, <3>3, <3>4, LockAssumption DEF StartFilter
    <3>5. CASE SkipForeign
      BY <3>2, <3>3, <3>5 DEF SkipForeign, lock
    <3>6. CASE MissGate
      BY <3>2, <3>3, <3>6 DEF MissGate, AdoptedName, scan, history
    <3>7. CASE RejectUpdate
      BY <3>2, <3>3, <3>7, LockAssumption
      DEF RejectUpdate, AdoptedName, SeenInGate, scan
    <3>8. CASE Correct
      BY <3>2, <3>3, <3>8, LockAssumption DEF Correct, AdoptedName, SeenInGate
    <3> QED
      BY <2>2, <3>4, <3>5, <3>6, <3>7, <3>8 DEF Observe
  <2>3. CASE Decide
    <3>1. Finish
      BY <2>3 DEF Decide, KeepTracking, CountStranger, SwitchTarget, CountMiss, Reinit
    <3>2. /\ busy' \in BOOLEAN
          /\ frame' = frame /\ next' = next /\ frame \in Frames
          /\ updated' = updated /\ foreign' = foreign /\ candidate' = candidate
      BY <3>1 DEF Finish, scan
    <3>3. CASE KeepTracking
      BY <3>2, <3>3 DEF KeepTracking, lock, history
    <3>4. CASE CountStranger
      BY <3>2, <3>4, LockAssumption DEF CountStranger
    <3>5. CASE SwitchTarget
      BY <3>2, <3>5, LockAssumption DEF SwitchTarget
    <3>6. CASE CountMiss
      BY <3>2, <3>6, LockAssumption DEF CountMiss
    <3>7. CASE Reinit
      <4>1. frame \in Frames
        BY <3>1 DEF Finish
      <4>2. frame[1].name \in Names \cup {NoName}
        BY <4>1, FrameTypes DEF Armors
      <4> QED
        BY <3>2, <3>7, <4>2, LockAssumption DEF Reinit
    <3> QED
      BY <2>3, <3>3, <3>4, <3>5, <3>6, <3>7 DEF Decide
  <2>4. CASE UNCHANGED vars
    BY <2>4 DEF vars, lock, scan, history
  <2> QED
    BY <2>1, <2>2, <2>3, <2>4 DEF Next
<1> QED
  BY <1>1, <1>2, PTL DEF Spec
-----------------------------------------------------------------------------
(* Why the lock is safe.  Before anything is locked there is no name; an   *)
(* armor passed over in this frame without a foreign name has the locked   *)
(* name or none, so that a restart from the front armor keeps the target.  *)
LockBegins == ~initialized => target = NoName /\ ~foreign

PassedOver ==
  busy /\ ~foreign =>
    \A k \in DOMAIN frame : k < next => frame[k].name \in {NoName, target}

(* Every frame counted against the target showed a foreign name, and the   *)
(* one under way counts before the counter does.                           *)
CountsStrangers ==
  /\ mismatches <= strangers
  /\ busy /\ foreign => mismatches < strangers

(* Every frame without correction went to one of the two counters.         *)
CountsUnseen == unseen <= mismatches + gateFails

LockInv == LockBegins /\ PassedOver /\ FilterOfTarget /\ CountsStrangers /\ CountsUnseen

LEMMA LockInvStart == ASSUME Init PROVE LockInv
<1>1. LockBegins /\ PassedOver /\ FilterOfTarget
  BY DEF Init, LockBegins, PassedOver, FilterOfTarget
<1>2. CountsStrangers
  BY DEF Init, CountsStrangers
<1>3. CountsUnseen
  BY DEF Init, CountsUnseen
<1> QED
  BY <1>1, <1>2, <1>3 DEF LockInv

LEMMA LockInvObserve == ASSUME TypeOK, LockInv, Observe PROVE LockInv'
<1>1. Step /\ busy' = busy /\ frame' = frame /\ next' = next + 1 /\ next \in Nat
  BY DEF Observe, StartFilter, SkipForeign, MissGate, RejectUpdate, Correct, Step, TypeOK
<1>2. \A k \in DOMAIN frame : k \in Nat
  BY <1>1, FrameTypes DEF Step, TypeOK
<1>3. /\ mismatches \in Nat /\ gateFails \in Nat /\ unseen \in Nat /\ strangers \in Nat
      /\ foreign \in BOOLEAN
  BY LockAssumption DEF TypeOK
<1>4. \A k \in DOMAIN frame : k < next' => k < next \/ k = next
  BY <1>1, <1>2
<1> USE DEF LockInv
<1>5. CASE StartFilter
  <2>1. LockBegins' /\ FilterOfTarget'
    BY <1>5 DEF StartFilter, LockBegins, FilterOfTarget
  <2>2. PassedOver'
    BY <1>1, <1>4, <1>5 DEF StartFilter, LockBegins, PassedOver, Armor
  <2>3. CountsStrangers' /\ CountsUnseen'
    BY <1>5 DEF StartFilter, LockBegins, CountsStrangers, CountsUnseen
  <2> QED
    BY <2>1, <2>2, <2>3
<1>6. CASE SkipForeign
  <2>1. LockBegins' /\ FilterOfTarget' /\ PassedOver'
    BY <1>6 DEF SkipForeign, lock, LockBegins, FilterOfTarget, PassedOver
  <2>2. CountsStrangers'
    BY <1>1, <1>3, <1>6 DEF SkipForeign, lock, CountsStrangers, Step
  <2>3. CountsUnseen'
    BY <1>6 DEF SkipForeign, lock, CountsUnseen
  <2> QED
    BY <2>1, <2>2, <2>3
<1>7. ASSUME Follows, target' = AdoptedName, foreign' = foreign, initialized' = initialized
      PROVE  LockBegins' /\ PassedOver'
  BY <1>1, <1>4, <1>7
  DEF Follows, IsForeign, AdoptedName, LockBegins, PassedOver, Armor
<1>8. CASE MissGate
  <2>1. LockBegins' /\ PassedOver'
    BY <1>7, <1>8 DEF MissGate, scan
  <2>2. FilterOfTarget'
    BY <1>8 DEF MissGate, history, AdoptedName, FilterOfTarget
  <2>3. CountsStrangers' /\ CountsUnseen'
    BY <1>1, <1>8 DEF MissGate, scan, history, CountsStrangers, CountsUnseen
  <2> QED
    BY <2>1, <2>2, <2>3
<1>9. CASE RejectUpdate
  <2>1. LockBegins' /\ PassedOver'
    BY <1>7, <1>9 DEF RejectUpdate, scan
  <2>2. FilterOfTarget'
    BY <1>9 DEF RejectUpdate, AdoptedName, FilterOfTarget
  <2>3. CountsStrangers' /\ CountsUnseen'
    BY <1>3, <1>9 DEF RejectUpdate, SeenInGate, scan, CountsStrangers, CountsUnseen
  <2> QED
    BY <2>1, <2>2, <2>3
<1>10. CASE Correct
  <2>1. LockBegins' /\ PassedOver'
    BY <1>7, <1>10 DEF Correct
  <2>2. FilterOfTarget'
    BY <1>10 DEF Correct, Follows, IsForeign, AdoptedName, FilterOfTarget
  <2>3. CountsStrangers' /\ CountsUnseen'
    BY <1>3, <1>10 DEF Correct, SeenInGate, CountsStrangers, CountsUnseen
  <2> QED
    BY <2>1, <2>2, <2>3
<1> QED
  BY <1>5, <1>6, <1>8, <1>9, <1>10 DEF Observe

LEMMA LockInvDecide == ASSUME TypeOK, LockInv, Decide PROVE LockInv'
<1>1. /\ busy /\ busy' = FALSE /\ next \notin DOMAIN frame /\ frame \in Frames
      /\ foreign' = foreign
  BY DEF Decide, KeepTracking, CountStranger, SwitchTarget, CountMiss, Reinit,
         Finish, scan, TypeOK
<1>2. mismatches \in Nat /\ gateFails \in Nat /\ unseen \in Nat /\ strangers \in Nat
  BY LockAssumption DEF TypeOK
<1>3. PassedOver'
  BY <1>1 DEF PassedOver
<1> USE DEF LockInv
<1>4. CASE KeepTracking
  BY <1>1, <1>3, <1>4
  DEF KeepTracking, lock, history, LockBegins, FilterOfTarget, CountsStrangers, CountsUnseen
<1>5. CASE CountStranger
  <2>1. LockBegins' /\ FilterOfTarget'
    BY <1>1, <1>5 DEF CountStranger, LockBegins, FilterOfTarget
  <2>2. CountsStrangers' /\ CountsUnseen'
    BY <1>1, <1>2, <1>5 DEF CountStranger, CountsStrangers, CountsUnseen
  <2> QED
    BY <1>3, <2>1, <2>2
<1>6. CASE SwitchTarget
  <2>1. LockBegins' /\ FilterOfTarget'
    BY <1>1, <1>6 DEF SwitchTarget, LockBegins, FilterOfTarget
  <2>2. CountsStrangers' /\ CountsUnseen'
    BY <1>1, <1>6 DEF SwitchTarget, CountsStrangers, CountsUnseen
  <2> QED
    BY <1>3, <2>1, <2>2
<1>7. CASE CountMiss
  <2>1. LockBegins' /\ FilterOfTarget'
    BY <1>1, <1>7 DEF CountMiss, LockBegins, FilterOfTarget
  <2>2. CountsStrangers' /\ CountsUnseen'
    BY <1>1, <1>2, <1>7 DEF CountMiss, CountsStrangers, CountsUnseen
  <2> QED
    BY <1>3, <2>1, <2>2
<1>8. CASE Reinit
  <2>1. frame[1].name \in {NoName, target}
    BY <1>1, <1>8, FrameTypes DEF Reinit, PassedOver, TypeOK
  <2>2. LockBegins' /\ FilterOfTarget'
    BY <1>1, <1>8, <2>1 DEF Reinit, LockBegins, FilterOfTarget
  <2>3. CountsStrangers' /\ CountsUnseen'
    BY <1>1, <1>2, <1>8 DEF Reinit, CountsStrangers, CountsUnseen
  <2> QED
    BY <1>3, <2>2, <2>3
<1> QED
  BY <1>4, <1>5, <1>6, <1>7, <1>8 DEF Decide

LEMMA LockInvariant == Spec => [](TypeOK /\ LockInv)
<1>1. TypeOK /\ LockInv /\ [Next]_vars => LockInv'
  <2> SUFFICES ASSUME TypeOK, LockInv, [Next]_vars PROVE LockInv'
    OBVIOUS
  <2>1. CASE \E f \in Frames : Receive(f)
    <3>1. PICK f \in Frames : Receive(f)
      BY <2>1
    <3>2. \A k \in DOMAIN frame' : ~(k < next')
      BY <3>1, FrameTypes DEF Receive, Frames
    <3> QED
      BY <3>1, <3>2 DEF Receive, lock, history, LockInv, LockBegins, PassedOver,
                        FilterOfTarget, CountsStrangers, CountsUnseen
  <2>2. CASE UNCHANGED vars
    BY <2>2 DEF vars, lock, scan, history, LockInv, LockBegins, PassedOver,
                FilterOfTarget, CountsStrangers, CountsUnseen
  <2> QED
    BY <2>1, <2>2, LockInvObserve, LockInvDecide DEF Next
<1> QED
  BY <1>1, LockInvStart, LockTypes, PTL DEF Spec

\* The filter is of the locked robot, however frames mix names.
THEOREM FilterFollowsTarget == Spec => []FilterOfTarget
<1>1. LockInv => FilterOfTarget
  BY DEF LockInv
<1> QED
  BY <1>1, LockInvariant, PTL

\* The filter does not coast for more than SwitchAfter + ReinitAfter - 2 frames.
THEOREM FilterStaysFresh == Spec => []FilterNotStale
<1>1. TypeOK /\ LockInv => FilterNotStale
  <2> SUFFICES ASSUME TypeOK, LockInv PROVE FilterNotStale
    OBVIOUS
  <2>1. /\ mismatches <= SwitchAfter - 1 /\ gateFails <= ReinitAfter - 1
        /\ mismatches \in Nat /\ gateFails \in Nat /\ unseen \in Nat
        /\ SwitchAfter \in Nat /\ ReinitAfter \in Nat
    BY LockAssumption DEF TypeOK
  <2> QED
    BY <2>1 DEF LockInv, CountsUnseen, FilterNotStale
<1> QED
  BY <1>1, LockInvariant, PTL

\* A locked name is given up only after SwitchAfter frames with a foreign one.
THEOREM LockIsPatient == Spec => NotGivenUpEarly
<1> DEFINE Patient == target # NoName /\ target' # target => strangers >= SwitchAfter
<1>1. TypeOK /\ LockInv /\ [Next]_vars => [Patient]_vars
  <2> SUFFICES ASSUME TypeOK, LockInv, Next, target # NoName, target' # target
               PROVE  strangers >= SwitchAfter
    OBVIOUS
  <2>1. SwitchTarget
    BY DEF Next, Receive, Observe, StartFilter, SkipForeign, MissGate, RejectUpdate, Correct,
           AdoptedName, Decide, KeepTracking, CountStranger, CountMiss, Reinit, lock,
           LockInv, LockBegins
  <2>2. /\ mismatches \in Nat /\ strangers \in Nat /\ SwitchAfter \in Nat
        /\ mismatches < strangers /\ mismatches + 1 >= SwitchAfter
    BY <2>1, LockAssumption DEF SwitchTarget, Finish, LockInv, CountsStrangers, TypeOK
  <2> QED
    BY <2>2
<1> QED
  BY <1>1, LockInvariant, PTL DEF Spec, NotGivenUpEarly
=============================================================================
