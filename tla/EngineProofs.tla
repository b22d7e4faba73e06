---------------------------- MODULE EngineProofs ----------------------------
(***************************************************************************)
(* Proofs about Engine, for any number of concurrent adjudications,        *)
(* trajectories, files and faults.                                         *)
(***************************************************************************)
EXTENDS Engine, TLAPS

USE KindsAssumption, LabelsAssumption, FaultsAssumption, SetsAssumption

\* Every variable keeps its type: Engine!TypeOK, the state the engine's
\* handlers share.
THEOREM TypeCorrect == Spec => []TypeOK
<1> USE DEF TypeOK, Trajectory, FreshTrajectory, Levels, Public,
        HighlyConfidential, Unlabelled, Outcomes, LedgerForms, Decisions
<1>1. Init => TypeOK
  BY DEF Init, Points, InFlight, AllKinds, ControlKinds
<1>2. TypeOK /\ [Next]_vars => TypeOK'
  <2> SUFFICES ASSUME TypeOK, [Next]_vars
               PROVE  TypeOK'
    OBVIOUS
  <2> USE DEF Points, InFlight, EvaluatePoints, PersistPoints, Goto, Answer,
          Fault, Forget, reqVars, ledgerVars, storeVars, ghostVars
  <2>1. ASSUME NEW e \in Events, Submit(e) PROVE TypeOK'
    BY <2>1 DEF Submit
  <2>2. ASSUME NEW e \in Events, EnsureAgentEntity(e) PROVE TypeOK'
    <3>1. CASE kind[e] \in ControlKinds
      BY <2>2, <3>1 DEF EnsureAgentEntity
    <3>2. CASE kind[e] \notin ControlKinds
      BY <2>2, <3>2 DEF EnsureAgentEntity
    <3>3. QED
      BY <3>1, <3>2
  <2>3. ASSUME NEW e \in Events, CountRead(e) PROVE TypeOK'
    BY <2>3 DEF CountRead
  <2>4. ASSUME NEW e \in Events, CountWrite(e) PROVE TypeOK'
    <3>1. entity' \in [Trajs -> [steps : Nat, label : Levels]]
      BY <2>4 DEF CountWrite
    <3>2. pc' \in [Events -> Points] /\ outcome' \in [Events -> Outcomes]
      BY <2>4 DEF CountWrite
    <3>3. counted' \in [Trajs -> Nat]
      BY <2>4 DEF CountWrite
    <3>4. copy' \in [Events -> [steps : Nat, label : Levels]]
      BY <2>4 DEF CountWrite
    <3>5. QED
      BY <2>4, <3>1, <3>2, <3>3, <3>4 DEF CountWrite
  <2>5. ASSUME NEW e \in Events, Classify(e) PROVE TypeOK'
    BY <2>5 DEF Classify, ClassifyResults, AfterClassify
  <2>6. ASSUME NEW e \in Events, PutEntity(e) PROVE TypeOK'
    <3>1. CASE kind[e] \in FileOpKinds
      BY <2>6, <3>1 DEF PutEntity
    <3>2. CASE kind[e] \notin FileOpKinds
      BY <2>6, <3>2 DEF PutEntity
    <3>3. QED
      BY <3>1, <3>2
  <2>7a. ASSUME NEW e \in Events, MarkKeep(e) PROVE TypeOK'
    BY <2>7a DEF MarkKeep, Marked, AfterMark
  <2>7. ASSUME NEW e \in Events, MarkRead(e) PROVE TypeOK'
    BY <2>7 DEF MarkRead
  <2>8. ASSUME NEW e \in Events, MarkWrite(e) PROVE TypeOK'
    BY <2>8 DEF MarkWrite, Marked, AfterMark
  <2>9. ASSUME NEW e \in Events, PutResult(e) PROVE TypeOK'
    BY <2>9 DEF PutResult
  <2>10. ASSUME NEW e \in Events, Authorize(e) PROVE TypeOK'
    BY <2>10 DEF Authorize, AdjudicatedFromResponse
  <2>11. ASSUME NEW e \in Events, EvaluateFails(e) PROVE TypeOK'
    BY <2>11 DEF EvaluateFails, LockReleased
  <2>12. ASSUME NEW e \in Events, PersistJsonl(e) PROVE TypeOK'
    BY <2>12 DEF PersistJsonl, PersistedForm
  <2>13. ASSUME NEW e \in Events, PersistTurso(e) PROVE TypeOK'
    <3>1. turso' \in [Events -> LedgerForms]
      BY <2>13 DEF PersistTurso, PersistedForm
    <3>2. pc' \in [Events -> Points]
      <4>1. PICK point \in {"reset", "done", "reread"} :
               pc' = [pc EXCEPT ![e] = point]
        BY <2>13 DEF PersistTurso
      <4>2. QED
        BY <4>1
    <3>3. reply' \in [Events -> Outcomes]
      BY <2>13 DEF PersistTurso
    <3>4. UNCHANGED <<faults, kind, traj, file, label, copy, outcome, entity,
                      files, lock, jsonl, jsonlV, tursoV, marked, counted,
                      prior>>
      BY <2>13 DEF PersistTurso
    <3>5. QED
      BY <3>1, <3>2, <3>3, <3>4
  <2>14. ASSUME NEW e \in Events, ResetTrajectory(e) PROVE TypeOK'
    BY <2>14 DEF ResetTrajectory
  <2>15. ASSUME NEW e \in Events, RereadTrajectory(e) PROVE TypeOK'
    BY <2>15 DEF RereadTrajectory
  <2>16. ASSUME NEW e \in Events, PersistVerdictJsonl(e) PROVE TypeOK'
    BY <2>16 DEF PersistVerdictJsonl
  <2>17. ASSUME NEW e \in Events, PersistVerdictTurso(e) PROVE TypeOK'
    BY <2>17 DEF PersistVerdictTurso
  <2>18. ASSUME NEW e \in Events, PersistFails(e) PROVE TypeOK'
    BY <2>18 DEF PersistFails
  <2>19. ASSUME NEW e \in Events, Drop(e) PROVE TypeOK'
    BY <2>19 DEF Drop, LockReleased
  <2>20. CASE UNCHANGED vars
    BY <2>20 DEF vars
  <2>21. QED
    BY <2>1, <2>2, <2>3, <2>4, <2>5, <2>6, <2>7a, <2>7, <2>8, <2>9, <2>10,
       <2>11, <2>12, <2>13, <2>14, <2>15, <2>16, <2>17, <2>18, <2>19, <2>20
       DEF Next, Step
<1>3. QED
  BY <1>1, <1>2, PTL DEF Spec

-----------------------------------------------------------------------------
(***************************************************************************)
(* The update lock and the Trajectory rows.  TrajectoryInv says who holds  *)
(* the lock and what the row it read is worth; it is inductive, and the    *)
(* two properties of the rows are conjuncts of it.                         *)
(***************************************************************************)

\* The integers that the rows, the copies of them and the labels hold.
LEMMA RowTypes ==
    ASSUME TypeOK
    PROVE  /\ \A t \in Trajs : /\ entity[t].label \in Int
                               /\ entity[t].steps \in Int
                               /\ marked[t] \in Int /\ counted[t] \in Int
           /\ \A e \in Events : /\ copy[e].label \in Int
                                /\ copy[e].steps \in Int
                                /\ label[e] \in Int /\ traj[e] \in Trajs
<1>1. \A l \in Levels : l \in Int
  BY DEF Levels, Public, HighlyConfidential
<1>2. ASSUME NEW r \in Trajectory PROVE r.label \in Int /\ r.steps \in Int
  <2>1. r.label \in Levels /\ r.steps \in Nat
    BY DEF Trajectory
  <2>2. QED
    BY <1>1, <2>1
<1>3. ASSUME NEW t \in Trajs
      PROVE  /\ entity[t] \in Trajectory
             /\ marked[t] \in Int /\ counted[t] \in Int
  <2>1. entity[t] \in Trajectory /\ marked[t] \in Levels /\ counted[t] \in Nat
    BY DEF TypeOK
  <2>2. QED
    BY <1>1, <2>1
<1>4. \A e \in Events : /\ copy[e] \in Trajectory
                        /\ label[e] \in Int /\ traj[e] \in Trajs
  BY <1>1 DEF TypeOK
<1>5. QED
  BY <1>2, <1>3, <1>4

\* An adjudication in update_entity holds a row at or above the histories.
LEMMA CopyAboveHistory ==
    ASSUME TypeOK, TrajectoryInv, NEW e \in Events, pc[e] \in LockedPoints
    PROVE  /\ copy[e].label >= marked[traj[e]]
           /\ copy[e].steps >= counted[traj[e]]
<1>1. /\ copy[e].label >= entity[traj[e]].label
      /\ copy[e].steps >= entity[traj[e]].steps
  BY DEF TrajectoryInv, CopyInv
<1>2. /\ entity[traj[e]].label >= marked[traj[e]]
      /\ entity[traj[e]].steps >= counted[traj[e]]
  BY RowTypes DEF TrajectoryInv, HighWaterMark, NoStepLost
<1>3. QED
  BY <1>1, <1>2, RowTypes

\* A step that moves e alone, does not take or leave a locked point, and
\* leaves lock, entity, copy and the histories as they are, keeps the
\* invariant: most steps of adjudicate_event are of this kind.
LEMMA Bystander ==
    ASSUME TypeOK, TrajectoryInv, NEW e \in Events,
           NEW point \in Points \ LockedPoints,
           pc[e] \notin LockedPoints, pc' = [pc EXCEPT ![e] = point],
           \A d \in Events \ {e} : traj'[d] = traj[d] /\ label'[d] = label[d],
           UNCHANGED <<lock, entity, copy, marked, counted>>
    PROVE  TrajectoryInv'
<1>1. \A d \in Events : pc'[d] = IF d = e THEN point ELSE pc[d]
  BY DEF TypeOK
<1>2. LockInv'
  BY <1>1 DEF TrajectoryInv, LockInv, TypeOK
<1>3. CopyInv'
  BY <1>1 DEF TrajectoryInv, CopyInv, LockedPoints
<1>4. HighWaterMark' /\ NoStepLost'
  BY DEF TrajectoryInv, HighWaterMark, NoStepLost
<1>5. QED
  BY <1>2, <1>3, <1>4 DEF TrajectoryInv

\* update_entity, entered: the row read is the row stored.
LEMMA LockTaken ==
    ASSUME TypeOK, TrajectoryInv, NEW e \in Events,
           NEW point \in LockedPoints, lock = NoEvent, lock' = e,
           pc[e] \notin LockedPoints, pc' = [pc EXCEPT ![e] = point],
           copy' = [copy EXCEPT ![e] = entity[traj[e]]],
           point = "markPut" => label[e] > entity[traj[e]].label,
           UNCHANGED <<traj, label, entity, marked, counted>>
    PROVE  TrajectoryInv'
<1>1. \A d \in Events : pc'[d] = IF d = e THEN point ELSE pc[d]
  BY DEF TypeOK
<1>2. LockInv'
  BY <1>1, SetsAssumption DEF TrajectoryInv, LockInv, TypeOK
<1>3. \A d \in Events \ {e} : pc'[d] \notin LockedPoints
  BY <1>1, SetsAssumption DEF TrajectoryInv, LockInv
<1>4. copy'[e] = entity[traj[e]] /\ pc'[e] = point
  BY <1>1 DEF TypeOK
<1>5. CopyInv'
  <2>1. SUFFICES ASSUME NEW d \in Events, pc'[d] \in LockedPoints
                 PROVE  /\ copy'[d].label >= entity[traj[d]].label
                        /\ copy'[d].steps >= entity[traj[d]].steps
                        /\ pc'[d] = "markPut" => label[d] > copy'[d].label
    BY DEF CopyInv, LockedPoints
  <2>2. d = e
    BY <1>3, <2>1
  <2>3. QED
    BY <1>4, <2>2, RowTypes
<1>6. HighWaterMark' /\ NoStepLost'
  BY DEF TrajectoryInv, HighWaterMark, NoStepLost
<1>7. QED
  BY <1>2, <1>5, <1>6 DEF TrajectoryInv

\* update_entity, left, in success or failure: the lock is free again, and
\* the row and its histories, if written, stay in order.
LEMMA LockLeft ==
    ASSUME TypeOK, TrajectoryInv, NEW e \in Events,
           NEW point \in Points \ LockedPoints,
           pc[e] \in LockedPoints, pc' = [pc EXCEPT ![e] = point],
           lock' = NoEvent, HighWaterMark', NoStepLost'
    PROVE  TrajectoryInv'
<1>1. \A d \in Events : pc'[d] = IF d = e THEN point ELSE pc[d]
  BY DEF TypeOK
<1>2. \A d \in Events : pc'[d] \notin LockedPoints
  BY <1>1 DEF TrajectoryInv, LockInv
<1>3. LockInv'
  BY <1>2, SetsAssumption DEF LockInv
<1>4. CopyInv'
  BY <1>2 DEF CopyInv, LockedPoints
<1>5. QED
  BY <1>3, <1>4 DEF TrajectoryInv

\* TrajectoryInv holds of every reachable state: update_lock makes every
\* update_entity of adjudicate_event indivisible.
THEOREM TrajectoriesSafe == Spec => []TrajectoryInv
<1> USE DEF Points, InFlight, EvaluatePoints, PersistPoints, LockedPoints,
        reqVars, storeVars, ledgerVars, ghostVars
<1>1. Init => TrajectoryInv
  BY SetsAssumption
     DEF Init, TrajectoryInv, LockInv, CopyInv, HighWaterMark, NoStepLost,
         FreshTrajectory, Public
<1>2. TypeOK /\ TrajectoryInv /\ [Next]_vars => TrajectoryInv'
  <2> SUFFICES ASSUME TypeOK, TrajectoryInv, [Next]_vars
               PROVE  TrajectoryInv'
    OBVIOUS
  <2>1. ASSUME NEW e \in Events, Submit(e) PROVE TrajectoryInv'
    BY <2>1, Bystander DEF Submit, Goto, TypeOK
  <2>2. ASSUME NEW e \in Events, EnsureAgentEntity(e) PROVE TrajectoryInv'
    BY <2>2, Bystander DEF EnsureAgentEntity, Goto
  <2>3. ASSUME NEW e \in Events, Classify(e) PROVE TrajectoryInv'
    BY <2>3, Bystander DEF Classify, Goto, AfterClassify, TypeOK
  <2>4. ASSUME NEW e \in Events, PutEntity(e) PROVE TrajectoryInv'
    BY <2>4, Bystander DEF PutEntity, Goto
  <2>5. ASSUME NEW e \in Events, PutResult(e) PROVE TrajectoryInv'
    BY <2>5, Bystander DEF PutResult, Goto
  <2>6. ASSUME NEW e \in Events, Authorize(e) PROVE TrajectoryInv'
    BY <2>6, Bystander DEF Authorize, Goto
  <2>7. ASSUME NEW e \in Events, PersistJsonl(e) PROVE TrajectoryInv'
    BY <2>7, Bystander DEF PersistJsonl, Goto
  <2>8. ASSUME NEW e \in Events, PersistTurso(e) PROVE TrajectoryInv'
    BY <2>8, Bystander DEF PersistTurso, Goto, Answer
  <2>9. ASSUME NEW e \in Events, RereadTrajectory(e) PROVE TrajectoryInv'
    BY <2>9, Bystander DEF RereadTrajectory, Goto
  <2>10. ASSUME NEW e \in Events, PersistVerdictJsonl(e) PROVE TrajectoryInv'
    BY <2>10, Bystander DEF PersistVerdictJsonl, Goto
  <2>11. ASSUME NEW e \in Events, PersistVerdictTurso(e) PROVE TrajectoryInv'
    BY <2>11, Bystander DEF PersistVerdictTurso, Goto, Answer
  <2>12. ASSUME NEW e \in Events, PersistFails(e) PROVE TrajectoryInv'
    BY <2>12, Bystander DEF PersistFails, Goto, Answer
  <2>13. ASSUME NEW e \in Events, CountRead(e) PROVE TrajectoryInv'
    BY <2>13, LockTaken DEF CountRead, LockFree, Goto
  <2>14. ASSUME NEW e \in Events, MarkRead(e) PROVE TrajectoryInv'
    BY <2>14, LockTaken DEF MarkRead, LockFree, Goto, Raises
  <2>15. ASSUME NEW e \in Events, CountWrite(e) PROVE TrajectoryInv'
    <3>1. /\ copy[e].label >= marked[traj[e]]
          /\ copy[e].steps >= counted[traj[e]]
      BY <2>15, CopyAboveHistory DEF CountWrite
    <3>2. HighWaterMark' /\ NoStepLost'
      BY <2>15, <3>1, RowTypes
         DEF CountWrite, TypeOK, TrajectoryInv, HighWaterMark, NoStepLost
    <3>3. QED
      BY <2>15, <3>2, LockLeft DEF CountWrite, Goto
  <2>16. ASSUME NEW e \in Events, MarkWrite(e) PROVE TrajectoryInv'
    <3>1. \A t \in Trajs : marked'[t] = IF t = traj[e] /\ label[e] > marked[t]
                                          THEN label[e] ELSE marked[t]
      BY <2>16 DEF MarkWrite, Marked, TypeOK
    <3>2. \A t \in Trajs : entity'[t] = IF t = traj[e]
                                        THEN [steps |-> copy[e].steps,
                                              label |-> label[e]]
                                        ELSE entity[t]
      BY <2>16 DEF MarkWrite, TypeOK
    <3>3. pc[e] = "markPut" /\ label[e] \in Int /\ marked[traj[e]] \in Int
      BY <2>16 DEF MarkWrite, TypeOK, Levels, Public, HighlyConfidential
    <3>4. HighWaterMark'
      <4>1. label[e] >= marked[traj[e]]
        BY <3>3, CopyAboveHistory, RowTypes DEF TrajectoryInv, CopyInv
      <4>2. QED
        BY <3>1, <3>2, <3>3, <4>1 DEF TrajectoryInv, HighWaterMark
    <3>5. NoStepLost'
      BY <2>16, <3>2, <3>3, CopyAboveHistory
         DEF MarkWrite, TrajectoryInv, NoStepLost
    <3>6. PICK point \in {"putResult", "authorize"} :
             pc' = [pc EXCEPT ![e] = point]
      BY <2>16 DEF MarkWrite, Goto, AfterMark
    <3>7. QED
      BY <2>16, <3>3, <3>4, <3>5, <3>6, LockLeft DEF MarkWrite
  <2>17. ASSUME NEW e \in Events, MarkKeep(e) PROVE TrajectoryInv'
    <3>1. \A d \in Events : pc[d] \notin LockedPoints
      BY <2>17, SetsAssumption DEF MarkKeep, LockFree, TrajectoryInv, LockInv
    <3>2. \A d \in Events : pc'[d] \notin LockedPoints
      BY <2>17, <3>1 DEF MarkKeep, Goto, AfterMark, TypeOK
    <3>3. HighWaterMark' /\ NoStepLost'
      <4>1. \A t \in Trajs : marked'[t] = IF t = traj[e] /\ label[e] > marked[t]
                                            THEN label[e] ELSE marked[t]
        BY <2>17 DEF MarkKeep, Marked, TypeOK
      <4>2. entity[traj[e]].label >= label[e]
        BY <2>17, RowTypes DEF MarkKeep, Raises
      <4>3. QED
        BY <2>17, <4>1, <4>2
           DEF MarkKeep, TrajectoryInv, HighWaterMark, NoStepLost
    <3>4. LockInv' /\ CopyInv'
      BY <2>17, <3>2, SetsAssumption DEF MarkKeep, LockFree, LockInv, CopyInv
    <3>5. QED
      BY <3>3, <3>4 DEF TrajectoryInv
  <2>18. ASSUME NEW e \in Events, ResetTrajectory(e) PROVE TrajectoryInv'
    <3>1. \A d \in Events : pc'[d] \in LockedPoints <=> pc[d] \in LockedPoints
      BY <2>18 DEF ResetTrajectory, Answer, Goto, TypeOK
    <3>2. \A d \in Events : pc'[d] = "markPut" => pc[d] = "markPut"
      BY <2>18 DEF ResetTrajectory, Answer, Goto, TypeOK
    <3>3. \A t \in Trajs : /\ entity'[t].label <= entity[t].label
                           /\ entity'[t].steps <= entity[t].steps
                           /\ entity'[t].label \in Int
                           /\ entity'[t].steps \in Int
      <4>1. \A r \in Trajectory : r.label >= 0 /\ r.steps >= 0
        BY DEF Trajectory, Levels, Public, HighlyConfidential
      <4>2. \A t \in Trajs : entity[t] \in Trajectory
        BY DEF TypeOK
      <4>3. QED
        BY <2>18, <4>1, <4>2, RowTypes
           DEF ResetTrajectory, FreshTrajectory, Public, TypeOK
    <3>4. LockInv'
      BY <2>18, <3>1 DEF ResetTrajectory, TrajectoryInv, LockInv
    <3>5. CopyInv'
      <4>1. SUFFICES ASSUME NEW d \in Events, pc'[d] \in LockedPoints
                     PROVE  /\ copy[d].label >= entity'[traj[d]].label
                            /\ copy[d].steps >= entity'[traj[d]].steps
                            /\ pc'[d] = "markPut" => label[d] > copy[d].label
        BY <2>18 DEF CopyInv, LockedPoints, ResetTrajectory
      <4>2. /\ copy[d].label >= entity[traj[d]].label
            /\ copy[d].steps >= entity[traj[d]].steps
            /\ pc'[d] = "markPut" => label[d] > copy[d].label
        BY <3>1, <3>2, <4>1 DEF TrajectoryInv, CopyInv
      <4>3. QED
        BY <3>3, <4>2, RowTypes
    <3>6. HighWaterMark' /\ NoStepLost'
      BY <2>18 DEF ResetTrajectory, FreshTrajectory, TypeOK, TrajectoryInv,
                   HighWaterMark, NoStepLost, Public
    <3>7. QED
      BY <3>4, <3>5, <3>6 DEF TrajectoryInv
  <2>19. ASSUME NEW e \in Events, EvaluateFails(e) \/ Drop(e)
         PROVE  TrajectoryInv'
    <3>1. PICK point \in {"jsonl", "dropped"} :
             /\ pc' = [pc EXCEPT ![e] = point]
             /\ copy' = [copy EXCEPT ![e] = FreshTrajectory]
             /\ lock' = LockReleased(e)
             /\ UNCHANGED <<traj, label, entity, marked, counted>>
      BY <2>19 DEF EvaluateFails, Drop, Goto, Forget
    <3>2. HighWaterMark' /\ NoStepLost'
      BY <3>1 DEF TrajectoryInv, HighWaterMark, NoStepLost
    <3>3. CASE pc[e] \in LockedPoints
      <4>1. lock' = NoEvent
        BY <3>1, <3>3 DEF LockReleased, TrajectoryInv, LockInv
      <4>2. QED
        BY <3>1, <3>2, <3>3, <4>1, LockLeft
    <3>4. CASE pc[e] \notin LockedPoints
      <4>1. lock' = lock
        BY <3>1, <3>4 DEF LockReleased, TrajectoryInv, LockInv
      <4>2. \A d \in Events : pc'[d] = IF d = e THEN point ELSE pc[d]
        BY <3>1 DEF TypeOK
      <4>3. LockInv'
        BY <3>1, <3>4, <4>1, <4>2 DEF TrajectoryInv, LockInv
      <4>4. \A d \in Events : pc'[d] \in LockedPoints => copy'[d] = copy[d]
        BY <3>1, <4>2 DEF TypeOK
      <4>5. CopyInv'
        BY <3>1, <4>2, <4>4 DEF TrajectoryInv, CopyInv
      <4>6. QED
        BY <3>2, <4>3, <4>5 DEF TrajectoryInv
    <3>5. QED
      BY <3>3, <3>4
  <2>20. CASE UNCHANGED vars
    BY <2>20 DEF vars, TrajectoryInv, LockInv, CopyInv, HighWaterMark,
                 NoStepLost
  <2>21. QED
    BY <2>1, <2>2, <2>3, <2>4, <2>5, <2>6, <2>7, <2>8, <2>9, <2>10, <2>11,
       <2>12, <2>13, <2>14, <2>15, <2>16, <2>17, <2>18, <2>19, <2>20
       DEF Next, Step
<1>3. QED
  BY <1>1, <1>2, TypeCorrect, PTL DEF Spec

\* Once a mark_trajectory_label has returned, the label of its run stays at
\* least as high until the run is started again.
COROLLARY HighWaterMarkHolds == Spec => []HighWaterMark
<1>1. TrajectoryInv => HighWaterMark
  BY DEF TrajectoryInv
<1>2. QED
  BY <1>1, TrajectoriesSafe, PTL

\* Every step build_request counted stays counted until the run is started
\* again.
COROLLARY NoStepLostHolds == Spec => []NoStepLost
<1>1. TrajectoryInv => NoStepLost
  BY DEF TrajectoryInv
<1>2. QED
  BY <1>1, TrajectoriesSafe, PTL

-----------------------------------------------------------------------------
(***************************************************************************)
(* The two ledgers.  Nothing an adjudication does touches what the ledgers *)
(* hold of another event, so the invariant is proved event by event.       *)
(***************************************************************************)
EventSafe(e) ==
    LedgerPoint(e) /\ BodyWithheld(e) /\ LedgersAgreeOn(e) /\ AnswerRecorded(e)

\* LedgerSafety holds of every reachable state: what adjudicate_event has
\* written to the ledgers, and what it has answered, at each of its points.
THEOREM LedgersSafe == Spec => []LedgerSafety
<1> DEFINE AllSafe == \A e \in Events : EventSafe(e)
<1> USE DEF EventSafe, LedgerPoint, BodyWithheld, LedgersAgreeOn,
        AnswerRecorded, PersistedForm, EvaluatePoints, PersistPoints, InFlight,
        Decisions, ControlKinds, reqVars, storeVars, ledgerVars, ghostVars
<1>1. Init => AllSafe
  BY DEF Init
<1>2. TypeOK /\ AllSafe /\ [Next]_vars => AllSafe'
  <2> SUFFICES ASSUME TypeOK, AllSafe, [Next]_vars, NEW d \in Events
               PROVE  EventSafe(d)'
    OBVIOUS
  <2> DEFINE Own == <<pc[d], kind[d], outcome[d], reply[d], jsonl[d], turso[d],
                      jsonlV[d], tursoV[d]>>
  <2>0. ASSUME UNCHANGED Own PROVE EventSafe(d)'
    BY <2>0
  <2>1. ASSUME NEW e \in Events, Submit(e) PROVE EventSafe(d)'
    <3>1. CASE d # e
      BY <2>1, <3>1, <2>0 DEF Submit, Goto, TypeOK
    <3>2. CASE d = e
      BY <2>1, <3>2 DEF Submit, Goto, TypeOK
    <3>3. QED
      BY <3>1, <3>2
  <2>2. ASSUME NEW e \in Events, EnsureAgentEntity(e) PROVE EventSafe(d)'
    <3>1. CASE d # e
      BY <2>2, <3>1, <2>0 DEF EnsureAgentEntity, Goto, TypeOK
    <3>2. CASE d = e
      BY <2>2, <3>2 DEF EnsureAgentEntity, Goto, TypeOK
    <3>3. QED
      BY <3>1, <3>2
  <2>3. ASSUME NEW e \in Events, CountRead(e) PROVE EventSafe(d)'
    <3>1. CASE d # e
      BY <2>3, <3>1, <2>0 DEF CountRead, Goto, TypeOK
    <3>2. CASE d = e
      BY <2>3, <3>2 DEF CountRead, Goto, TypeOK
    <3>3. QED
      BY <3>1, <3>2
  <2>4. ASSUME NEW e \in Events, CountWrite(e) PROVE EventSafe(d)'
    <3>1. CASE d # e
      BY <2>4, <3>1, <2>0 DEF CountWrite, Goto, TypeOK
    <3>2. CASE d = e
      BY <2>4, <3>2 DEF CountWrite, Goto, TypeOK
    <3>3. QED
      BY <3>1, <3>2
  <2>5. ASSUME NEW e \in Events, Classify(e) PROVE EventSafe(d)'
    <3>1. CASE d # e
      BY <2>5, <3>1, <2>0 DEF Classify, Goto, TypeOK, AfterClassify
    <3>2. CASE d = e
      BY <2>5, <3>2 DEF Classify, Goto, TypeOK, AfterClassify
    <3>3. QED
      BY <3>1, <3>2
  <2>6. ASSUME NEW e \in Events, PutEntity(e) PROVE EventSafe(d)'
    <3>1. CASE d # e
      BY <2>6, <3>1, <2>0 DEF PutEntity, Goto, TypeOK
    <3>2. CASE d = e
      BY <2>6, <3>2 DEF PutEntity, Goto, TypeOK
    <3>3. QED
      BY <3>1, <3>2
  <2>7. ASSUME NEW e \in Events, MarkKeep(e) PROVE EventSafe(d)'
    <3>1. CASE d # e
      BY <2>7, <3>1, <2>0 DEF MarkKeep, Goto, TypeOK, AfterMark
    <3>2. CASE d = e
      BY <2>7, <3>2 DEF MarkKeep, Goto, TypeOK, AfterMark
    <3>3. QED
      BY <3>1, <3>2
  <2>8. ASSUME NEW e \in Events, MarkRead(e) PROVE EventSafe(d)'
    <3>1. CASE d # e
      BY <2>8, <3>1, <2>0 DEF MarkRead, Goto, TypeOK
    <3>2. CASE d = e
      BY <2>8, <3>2 DEF MarkRead, Goto, TypeOK
    <3>3. QED
      BY <3>1, <3>2
  <2>9. ASSUME NEW e \in Events, MarkWrite(e) PROVE EventSafe(d)'
    <3>1. CASE d # e
      BY <2>9, <3>1, <2>0 DEF MarkWrite, Goto, TypeOK, AfterMark
    <3>2. CASE d = e
      BY <2>9, <3>2 DEF MarkWrite, Goto, TypeOK, AfterMark
    <3>3. QED
      BY <3>1, <3>2
  <2>10. ASSUME NEW e \in Events, PutResult(e) PROVE EventSafe(d)'
    <3>1. CASE d # e
      BY <2>10, <3>1, <2>0 DEF PutResult, Goto, TypeOK
    <3>2. CASE d = e
      BY <2>10, <3>2 DEF PutResult, Goto, TypeOK
    <3>3. QED
      BY <3>1, <3>2
  <2>11. ASSUME NEW e \in Events, Authorize(e) PROVE EventSafe(d)'
    <3>1. CASE d # e
      BY <2>11, <3>1, <2>0 DEF Authorize, Goto, TypeOK, AdjudicatedFromResponse
    <3>2. CASE d = e
      BY <2>11, <3>2 DEF Authorize, Goto, TypeOK, AdjudicatedFromResponse
    <3>3. QED
      BY <3>1, <3>2
  <2>12. ASSUME NEW e \in Events, EvaluateFails(e) PROVE EventSafe(d)'
    <3>1. CASE d # e
      BY <2>12, <3>1, <2>0 DEF EvaluateFails, Goto, TypeOK
    <3>2. CASE d = e
      BY <2>12, <3>2 DEF EvaluateFails, Goto, TypeOK
    <3>3. QED
      BY <3>1, <3>2
  <2>13. ASSUME NEW e \in Events, PersistJsonl(e) PROVE EventSafe(d)'
    <3>1. CASE d # e
      BY <2>13, <3>1, <2>0 DEF PersistJsonl, Goto, TypeOK
    <3>2. CASE d = e
      BY <2>13, <3>2 DEF PersistJsonl, Goto, TypeOK
    <3>3. QED
      BY <3>1, <3>2
  <2>14. ASSUME NEW e \in Events, PersistTurso(e) PROVE EventSafe(d)'
    <3>1. CASE d # e
      BY <2>14, <3>1, <2>0 DEF PersistTurso, Goto, TypeOK, Answer
    <3>2. CASE d = e
      <4>1. /\ pc[d] = "turso" /\ turso'[d] = PersistedForm(d)
            /\ UNCHANGED <<kind, outcome, jsonl, jsonlV, tursoV>>
        BY <2>14, <3>2 DEF PersistTurso, TypeOK
      <4>2. jsonl[d] = PersistedForm(d) /\ jsonlV[d] = "none"
            /\ tursoV[d] = "none" /\ reply[d] = "none"
        BY <4>1
      <4>3. CASE /\ kind[d] = "Started" /\ pc'[d] = "reset"
                 /\ UNCHANGED reply
        BY <4>1, <4>2, <4>3
      <4>4. CASE /\ kind[d] = "Lifecycle" /\ pc'[d] = "done"
                 /\ reply'[d] = "Allow"
        BY <4>1, <4>2, <4>4
      <4>5. CASE /\ outcome[d] = "Error" /\ pc'[d] = "done"
                 /\ reply'[d] = "Error"
        BY <4>1, <4>2, <4>5
      <4>6. CASE /\ kind[d] \notin ControlKinds /\ outcome[d] # "Error"
                 /\ pc'[d] = "reread" /\ UNCHANGED reply
        <5>1. outcome[d] \in Decisions
          BY <4>1, <4>6 DEF TypeOK, Outcomes
        <5>2. QED
          BY <4>1, <4>2, <4>6, <5>1
      <4>7. QED
        BY <2>14, <3>2, <4>3, <4>4, <4>5, <4>6
           DEF PersistTurso, Goto, Answer, TypeOK
    <3>3. QED
      BY <3>1, <3>2
  <2>15. ASSUME NEW e \in Events, ResetTrajectory(e) PROVE EventSafe(d)'
    <3>1. CASE d # e
      BY <2>15, <3>1, <2>0 DEF ResetTrajectory, Goto, TypeOK, Answer
    <3>2. CASE d = e
      BY <2>15, <3>2 DEF ResetTrajectory, Goto, TypeOK, Answer
    <3>3. QED
      BY <3>1, <3>2
  <2>16. ASSUME NEW e \in Events, RereadTrajectory(e) PROVE EventSafe(d)'
    <3>1. CASE d # e
      BY <2>16, <3>1, <2>0 DEF RereadTrajectory, Goto, TypeOK
    <3>2. CASE d = e
      BY <2>16, <3>2 DEF RereadTrajectory, Goto, TypeOK
    <3>3. QED
      BY <3>1, <3>2
  <2>17. ASSUME NEW e \in Events, PersistVerdictJsonl(e) PROVE EventSafe(d)'
    <3>1. CASE d # e
      BY <2>17, <3>1, <2>0 DEF PersistVerdictJsonl, Goto, TypeOK
    <3>2. CASE d = e
      BY <2>17, <3>2 DEF PersistVerdictJsonl, Goto, TypeOK
    <3>3. QED
      BY <3>1, <3>2
  <2>18. ASSUME NEW e \in Events, PersistVerdictTurso(e) PROVE EventSafe(d)'
    <3>1. CASE d # e
      BY <2>18, <3>1, <2>0 DEF PersistVerdictTurso, Goto, TypeOK, Answer
    <3>2. CASE d = e
      BY <2>18, <3>2 DEF PersistVerdictTurso, Goto, TypeOK, Answer
    <3>3. QED
      BY <3>1, <3>2
  <2>19. ASSUME NEW e \in Events, PersistFails(e) PROVE EventSafe(d)'
    <3>1. CASE d # e
      BY <2>19, <3>1, <2>0 DEF PersistFails, Goto, TypeOK, Answer
    <3>2. CASE d = e
      BY <2>19, <3>2 DEF PersistFails, Goto, TypeOK, Answer
    <3>3. QED
      BY <3>1, <3>2
  <2>20. ASSUME NEW e \in Events, Drop(e) PROVE EventSafe(d)'
    <3>1. CASE d # e
      BY <2>20, <3>1, <2>0 DEF Drop, Goto, TypeOK
    <3>2. CASE d = e
      BY <2>20, <3>2 DEF Drop, Goto, TypeOK
    <3>3. QED
      BY <3>1, <3>2
  <2>21. CASE UNCHANGED vars
    BY <2>21, <2>0 DEF vars
  <2>22. QED
    BY <2>1, <2>2, <2>3, <2>4, <2>5, <2>6, <2>7, <2>8, <2>9, <2>10, <2>11,
       <2>12, <2>13, <2>14, <2>15, <2>16, <2>17, <2>18, <2>19, <2>20, <2>21
       DEF Next, Step
<1>3. AllSafe => LedgerSafety
  BY DEF LedgerSafety, LedgerInv, RefusedBodyNotStored, LedgersAgree,
         AnsweredIsRecorded
<1>4. QED
  BY <1>1, <1>2, <1>3, TypeCorrect, PTL DEF Spec

\* No ledger ever holds the body of a file event that adjudicate_event refused
\* or failed to evaluate.
COROLLARY RefusedBodyNotStoredHolds == Spec => []RefusedBodyNotStored
<1>1. LedgerSafety => RefusedBodyNotStored
  BY DEF LedgerSafety
<1>2. QED
  BY <1>1, LedgersSafe, PTL

\* The Turso ledger is never ahead of the JSONL ledger, whatever append fails
\* or handler is dropped in adjudicate_event.
COROLLARY LedgersAgreeHolds == Spec => []LedgersAgree
<1>1. LedgerSafety => LedgersAgree
  BY DEF LedgerSafety
<1>2. QED
  BY <1>1, LedgersSafe, PTL

\* adjudicate_event returns no decision that the Turso ledger does not hold.
COROLLARY AnsweredIsRecordedHolds == Spec => []AnsweredIsRecorded
<1>1. LedgerSafety => AnsweredIsRecorded
  BY DEF LedgerSafety
<1>2. QED
  BY <1>1, LedgersSafe, PTL

-----------------------------------------------------------------------------
(***************************************************************************)
(* Action properties of the Trajectory rows.                               *)
(***************************************************************************)

\* The label of a stored Trajectory row falls only by the Started branch of
\* adjudicate_event, never by a write-back of update_entity.
THEOREM LabelFallsOnlyOnStartedHolds == Spec => LabelFallsOnlyOnStarted
<1> DEFINE StartedOf(t) == \E e \in Events : /\ kind[e] = "Started"
                                             /\ traj[e] = t
                                             /\ pc[e] = "reset"
                                             /\ pc'[e] = "done"
           Kept == \A t \in Trajs :
                      entity'[t].label < entity[t].label
                      => \E e \in Events : /\ kind[e] = "Started" /\ traj[e] = t
                                           /\ pc[e] = "reset" /\ pc'[e] = "done"
<1>1. TypeOK /\ TrajectoryInv /\ LedgerSafety /\ [Next]_vars => [Kept]_vars
  <2> SUFFICES ASSUME TypeOK, TrajectoryInv, LedgerSafety, Next,
                      NEW t \in Trajs, entity'[t].label < entity[t].label
               PROVE  StartedOf(t)
    BY DEF vars
  <2>1. entity' # entity
    BY RowTypes
  <2>2. PICK e \in Events : CountWrite(e) \/ MarkWrite(e) \/ ResetTrajectory(e)
    BY <2>1
       DEF Next, Step, Submit, EnsureAgentEntity, CountRead, Classify,
           PutEntity, MarkKeep, MarkRead, PutResult, Authorize, EvaluateFails,
           PersistJsonl, PersistTurso, RereadTrajectory, PersistVerdictJsonl,
           PersistVerdictTurso, PersistFails, Drop, reqVars, storeVars,
           ledgerVars, ghostVars
  <2>3. CASE CountWrite(e)
    <3>1. copy[e].label >= entity[traj[e]].label
      BY <2>3 DEF CountWrite, TrajectoryInv, CopyInv, LockedPoints
    <3>2. entity'[t].label = IF t = traj[e] THEN copy[e].label
                             ELSE entity[t].label
      BY <2>3 DEF CountWrite, TypeOK
    <3>3. QED
      BY <3>1, <3>2, RowTypes
  <2>4. CASE MarkWrite(e)
    <3>1. /\ copy[e].label >= entity[traj[e]].label
          /\ label[e] > copy[e].label
      BY <2>4 DEF MarkWrite, TrajectoryInv, CopyInv, LockedPoints
    <3>2. entity'[t].label = IF t = traj[e] THEN label[e] ELSE entity[t].label
      BY <2>4 DEF MarkWrite, TypeOK
    <3>3. QED
      BY <3>1, <3>2, RowTypes
  <2>5. CASE ResetTrajectory(e)
    <3>1. t = traj[e]
      BY <2>5, RowTypes DEF ResetTrajectory, TypeOK
    <3>2. pc[e] = "reset" /\ pc'[e] = "done"
      BY <2>5 DEF ResetTrajectory, Answer, Goto, TypeOK
    <3>3. kind[e] = "Started"
      BY <3>2 DEF LedgerSafety, LedgerInv, LedgerPoint
    <3>4. QED
      BY <3>1, <3>2, <3>3
  <2>6. QED
    BY <2>2, <2>3, <2>4, <2>5
<1>2. QED
  BY <1>1, TypeCorrect, TrajectoriesSafe, LedgersSafe, PTL
     DEF Spec, LabelFallsOnlyOnStarted

\* is_authorized allows no outbound action of a run that highly confidential
\* content has been marked on, however the handlers of the run interleave.
THEOREM EgressSeesHighWaterMarkHolds == Spec => EgressSeesHighWaterMark
<1> DEFINE Seen == \A e \in Events :
                      /\ kind[e] \in EgressKinds
                      /\ outcome[e] = "none" /\ outcome'[e] = "Allow"
                      => marked[traj[e]] < HighlyConfidential
<1>1. TypeOK /\ TrajectoryInv /\ [Next]_vars => [Seen]_vars
  <2> SUFFICES ASSUME TypeOK, TrajectoryInv, Next, NEW e \in Events,
                      kind[e] \in EgressKinds, outcome[e] = "none",
                      outcome'[e] = "Allow"
               PROVE  marked[traj[e]] < HighlyConfidential
    BY DEF vars
  <2>1. PICK d \in Events : EnsureAgentEntity(d) \/ CountWrite(d)
                            \/ Authorize(d) \/ EvaluateFails(d)
    BY DEF Next, Step, Submit, CountRead, Classify, PutEntity, MarkKeep,
           MarkRead, MarkWrite, PutResult, PersistJsonl, PersistTurso,
           ResetTrajectory, RereadTrajectory, PersistVerdictJsonl,
           PersistVerdictTurso, PersistFails, Drop
  <2>2. d = e /\ Authorize(e)
    <3>1. CASE EnsureAgentEntity(d)
      BY <3>1 DEF EnsureAgentEntity, ControlKinds, EgressKinds, TypeOK
    <3>2. CASE CountWrite(d) \/ EvaluateFails(d)
      BY <3>2 DEF CountWrite, EvaluateFails, TypeOK
    <3>3. CASE Authorize(d)
      BY <3>3 DEF Authorize, TypeOK
    <3>4. QED
      BY <2>1, <3>1, <3>2, <3>3
  <2>3. ~LabelRuleFires(e)
    <3>1. PICK r \in CedarResponses(e) :
             outcome' = [outcome EXCEPT ![e] = AdjudicatedFromResponse(r)]
      BY <2>2 DEF Authorize
    <3>2. AdjudicatedFromResponse(r) = "Allow"
      BY <3>1 DEF TypeOK
    <3>3. ~r.errors /\ r.forbids = {}
      BY <3>2 DEF AdjudicatedFromResponse
    <3>4. QED
      BY <3>3 DEF CedarResponses
  <2>4. entity[traj[e]].label # HighlyConfidential
    BY <2>3 DEF LabelRuleFires, ShellEgressForbidden, WebFetchForbidden,
                EgressKinds
  <2>5. entity[traj[e]].label \in Levels /\ marked[traj[e]] \in Levels
    <3>1. entity[traj[e]] \in Trajectory /\ marked[traj[e]] \in Levels
      BY DEF TypeOK
    <3>2. QED
      BY <3>1 DEF Trajectory
  <2>6. entity[traj[e]].label >= marked[traj[e]]
    BY RowTypes DEF TrajectoryInv, HighWaterMark
  <2>7. QED
    BY <2>4, <2>5, <2>6 DEF Levels, Public, HighlyConfidential
<1>2. QED
  BY <1>1, TypeCorrect, TrajectoriesSafe, PTL
     DEF Spec, EgressSeesHighWaterMark

-----------------------------------------------------------------------------
(***************************************************************************)
(* Refinement: while no Started event replaces a row under a running       *)
(* adjudication, build_request's two update_entity calls behave as the     *)
(* atomic Count and Raise of AtomicTrajectories.                           *)
(***************************************************************************)

\* No Started event is in the system, so a row read is still the row stored
\* when it is written back.
ExactInv ==
    \A e \in Events :
        /\ kind[e] # "Started"
        /\ pc[e] \in LockedPoints => copy[e] = entity[traj[e]]

LEMMA CopiesExact == ASSUME "Started" \notin Kinds PROVE Spec => []ExactInv
<1>1. Init => ExactInv
  BY DEF Init, ExactInv, LockedPoints
<1>2. TypeOK /\ TrajectoryInv /\ LedgerSafety /\ ExactInv /\ [Next]_vars
      => ExactInv'
  <2> SUFFICES ASSUME TypeOK, TrajectoryInv, LedgerSafety, ExactInv,
                      [Next]_vars, NEW d \in Events
               PROVE  /\ kind'[d] # "Started"
                      /\ pc'[d] \in LockedPoints => copy'[d] = entity'[traj'[d]]
    BY DEF ExactInv, LockedPoints
  <2> USE DEF reqVars, storeVars, ledgerVars, ghostVars, LockedPoints, Goto
  <2>1. ASSUME NEW e \in Events, Submit(e) PROVE kind'[d] # "Started"
    BY <2>1, KindsAssumption DEF Submit, TypeOK, ExactInv
  <2>2. ASSUME NEW e \in Events, Submit(e), pc'[d] \in LockedPoints
        PROVE  copy'[d] = entity'[traj'[d]]
    BY <2>2 DEF Submit, TypeOK, ExactInv
  <2>3. ASSUME NEW e \in Events, CountRead(e) \/ MarkRead(e)
        PROVE  kind'[d] # "Started" /\ UNCHANGED <<entity, traj>>
    BY <2>3 DEF CountRead, MarkRead, ExactInv
  <2>4. ASSUME NEW e \in Events, CountRead(e) \/ MarkRead(e),
               pc'[d] \in LockedPoints
        PROVE  copy'[d] = entity[traj[d]]
    <3>1. pc[d] \notin LockedPoints
      BY <2>4, SetsAssumption DEF CountRead, MarkRead, LockFree, TrajectoryInv,
                                  LockInv
    <3>2. d = e
      BY <2>4, <3>1 DEF CountRead, MarkRead, TypeOK
    <3>3. QED
      BY <2>4, <3>2 DEF CountRead, MarkRead, TypeOK
  <2>5. ASSUME NEW e \in Events, CountWrite(e) \/ MarkWrite(e)
        PROVE  kind'[d] # "Started" /\ pc'[d] \notin LockedPoints
    <3>1. pc'[e] \notin LockedPoints /\ pc[e] \in LockedPoints
      BY <2>5 DEF CountWrite, MarkWrite, AfterMark, TypeOK
    <3>2. d # e => pc'[d] = pc[d] /\ pc[d] \notin LockedPoints
      BY <2>5, <3>1 DEF CountWrite, MarkWrite, TypeOK, TrajectoryInv, LockInv
    <3>3. QED
      BY <2>5, <3>1, <3>2 DEF CountWrite, MarkWrite, ExactInv
  <2>6. ASSUME NEW e \in Events PROVE ~ResetTrajectory(e)
    BY DEF ResetTrajectory, ExactInv, LedgerSafety, LedgerInv, LedgerPoint
  <2>7. ASSUME NEW e \in Events, EvaluateFails(e) \/ Drop(e)
        PROVE  /\ kind'[d] # "Started"
               /\ pc'[d] \in LockedPoints => copy'[d] = entity'[traj'[d]]
    <3>1. /\ UNCHANGED <<kind, entity, traj>>
          /\ pc'[d] \in LockedPoints =>
                pc[d] \in LockedPoints /\ copy'[d] = copy[d]
      BY <2>7 DEF EvaluateFails, Drop, Forget, TypeOK
    <3>2. QED
      BY <3>1 DEF ExactInv
  <2>8. ASSUME NEW e \in Events,
               \/ EnsureAgentEntity(e) \/ Classify(e) \/ PutEntity(e)
               \/ MarkKeep(e) \/ PutResult(e) \/ Authorize(e)
               \/ PersistJsonl(e) \/ PersistTurso(e) \/ RereadTrajectory(e)
               \/ PersistVerdictJsonl(e) \/ PersistVerdictTurso(e)
               \/ PersistFails(e)
        PROVE  /\ kind'[d] # "Started"
               /\ pc'[d] \in LockedPoints => copy'[d] = entity'[traj'[d]]
    <3>1. UNCHANGED <<kind, entity, traj, copy>>
      BY <2>8
         DEF EnsureAgentEntity, Classify, PutEntity, MarkKeep, PutResult,
             Authorize, PersistJsonl, PersistTurso, RereadTrajectory,
             PersistVerdictJsonl, PersistVerdictTurso, PersistFails
    <3>2. \E point \in Points \ LockedPoints : pc' = [pc EXCEPT ![e] = point]
      BY <2>8
         DEF EnsureAgentEntity, Classify, AfterClassify, PutEntity, MarkKeep,
             AfterMark, PutResult, Authorize, PersistJsonl, PersistTurso,
             RereadTrajectory, PersistVerdictJsonl, PersistVerdictTurso,
             PersistFails, Answer, Points, InFlight, EvaluatePoints,
             PersistPoints
    <3>3. pc'[d] \in LockedPoints => pc[d] \in LockedPoints
      BY <3>2 DEF TypeOK
    <3>4. QED
      BY <3>1, <3>3 DEF ExactInv
  <2>9. CASE UNCHANGED vars
    BY <2>9 DEF vars, ExactInv
  <2>10. QED
    BY <2>1, <2>2, <2>3, <2>4, <2>5, <2>6, <2>7, <2>8, <2>9 DEF Next, Step
<1>3. QED
  BY <1>1, <1>2, TypeCorrect, TrajectoriesSafe, LedgersSafe, PTL DEF Spec

\* The engine's counting and raising implement the atomic specification.
THEOREM AtomicUpdatesHold == ASSUME "Started" \notin Kinds
                             PROVE  Spec => AtomicUpdates
<1>1. Init => Atomic!Init
  BY DEF Init, Atomic!Init, FreshTrajectory, Public
<1>2. TypeOK /\ TrajectoryInv /\ LedgerSafety /\ ExactInv /\ [Next]_vars
      => [Atomic!Next]_entity
  <2> SUFFICES ASSUME TypeOK, TrajectoryInv, LedgerSafety, ExactInv, Next,
                      entity' # entity
               PROVE  Atomic!Next
    BY DEF vars, storeVars
  <2>1. PICK e \in Events : CountWrite(e) \/ MarkWrite(e) \/ ResetTrajectory(e)
    BY DEF Next, Step, Submit, EnsureAgentEntity, CountRead, Classify,
           PutEntity, MarkKeep, MarkRead, PutResult, Authorize, EvaluateFails,
           PersistJsonl, PersistTurso, RereadTrajectory, PersistVerdictJsonl,
           PersistVerdictTurso, PersistFails, Drop, reqVars, storeVars,
           ledgerVars, ghostVars
  <2>2. traj[e] \in Trajs /\ label[e] \in Levels
        /\ entity[traj[e]] \in [steps : Nat, label : Levels]
    BY DEF TypeOK, Trajectory
  <2>3. CASE CountWrite(e)
    <3>1. entity' = [entity EXCEPT ![traj[e]] =
                        [steps |-> entity[traj[e]].steps + 1,
                         label |-> entity[traj[e]].label]]
      BY <2>3 DEF CountWrite, ExactInv, LockedPoints
    <3>2. Atomic!Count(traj[e])
      BY <2>2, <3>1 DEF Atomic!Count
    <3>3. QED
      BY <2>2, <3>2 DEF Atomic!Next
  <2>4. CASE MarkWrite(e)
    <3>1. entity' = [entity EXCEPT ![traj[e]] =
                        [steps |-> entity[traj[e]].steps, label |-> label[e]]]
      BY <2>4 DEF MarkWrite, ExactInv, LockedPoints
    <3>2. label[e] > entity[traj[e]].label
      BY <2>4 DEF MarkWrite, ExactInv, LockedPoints, TrajectoryInv, CopyInv
    <3>3. Atomic!Raise(traj[e], label[e])
      BY <2>2, <3>1, <3>2 DEF Atomic!Raise
    <3>4. QED
      BY <2>2, <3>3 DEF Atomic!Next
  <2>5. ~ResetTrajectory(e)
    BY DEF ResetTrajectory, ExactInv, LedgerSafety, LedgerInv, LedgerPoint
  <2>6. QED
    BY <2>1, <2>3, <2>4, <2>5
<1>3. QED
  BY <1>1, <1>2, TypeCorrect, TrajectoriesSafe, LedgersSafe, CopiesExact, PTL
     DEF Spec, AtomicUpdates, Atomic!Spec
=============================================================================
