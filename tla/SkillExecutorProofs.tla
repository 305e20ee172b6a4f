------------------------ MODULE SkillExecutorProofs ------------------------
(***************************************************************************)
(* What is proved of SkillExecutor for every registry, backend, task, set  *)
(* of flags and budget.                                                    *)
(***************************************************************************)
EXTENDS ExecutorProperties, GroundingProofs, TLAPS

(***************************************************************************)
(* Types.                                                                  *)
(***************************************************************************)
\* Every variable of the executor keeps its type.
THEOREM TypeCorrect == Spec => []TypeOK
<1>1. Init => TypeOK
  <2> SUFFICES ASSUME Init PROVE TypeOK
    OBVIOUS
  <2>1. opts \in [OptionNames -> BOOLEAN]
    BY OptionsAssumption DEF Init
  <2>2. /\ pc \in ControlPoints /\ decision \in Decisions
        /\ receipt \in BOOLEAN /\ success \in BOOLEAN
        /\ commanded \in BOOLEAN /\ acted \in BOOLEAN
    BY DEF Init, ControlPoints, Decisions
  <2>3. /\ index \in Nat \ {0} /\ attempt \in Nat \ {0} /\ stops \in Nat
        /\ observations \in Nat /\ repairs \in Nat /\ replans \in Nat
    BY DEF Init
  <2> QED
    BY <2>1, <2>2, <2>3 DEF Init, TypeOK
<1>2. TypeOK /\ [Next]_vars => TypeOK'
  <2> SUFFICES ASSUME TypeOK, [Next]_vars PROVE TypeOK'
    OBVIOUS
  <2> USE DEF TypeOK, ControlPoints, Decisions, budget, verdict, history, flow,
              Judge, Keep, GiveUp, AtStep, AtEnd, Adopt
  <2>1. CASE Start
    BY <2>1 DEF Start
  <2>2. CASE PreflightObserve
    <3>1. observations' \in Nat
      BY <2>2 DEF PreflightObserve
    <3>2. pc' \in ControlPoints /\ decision' \in Decisions
      BY <2>2 DEF PreflightObserve
    <3> QED
      BY <2>2, <3>1, <3>2 DEF PreflightObserve
  <2>3. CASE PreflightPass
    BY <2>3 DEF PreflightPass
  <2>4. CASE PreflightRepair
    BY <2>4 DEF PreflightRepair
  <2>5. CASE PreflightStop
    BY <2>5 DEF PreflightStop
  <2>6. CASE InvalidStep
    BY <2>6 DEF InvalidStep
  <2>7. CASE AdmitStep
    <3>1. attempt' \in Nat \ {0}
      BY <2>7 DEF AdmitStep
    <3>2. pc' \in ControlPoints /\ decision' \in Decisions
      BY <2>7 DEF AdmitStep
    <3> QED
      BY <2>7, <3>1, <3>2 DEF AdmitStep
  <2>8. CASE RefuseStep
    BY <2>8 DEF RefuseStep
  <2>9. CASE RuntimeObserve
    BY <2>9 DEF RuntimeObserve
  <2>10. CASE RuntimeRepair
    BY <2>10 DEF RuntimeRepair
  <2>11. CASE RuntimeStop
    BY <2>11 DEF RuntimeStop
  <2>12. CASE Dispatch
    BY <2>12 DEF Dispatch
  <2>13. CASE StepAchieved
    BY <2>13 DEF StepAchieved
  <2>14. CASE StepNotAchieved
    BY <2>14 DEF StepNotAchieved, AfterFailure
  <2>15. CASE Retry
    <3>1. attempt' \in Nat \ {0}
      BY <2>15 DEF Retry, NextAttempt
    <3>2. pc' \in ControlPoints /\ decision' \in Decisions
      BY <2>15 DEF Retry, AfterRetry
    <3> QED
      BY <2>15, <3>1, <3>2 DEF Retry
  <2>16. CASE ProposeReplan
    BY <2>16 DEF ProposeReplan
  <2>17. CASE AdoptGrounded
    BY <2>17 DEF AdoptGrounded
  <2>18. CASE RejectUngrounded
    BY <2>18 DEF RejectUngrounded
  <2>19. CASE RepairDraft
    BY <2>19 DEF RepairDraft
  <2>20. CASE RecoveryExhausted
    BY <2>20 DEF RecoveryExhausted
  <2>21. CASE Succeed
    BY <2>21 DEF Succeed
  <2>22. CASE GoalMissed
    BY <2>22 DEF GoalMissed
  <2>23. CASE Halt
    BY <2>23 DEF Halt
  <2>24. CASE Drift
    BY <2>24 DEF Drift
  <2>26. CASE Raise
    BY <2>26 DEF Raise
  <2>25. CASE UNCHANGED vars
    BY <2>25 DEF vars
  <2> QED
    BY <2>1, <2>2, <2>3, <2>4, <2>5, <2>6, <2>7, <2>8, <2>9, <2>10, <2>11, <2>12, <2>13,
       <2>14, <2>15, <2>16, <2>17, <2>18, <2>19, <2>20, <2>21, <2>22, <2>23, <2>24, <2>25, <2>26
       DEF Next, Execute, Returned
<1> QED
  BY <1>1, <1>2, PTL DEF Spec

(***************************************************************************)
(* Only AdmitStep and Retry lead to a dispatch, and both judge the step on *)
(* evidence they have just observed.                                       *)
(***************************************************************************)
\* Every command is admitted on fresh evidence by the runtime guard.
THEOREM FreshEvidence == Spec => []AdmittedOnFreshEvidence
<1>1. Init => AdmittedOnFreshEvidence
  BY DEF Init, AdmittedOnFreshEvidence
<1>2. AdmittedOnFreshEvidence /\ [Next]_vars => AdmittedOnFreshEvidence'
  <2> SUFFICES ASSUME AdmittedOnFreshEvidence, [Next]_vars PROVE AdmittedOnFreshEvidence'
    OBVIOUS
  <2> USE DEF AdmittedOnFreshEvidence, Step
  <2>1. CASE AdmitStep
    BY <2>1 DEF AdmitStep, Judge, Keep
  <2>2. CASE Retry
    BY <2>2 DEF Retry, AfterRetry, Judge, Keep
  <2>3. CASE Drift \/ UNCHANGED vars
    BY <2>3 DEF Drift, vars, flow, history
  <2>4. CASE \/ Start \/ PreflightObserve \/ PreflightPass \/ PreflightRepair \/ PreflightStop
             \/ InvalidStep \/ RefuseStep \/ RuntimeObserve \/ RuntimeRepair \/ RuntimeStop
    BY <2>4 DEF Start, PreflightObserve, PreflightPass, PreflightRepair, PreflightStop, GiveUp,
                InvalidStep, RefuseStep, RuntimeObserve, RuntimeRepair, RuntimeStop
  <2>5. CASE \/ Dispatch \/ StepAchieved \/ StepNotAchieved \/ ProposeReplan \/ AdoptGrounded
             \/ RejectUngrounded \/ RepairDraft \/ RecoveryExhausted
             \/ Succeed \/ GoalMissed \/ Halt \/ Raise
    BY <2>5 DEF Dispatch, StepAchieved, StepNotAchieved, AfterFailure, ProposeReplan,
                AdoptGrounded, Adopt, RejectUngrounded, RepairDraft, RecoveryExhausted,
                Succeed, GoalMissed, Halt, Raise
  <2> QED
    BY <2>1, <2>2, <2>3, <2>4, <2>5 DEF Next, Execute, Returned
<1> QED
  BY <1>1, <1>2, PTL DEF Spec

(***************************************************************************)
(* The world.  It changes in the calls of the backend, and by itself.      *)
(***************************************************************************)
LEMMA WorldSteps ==
  ASSUME [Next]_vars
  PROVE  \/ world' = world
         \/ \E fields : world' = BackendAcquire(world, fields)
         \/ pc = "dispatch" /\ \E outcome \in BackendCommand(world, Step) : world' = outcome.world
         \/ world' = BackendStop(world)
         \/ world' \in Drifts(world)
<1>1. CASE PreflightObserve \/ RuntimeObserve
  BY <1>1 DEF PreflightObserve, RuntimeObserve
<1>2. CASE Dispatch
  BY <1>2 DEF Dispatch
<1>3. CASE Halt
  BY <1>3 DEF Halt
<1>4. CASE Drift
  BY <1>4 DEF Drift
<1>5. CASE \/ Start \/ PreflightPass \/ PreflightRepair \/ PreflightStop
           \/ InvalidStep \/ AdmitStep \/ RefuseStep \/ RuntimeRepair \/ RuntimeStop
           \/ StepAchieved \/ StepNotAchieved
  BY <1>5 DEF Start, PreflightPass, PreflightRepair, PreflightStop, GiveUp, InvalidStep,
              AdmitStep, RefuseStep, RuntimeRepair, RuntimeStop, StepAchieved,
              StepNotAchieved, Keep
<1>6. CASE \/ Retry \/ ProposeReplan \/ AdoptGrounded \/ RejectUngrounded \/ RepairDraft
           \/ RecoveryExhausted \/ Succeed \/ GoalMissed \/ Raise \/ UNCHANGED vars
  BY <1>6 DEF Retry, ProposeReplan, AdoptGrounded, Adopt, RejectUngrounded, RepairDraft,
              RecoveryExhausted, Succeed, GoalMissed, Raise, Keep, vars
<1> QED
  BY <1>1, <1>2, <1>3, <1>4, <1>5, <1>6 DEF Next, Execute, Returned

(***************************************************************************)
(* Stops.  Until the method returns it has neither stopped nor succeeded,  *)
(* and before the loop it has sent no command: so the returns that send no *)
(* stop are those of the preflight and the successful one.                 *)
(***************************************************************************)
Stopping ==
    /\ StopTransmitted
    /\ pc # "done" => stops = 0 /\ ~success
    /\ pc \in {"start", "preflight"} => ~acted

\* Only a sensing call raises: no command is due, and nothing has ended.
LEMMA RaisedFrom == Raise => pc \notin {"dispatch", "halt", "done", "raised"}
BY DEF Raise, ObserveDue, AcquireDue, AtStep, AtEnd

\* Stopping is an invariant.
LEMMA StoppingInvariant == Spec => []Stopping
<1>1. Init => Stopping
  BY DEF Init, Stopping, StopTransmitted
<1>2. Stopping /\ [Next]_vars => Stopping'
  <2> SUFFICES ASSUME Stopping, [Next]_vars PROVE Stopping'
    OBVIOUS
  <2> USE DEF Stopping, StopTransmitted, verdict, history
  <2>1. CASE PreflightStop
    BY <2>1 DEF PreflightStop, GiveUp
  <2>2. CASE Halt
    BY <2>2 DEF Halt
  <2>3. CASE Succeed
    BY <2>3 DEF Succeed, AtEnd
  <2>4. CASE Dispatch
    BY <2>4 DEF Dispatch
  <2>5. CASE Drift \/ UNCHANGED vars
    BY <2>5 DEF Drift, vars, flow
  <2>6. CASE Start \/ PreflightObserve \/ PreflightPass \/ PreflightRepair
    BY <2>6 DEF Start, PreflightObserve, PreflightPass, PreflightRepair
  <2>7. CASE InvalidStep \/ AdmitStep \/ RefuseStep
    BY <2>7 DEF InvalidStep, AdmitStep, RefuseStep, AtStep, Keep
  <2>8. CASE RuntimeObserve
    BY <2>8 DEF RuntimeObserve
  <2>9. CASE RuntimeRepair
    BY <2>9 DEF RuntimeRepair
  <2>10. CASE RuntimeStop
    BY <2>10 DEF RuntimeStop, Keep
  <2>11. CASE StepAchieved \/ StepNotAchieved
    BY <2>11 DEF StepAchieved, StepNotAchieved, AfterFailure, Keep
  <2>12. CASE Retry \/ ProposeReplan \/ AdoptGrounded \/ RejectUngrounded
    BY <2>12 DEF Retry, AfterRetry, ProposeReplan, AdoptGrounded, Adopt, RejectUngrounded, Keep
  <2>13. CASE RepairDraft \/ RecoveryExhausted \/ GoalMissed
    BY <2>13 DEF RepairDraft, RecoveryExhausted, GoalMissed, AtEnd, Keep
  <2>14. CASE Raise
    BY <2>14, RaisedFrom DEF Raise
  <2> QED
    BY <2>1, <2>2, <2>3, <2>4, <2>5, <2>6, <2>7, <2>8, <2>9, <2>10, <2>11, <2>12, <2>13, <2>14
       DEF Next, Execute, Returned
<1> QED
  BY <1>1, <1>2, PTL DEF Spec

\* A task that ends without success after a command was sent has stopped the
\* backend, once; a successful one never has.
THEOREM StopIsTransmitted == Spec => []StopTransmitted
<1>1. Stopping => StopTransmitted
  BY DEF Stopping
<1> QED
  BY <1>1, StoppingInvariant, PTL

(***************************************************************************)
(* Progress.                                                               *)
(***************************************************************************)
Progress ==
    /\ TypeOK
    /\ EveryStepAchieved
    /\ pc # "done" => ~success

\* No step is skipped on the way to success.
THEOREM NoStepSkipped == Spec => []EveryStepAchieved
<1> USE DEF Progress, EveryStepAchieved
<1>1. Init /\ TypeOK => Progress
  BY DEF Init
<1>2. Progress /\ TypeOK' /\ [Next]_vars => Progress'
  <2> SUFFICES ASSUME Progress, TypeOK', [Next]_vars PROVE Progress'
    OBVIOUS
  <2> USE DEF verdict, history
  <2>1. CASE StepAchieved
    BY <2>1 DEF StepAchieved, TypeOK
  <2>2. CASE AdoptGrounded
    BY <2>2 DEF AdoptGrounded, Adopt
  <2>3. CASE Succeed
    BY <2>3 DEF Succeed, AtEnd
  <2>4. CASE Drift \/ UNCHANGED vars
    BY <2>4 DEF Drift, vars, flow
  <2>5. CASE Start \/ PreflightObserve \/ PreflightPass \/ PreflightRepair \/ PreflightStop
    BY <2>5 DEF Start, PreflightObserve, PreflightPass, PreflightRepair, PreflightStop, GiveUp
  <2>6. CASE InvalidStep \/ AdmitStep \/ RefuseStep
    BY <2>6 DEF InvalidStep, AdmitStep, RefuseStep, AtStep, Keep
  <2>7. CASE RuntimeObserve
    BY <2>7 DEF RuntimeObserve
  <2>8. CASE RuntimeRepair
    BY <2>8 DEF RuntimeRepair
  <2>9. CASE RuntimeStop
    BY <2>9 DEF RuntimeStop, Keep
  <2>13. CASE Raise
    BY <2>13, RaisedFrom DEF Raise
  <2>10. CASE Dispatch \/ StepNotAchieved
    BY <2>10 DEF Dispatch, StepNotAchieved, AfterFailure, Keep
  <2>11. CASE Retry \/ ProposeReplan \/ RejectUngrounded
    BY <2>11 DEF Retry, AfterRetry, ProposeReplan, RejectUngrounded, Keep
  <2>12. CASE RepairDraft \/ RecoveryExhausted \/ GoalMissed \/ Halt
    BY <2>12 DEF RepairDraft, RecoveryExhausted, GoalMissed, Halt, AtEnd, Keep
  <2> QED
    BY <2>1, <2>2, <2>3, <2>4, <2>5, <2>6, <2>7, <2>8, <2>9, <2>10, <2>11, <2>12, <2>13
       DEF Next, Execute, Returned
<1>3. Progress => EveryStepAchieved
  OBVIOUS
<1> QED
  BY <1>1, <1>2, <1>3, TypeCorrect, PTL DEF Spec

(***************************************************************************)
(* Budgets.  A draft is in the making only while a replan is left.         *)
(***************************************************************************)
Spending ==
    /\ BudgetsRespected
    /\ pc \in {"ground", "repair", "check"} => replans < MaxReplans

\* Spending is an invariant.
LEMMA SpendingInvariant == Spec => []Spending
<1> USE Budgets DEF Spending, BudgetsRespected, RepairBudget
<1>1. Init => Spending
  BY DEF Init
<1>2. TypeOK /\ Spending /\ [Next]_vars => Spending'
  <2> SUFFICES ASSUME TypeOK, Spending, [Next]_vars PROVE Spending'
    OBVIOUS
  <2> USE DEF TypeOK, budget
  <2>1. CASE PreflightObserve
    BY <2>1 DEF PreflightObserve, PreflightFields
  <2>2. CASE RuntimeObserve
    BY <2>2 DEF RuntimeObserve, RuntimeFields
  <2>3. CASE RuntimeRepair
    BY <2>3 DEF RuntimeRepair, RuntimeRepaired
  <2>4. CASE Retry
    BY <2>4 DEF Retry, MayRetry, NextAttempt, AfterRetry, Keep
  <2>5. CASE ProposeReplan
    BY <2>5 DEF ProposeReplan, MayReplan, Keep
  <2>6. CASE AdoptGrounded
    BY <2>6 DEF AdoptGrounded, Adopt
  <2>7. CASE AdmitStep
    BY <2>7 DEF AdmitStep, Keep
  <2>8. CASE Drift \/ UNCHANGED vars
    BY <2>8 DEF Drift, vars, flow
  <2>9. CASE \/ Start \/ PreflightPass \/ PreflightRepair \/ PreflightStop
             \/ InvalidStep \/ RefuseStep \/ RuntimeStop
    BY <2>9 DEF Start, PreflightPass, PreflightRepair, PreflightStop, GiveUp,
                InvalidStep, RefuseStep, RuntimeStop, Keep
  <2>10. CASE \/ Dispatch \/ StepAchieved \/ StepNotAchieved \/ RejectUngrounded \/ RepairDraft
              \/ RecoveryExhausted \/ Succeed \/ GoalMissed \/ Halt \/ Raise
    BY <2>10 DEF Dispatch, StepAchieved, StepNotAchieved, AfterFailure, RejectUngrounded,
                 RepairDraft, RecoveryExhausted, Succeed, GoalMissed, Halt, Raise, Keep
  <2> QED
    BY <2>1, <2>2, <2>3, <2>4, <2>5, <2>6, <2>7, <2>8, <2>9, <2>10 DEF Next, Execute, Returned
<1> QED
  BY <1>1, <1>2, TypeCorrect, PTL DEF Spec

\* No budget is overdrawn.
THEOREM BudgetsAreRespected == Spec => []BudgetsRespected
<1>1. Spending => BudgetsRespected
  BY DEF Spending
<1> QED
  BY <1>1, SpendingInvariant, PTL

(***************************************************************************)
(* Goals.  Whatever their searches find, repairing and replanning only     *)
(* change a plan's steps and revision, and its goals when projected.       *)
(***************************************************************************)
\* q is a plan that is judged by p's goals, unless they are projected.
SameTask(p, q) ==
    /\ IsPlan(q)
    /\ q.projected = p.projected
    /\ ~p.projected => q.goals = p.goals

\* A repaired plan keeps what it is judged by, unless that is a projection.
LEMMA RepairedKeepsTask ==
  ASSUME NEW p, IsPlan(p), NEW mended, Repaired(p, mended) # None
  PROVE  SameTask(p, Repaired(p, mended))
  BY DEF Repaired, SameTask, IsPlan, PlanFields

\* So does the repairer, whatever its search found.
LEMMA RepairKeepsTask ==
  ASSUME NEW p, IsPlan(p), NEW s, NEW found, Repair(p, s, found) # None
  PROVE  SameTask(p, Repair(p, s, found))
<1>1. \E mended : Repair(p, s, found) = Repaired(p, mended)
  BY DEF Repair
<1> QED
  BY <1>1, RepairedKeepsTask

\* A replanned plan keeps what it is judged by.
LEMMA ReplannedKeepsTask ==
  ASSUME NEW p, IsPlan(p), NEW drafted, Replanned(p, drafted) # None
  PROVE  SameTask(p, Replanned(p, drafted))
  BY DEF Replanned, SameTask, IsPlan, PlanFields

\* So does the replanner, whatever it drafted.
LEMMA ReplanKeepsTask ==
  ASSUME NEW p, IsPlan(p), NEW s, Replan(p, s) # None
  PROVE  SameTask(p, Replan(p, s))
<1>1. \E drafted : Replan(p, s) = Replanned(p, drafted)
  BY DEF Replan
<1> QED
  BY <1>1, ReplannedKeepsTask

\* Goals are projected only when there are none.
LEMMA WithGoalStateKeepsTask ==
  ASSUME NEW p, IsPlan(p), NEW s
  PROVE  /\ IsPlan(WithGoalState(p, s))
         /\ p.goals # None => WithGoalState(p, s) = p
<1>1. CASE p.goals # None
  BY <1>1 DEF WithGoalState
<1>2. CASE p.goals = None
  <2>1. \E goals : WithGoalState(p, s) = [p EXCEPT !.goals = goals, !.projected = TRUE]
    BY <1>2 DEF WithGoalState
  <2> QED
    BY <2>1, <1>2 DEF IsPlan, PlanFields
<1> QED
  BY <1>1, <1>2

TaskKept ==
    /\ IsPlan(plan)
    /\ pc \in {"ground", "repair", "check"} => SameTask(plan, draft)

\* The plan and the draft that may replace it stay plans of the same task, and
\* no step changes stated goals.
LEMMA StepKeepsTask ==
  ASSUME TaskKept, [Next]_vars
  PROVE  /\ TaskKept'
         /\ plan.goals # None /\ ~plan.projected => plan'.goals = plan.goals
<1> USE DEF TaskKept
<1>1. CASE Start
  BY <1>1, WithGoalStateKeepsTask DEF Start
<1>2. CASE PreflightRepair
  <2>1. plan' = Repair(plan, before, issues) /\ plan' # None
    BY <1>2 DEF PreflightRepair, PreflightRepaired
  <2>2. SameTask(plan, plan')
    BY <2>1, RepairKeepsTask
  <2> QED
    BY <1>2, <2>2 DEF PreflightRepair, SameTask
<1>3. CASE RuntimeRepair
  BY <1>3 DEF RuntimeRepair, IsPlan, PlanFields
<1>4. CASE ProposeReplan
  <2> DEFINE failed == [plan EXCEPT !.blocked = @ \cup {Step.skill}]
  <2>1. IsPlan(failed) /\ failed.goals = plan.goals /\ failed.projected = plan.projected
    BY DEF IsPlan, PlanFields
  <2>2. draft' # None => SameTask(failed, draft')
    BY <1>4, <2>1, ReplanKeepsTask DEF ProposeReplan
  <2>3. draft' # None => SameTask(plan, draft')
    BY <2>1, <2>2 DEF SameTask
  <2> QED
    BY <1>4, <2>3 DEF ProposeReplan
<1>5. CASE RepairDraft
  <2>1. draft' # None => SameTask(draft, draft')
    BY <1>5, RepairKeepsTask DEF RepairDraft, SameTask
  <2>2. draft' # None => SameTask(plan, draft')
    BY <1>5, <2>1 DEF RepairDraft, SameTask
  <2> QED
    BY <1>5, <2>2 DEF RepairDraft
<1>6. CASE AdoptGrounded
  BY <1>6 DEF AdoptGrounded, Adopt, SameTask
<1>7. CASE RejectUngrounded
  BY <1>7 DEF RejectUngrounded
<1>8. CASE Drift \/ UNCHANGED vars
  BY <1>8 DEF Drift, vars, flow
<1>9. CASE \/ PreflightObserve \/ PreflightPass \/ PreflightStop
             \/ InvalidStep \/ AdmitStep \/ RefuseStep \/ RuntimeObserve \/ RuntimeStop
  BY <1>9 DEF PreflightObserve, PreflightPass, PreflightStop, GiveUp, InvalidStep, AdmitStep,
              RefuseStep, RuntimeObserve, RuntimeStop
<1>10. CASE \/ Dispatch \/ StepAchieved \/ StepNotAchieved \/ Retry \/ RecoveryExhausted
              \/ Succeed \/ GoalMissed \/ Halt \/ Raise
  BY <1>10 DEF Dispatch, StepAchieved, StepNotAchieved, AfterFailure, Retry, AfterRetry,
               RecoveryExhausted, Succeed, GoalMissed, Halt, Raise
<1> QED
  BY <1>1, <1>2, <1>3, <1>4, <1>5, <1>6, <1>7, <1>8, <1>9, <1>10 DEF Next, Execute, Returned

\* Goals the task states are the goals it is judged by to the end.
THEOREM StatedGoalsAreKept == Spec => StatedGoalsKept
<1>1. Init => TaskKept
  BY TasksAssumption DEF Init, TaskKept
<1> QED
  BY <1>1, StepKeepsTask, PTL DEF Spec, StatedGoalsKept

(***************************************************************************)
(* What success means.  The world is as it was when the goals were looked  *)
(* at for the last time.                                                   *)
(***************************************************************************)
\* With verification on, a success report means that every goal fact is known
\* to hold in what the backend shows when execute returns.
SuccessIsObserved ==
    success /\ opts.verify =>
        \A i \in DOMAIN plan.goals : KnownFact(Evidence, plan.goals[i].field, plan.goals[i].value)

Verified ==
    /\ pc # "done" => ~success
    /\ SuccessIsObserved

\* A success report means that every goal fact is observed to hold; what that
\* says of the robot itself is proved over each backend.
LEMMA SuccessIsWarranted == Spec => []SuccessIsObserved
<1>1. Init => Verified
  BY DEF Init, Verified, SuccessIsObserved
<1>2. Verified /\ [Next]_vars => Verified'
  <2> SUFFICES ASSUME Verified, [Next]_vars PROVE Verified'
    OBVIOUS
  <2>1. CASE Succeed
    BY <2>1 DEF Succeed, GoalsMet, GoalMismatches, KnownFact, Evidence, Verified,
                SuccessIsObserved
  <2>2. CASE UNCHANGED vars
    BY <2>2 DEF vars, flow, verdict, Evidence, Verified, SuccessIsObserved
  <2>3. pc # "done" /\ UNCHANGED success => Verified'
    BY DEF Verified, SuccessIsObserved
  <2>4. CASE Start \/ PreflightObserve \/ PreflightPass \/ PreflightRepair \/ PreflightStop
    BY <2>3, <2>4 DEF Start, PreflightObserve, PreflightPass, PreflightRepair, PreflightStop,
                      GiveUp, verdict
  <2>5. CASE \/ InvalidStep \/ AdmitStep \/ RefuseStep
             \/ RuntimeObserve \/ RuntimeRepair \/ RuntimeStop
    BY <2>3, <2>5 DEF InvalidStep, AdmitStep, RefuseStep, RuntimeObserve, RuntimeRepair,
                      RuntimeStop, AtStep, Keep, verdict
  <2>6. CASE Dispatch \/ StepAchieved \/ StepNotAchieved \/ Retry \/ ProposeReplan
    BY <2>3, <2>6 DEF Dispatch, StepAchieved, StepNotAchieved, Retry, ProposeReplan, Keep, verdict
  <2>7. CASE AdoptGrounded \/ RejectUngrounded \/ RepairDraft \/ RecoveryExhausted
    BY <2>3, <2>7 DEF AdoptGrounded, Adopt, RejectUngrounded, RepairDraft, RecoveryExhausted,
                      Keep, verdict
  <2>8. CASE GoalMissed \/ Halt \/ Drift \/ Raise
    BY <2>3, <2>8, RaisedFrom DEF GoalMissed, AtEnd, Halt, Drift, Ended, Raise, Keep, verdict
  <2> QED
    BY <2>1, <2>2, <2>4, <2>5, <2>6, <2>7, <2>8 DEF Next, Execute, Returned
<1>3. Verified => SuccessIsObserved
  BY DEF Verified
<1> QED
  BY <1>1, <1>2, <1>3, PTL DEF Spec

(***************************************************************************)
(* Blocked skills.  The plan and the draft are well formed and hold no     *)
(* skill they block; what the repairer is asked to repair has no invalid   *)
(* step, or the grounder would have reported it and the repairer refused.  *)
(***************************************************************************)
PlanKept(p) == IsPlan(p) /\ WellFormed(p) /\ Unblocked(p)

AllValid(steps) == \A step \in ToSet(steps) : ValidStep(step)

Blocking ==
    /\ PlanKept(plan)
    /\ pc \in {"ground", "repair", "check"} => PlanKept(draft) /\ AllValid(draft.steps)
    /\ pc \in {"preflight", "blocked"} => before \in States
    /\ pc = "preflight" /\ ~RequiresStop(issues) => AllValid(plan.steps)
    /\ pc = "blocked" /\ ~RequiresStop(issues) => AllValid(Suffix.steps)
    /\ pc \in {"blocked", "dispatch", "verify", "recover"} =>
          index \in DOMAIN plan.steps /\ ValidStep(Step)

\* What the backend shows is evidence of the modelled fields.
EvidenceTyped == Evidence \in States

\* A repair that is not refused keeps the plan.
LEMMA RepairKeepsPlan ==
  ASSUME NEW p, PlanKept(p), NEW s \in States, NEW found,
         ~RequiresStop(found) => AllValid(p.steps), Repair(p, s, found) # None
  PROVE  LET fixed == Repair(p, s, found)
         IN  PlanKept(fixed) /\ AllValid(fixed.steps) /\ fixed.blocked = p.blocked
<1>1. ~RequiresStop(found)
  BY DEF Repair
<1>2. Repairable(p, s)
  BY <1>1 DEF Repairable, PlanKept, AllValid
<1> QED
  BY <1>2, RepairSound DEF Repairable, PlanKept, AllValid

\* The grounder's report accounts for every invalid step.
LEMMA GroundedValid ==
  ASSUME NEW p, WellFormed(p), NEW s, NEW caps, ~RequiresStop(Ground(p, s, caps))
  PROVE  AllValid(p.steps)
BY InvalidReported DEF WellFormed, AllValid, IsSequence

\* The suffix of a plan, and a plan whose suffix is replaced.
LEMMA SuffixKept ==
  ASSUME PlanKept(plan), index \in DOMAIN plan.steps
  PROVE  PlanKept(Suffix) /\ Suffix.blocked = plan.blocked
<1> DEFINE steps == SubSeq(plan.steps, index, Len(plan.steps))
<1>1. /\ Suffix.steps = steps /\ Suffix.goals = plan.goals
      /\ Suffix.blocked = plan.blocked /\ IsPlan(Suffix)
  BY DEF Suffix, PlanKept, IsPlan, PlanFields
<1>2. IsSequence(steps) /\ ToSet(steps) \subseteq ToSet(plan.steps)
  <2>1. DOMAIN plan.steps = 1 .. Len(plan.steps) /\ Len(plan.steps) \in Nat
    BY SequenceIsSequence DEF PlanKept, WellFormed
  <2>2. index \in Int /\ Len(plan.steps) \in Int
        /\ \A i \in index .. Len(plan.steps) : plan.steps[i] \in ToSet(plan.steps)
    BY <2>1 DEF ToSet
  <2>3. steps \in Seq(ToSet(plan.steps))
    BY <2>2, SubSeqProperties
  <2> QED
    BY <2>3, SequenceIsSequence
<1> HIDE DEF steps
<1> QED
  BY <1>1, <1>2 DEF PlanKept, WellFormed, Unblocked, IsSequence

LEMMA SuffixReplaced ==
  ASSUME PlanKept(plan), index \in DOMAIN plan.steps,
         NEW fixed, PlanKept(fixed), fixed.blocked = plan.blocked
  PROVE  PlanKept([plan EXCEPT !.steps    = SubSeq(@, 1, index - 1) \o fixed.steps,
                               !.revision = fixed.revision])
<1> DEFINE head == SubSeq(plan.steps, 1, index - 1)
           all  == [plan EXCEPT !.steps = head \o fixed.steps, !.revision = fixed.revision]
<1>1. IsSequence(head) /\ ToSet(head) \subseteq ToSet(plan.steps)
  <2>1. DOMAIN plan.steps = 1 .. Len(plan.steps) /\ Len(plan.steps) \in Nat
    BY SequenceIsSequence DEF PlanKept, WellFormed
  <2>2. 1 \in Int /\ index - 1 \in Int
        /\ \A i \in 1 .. index - 1 : plan.steps[i] \in ToSet(plan.steps)
    BY <2>1 DEF ToSet
  <2>3. head \in Seq(ToSet(plan.steps))
    BY <2>2, SubSeqProperties
  <2> QED
    BY <2>3, SequenceIsSequence
<1> HIDE DEF head
<1>2. IsSequence(head \o fixed.steps)
      /\ ToSet(head \o fixed.steps) \subseteq ToSet(plan.steps) \cup ToSet(fixed.steps)
  BY <1>1, ConcatMembers DEF PlanKept, WellFormed, IsSequence
<1>3. /\ all.steps = head \o fixed.steps /\ all.goals = plan.goals
      /\ all.blocked = plan.blocked /\ IsPlan(all)
  BY DEF PlanKept, IsPlan, PlanFields
<1> HIDE DEF all
<1>4. PlanKept(all)
  BY <1>2, <1>3 DEF PlanKept, WellFormed, Unblocked, IsSequence
<1> QED
  BY <1>4 DEF all, head

\* A replanned draft, for which the failed step's skill is blocked too.
LEMMA DraftKept ==
  ASSUME PlanKept(plan), ValidStep(Step), NEW s,
         Replan([plan EXCEPT !.blocked = @ \cup {Step.skill}], s) # None
  PROVE  LET p == Replan([plan EXCEPT !.blocked = @ \cup {Step.skill}], s)
         IN  PlanKept(p) /\ AllValid(p.steps)
<1> DEFINE failed == [plan EXCEPT !.blocked = @ \cup {Step.skill}]
<1>1. Step.skill \in STRING
  <2>1. \A i \in DOMAIN Contracts : Contracts[i].name \in STRING
    BY RegistryAssumption DEF IsContract, ToSet
  <2> QED
    BY <2>1 DEF ValidStep, SkillNames
<1>2. /\ IsPlan(failed) /\ failed.steps = plan.steps /\ failed.goals = plan.goals
      /\ failed.blocked = plan.blocked \cup {Step.skill}
  BY DEF PlanKept, IsPlan, PlanFields
<1> HIDE DEF failed
<1>3. WellFormed(failed)
  BY <1>1, <1>2 DEF PlanKept, WellFormed
<1> DEFINE p == Replan(failed, s)
<1>4. p # None
  BY DEF failed
<1>5. /\ IsPlan(p) /\ WellFormed(p) /\ p.blocked = failed.blocked
      /\ \A step \in ToSet(p.steps) : Usable(step, failed.blocked)
  BY <1>2, <1>3, <1>4, ReplanSound
<1> HIDE DEF p
<1>6. PlanKept(p) /\ AllValid(p.steps)
  BY <1>5 DEF PlanKept, Unblocked, AllValid, Usable
<1> QED
  BY <1>6 DEF p, failed

\* What is at the head of the loop is a step of the plan.
LEMMA AtStepInPlan ==
  ASSUME Blocking, TypeOK, AtStep PROVE index \in DOMAIN plan.steps
<1>1. DOMAIN plan.steps = 1 .. Len(plan.steps) /\ Len(plan.steps) \in Nat
  BY SequenceIsSequence DEF Blocking, PlanKept, WellFormed
<1> QED
  BY <1>1 DEF AtStep, TypeOK

LEMMA StepKeepsBlocking ==
  ASSUME Blocking, TypeOK, EvidenceTyped, EvidenceTyped', [Next]_vars
  PROVE  Blocking'
<1>1. PlanKept(plan) /\ Evidence \in States
  BY DEF Blocking, EvidenceTyped
<1>2. CASE Start
  <2> DEFINE p == WithGoalState(plan, Evidence)
  <2>1. plan' = p /\ before' = Evidence
    BY <1>2 DEF Start, Judge
  <2>2. PlanKept(p)
    BY <1>1, GoalsProjected DEF PlanKept, Unblocked
  <2>3. \/ pc' = "preflight" /\ issues' = Ground(p, Evidence, Caps)
        \/ pc' = "step"
    BY <1>2 DEF Start
  <2> HIDE DEF p
  <2>4. pc' = "preflight" /\ ~RequiresStop(issues') => AllValid(p.steps)
    BY <2>2, <2>3, GroundedValid DEF PlanKept
  <2> QED
    BY <1>1, <2>1, <2>2, <2>3, <2>4 DEF Blocking
<1>3. CASE PreflightObserve
  <2>1. /\ pc = "preflight" /\ pc' = "preflight" /\ plan' = plan
        /\ before' = BackendObserve(world') /\ issues' = Ground(plan, BackendObserve(world'), Caps)
    BY <1>3 DEF PreflightObserve, Judge
  <2>2. BackendObserve(world') \in States
    BY DEF EvidenceTyped, Evidence
  <2>3. ~RequiresStop(issues') => AllValid(plan.steps)
    BY <1>1, <2>1, GroundedValid DEF PlanKept
  <2> QED
    BY <1>1, <2>1, <2>2, <2>3 DEF Blocking
<1>4. CASE PreflightRepair
  <2>1. /\ pc = "preflight" /\ pc' = "step" /\ plan' # None
        /\ plan' = Repair(plan, before, issues)
    BY <1>4 DEF PreflightRepair, PreflightRepaired
  <2>2. PlanKept(plan')
    <3>1. before \in States /\ (~RequiresStop(issues) => AllValid(plan.steps))
      BY <2>1 DEF Blocking
    <3> QED
      BY <1>1, <2>1, <3>1, RepairKeepsPlan
  <2> QED
    BY <2>1, <2>2 DEF Blocking
<1>5. CASE AdmitStep
  BY <1>1, <1>5, AtStepInPlan DEF AdmitStep, Blocking, Step
<1>6. CASE RefuseStep
  <2>1. /\ index \in DOMAIN plan.steps /\ ValidStep(Step) /\ pc' = "blocked"
        /\ before' = Evidence /\ issues' = Ground(Suffix, Evidence, Caps)
        /\ UNCHANGED <<plan, index>>
    BY <1>6, AtStepInPlan DEF RefuseStep, Judge
  <2>2. ~RequiresStop(issues') => AllValid(Suffix.steps)
    BY <1>1, <2>1, SuffixKept, GroundedValid DEF PlanKept
  <2>3. Suffix' = Suffix /\ Step' = Step
    BY <2>1 DEF Suffix, Step
  <2> QED
    BY <1>1, <2>1, <2>2, <2>3 DEF Blocking
<1>7. CASE RuntimeRepair
  <2>1. PICK fixed \in {RuntimeRepaired} \ {None} :
           plan' = [plan EXCEPT !.steps    = SubSeq(@, 1, index - 1) \o fixed.steps,
                                !.revision = fixed.revision]
    BY <1>7 DEF RuntimeRepair
  <2>2. pc = "blocked" /\ pc' = "step"
    BY <1>7 DEF RuntimeRepair
  <2>3. fixed = Repair(Suffix, before, issues) /\ fixed # None
    BY DEF RuntimeRepaired
  <2>4. /\ index \in DOMAIN plan.steps /\ before \in States
        /\ ~RequiresStop(issues) => AllValid(Suffix.steps)
    BY <2>2 DEF Blocking
  <2>5. PlanKept(fixed) /\ fixed.blocked = plan.blocked
    BY <1>1, <2>3, <2>4, SuffixKept, RepairKeepsPlan
  <2>6. PlanKept(plan')
    BY <1>1, <2>1, <2>4, <2>5, SuffixReplaced
  <2> QED
    BY <2>2, <2>6 DEF Blocking
<1>8. CASE Dispatch
  BY <1>1, <1>8 DEF Dispatch, Blocking, Step
<1>9. CASE StepNotAchieved
  BY <1>1, <1>9 DEF StepNotAchieved, AfterFailure, Blocking, Step
<1>10. CASE Retry
  BY <1>1, <1>10 DEF Retry, AfterRetry, Blocking, Step
<1>11. CASE ProposeReplan
  <2>1. /\ pc = "recover" /\ UNCHANGED plan
        /\ draft' = Replan([plan EXCEPT !.blocked = @ \cup {Step.skill}], Evidence)
        /\ pc' = IF draft' = None THEN "halt" ELSE "ground"
    BY <1>11 DEF ProposeReplan
  <2>2. draft' # None => PlanKept(draft') /\ AllValid(draft'.steps)
    BY <1>1, <2>1, DraftKept DEF Blocking
  <2> QED
    BY <1>1, <2>1, <2>2 DEF Blocking
<1>12. CASE AdoptGrounded
  BY <1>12 DEF AdoptGrounded, Adopt, Blocking
<1>13. CASE RejectUngrounded
  BY <1>1, <1>13 DEF RejectUngrounded, Blocking
<1>14. CASE RepairDraft
  <2>1. /\ pc = "repair" /\ UNCHANGED plan
        /\ draft' = Repair(draft, Evidence, issues)
        /\ pc' = IF draft' = None THEN "halt" ELSE "check"
    BY <1>14 DEF RepairDraft
  <2>2. PlanKept(draft) /\ AllValid(draft.steps)
    BY <2>1 DEF Blocking
  <2>3. draft' # None => PlanKept(draft') /\ AllValid(draft'.steps)
    BY <1>1, <2>1, <2>2, RepairKeepsPlan
  <2> QED
    BY <1>1, <2>1, <2>3 DEF Blocking
<1>15. CASE Drift \/ UNCHANGED vars
  BY <1>15 DEF Drift, vars, flow, Blocking, Suffix, Step
<1>16. CASE PreflightPass \/ PreflightStop \/ InvalidStep \/ RuntimeObserve \/ RuntimeStop
  BY <1>1, <1>16 DEF PreflightPass, PreflightStop, GiveUp, InvalidStep, RuntimeObserve,
                     RuntimeStop, Blocking
<1>17. CASE \/ StepAchieved \/ RecoveryExhausted
            \/ Succeed \/ GoalMissed \/ Halt \/ Raise
  BY <1>1, <1>17 DEF StepAchieved, RecoveryExhausted, Succeed, GoalMissed, Halt, Raise, Blocking
<1> QED
  BY <1>2, <1>3, <1>4, <1>5, <1>6, <1>7, <1>8, <1>9, <1>10, <1>11, <1>12, <1>13, <1>14,
     <1>15, <1>16, <1>17
     DEF Next, Execute, Returned

\* Blocking is an invariant, over any backend whose evidence is typed.
LEMMA BlockingInvariant == Spec /\ []EvidenceTyped => []Blocking
<1>1. Init => Blocking
  BY TasksAssumption DEF Init, Blocking, PlanKept
<1>2. Blocking /\ TypeOK /\ EvidenceTyped /\ EvidenceTyped' /\ [Next]_vars => Blocking'
  BY StepKeepsBlocking
<1> QED
  BY <1>1, <1>2, TypeCorrect, PTL DEF Spec

\* A skill a replan blocked is never commanded again, whatever later repairs
\* insert, of any registry and over any backend whose evidence is typed.
THEOREM BlockedIsNeverCommanded == Spec /\ []EvidenceTyped => []BlockedNeverCommanded
<1>1. Blocking => BlockedNeverCommanded
  BY DEF Blocking, PlanKept, Unblocked, BlockedNeverCommanded, Step, ToSet
<1> QED
  BY <1>1, BlockingInvariant, PTL

(***************************************************************************)
(* Work.  A call that does not REGROUND for ever comes to an end.          *)
(***************************************************************************)
\* The first measure that differs decides.
LEMMA LessWork ==
  ASSUME NEW a1, NEW a2, NEW a3, NEW a4, NEW a5, NEW a6, NEW a7,
         NEW b1, NEW b2, NEW b3, NEW b4, NEW b5, NEW b6, NEW b7,
         \/ a1 < b1
         \/ a1 = b1 /\ a2 < b2
         \/ a1 = b1 /\ a2 = b2 /\ a3 < b3
         \/ a1 = b1 /\ a2 = b2 /\ a3 = b3 /\ a4 < b4
         \/ a1 = b1 /\ a2 = b2 /\ a3 = b3 /\ a4 = b4 /\ a5 < b5
         \/ a1 = b1 /\ a2 = b2 /\ a3 = b3 /\ a4 = b4 /\ a5 = b5 /\ a6 < b6
         \/ a1 = b1 /\ a2 = b2 /\ a3 = b3 /\ a4 = b4 /\ a5 = b5 /\ a6 = b6 /\ a7 < b7
  PROVE  Less(<<a1, a2, a3, a4, a5, a6, a7>>, <<b1, b2, b3, b4, b5, b6, b7>>)
<1> DEFINE a == <<a1, a2, a3, a4, a5, a6, a7>>
           b == <<b1, b2, b3, b4, b5, b6, b7>>
<1>1. /\ a[1] = a1 /\ a[2] = a2 /\ a[3] = a3 /\ a[4] = a4 /\ a[5] = a5 /\ a[6] = a6 /\ a[7] = a7
      /\ b[1] = b1 /\ b[2] = b2 /\ b[3] = b3 /\ b[4] = b4 /\ b[5] = b5 /\ b[6] = b6 /\ b[7] = b7
      /\ DOMAIN a = 1 .. 7
  OBVIOUS
<1> HIDE DEF a, b
<1>2. \E i \in 1 .. 7 : a[i] < b[i] /\ \A j \in 1 .. i - 1 : a[j] = b[j]
  BY <1>1
<1>3. Less(a, b)
  BY <1>1, <1>2 DEF Less
<1> QED
  BY <1>3 DEF a, b

\* The head of the loop is at most one step past the plan, and where the
\* preflight may replace the plan, at its first step.
Position ==
    /\ index <= Len(plan.steps) + 1
    /\ pc \in {"start", "preflight"} => index = 1

\* A plan that is kept has a length.
LEMMA PlanLength == ASSUME NEW p, PlanKept(p) PROVE Len(p.steps) \in Nat
BY SequenceIsSequence DEF PlanKept, WellFormed

LEMMA StepKeepsPosition ==
  ASSUME Position, Blocking, TypeOK, EvidenceTyped, [Next]_vars
  PROVE  Position'
<1>1. Len(plan.steps) \in Nat /\ index \in Nat /\ PlanKept(plan)
  BY PlanLength DEF Blocking, TypeOK
<1>2. CASE Start
  <2>1. plan'.steps = plan.steps /\ index' = index /\ pc = "start"
    BY <1>1, <1>2, GoalsProjected DEF Start, PlanKept, EvidenceTyped
  <2>2. index' = 1 /\ 1 <= Len(plan'.steps) + 1
    BY <1>1, <2>1 DEF Position
  <2> QED
    BY <2>2 DEF Position
<1>3. CASE PreflightRepair
  <2>1. /\ index' = 1 /\ pc' = "step" /\ pc = "preflight" /\ plan' # None
        /\ plan' = Repair(plan, before, issues)
    BY <1>3 DEF PreflightRepair, PreflightRepaired, Position
  <2>2. before \in States /\ (~RequiresStop(issues) => AllValid(plan.steps))
    BY <2>1 DEF Blocking
  <2>3. PlanKept(plan')
    BY <1>1, <2>1, <2>2, RepairKeepsPlan
  <2> QED
    BY <2>1, <2>3, PlanLength DEF Position
<1>4. CASE RuntimeRepair
  <2>1. PICK fixed \in {RuntimeRepaired} \ {None} :
           plan' = [plan EXCEPT !.steps    = SubSeq(@, 1, index - 1) \o fixed.steps,
                                !.revision = fixed.revision]
    BY <1>4 DEF RuntimeRepair
  <2>2. pc = "blocked" /\ pc' = "step" /\ index' = index
    BY <1>4 DEF RuntimeRepair
  <2>3. fixed = Repair(Suffix, before, issues) /\ fixed # None
    BY DEF RuntimeRepaired
  <2>4. /\ index \in DOMAIN plan.steps /\ before \in States
        /\ ~RequiresStop(issues) => AllValid(Suffix.steps)
    BY <2>2 DEF Blocking
  <2>5. PlanKept(fixed)
    BY <1>1, <2>3, <2>4, SuffixKept, RepairKeepsPlan
  <2>6. index \in 1 .. Len(plan.steps) /\ plan.steps \in Seq(ToSet(plan.steps))
    BY <1>1, <2>4, SequenceIsSequence DEF PlanKept, WellFormed
  <2> DEFINE head == SubSeq(plan.steps, 1, index - 1)
  <2>7. IsSequence(head) /\ Len(head) = index - 1
    <3>1. 1 \in Int /\ index - 1 \in Int
          /\ \A i \in 1 .. index - 1 : plan.steps[i] \in ToSet(plan.steps)
      BY <1>1, <2>4, <2>6, SequenceIsSequence DEF ToSet
    <3>2. head \in Seq(ToSet(plan.steps)) /\ Len(head) = index - 1
      BY <1>1, <2>6, <3>1, SubSeqProperties
    <3> QED
      BY <3>2, SequenceIsSequence
  <2> HIDE DEF head
  <2>8. Len(head \o fixed.steps) = index - 1 + Len(fixed.steps) /\ Len(fixed.steps) \in Nat
    BY <2>5, <2>7, ConcatMembers, PlanLength DEF PlanKept, WellFormed, IsSequence
  <2>9. plan'.steps = head \o fixed.steps
    BY <1>1, <2>1 DEF head, PlanKept, IsPlan, PlanFields
  <2> QED
    BY <1>1, <2>2, <2>8, <2>9 DEF Position
<1>5. CASE StepAchieved
  <2>1. index \in DOMAIN plan.steps /\ plan' = plan /\ index' = index + 1 /\ pc' = "step"
    BY <1>5 DEF StepAchieved, Blocking
  <2>2. DOMAIN plan.steps = 1 .. Len(plan.steps)
    BY <1>1, SequenceIsSequence DEF PlanKept, WellFormed
  <2> QED
    BY <1>1, <2>1, <2>2 DEF Position
<1>6. CASE AdoptGrounded
  <2>1. plan' = draft /\ index' = 1 /\ PlanKept(draft)
    BY <1>6 DEF AdoptGrounded, Adopt, Blocking
  <2> QED
    BY <2>1, PlanLength DEF Position
<1>7. CASE Drift \/ UNCHANGED vars
  BY <1>7 DEF Drift, vars, flow, Position
<1>8. CASE \/ PreflightObserve \/ PreflightPass \/ PreflightStop
           \/ InvalidStep \/ AdmitStep \/ RefuseStep \/ RuntimeObserve \/ RuntimeStop
  BY <1>8 DEF PreflightObserve, PreflightPass, PreflightStop, GiveUp, InvalidStep, AdmitStep,
              RefuseStep, RuntimeObserve, RuntimeStop, Position
<1>9. CASE \/ Dispatch \/ StepNotAchieved \/ Retry \/ ProposeReplan \/ RejectUngrounded
           \/ RepairDraft \/ RecoveryExhausted \/ Succeed \/ GoalMissed \/ Halt \/ Raise
  BY <1>9 DEF Dispatch, StepNotAchieved, AfterFailure, Retry, AfterRetry, ProposeReplan, RejectUngrounded, RepairDraft,
              RecoveryExhausted, Succeed, GoalMissed, Halt, Raise, Position
<1> QED
  BY <1>2, <1>3, <1>4, <1>5, <1>6, <1>7, <1>8, <1>9 DEF Next, Execute, Returned

\* All work that is left is counted in naturals.
LEMMA WorkCounted ==
  ASSUME TypeOK, Spending, PlanKept(plan), Position PROVE WorkLeft \in Seq(Nat)
<1>1. Part \in Nat /\ PointsToCome \in Nat
  BY DEF Part, PointsToCome
<1>2. /\ MaxObservations - observations \in Nat /\ MaxReplans - replans \in Nat
      /\ RepairBudget - repairs \in Nat /\ AttemptsToCome \in Nat
  BY Budgets DEF TypeOK, Spending, BudgetsRespected, RepairBudget, AttemptsToCome
<1>3. Len(plan.steps) + 1 - index \in Nat
  BY PlanLength DEF TypeOK, Position
<1> QED
  BY <1>1, <1>2, <1>3 DEF WorkLeft

\* Every step but REGROUND leaves less of it.
LEMMA StepLeavesLess ==
  ASSUME TypeOK, Spending, PlanKept(plan), [Next]_vars
  PROVE  Less(WorkLeft', WorkLeft) \/ Reground \/ Drift \/ UNCHANGED vars
<1> DEFINE ahead == Len(plan.steps) + 1 - index
<1> SUFFICES ASSUME ~Reground, ~Drift, ~UNCHANGED vars
             PROVE  \/ Part' < Part
                    \/ /\ Part' = Part
                       /\ MaxObservations - observations' < MaxObservations - observations
                    \/ /\ Part' = Part /\ observations' = observations
                       /\ MaxReplans - replans' < MaxReplans - replans
                    \/ /\ Part' = Part /\ observations' = observations /\ replans' = replans
                       /\ RepairBudget - repairs' < RepairBudget - repairs
                    \/ /\ Part' = Part /\ UNCHANGED budget
                       /\ ahead' < ahead
                    \/ /\ Part' = Part /\ UNCHANGED budget /\ ahead' = ahead
                       /\ AttemptsToCome' < AttemptsToCome
                    \/ /\ Part' = Part /\ UNCHANGED budget /\ ahead' = ahead
                       /\ AttemptsToCome' = AttemptsToCome
                       /\ PointsToCome' < PointsToCome
  BY LessWork DEF WorkLeft, budget, RepairBudget
<1>1. /\ Len(plan.steps) \in Nat /\ index \in Nat /\ attempt \in Nat \ {0}
      /\ observations \in Nat /\ repairs \in Nat /\ replans \in Nat
      /\ MaxObservations \in Nat /\ MaxReplans \in Nat /\ MaxRetries \in Nat
      /\ RepairBudget \in Nat /\ attempt <= MaxRetries + 1
  BY PlanLength, Budgets DEF TypeOK, RepairBudget, Spending, BudgetsRespected
<1> DEFINE InLoop(p) == p \in ControlPoints \ {"start", "preflight", "done", "raised"}
           AtHead(p) == p \in {"step", "blocked"}
<1>2. /\ pc = "start" => Part = 3
      /\ pc = "preflight" => Part = 2
      /\ InLoop(pc) => Part = 1
      /\ pc' = "preflight" => Part' = 2
      /\ InLoop(pc') => Part' = 1
      /\ pc' \in {"done", "raised"} => Part' = 0
  BY DEF Part, Ended, ControlPoints
<1>3. /\ AtHead(pc) => AttemptsToCome = MaxRetries + 2
      /\ AtHead(pc') => AttemptsToCome' = MaxRetries + 2
      /\ ~AtHead(pc) => AttemptsToCome = MaxRetries + 2 - attempt
      /\ ~AtHead(pc') => AttemptsToCome' = MaxRetries + 2 - attempt'
  BY <1>1 DEF AttemptsToCome
<1>4. CASE Start \/ PreflightPass \/ PreflightRepair \/ PreflightStop \/ Succeed \/ Halt \/ Raise
  <2>1. \/ pc = "start" /\ pc' \in {"preflight", "step"}
        \/ pc = "preflight" /\ pc' \in {"step", "done", "raised"}
        \/ pc \in {"start", "preflight"} /\ pc' = "raised"
        \/ InLoop(pc) /\ pc' \in {"done", "raised"}
    BY <1>4, RaisedFrom DEF Start, PreflightPass, PreflightRepair, PreflightStop, GiveUp,
                            Succeed, AtEnd, Halt, Raise, TypeOK, ControlPoints
  <2>2. Part' < Part
    BY <1>2, <2>1 DEF ControlPoints
  <2> QED
    BY <2>2
<1>5. CASE PreflightObserve
  <2>1. pc = "preflight" /\ pc' = "preflight" /\ observations' = observations + 1
    BY <1>5 DEF PreflightObserve
  <2> QED
    BY <1>1, <1>2, <2>1
<1>6. CASE AdoptGrounded
  <2>1. /\ InLoop(pc) /\ InLoop(pc') /\ observations' = observations
        /\ replans' = replans + 1
    BY <1>6 DEF AdoptGrounded, Adopt, ControlPoints
  <2> QED
    BY <1>1, <1>2, <2>1
<1>7. CASE RuntimeObserve \/ RuntimeRepair
  <2>1. /\ InLoop(pc) /\ InLoop(pc') /\ UNCHANGED <<observations, replans>>
        /\ repairs' = repairs + 1
    BY <1>7 DEF RuntimeObserve, RuntimeRepair, ControlPoints
  <2> QED
    BY <1>1, <1>2, <2>1
<1>8. CASE StepAchieved
  <2>1. /\ InLoop(pc) /\ InLoop(pc') /\ UNCHANGED budget
        /\ plan' = plan /\ index' = index + 1
    BY <1>8 DEF StepAchieved, ControlPoints
  <2>2. Len(plan'.steps) = Len(plan.steps)
    BY <2>1
  <2>3. Len(plan.steps) + 1 - (index + 1) < ahead
    <3>1. \A n, i \in Nat : n + 1 - (i + 1) < n + 1 - i
      OBVIOUS
    <3> QED
      BY <1>1, <3>1
  <2>4. ahead' < ahead
    BY <2>1, <2>2, <2>3
  <2> QED
    BY <1>2, <2>1, <2>4 DEF budget
<1>9. ASSUME InLoop(pc), InLoop(pc'), UNCHANGED <<budget, plan, index>>
      PROVE  /\ Part' = Part /\ ahead' = ahead
             /\ UNCHANGED <<observations, repairs, replans>>
  BY <1>2, <1>9 DEF budget
<1>10. CASE InvalidStep \/ AdmitStep \/ RuntimeStop \/ GoalMissed
  <2>1. /\ InLoop(pc) /\ InLoop(pc') /\ UNCHANGED <<budget, plan, index>>
        /\ AtHead(pc) /\ ~AtHead(pc') /\ attempt' \in Nat \ {0}
    BY <1>1, <1>10 DEF InvalidStep, AdmitStep, RuntimeStop, GoalMissed, AtStep, AtEnd, Keep,
                       ControlPoints
  <2>2. AttemptsToCome' < AttemptsToCome
    BY <1>1, <1>3, <2>1
  <2> QED
    BY <1>9, <2>1, <2>2
<1>11. CASE Retry
  <2>1. /\ InLoop(pc) /\ InLoop(pc') /\ UNCHANGED <<budget, plan, index>>
        /\ ~AtHead(pc) /\ ~AtHead(pc') /\ attempt' = attempt + 1
    BY <1>11 DEF Retry, AfterRetry, NextAttempt, Reground, Keep, ControlPoints
  <2>2. AttemptsToCome' < AttemptsToCome
    BY <1>1, <1>3, <2>1
  <2> QED
    BY <1>9, <2>1, <2>2
<1>12. CASE \/ RefuseStep \/ Dispatch \/ StepNotAchieved \/ ProposeReplan
            \/ RejectUngrounded \/ RepairDraft \/ RecoveryExhausted
  <2>1. /\ UNCHANGED <<budget, plan, index, attempt>>
        /\ \/ pc = "step" /\ pc' = "blocked"
           \/ pc = "dispatch" /\ pc' = "verify"
           \/ pc = "verify" /\ pc' \in {"recover", "halt"}
           \/ pc = "recover" /\ pc' \in {"ground", "halt"}
           \/ pc = "ground" /\ pc' \in {"repair", "halt"}
           \/ pc = "repair" /\ pc' \in {"check", "halt"}
           \/ pc = "check" /\ pc' = "halt"
    BY <1>12 DEF RefuseStep, Dispatch, StepNotAchieved, AfterFailure, ProposeReplan,
                 RejectUngrounded, RepairDraft, RecoveryExhausted, AtStep, Keep
  <2>2. InLoop(pc) /\ InLoop(pc') /\ (AtHead(pc) <=> AtHead(pc'))
    BY <2>1 DEF ControlPoints
  <2>3. AttemptsToCome' = AttemptsToCome
    BY <1>3, <2>1, <2>2
  <2>4. PointsToCome' < PointsToCome
    BY <2>1 DEF PointsToCome
  <2> QED
    BY <1>9, <2>1, <2>2, <2>3, <2>4
<1> QED
  BY <1>4, <1>5, <1>6, <1>7, <1>8, <1>10, <1>11, <1>12 DEF Next, Execute, Returned

\* REGROUND is the only way a call can go on for ever: every other step of the
\* executor leaves less work, counted in naturals, of any registry and over any
\* backend whose evidence is typed.
THEOREM OnlyRegroundGoesOn == Spec /\ []EvidenceTyped => WorkRunsOut
<1>1. Init => Position
  <2> SUFFICES ASSUME Init PROVE Position
    OBVIOUS
  <2>1. PlanKept(plan)
    BY TasksAssumption DEF Init, PlanKept
  <2> QED
    BY <2>1, PlanLength DEF Init, Position
<1>2. Position /\ Blocking /\ TypeOK /\ EvidenceTyped /\ [Next]_vars => Position'
  BY StepKeepsPosition
<1>3. TypeOK /\ Spending /\ Blocking /\ Position => WorkLeft \in Seq(Nat)
  BY WorkCounted DEF Blocking
<1>4. TypeOK /\ Spending /\ Blocking /\ [Next]_vars
         => Less(WorkLeft', WorkLeft) \/ Reground \/ Drift \/ UNCHANGED vars
  BY StepLeavesLess DEF Blocking
<1>5. (WorkLeft \in Seq(Nat))' => WorkLeft' \in Seq(Nat)
  OBVIOUS
<1> QED
  BY <1>1, <1>2, <1>3, <1>4, <1>5, TypeCorrect, SpendingInvariant, BlockingInvariant, PTL
     DEF Spec, WorkRunsOut

(***************************************************************************)
(* Refinement.  The phase of the closed loop is read off pc; the other     *)
(* control points are steps of deliberation.                               *)
(***************************************************************************)
\* The initial states map to the closed loop's.
LEMMA InitMaps == Init => Loop!Init
  BY DEF Init, Loop!Init, Phase
\* Every step maps to a step of the closed loop, or to a stutter.
LEMMA StepMaps ==
  ASSUME Stopping, [Next]_vars PROVE [Loop!Next]_(Loop!vars)
<1> USE DEF Stopping, Loop!Next, Loop!vars, Phase
<1>1. CASE PreflightStop
  BY <1>1 DEF PreflightStop, GiveUp, history, Loop!Refuse
<1>2. CASE Succeed
  BY <1>2 DEF Succeed, AtEnd, history, Loop!Complete
<1>3. CASE Halt
  BY <1>3 DEF Halt, Loop!StopAndReturn
<1>4. CASE AdmitStep
  BY <1>4 DEF AdmitStep, AtStep, Keep, verdict, Loop!Admit
<1>5. CASE Retry
  BY <1>5 DEF Retry, AfterRetry, Keep, verdict, Loop!Admit
<1>6. CASE Dispatch
  BY <1>6 DEF Dispatch, verdict, Loop!Send
<1>7. CASE StepAchieved
  BY <1>7 DEF StepAchieved, verdict, Loop!Look
<1>8. CASE StepNotAchieved
  BY <1>8 DEF StepNotAchieved, AfterFailure, Keep, verdict, Loop!Look
<1>9. CASE Drift \/ UNCHANGED vars
  BY <1>9 DEF Drift, vars, flow, history, verdict
<1>10. CASE Start \/ PreflightObserve \/ PreflightPass \/ PreflightRepair
  BY <1>10 DEF Start, PreflightObserve, PreflightPass, PreflightRepair, verdict, history
<1>11. CASE InvalidStep \/ RefuseStep \/ RuntimeStop
  BY <1>11 DEF InvalidStep, RefuseStep, RuntimeStop, AtStep, Keep, verdict
<1>12. CASE RuntimeObserve
  BY <1>12 DEF RuntimeObserve, verdict, history
<1>16. CASE Raise
  BY <1>16, RaisedFrom DEF Raise, verdict, history, Loop!Break
<1>13. CASE RuntimeRepair
  BY <1>13 DEF RuntimeRepair, history
<1>14. CASE ProposeReplan \/ RejectUngrounded \/ RepairDraft
  BY <1>14 DEF ProposeReplan, RejectUngrounded, RepairDraft, Keep, verdict
<1>15. CASE AdoptGrounded \/ RecoveryExhausted \/ GoalMissed
  BY <1>15 DEF AdoptGrounded, Adopt, RecoveryExhausted, GoalMissed, AtEnd, Keep, verdict
<1> QED
  BY <1>1, <1>2, <1>3, <1>4, <1>5, <1>6, <1>7, <1>8, <1>9, <1>10, <1>11, <1>12, <1>13,
     <1>14, <1>15, <1>16
     DEF Next, Execute, Returned

\* The executor implements the closed loop, for every registry and backend.
THEOREM Refinement == Spec => ImplementsClosedLoop
BY InitMaps, StepMaps, StoppingInvariant, PTL DEF Spec, ImplementsClosedLoop, Loop!Spec
============================================================================
