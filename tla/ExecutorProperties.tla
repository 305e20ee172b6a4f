------------------------ MODULE ExecutorProperties ------------------------
(***************************************************************************)
(* What SkillExecutor promises, stated over its own state only, so that it *)
(* can be asked of any registry and any backend.                           *)
(***************************************************************************)
EXTENDS SkillExecutor

\* Every variable but the world and the plan, which belong to the backend
\* and the registry, keeps its type.
TypeOK ==
    /\ opts \in [OptionNames -> BOOLEAN]
    /\ pc \in ControlPoints
    /\ index \in Nat \ {0} /\ attempt \in Nat \ {0}
    /\ observations \in Nat /\ repairs \in Nat /\ replans \in Nat
    /\ receipt \in BOOLEAN /\ decision \in Decisions /\ success \in BOOLEAN
    /\ commanded \in BOOLEAN /\ acted \in BOOLEAN
    /\ stops \in Nat /\ verified \subseteq Nat

(***************************************************************************)
(* Safety.                                                                 *)
(***************************************************************************)
\* A command goes out only on evidence observed after the previous command
\* returned, and on which the runtime guard (when it is on) allows the very
\* step that goes out: through first attempts, retries, repairs and replans.
AdmittedOnFreshEvidence ==
    pc = "dispatch" =>
        /\ ~commanded
        /\ opts.guard => Allowed(Step, before)

\* A task that ends without success after a command was sent has asked the
\* backend to stop, once; a successful one never has.
StopTransmitted ==
    pc = "done" => /\ success => stops = 0
                   /\ ~success /\ acted => stops = 1

\* No repair, replan or REGROUND lets a step be skipped: all steps before the
\* current one were achieved since the plan was adopted, and success is
\* reported past the last step only.
EveryStepAchieved ==
    /\ 1 .. index - 1 \subseteq verified
    /\ success => index > Len(plan.steps)

RepairBudget == IF MaxObservations > 2 THEN MaxObservations ELSE 2

\* The retry, replan and observation budgets are never overdrawn, and what
\* is repaired or observed at run time shares one budget.
BudgetsRespected ==
    /\ attempt <= MaxRetries + 1
    /\ replans <= MaxReplans
    /\ observations <= MaxObservations
    /\ repairs <= RepairBudget

\* A skill blocked by a replan is never commanded again, by the replanned
\* plan or by what later repairs insert into it.
BlockedNeverCommanded == pc = "dispatch" => Step.skill \notin plan.blocked

(***************************************************************************)
(* Action properties.                                                      *)
(***************************************************************************)
\* Goals the task states are the goals it is judged by to the end.
StatedGoalsKept == [][plan.goals # None /\ ~plan.projected => plan'.goals = plan.goals]_vars

\* A replan drops none of the goal facts the task was to reach.
ReplanKeepsGoals == [][replans' > replans => ToSet(plan.goals) \subseteq ToSet(plan'.goals)]_vars

\* The work left to a call, most significant first: the part of the method it
\* is in, the budgets, the steps, the attempts at the step, and the control
\* points of an attempt.
Part ==
    CASE pc = "start"     -> 3
      [] pc = "preflight" -> 2
      [] Ended            -> 0
      [] OTHER            -> 1

AttemptsToCome == MaxRetries + 2 - IF pc \in {"step", "blocked"} THEN 0 ELSE attempt

PointsToCome ==
    CASE pc = "dispatch" -> 7
      [] pc = "verify"   -> 6
      [] pc = "recover"  -> 5
      [] pc = "ground"   -> 4
      [] pc = "repair"   -> 3
      [] pc = "check"    -> 2
      [] pc = "halt"     -> 1
      [] pc = "step"     -> 1
      [] OTHER           -> 0

WorkLeft ==
    <<Part, MaxObservations - observations, MaxReplans - replans, RepairBudget - repairs,
      Len(plan.steps) + 1 - index, AttemptsToCome, PointsToCome>>

Less(a, b) == \E i \in DOMAIN a : a[i] < b[i] /\ \A j \in 1 .. i - 1 : a[j] = b[j]

Reground == pc = "recover" /\ pc' = "step"

\* Every step of the executor leaves less work, in an order without infinite
\* descent, except REGROUND, which gives the step all its attempts back: it is
\* the only way a call can go on for ever, whatever the backend answers and
\* however the world drifts.
WorkRunsOut ==
    [][/\ WorkLeft' \in Seq(Nat)
       /\ Less(WorkLeft', WorkLeft) \/ Reground \/ Drift]_vars

(***************************************************************************)
(* Liveness, under the fairness of the executor's one thread.              *)
(***************************************************************************)
\* Every call returns, or is left by an exception of the backend's sensing.
Returns == <>Ended

(***************************************************************************)
(* The executor implements the closed loop.                                *)
(***************************************************************************)
Phase ==
    CASE pc = "dispatch" -> "admitted"
      [] pc = "verify"   -> "commanded"
      [] pc = "done"     -> "returned"
      [] pc = "raised"   -> "broken"
      [] OTHER           -> "deliberating"

Loop == INSTANCE ClosedLoop WITH phase <- Phase, stopped <- stops > 0

\* Every behaviour of the executor is one of the closed loop.
ImplementsClosedLoop == Loop!Spec

(***************************************************************************)
(* The vocabulary in which the instances describe plans and flags.         *)
(***************************************************************************)
StepOf(n, skill, args) ==
    [id |-> <<"step", n, 0, None>>, skill |-> skill, args |-> args, effect |-> <<>>, group |-> None]

PlanOf(steps, goals) ==
    [steps |-> steps, goals |-> goals, projected |-> FALSE, blocked |-> {}, revision |-> 0]

Reach(f, v) == <<[field |-> f, value |-> v]>>

Defaults == [o \in OptionNames |-> TRUE]
Without(o) == [Defaults EXCEPT ![o] = FALSE]
===========================================================================
