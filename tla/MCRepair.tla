----------------------------- MODULE MCRepair -----------------------------
(***************************************************************************)
(* EmbodiedPlanGrounder and PlanRepairer on their own, over every          *)
(* combination of true, false, unknown and stale facts, with a registry    *)
(* that has alternative achievers, chains, a side effect that undoes       *)
(* another fact, and a cycle.  As in execute's preflight, a plan is        *)
(* grounded, then repaired when it must be.                                *)
(***************************************************************************)
EXTENDS Grounding

VARIABLES
    task,       \* the plan as it was given
    evidence,
    plan,       \* the repaired plan, or None
    stage       \* given, repaired, refused

vars == <<task, evidence, plan, stage>>

MCFields == {"anchored", "braced", "charged", "loaded"}

Needs(f) == [field |-> Plain(f), expected |-> Yes, ages |-> FALSE]

Sets(f, value) ==
    [field |-> Plain(f), operation |-> "assign", value |-> value, argument |-> None, when |-> None]

Skill(name, needs, effects) ==
    [name |-> name, params |-> <<>>, some |-> FALSE, resources |-> {name}, incompatible |-> {},
     sideEffects |-> {}, pre |-> needs, effects |-> effects, policy |-> {"repair"}]

\* "reset" charges but releases the anchor; "dock" and "undock" need each
\* other's effect; "brace" also anchors.
MCRegistry ==
    <<Skill("anchor", <<>>, <<Sets("anchored", Yes)>>),
      Skill("brace",  <<>>, <<Sets("braced", Yes), Sets("anchored", Yes)>>),
      Skill("reset",  <<>>, <<Sets("charged", Yes), Sets("anchored", No)>>),
      Skill("dock",   <<Needs("loaded")>>, <<Sets("charged", Yes)>>),
      Skill("load",   <<Needs("anchored"), Needs("braced"), Needs("charged")>>,
                      <<Sets("loaded", Yes)>>),
      Skill("lash",   <<Needs("anchored"), Needs("charged")>>, <<Sets("loaded", Yes)>>),
      Skill("carry",  <<Needs("loaded")>>, <<Sets("loaded", No)>>),
      Skill("steady", <<Needs("anchored"), Needs("braced")>>, <<Sets("charged", No)>>)>>

Do(n, name, group) ==
    [id |-> <<"step", n, 0, None>>, skill |-> name, args |-> <<>>, effect |-> <<>>, group |-> group]

TaskOf(steps, blocked) ==
    [steps |-> steps, goals |-> None, projected |-> FALSE, blocked |-> blocked, revision |-> 0]

\* A replan leaves no skill it blocks in the plan.
Tasks ==
    {t \in {TaskOf(steps, blocked) :
               steps \in {<<Do(1, "carry", None)>>, <<Do(1, "steady", None)>>,
                          <<Do(1, "steady", None), Do(2, "carry", None)>>,
                          <<Do(1, "lash", "together"), Do(2, "lash", "together")>>},
               blocked \in {{}, {"anchor"}, {"reset"}, {"lash"}}} : Unblocked(t)}

Evidences ==
    {[val |-> v, stale |-> stale, aged |-> {}, conflicts |-> {}, busy |-> {}]
        : v \in [MCFields -> {Yes, No, None}], stale \in {{}, {"anchored"}}}

Init ==
    /\ task \in Tasks
    /\ evidence \in Evidences
    /\ plan = task
    /\ stage = "given"

Repairs ==
    /\ stage = "given"
    /\ \E found \in {Ground(task, evidence, None)} :
          /\ found # {}
          /\ plan' = Repair(task, evidence, found)
    /\ stage' = IF plan' = None THEN "refused" ELSE "repaired"
    /\ UNCHANGED <<task, evidence>>

Next == Repairs

Spec == Init /\ [][Next]_vars

(***************************************************************************)
(* Properties.                                                             *)
(***************************************************************************)
Original == Only(plan.steps, {step \in ToSet(plan.steps) : step.id[1] = "step"})
Inserted == Only(plan.steps, {step \in ToSet(plan.steps) : step.id[1] = "repair"})

\* Search, replay and mending agree with the grounder: a plan the repairer
\* returns raises no issue against the evidence it was repaired for.
RepairGrounds == stage = "repaired" => Ground(plan, evidence, None) = {}

\* A repair prepares the task and does nothing else: the task's steps are all
\* there, in their order and out of their groups; what is inserted is allowed
\* and within the insertion limit.
RepairKeepsTask ==
    stage = "repaired" =>
        /\ Original = [i \in DOMAIN task.steps |-> [task.steps[i] EXCEPT !.group = None]]
        /\ Len(Inserted) <= MaxInsertions
        /\ \A i \in DOMAIN Inserted : Inserted[i].skill \notin task.blocked
===========================================================================
