--------------------------- MODULE RepairProofs ---------------------------
(***************************************************************************)
(* Proofs about MCRepair: what GroundingProofs shows of every registry,    *)
(* applied to the one MCRepair checks, where the steps and the evidence    *)
(* leave nothing for the grounder to report.                               *)
(***************************************************************************)
EXTENDS MCRepair, GroundingProofs, TLAPS

\* The constants of MCRepair's configurations; Python's None is no number.
Configured == Contracts = MCRegistry /\ Fields = MCFields /\ None \notin Int

(***************************************************************************)
(* The registry.                                                           *)
(***************************************************************************)
\* Its skills take no argument and assign constants to fields.
IsSimple(c) ==
    /\ c.params = <<>> /\ c.some = FALSE
    /\ \A e \in ToSet(c.effects) : /\ e.field.by = None /\ e.operation = "assign"
                                   /\ e.value \in {Yes, No} /\ e.argument = None /\ e.when = None

LEMMA RegistrySimple ==
  ASSUME Configured
  PROVE  /\ \A c \in ToSet(Contracts) : IsSimple(c)
         /\ {"carry", "steady", "lash"} \subseteq SkillNames
         /\ {"anchor", "reset", "lash"} \subseteq STRING
<1>1. \A x, y : /\ ToSet(<<>>) = {} /\ ToSet(<<x>>) = {x} /\ ToSet(<<x, y>>) = {x, y}
  BY DEF ToSet
<1>2. ASSUME NEW f, NEW v \in {Yes, No}
      PROVE  LET e == Sets(f, v) IN /\ e.field.by = None /\ e.operation = "assign"
                                    /\ e.value \in {Yes, No} /\ e.argument = None /\ e.when = None
  BY DEF Sets, Plain
<1>3. ASSUME NEW name, NEW needs, NEW f, NEW v \in {Yes, No}
      PROVE  IsSimple(Skill(name, needs, <<Sets(f, v)>>))
  <2>1. /\ Skill(name, needs, <<Sets(f, v)>>).params = <<>>
        /\ Skill(name, needs, <<Sets(f, v)>>).some = FALSE
        /\ Skill(name, needs, <<Sets(f, v)>>).effects = <<Sets(f, v)>>
    BY DEF Skill
  <2> QED
    BY <1>1, <1>2, <2>1 DEF IsSimple
<1>4. ASSUME NEW name, NEW needs, NEW f, NEW g, NEW v \in {Yes, No}, NEW w \in {Yes, No}
      PROVE  IsSimple(Skill(name, needs, <<Sets(f, v), Sets(g, w)>>))
  <2>1. /\ Skill(name, needs, <<Sets(f, v), Sets(g, w)>>).params = <<>>
        /\ Skill(name, needs, <<Sets(f, v), Sets(g, w)>>).some = FALSE
        /\ Skill(name, needs, <<Sets(f, v), Sets(g, w)>>).effects = <<Sets(f, v), Sets(g, w)>>
    BY DEF Skill
  <2> QED
    BY <1>1, <1>2, <2>1 DEF IsSimple
<1>5. DOMAIN Contracts = 1 .. 8
  BY DEF Configured, MCRegistry
<1>6. \A i \in 1 .. 8 : IsSimple(Contracts[i])
  <2>1. /\ IsSimple(Contracts[1]) /\ IsSimple(Contracts[4]) /\ IsSimple(Contracts[5])
        /\ IsSimple(Contracts[6]) /\ IsSimple(Contracts[7]) /\ IsSimple(Contracts[8])
    BY <1>3 DEF Configured, MCRegistry
  <2>2. IsSimple(Contracts[2]) /\ IsSimple(Contracts[3])
    BY <1>4 DEF Configured, MCRegistry
  <2> QED
    BY <2>1, <2>2
<1>7. /\ Contracts[1].name = "anchor" /\ Contracts[3].name = "reset"
      /\ Contracts[6].name = "lash" /\ Contracts[7].name = "carry"
      /\ Contracts[8].name = "steady"
  BY DEF Configured, MCRegistry, Skill
<1>8. \A i \in 1 .. 8 : Contracts[i].name \in STRING
  BY <1>5, RegistryAssumption DEF ToSet, IsContract
<1> QED
  BY <1>5, <1>6, <1>7, <1>8 DEF ToSet, SkillNames

LEMMA RegistryInverting == ASSUME Configured PROVE Inverting
BY RegistrySimple DEF IsSimple, Inverting

(***************************************************************************)
(* The tasks.                                                              *)
(***************************************************************************)
RepairingJob(t, e) == [plan |-> t, s |-> e, exact |-> TRUE]

LEMMA StepPlain ==
  ASSUME Configured, NEW n, NEW name \in {"carry", "steady", "lash"}, NEW group
  PROVE  /\ IsStep(Do(n, name, group)) /\ ValidStep(Do(n, name, group))
         /\ Do(n, name, group).effect = <<>> /\ Do(n, name, group).id = <<"step", n, 0, None>>
<1>1. IsStep(Do(n, name, group))
  BY DEF IsStep, StepFields, Do
<1>2. name \in SkillNames /\ IsSimple(Contract(name))
  BY RegistrySimple, ContractOfSkill
<1>3. ValidStep(Do(n, name, group))
  BY <1>2 DEF ValidStep, ValidArguments, Do, IsSimple
<1> QED
  BY <1>1, <1>3 DEF Do

\* A task is given as one or two valid steps that declare no effect.
LEMMA TaskPlain ==
  ASSUME Configured, NEW t \in Tasks
  PROVE  /\ IsPlan(t) /\ t.goals = None /\ t.blocked \subseteq STRING /\ Unblocked(t)
         /\ IsSequence(t.steps)
         /\ \A step \in ToSet(t.steps) :
               IsStep(step) /\ ValidStep(step) /\ step.effect = <<>> /\ step.id[1] = "step"
         /\ \A i, j \in DOMAIN t.steps : t.steps[i].id = t.steps[j].id => i = j
<1>1. PICK steps, blocked :
         /\ t = TaskOf(steps, blocked) /\ blocked \subseteq STRING
         /\ \/ \E name \in {"carry", "steady", "lash"} : steps = <<Do(1, name, None)>>
            \/ \E a, b \in {"carry", "steady", "lash"}, group \in {None, "together"} :
                  steps = <<Do(1, a, group), Do(2, b, group)>>
  <2>1. PICK steps \in {<<Do(1, "carry", None)>>, <<Do(1, "steady", None)>>,
                        <<Do(1, "steady", None), Do(2, "carry", None)>>,
                        <<Do(1, "lash", "together"), Do(2, "lash", "together")>>},
             blocked \in {{}, {"anchor"}, {"reset"}, {"lash"}} : t = TaskOf(steps, blocked)
    BY DEF Tasks
  <2>2. \/ \E name \in {"carry", "steady", "lash"} : steps = <<Do(1, name, None)>>
        \/ \E a, b \in {"carry", "steady", "lash"}, group \in {None, "together"} :
              steps = <<Do(1, a, group), Do(2, b, group)>>
    BY <2>1
  <2>3. blocked \subseteq STRING
    <3>1. "anchor" \in STRING /\ "reset" \in STRING /\ "lash" \in STRING
      BY RegistrySimple
    <3>2. \A x \in blocked : x \in {"anchor", "reset", "lash"}
      BY <2>1
    <3> QED
      BY <3>1, <3>2
  <2> QED
    BY <2>1, <2>2, <2>3
<1>2. /\ IsPlan(t) /\ t.goals = None /\ t.blocked = blocked /\ t.steps = steps /\ Unblocked(t)
  BY <1>1 DEF Tasks, TaskOf, IsPlan, PlanFields
<1>3. CASE \E name \in {"carry", "steady", "lash"} : steps = <<Do(1, name, None)>>
  <2>1. PICK name \in {"carry", "steady", "lash"} : steps = <<Do(1, name, None)>>
    BY <1>3
  <2> DEFINE a == Do(1, name, None)
  <2>2. IsStep(a) /\ ValidStep(a) /\ a.effect = <<>> /\ a.id = <<"step", 1, 0, None>>
    BY StepPlain
  <2> HIDE DEF a
  <2>3. IsSequence(steps) /\ ToSet(steps) = {a} /\ DOMAIN steps = {1}
    BY <2>1 DEF IsSequence, ToSet, a
  <2>4. a.id[1] = "step"
    BY <2>2
  <2> QED
    BY <1>1, <1>2, <2>2, <2>3, <2>4
<1>4. CASE \E x, y \in {"carry", "steady", "lash"}, group \in {None, "together"} :
              steps = <<Do(1, x, group), Do(2, y, group)>>
  <2>1. PICK x \in {"carry", "steady", "lash"}, y \in {"carry", "steady", "lash"}, group \in {None, "together"} :
                steps = <<Do(1, x, group), Do(2, y, group)>>
    BY <1>4
  <2> DEFINE a == Do(1, x, group)
             b == Do(2, y, group)
  <2>2. /\ IsStep(a) /\ ValidStep(a) /\ a.effect = <<>> /\ a.id = <<"step", 1, 0, None>>
        /\ IsStep(b) /\ ValidStep(b) /\ b.effect = <<>> /\ b.id = <<"step", 2, 0, None>>
    BY StepPlain
  <2>3. steps = <<a, b>>
    BY <2>1
  <2> HIDE DEF a, b
  <2>4. /\ IsSequence(steps) /\ ToSet(steps) = {a, b} /\ DOMAIN steps = {1, 2}
        /\ steps[1] = a /\ steps[2] = b
    BY <2>3 DEF IsSequence, ToSet
  <2>5. a.id # b.id /\ a.id[1] = "step" /\ b.id[1] = "step"
    BY <2>2
  <2> QED
    BY <1>1, <1>2, <2>2, <2>4, <2>5
<1> QED
  BY <1>1, <1>3, <1>4

\* The evidence is of a state in which nothing is busy.
LEMMA EvidenceCalm ==
  ASSUME Configured, NEW e \in Evidences
  PROVE  e \in States /\ e.busy = {}
<1>1. PICK v \in [MCFields -> {Yes, No, None}], stale \in {{}, {"anchored"}} :
         e = [val |-> v, stale |-> stale, aged |-> {}, conflicts |-> {}, busy |-> {}]
  BY DEF Evidences
<1>2. v \in [Fields -> Value]
  <2>1. {Yes, No, None} \subseteq Value
    BY DEF Yes, No, Value
  <2> QED
    BY <2>1 DEF Configured
<1>3. stale \subseteq Fields
  BY DEF Configured, MCFields
<1> QED
  BY <1>1, <1>2, <1>3 DEF States

LEMMA JobPlain ==
  ASSUME Configured, NEW t \in Tasks, NEW e \in Evidences
  PROVE  /\ RepairingJob(t, e).plan = t /\ RepairingJob(t, e).s = e
         /\ IsJob(RepairingJob(t, e)) /\ Fresh(t)
<1> DEFINE job == RepairingJob(t, e)
<1>1. job.plan = t /\ job.s = e /\ job.exact = TRUE
  BY DEF RepairingJob
<1> HIDE DEF job
<1>2. WellFormed(t)
  BY TaskPlain DEF WellFormed, IsSequence
<1>3. IsJob(job)
  BY <1>1, <1>2, TaskPlain, EvidenceCalm, RegistryInverting DEF IsJob
<1>4. Fresh(t)
  <2>1. \A i \in DOMAIN t.steps : t.steps[i].id[1] = "step"
    BY TaskPlain DEF ToSet
  <2> QED
    BY <2>1, TaskPlain DEF Fresh, FromRepair
<1> QED
  BY <1>1, <1>3, <1>4 DEF job

(***************************************************************************)
(* What the grounder may still report of a repaired plan, it never does.   *)
(***************************************************************************)
LEMMA NothingRemains ==
  ASSUME Configured, NEW step, ValidStep(step), NEW u \in States, u.busy = {}, Exact(step, u)
  PROVE  Remaining(step, u) = {}
<1> DEFINE effects == ExpectedEffects(step, u)
<1>1. Violations(step, u) = {}
  <2>1. "emergency_stop" \notin DOMAIN u.val /\ "fault" \notin DOMAIN u.val
    BY DEF States, Configured, MCFields
  <2>2. RawValue(u, "emergency_stop") = None /\ RawValue(u, "fault") = None /\ None # Yes
    BY <2>1 DEF RawValue, Yes, Configured
  <2> QED
    BY <2>2 DEF Violations
<1>2. \A j \in DOMAIN effects : effects[j].value # None
  <2> DEFINE c      == Contract(step.skill)
             chosen == {e \in ToSet(c.effects) : e.when = None \/ e.when \in DOMAIN step.args}
             active == Only(c.effects, chosen)
  <2>1. IsSimple(c) /\ IsContract(c)
    BY ContractOfSkill, RegistrySimple DEF ValidStep
  <2>2. active \in Seq(ToSet(c.effects) \cap chosen)
    BY <2>1, OnlyChosen DEF IsContract, IsSequence
  <2>3. effects = [i \in DOMAIN active |->
                      [field |-> Resolve(active[i].field, step.args),
                       value |-> ExpectedValue(active[i], step.args, u)]]
    BY DEF ExpectedEffects, Active, Predicted
  <2> HIDE DEF active, effects
  <2>4. \A j \in DOMAIN active : active[j] \in ToSet(c.effects)
    BY <2>2, LenProperties
  <2>5. \A e \in ToSet(c.effects) : ExpectedValue(e, step.args, u) \in {Yes, No}
    BY <2>1 DEF IsSimple, ExpectedValue
  <2>6. Yes # None /\ No # None
    BY DEF Yes, No, Configured
  <2> QED
    BY <2>3, <2>4, <2>5, <2>6
<1>3. DeclaredEffectIssues(step, effects) = {}
  BY DEF Exact, DeclaredEffectIssues
<1> HIDE DEF effects
<1>4. Remaining(step, u) = Violations(step, u)
        \cup {Issue("UNPROJECTABLE_EFFECT", step.id, FALSE, None, None)
                : i \in {j \in DOMAIN effects : effects[j].value = None}}
        \cup DeclaredEffectIssues(step, effects)
  BY DEF Remaining, effects
<1> QED
  BY <1>1, <1>2, <1>3, <1>4

(***************************************************************************)
(* The invariant: a repaired plan is the repairer's answer to the task.    *)
(***************************************************************************)
Answered ==
    /\ task \in Tasks /\ evidence \in Evidences
    /\ stage = "repaired" => \E issues : /\ plan = Repair(task, evidence, issues)
                                         /\ plan # None

LEMMA AlwaysAnswered == Spec => []Answered
<1>1. Init => Answered
  BY DEF Init, Answered
<1>2. Answered /\ [Next]_vars => Answered'
  <2> SUFFICES ASSUME Answered, [Next]_vars PROVE Answered'
    OBVIOUS
  <2>1. CASE Repairs
    <3>1. /\ task' = task /\ evidence' = evidence
          /\ \E issues : plan' = Repair(task, evidence, issues)
          /\ stage' = "repaired" => plan' # None
      BY <2>1 DEF Repairs
    <3> QED
      BY <3>1 DEF Answered
  <2>2. CASE UNCHANGED vars
    BY <2>2 DEF vars, Answered
  <2> QED
    BY <2>1, <2>2 DEF Next
<1> QED
  BY <1>1, <1>2, PTL DEF Spec

\* Search, replay and mending agree with the grounder: it reports nothing of a
\* plan the repairer returns, for the evidence it was repaired for.
THEOREM RepairedPlanGrounds ==
  ASSUME Configured
  PROVE  Spec => []RepairGrounds
<1>1. Answered => RepairGrounds
  <2> SUFFICES ASSUME Answered, stage = "repaired" PROVE Ground(plan, evidence, None) = {}
    BY DEF RepairGrounds
  <2> DEFINE job == RepairingJob(task, evidence)
  <2>1. PICK issues : plan = Repair(task, evidence, issues) /\ plan # None
    BY DEF Answered
  <2>2. task \in Tasks /\ evidence \in Evidences
    BY DEF Answered
  <2>3. job.plan = task /\ job.s = evidence /\ job.exact = TRUE /\ IsJob(job) /\ Fresh(task)
    BY <2>2, JobPlain DEF RepairingJob
  <2>4. IsPlan(task)
    BY <2>2, TaskPlain
  <2> HIDE DEF job
  <2>5. Grounds(job, plan) /\ \A step \in ToSet(plan.steps) : ValidStep(step)
    BY <2>1, <2>3, <2>4, RepairFollows, RepairGroundsJob
  <2>6. \A step, u : ~(ValidStep(step) /\ \E issue : Reports(issue, step, u, {}, Allowing(job)))
    <3> SUFFICES ASSUME NEW step, NEW u, ValidStep(step), NEW issue,
                        Reports(issue, step, u, {}, Allowing(job))
                 PROVE  FALSE
      OBVIOUS
    <3>1. u \in States /\ u.busy = {} /\ Exact(step, u) /\ issue \in Remaining(step, u)
      BY <2>3 DEF Reports, Allowing
    <3> QED
      BY <3>1, NothingRemains
  <2>7. evidence.busy = {}
    BY <2>2, EvidenceCalm
  <2> QED
    BY <2>3, <2>5, <2>6, <2>7 DEF Grounds
<1> QED
  BY <1>1, AlwaysAnswered, PTL

\* A repair prepares the task and does nothing else: the task's steps are all
\* there, in their order and out of their groups; what is inserted is allowed
\* and within the insertion limit.
THEOREM RepairedPlanKeepsTask ==
  ASSUME Configured
  PROVE  Spec => []RepairKeepsTask
<1>1. Answered => RepairKeepsTask
  <2> SUFFICES ASSUME Answered, stage = "repaired" PROVE RepairKeepsTask
    BY DEF RepairKeepsTask
  <2> DEFINE job == RepairingJob(task, evidence)
             n   == Len(task.steps)
  <2>1. PICK issues : plan = Repair(task, evidence, issues) /\ plan # None
    BY DEF Answered
  <2>2. task \in Tasks /\ evidence \in Evidences
    BY DEF Answered
  <2>3. job.plan = task /\ job.s = evidence /\ IsJob(job) /\ Fresh(task) /\ IsPlan(task)
    BY <2>2, JobPlain, TaskPlain
  <2> HIDE DEF job
  <2>4. WellFormed(plan) /\ Unblocked(plan) /\ plan.blocked = task.blocked /\ Follows(job, plan)
    BY <2>1, <2>3, RepairFollows
  <2>5. Own(plan.steps) = UngroupedSteps(task.steps, n) /\ Len(Inserts(plan.steps)) <= MaxInsertions
    BY <2>3, <2>4 DEF Follows
  <2>6. IsSequence(plan.steps)
    BY <2>4 DEF WellFormed, IsSequence
  <2>7. DOMAIN task.steps = 1 .. n /\ \A i \in 1 .. n : task.steps[i].id[1] = "step"
    <3>1. IsSequence(task.steps) /\ \A step \in ToSet(task.steps) : step.id[1] = "step"
      BY <2>2, TaskPlain
    <3>2. DOMAIN task.steps = 1 .. n
      BY <3>1, SequenceIsSequence DEF IsSequence
    <3> QED
      BY <3>1, <3>2 DEF ToSet
  <2>8. \A step \in ToSet(plan.steps) : ~FromRepair(step) <=> step.id[1] = "step"
    <3> SUFFICES ASSUME NEW step \in ToSet(plan.steps), ~FromRepair(step)
                 PROVE  step.id[1] = "step"
      BY DEF FromRepair
    <3>1. step \in ToSet(Own(plan.steps))
      BY <2>6, OnlyChosen DEF Own
    <3>2. PICK i \in 1 .. n : step = Ungrouped(task.steps[i])
      BY <2>5, <3>1 DEF UngroupedSteps, ToSet
    <3>3. task.steps[i].id[1] = "step" /\ IsStep(task.steps[i])
      BY <2>2, <2>7, TaskPlain DEF ToSet
    <3> QED
      BY <3>2, <3>3 DEF Ungrouped, IsStep, StepFields
  <2>9. Original = Own(plan.steps)
    BY <2>6, <2>8, OnlyAlike DEF Original, Own
  <2>10. Inserted = Inserts(plan.steps)
    BY DEF Inserted, Inserts, FromRepair
  <2>11. \A i \in DOMAIN Inserted : Inserted[i].skill \notin task.blocked
    <3>1. ToSet(Inserted) \subseteq ToSet(plan.steps)
      BY <2>6, OnlyChosen DEF Inserted
    <3> QED
      BY <2>4, <3>1 DEF Unblocked, ToSet
  <2> QED
    BY <2>5, <2>7, <2>9, <2>10, <2>11 DEF RepairKeepsTask, UngroupedSteps, Ungrouped
<1> QED
  BY <1>1, AlwaysAnswered, PTL
============================================================================
