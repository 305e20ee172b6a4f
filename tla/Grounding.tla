----------------------------- MODULE Grounding -----------------------------
(***************************************************************************)
(* Grounding, repairing and replanning of a task plan: the pure algorithms *)
(* of grounding/*.py, execution/runtime_guard.py, planner/goal_replanner.py*)
(* and the goal helpers of execution/skill_executor.py.                    *)
(*                                                                         *)
(* A TaskPlan is a record                                                  *)
(*   steps     its steps: [id, skill, args, effect, group]                 *)
(*   goals     metadata goal_state, a sequence of [field, value] in the    *)
(*             dictionary's order, or None when it is absent               *)
(*   projected whether goal_state_source is "projected_plan"               *)
(*   blocked   metadata blocked_skills                                     *)
(*   revision  its revision                                                *)
(* Messages, and metadata no code reads back, are left out.                *)
(***************************************************************************)
EXTENDS SkillContracts

CONSTANTS
    Fields,         \* the names of the state's fields and facts
    MaxInsertions,  \* PlanRepairer(max_insertions)
    MaxDepth,       \* PlanRepairer(max_depth)
    MaxExpansions   \* PlanRepairer(max_expansions)

ASSUME SearchBounds == MaxInsertions \in Nat /\ MaxDepth \in Nat /\ MaxExpansions \in Nat

(***************************************************************************)
(* What the contracts are about: every field template yields a field for   *)
(* valid arguments, and every operand is there when it is used.            *)
(***************************************************************************)
Value == Int \cup {None}

Fact == Fields \X Value

Effect == [field : Fields, value : Value]

States == [val : [Fields -> Value], stale : SUBSET Fields, aged : SUBSET Fields,
           conflicts : SUBSET Fields, busy : SUBSET STRING]

IsTemplate(c, t) ==
    /\ \A b \in DOMAIN t.at : t.at[b] \in Fields
    /\ IF t.by = None THEN DOMAIN t.at = {None}
       ELSE /\ t.by \in DOMAIN c.params /\ c.params[t.by].required
            /\ c.params[t.by].domain \subseteq DOMAIN t.at

IsPrecondition(c, p) == IsTemplate(c, p.field) /\ p.expected \in Value /\ p.ages \in BOOLEAN

IsEffect(c, e) ==
    LET operands == IF e.argument = None THEN {e.value} ELSE c.params[e.argument].domain
    IN  /\ IsTemplate(c, e.field)
        /\ e.argument # None => /\ e.argument \in DOMAIN c.params
                                /\ c.params[e.argument].required \/ e.when = e.argument
        /\ operands \subseteq IF e.operation = "assign" THEN Value ELSE Int

IsContract(c) ==
    /\ c.name \in STRING
    /\ c.pre \in Seq(ToSet(c.pre)) /\ \A p \in ToSet(c.pre) : IsPrecondition(c, p)
    /\ c.effects \in Seq(ToSet(c.effects)) /\ \A e \in ToSet(c.effects) : IsEffect(c, e)

\* SkillRegistry.register refuses a second skill of the same name.
ASSUME RegistryAssumption ==
    /\ Contracts \in Seq(ToSet(Contracts))
    /\ \A i, j \in DOMAIN Contracts : Contracts[i].name = Contracts[j].name => i = j
    /\ \A c \in ToSet(Contracts) : IsContract(c)

(***************************************************************************)
(* Plans.                                                                  *)
(***************************************************************************)
StepFields == {"id", "skill", "args", "effect", "group"}

IsStep(step) == step = [field \in StepFields |-> step[field]]

PlanFields == {"steps", "goals", "projected", "blocked", "revision"}

IsPlan(p) == p = [field \in PlanFields |-> p[field]]

\* The parts of a plan are steps, goal facts and skill names.  Whether a step
\* is valid is for the grounder to find out.
WellFormed(p) ==
    /\ p.steps \in Seq(ToSet(p.steps))
    /\ \A step \in ToSet(p.steps) : IsStep(step)
    /\ p.goals = None \/ p.goals \in Seq(Effect)
    /\ p.blocked \subseteq STRING

Unblocked(p) == \A step \in ToSet(p.steps) : step.skill \notin p.blocked

(***************************************************************************)
(* Goal facts.                                                             *)
(***************************************************************************)
\* dict.update with the effects that predict a value: a known key keeps its
\* place, a new one goes last.
UpdateGoals(goals, effects) ==
    FoldLeft(LAMBDA acc, e :
                IF e.value = None THEN acc
                ELSE IF \E i \in DOMAIN acc : acc[i].field = e.field
                     THEN [i \in DOMAIN acc |-> IF acc[i].field = e.field THEN e ELSE acc[i]]
                     ELSE Append(acc, e),
             goals, effects)

\* SkillExecutor._with_goal_state: absent goals are the plan's own effects.  The
\* code skips a step whose effects cannot be computed; here every invalid step
\* is, since a plan with one is stopped at preflight or, ungrounded, at that
\* step: only a replan of an earlier step could draw on what it would add.
WithGoalState(plan, s) ==
    IF plan.goals # None THEN plan
    ELSE LET project(acc, step) ==
                 IF ~ValidStep(step) THEN acc
                 ELSE LET effects == ExpectedEffects(step, acc.s)
                      IN  [goals |-> UpdateGoals(acc.goals, effects), s |-> With(acc.s, effects)]
         IN  [plan EXCEPT !.goals = FoldLeft(project, [goals |-> <<>>, s |-> s], plan.steps).goals,
                          !.projected = TRUE]

\* SkillExecutor._goal_mismatches: the goals not known to hold.
GoalMismatches(plan, s) ==
    {f \in {plan.goals[i].field : i \in DOMAIN plan.goals} :
        \E i \in DOMAIN plan.goals :
            /\ plan.goals[i].field = f
            /\ \/ Knowledge(s, f, FALSE) # "KNOWN"
               \/ RawValue(s, f) # plan.goals[i].value}

(***************************************************************************)
(* ConstraintChecker and RuntimeGuard.                                     *)
(***************************************************************************)
Issue(code, id, repairable, f, knowledge) ==
    [code |-> code, id |-> id, repairable |-> repairable, field |-> f, knowledge |-> knowledge]

\* ConstraintChecker.check_step.
Violations(step, s) ==
    LET when(test, code, repairable) ==
            IF test THEN {Issue(code, step.id, repairable, None, None)} ELSE {}
    IN  when(RawValue(s, "emergency_stop") = Yes, "EMERGENCY_STOP", FALSE)
        \cup when(RawValue(s, "fault") \notin {None, No}, "ROBOT_FAULT", FALSE)
        \cup when(s.busy \cap Contract(step.skill).resources # {}, "RESOURCE_BUSY", TRUE)

\* RuntimeGuard.check(...).allowed.
Allowed(step, s) ==
    /\ \A i \in DOMAIN Preconditions(step) : Satisfied(s, Preconditions(step)[i])
    /\ Violations(step, s) = {}

(***************************************************************************)
(* EmbodiedPlanGrounder.ground.  "caps" is None when the capability        *)
(* preflight is off.                                                       *)
(***************************************************************************)
CapabilityIssues(step, effects, caps) ==
    LET fields   == {effects[i].field : i \in DOMAIN effects}
        semantic == step.skill \in DOMAIN caps.semantics
                    /\ \/ \E n \in DOMAIN step.args \cap DOMAIN caps.semantics[step.skill].domains :
                             step.args[n] \notin caps.semantics[step.skill].domains[n]
                       \/ ~(caps.semantics[step.skill].unavoidable
                               \subseteq fields \cup Contract(step.skill).sideEffects)
    IN  (IF semantic THEN {Issue("BACKEND_SEMANTIC_MISMATCH", step.id, FALSE, None, None)} ELSE {})
        \cup {Issue("BACKEND_EFFECT_UNOBSERVABLE", step.id, FALSE, f, None)
                : f \in fields \ caps.observable}

DeclaredEffectIssues(step, effects) ==
    {Issue("EXPECTED_EFFECT", step.id, FALSE, None, None)
        : d \in {i \in DOMAIN step.effect : \A j \in DOMAIN effects : effects[j] # step.effect[i]}}

StepIssues(step, s, effects, caps) ==
    {Issue("PRECONDITION", step.id, TRUE, p.field, Knowledge(s, p.field, p.ages))
        : p \in ToSet(Failures(s, step))}
    \cup Violations(step, s)
    \cup {Issue("UNPROJECTABLE_EFFECT", step.id, FALSE, None, None)
            : i \in {j \in DOMAIN effects : effects[j].value = None}}
    \cup (IF caps = None THEN {} ELSE CapabilityIssues(step, effects, caps))
    \cup DeclaredEffectIssues(step, effects)

\* Steps grouped as parallel must neither share nor exclude one another's
\* resources, nor want another value of a field than the first that has it.
\* (An invalid step is reported already, and as not repairable.)
ParallelIssues(steps, s) ==
    LET peers(eligible(_)) ==
            {p \in (DOMAIN steps) \X (DOMAIN steps) :
                /\ p[1] < p[2]
                /\ steps[p[1]].group # None /\ steps[p[1]].group = steps[p[2]].group
                /\ eligible(steps[p[1]]) /\ eligible(steps[p[2]])}
        registered(step) == step.skill \in SkillNames
        c(i) == Contract(steps[i].skill)
        shares(i, j) == c(i).resources \cap c(j).resources # {}
        excludes(i, j) == \/ c(j).resources \cap c(i).incompatible # {}
                          \/ c(i).resources \cap c(j).incompatible # {}
        touches(i, f) == \E e \in ToSet(ExpectedEffects(steps[i], s)) : e.field = f
        disagrees(i, j) ==
            \E e \in ToSet(ExpectedEffects(steps[i], s)),
               g \in ToSet(ExpectedEffects(steps[j], s)) :
                /\ e.field = g.field /\ e.value # g.value
                /\ \A p \in peers(ValidStep) : p[2] = i => ~touches(p[1], e.field)
        found(pairs, test(_, _), code, repairable) ==
            {Issue(code, steps[p[2]].id, repairable, None, None)
                : p \in {q \in pairs : test(q[1], q[2])}}
    IN  found(peers(registered), shares, "PARALLEL_RESOURCE_CONFLICT", TRUE)
        \cup found(peers(registered), excludes, "BODY_CONFLICT", TRUE)
        \cup found(peers(ValidStep), disagrees, "PARALLEL_EFFECT_CONFLICT", FALSE)

\* One step against the projected state acc.s.
GroundStep(acc, step, caps) ==
    LET reject(code) == [acc EXCEPT !.issues = @ \cup {Issue(code, step.id, FALSE, None, None)}]
        project(effects) == [s      |-> With(acc.s, effects),
                             issues |-> acc.issues \cup StepIssues(step, acc.s, effects, caps)]
    IN  IF step.skill \notin SkillNames THEN reject("UNKNOWN_SKILL")
        ELSE IF caps # None /\ step.skill \notin caps.supported
             THEN reject("BACKEND_SKILL_UNSUPPORTED")
        ELSE IF ~ValidStep(step) THEN reject("INVALID_ARGUMENTS")
        ELSE project(ExpectedEffects(step, acc.s))

\* The set of issues; the report is valid when there is none.
Ground(plan, s, caps) ==
    LET duplicated == {j \in DOMAIN plan.steps :
                          \E i \in 1 .. j-1 : plan.steps[i].id = plan.steps[j].id}
    IN  FoldLeft(LAMBDA acc, step : GroundStep(acc, step, caps),
                 [s |-> s, issues |-> {}], plan.steps).issues
        \cup ParallelIssues(plan.steps, s)
        \cup {Issue("DUPLICATE_STEP_ID", plan.steps[j].id, FALSE, None, None) : j \in duplicated}

RequiresStop(issues) == \E i \in issues : ~i.repairable

(***************************************************************************)
(* PlanRepairer.                                                           *)
(***************************************************************************)
KnownFact(s, f, target) == Knowledge(s, f, FALSE) = "KNOWN" /\ RawValue(s, f) = target

Answer(found, steps, s, spent) ==
    [found |-> found, steps |-> steps, s |-> s, spent |-> spent]

\* The candidate's own preconditions are taken to hold after its preparation
\* (a mutation of Better).
BetterUnchecked(best, step, q, prefix) ==
    LET reached == With(prefix.s, ExpectedEffects(step, prefix.s))
    IN  IF /\ prefix.found
           /\ KnownFact(reached, q.field, q.target)
           /\ best.found => Len(prefix.steps) + 1 < Len(best.steps)
        THEN Answer(TRUE, Append(prefix.steps, step), reached, prefix.spent)
        ELSE [best EXCEPT !.spent = prefix.spent]

\* The better of best and the candidate step after its preparation "prefix".
Better(best, step, q, prefix) ==
    LET reached == With(prefix.s, ExpectedEffects(step, prefix.s))
    IN  IF /\ prefix.found
           /\ Failures(prefix.s, step) = <<>>
           /\ KnownFact(reached, q.field, q.target)
           /\ best.found => Len(prefix.steps) + 1 < Len(best.steps)
        THEN Answer(TRUE, Append(prefix.steps, step), reached, prefix.spent)
        ELSE [best EXCEPT !.spent = prefix.spent]

Joined(acc, nested) ==
    Answer(nested.found, acc.steps \o nested.steps, nested.s, nested.spent)

(***************************************************************************)
(* PlanRepairer._search: the shortest way to establish q.field = q.target, *)
(* its steps and the state they lead to.  "spent" is the shared expansion  *)
(* counter, carried through the recursion.  Below, "search" answers the    *)
(* requests one level down.                                                *)
(***************************************************************************)
Requests == [field : Fields, target : Value, s : States, path : SUBSET Fact,
             depth : Nat, spent : Nat, excluded : SUBSET STRING]

\* The precondition p of a candidate for q is established after the ones
\* before it.
Establish(search, q, acc, p) ==
    IF ~acc.found THEN acc
    ELSE Joined(acc, search[[q EXCEPT !.field = p.field, !.target = p.expected, !.s = acc.s,
                                      !.path = @ \cup {<<q.field, q.target>>},
                                      !.depth = @ + 1, !.spent = acc.spent]])

\* The candidate step, after what establishes the preconditions that fail.
Try(search, q, best, step) ==
    Better(best, step, q,
           FoldLeft(LAMBDA acc, p : Establish(search, q, acc, p),
                    Answer(TRUE, <<>>, q.s, best.spent), Failures(q.s, step)))

Searched(search, q) ==
    IF KnownFact(q.s, q.field, q.target) THEN Answer(TRUE, <<>>, q.s, q.spent)
    ELSE IF <<q.field, q.target>> \in q.path \/ q.depth > MaxDepth \/ q.spent >= MaxExpansions
         THEN Answer(FALSE, <<>>, q.s, q.spent)
    ELSE FoldLeft(LAMBDA best, step : Try(search, q, best, step),
                  Answer(FALSE, <<>>, q.s, q.spent + 1),
                  Candidates(q.field, q.target, q.s, q.excluded))

Search[q \in Requests] == Searched(Search, q)

\* The search for field f = target from the state a repair has reached.
PathTo(f, target, acc, excluded) ==
    Search[[field |-> f, target |-> target, s |-> acc.s, path |-> {}, depth |-> 1,
            spent |-> acc.spent, excluded |-> excluded]]

\* The inserted steps get the repair's own serial numbers as ids.
Numbered(steps, serial, f) ==
    [i \in DOMAIN steps |-> [steps[i] EXCEPT !.id = <<"repair", serial + i, 0, f>>]]

Project(acc, step, effects) ==
    [acc EXCEPT !.s = With(@, effects), !.goals = UpdateGoals(@, effects),
                !.steps = Append(@, step)]

\* Insert the steps found for one failed precondition of field f; the state
\* they are taken to lead to is the search's own.
Insert(acc, f, result) ==
    IF ~result.found \/ acc.serial + Len(result.steps) > MaxInsertions
    THEN [acc EXCEPT !.ok = FALSE]
    ELSE [FoldLeft(LAMBDA a, step : Project(a, step, ExpectedEffects(step, a.s)),
                   [acc EXCEPT !.serial = @ + Len(result.steps), !.spent = result.spent],
                   Numbered(result.steps, acc.serial, f))
          EXCEPT !.s = result.s]

\* One step of the plan, after its preparation.
Mend(acc, step) ==
    IF ~acc.ok \/ Failures(acc.s, step) # <<>> THEN [acc EXCEPT !.ok = FALSE]
    ELSE Project(acc, [step EXCEPT !.group = None], ExpectedEffects(step, acc.s))

\* The blocked skills may prepare (a mutation of Prepare).
PrepareWithAll(acc, step, excluded) ==
    FoldLeft(LAMBDA a, p :
                IF ~a.ok THEN a
                ELSE Insert(a, p.field, PathTo(p.field, p.expected, a, {})),
             acc, Failures(acc.s, step))

Prepare(acc, step, excluded) ==
    FoldLeft(LAMBDA a, p :
                IF ~a.ok THEN a
                ELSE Insert(a, p.field, PathTo(p.field, p.expected, a, excluded)),
             acc, Failures(acc.s, step))

\* Every repaired plan's goals are its projection (a mutation of Repaired).
RepairedByProjection(plan, mended) ==
    IF ~mended.ok THEN None
    ELSE [plan EXCEPT !.steps = mended.steps, !.goals = mended.goals, !.revision = @ + 1]

Repaired(plan, mended) ==
    IF ~mended.ok THEN None
    ELSE [plan EXCEPT !.steps    = mended.steps,
                      !.goals    = IF plan.projected THEN mended.goals ELSE @,
                      !.revision = @ + 1]

\* PlanRepairer.repair: the plan with preparation steps inserted and its
\* parallel groups serialized, or None.  Projected goals are recomputed from
\* the repaired plan; stated goals are kept.
Repair(plan, s, issues) ==
    IF RequiresStop(issues) \/ \E i \in DOMAIN plan.steps : plan.steps[i].skill \notin SkillNames
    THEN None
    ELSE Repaired(plan, FoldLeft(LAMBDA acc, step : Mend(Prepare(acc, step, plan.blocked), step),
                                 [ok |-> TRUE, steps |-> <<>>, s |-> s, goals |-> <<>>,
                                  serial |-> 0, spent |-> 0],
                                 plan.steps))

(***************************************************************************)
(* GoalDirectedReplanner: one step per unsatisfied goal, in goal order;    *)
(* None when a goal has no achiever left or nothing would change.          *)
(***************************************************************************)
Signature(steps) == [i \in DOMAIN steps |-> <<steps[i].skill, steps[i].args>>]

Achieve(acc, goal, options) ==
    IF options = <<>> THEN [acc EXCEPT !.ok = FALSE]
    ELSE [acc EXCEPT !.steps = Append(@, options[1]),
                     !.s     = With(@, ExpectedEffects(options[1], acc.s))]

Replanned(plan, drafted) ==
    LET named == [n \in DOMAIN drafted.steps |->
                     [drafted.steps[n] EXCEPT !.id = <<"replan", plan.revision + 1, n, None>>]]
    IN  IF ~drafted.ok \/ Signature(drafted.steps) = Signature(plan.steps) THEN None
        ELSE [plan EXCEPT !.steps = named, !.revision = @ + 1]

Replan(plan, s) ==
    IF plan.goals \in {None, <<>>} THEN None
    ELSE Replanned(plan,
                   FoldLeft(LAMBDA acc, goal :
                               IF ~acc.ok \/ RawValue(acc.s, goal.field) = goal.value THEN acc
                               ELSE Achieve(acc, goal, Candidates(goal.field, goal.value, acc.s,
                                                                  plan.blocked)),
                            [ok |-> TRUE, steps |-> <<>>, s |-> s], plan.goals))
===========================================================================
