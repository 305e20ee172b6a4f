--------------------------- MODULE SkillExecutor ---------------------------
(***************************************************************************)
(* SkillExecutor.execute (execution/skill_executor.py): one task plan run  *)
(* against one backend.  The method is a sequence of calls to the backend  *)
(* with computation in between, and the world is free to change between    *)
(* two of them, so every action below makes at most one call to the        *)
(* backend and does all the computation that follows it.                   *)
(*                                                                         *)
(* pc is where the method stands:                                          *)
(*   start      called                                                     *)
(*   preflight  the plan was grounded, "issues" is the report              *)
(*   step       at the head of the loop over the steps                     *)
(*   blocked    the runtime guard refused the step, "issues" reports on    *)
(*              the plan's suffix                                          *)
(*   dispatch   the guard let the step pass on the evidence "before"       *)
(*   verify     the command returned, "receipt" says whether it counts     *)
(*   recover    the outcome was not achieved                               *)
(*   ground, repair, check    the stages a replanned "draft" goes through  *)
(*   halt       about to call backend.stop and return STOP                 *)
(*   done       returned                                                   *)
(*   raised     left by an exception of a sensing call, which nothing in    *)
(*              the method catches (commands and stops catch their own)    *)
(***************************************************************************)
EXTENDS Grounding

CONSTANTS
    Tasks,              \* the plans execute may be called with
    Options,            \* the flags it may be called with
    Worlds,             \* the initial states of the backend's world
    BackendObserve(_),      \* observe: the evidence a world yields
    BackendAcquire(_, _),   \* acquire: the world after sensing some fields
    BackendCommand(_, _),   \* command: its possible outcomes [world, accepted, late]
    BackendStop(_),         \* stop: the world after it
    BackendRaises(_),       \* which of "observe" and "acquire" may raise
    Drifts(_),              \* what a world may become by itself
    BackendCapabilities(_), \* capabilities(), fixed for the life of a backend
    HasReplanner,       \* whether a replanner was configured
    MaxRetries, MaxReplans, MaxObservations

ASSUME Budgets ==
    /\ MaxRetries \in Nat /\ MaxReplans \in Nat /\ MaxObservations \in Nat
    /\ HasReplanner \in BOOLEAN

OptionNames == {"repair", "verify", "recovery", "ground", "guard", "observe", "capability"}

ASSUME OptionsAssumption == Options \subseteq [OptionNames -> BOOLEAN]

\* Only a replan blocks skills.
ASSUME TasksAssumption ==
    \A task \in Tasks : IsPlan(task) /\ WellFormed(task) /\ Unblocked(task)

VARIABLES
    world,      \* the backend's world
    opts,       \* the flags of this call
    pc,
    plan,
    draft,      \* the replanned candidate, None when there is none
    issues,     \* the latest grounding report that still matters
    before,     \* the evidence the guard judged
    receipt,    \* receipt.accepted, after the timeout check
    index, attempt,
    observations, repairs, replans,     \* the three budgets spent
    decision,   \* ExecutionReport.decision
    success,    \* ExecutionReport.success
    \* history
    commanded,  \* whether a command was sent since "before" was observed
    acted,      \* whether any command was sent
    stops,      \* backend.stop() calls
    verified    \* the indices of the steps achieved since the plan was adopted

flow     == <<pc, plan, draft, issues, index, attempt>>
budget   == <<observations, repairs, replans>>
verdict  == <<decision, success>>
history  == <<commanded, acted, stops, verified>>
vars     == <<world, opts, flow, before, receipt, budget, verdict, history>>

ControlPoints == {"start", "preflight", "step", "blocked", "dispatch", "verify", "recover",
                  "ground", "repair", "check", "halt", "done", "raised"}

Decisions == {"EXECUTE", "OBSERVE", "REPAIR", "REPLAN", "STOP"}

Init ==
    /\ world \in Worlds
    /\ opts \in Options
    /\ plan \in Tasks
    /\ pc = "start"
    /\ draft = None /\ issues = {} /\ before = None /\ receipt = FALSE
    /\ index = 1 /\ attempt = 1
    /\ observations = 0 /\ repairs = 0 /\ replans = 0
    /\ decision = "EXECUTE" /\ success = FALSE
    /\ commanded = FALSE /\ acted = FALSE /\ stops = 0 /\ verified = {}

(***************************************************************************)
(* Helpers.                                                                *)
(***************************************************************************)
Evidence == BackendObserve(world)       \* StateManager.refresh

Capabilities == BackendCapabilities(world)

\* A replanned plan is grounded without them (a mutation of Caps).
CapsUnlessReplanning ==
    IF opts.capability /\ pc \notin {"ground", "check"} THEN Capabilities ELSE None

Caps == IF opts.capability THEN Capabilities ELSE None

Step == plan.steps[index]

Suffix == [plan EXCEPT !.steps = SubSeq(@, index, Len(@))]

\* _policy_for_issue: the policy of the first step with that id.
PolicyFor(p, id) ==
    LET at == {i \in DOMAIN p.steps : p.steps[i].id = id}
        first == CHOOSE i \in at : \A j \in at : i <= j
    IN  IF at = {} \/ p.steps[first].skill \notin SkillNames THEN {}
        ELSE Contract(p.steps[first].skill).policy

\* _observable_issue_fields.
ObservableIssueFields(p, found) ==
    {i.field : i \in {j \in found : /\ j.knowledge \in {"UNKNOWN", "STALE", "CONTRADICTORY"}
                                    /\ j.field \in Capabilities.refreshable
                                    /\ "observe" \in PolicyFor(p, j.id)}}

RepairAllowed(p, found) ==
    opts.repair /\ \A i \in found : i.repairable => "repair" \in PolicyFor(p, i.id)

\* A return before the loop: no stop is sent.
GiveUp ==
    /\ pc' = "done" /\ decision' = "STOP"
    /\ UNCHANGED <<world, opts, plan, draft, issues, index, attempt, before, receipt, budget,
                   success, history>>

\* The evidence the next decision rests on is replaced.
Judge(evidence) ==
    /\ before' = evidence
    /\ commanded' = FALSE

(***************************************************************************)
(* Preflight: ground the whole plan, observe, repair once.                 *)
(***************************************************************************)
Start ==
    /\ pc = "start"
    /\ plan' = WithGoalState(plan, Evidence)
    /\ Judge(Evidence)
    /\ IF opts.ground THEN pc' = "preflight" /\ issues' = Ground(plan', Evidence, Caps)
                      ELSE pc' = "step" /\ UNCHANGED issues
    /\ UNCHANGED <<world, opts, draft, index, attempt, receipt, budget, verdict,
                   acted, stops, verified>>

PreflightFields ==
    IF opts.observe /\ observations < MaxObservations /\ ~RequiresStop(issues)
    THEN ObservableIssueFields(plan, issues) ELSE {}

PreflightObserve ==
    /\ pc = "preflight"
    /\ PreflightFields # {}
    /\ world' = BackendAcquire(world, PreflightFields)
    /\ Judge(BackendObserve(world'))
    /\ issues' = Ground(plan, BackendObserve(world'), Caps)
    /\ observations' = observations + 1
    /\ decision' = "OBSERVE"
    /\ UNCHANGED <<opts, pc, plan, draft, index, attempt, receipt, repairs, replans, success,
                   acted, stops, verified>>

PreflightPass ==
    /\ pc = "preflight"
    /\ issues = {}
    /\ pc' = "step"
    /\ UNCHANGED <<world, opts, plan, draft, issues, index, attempt, before, receipt, budget,
                   verdict, history>>

\* The repaired plan, None when there is none or it is still not grounded.
PreflightRepaired ==
    LET grounded(fixed) == IF fixed # None /\ Ground(fixed, before, Caps) = {} THEN fixed ELSE None
    IN  IF RepairAllowed(plan, issues) THEN grounded(Repair(plan, before, issues)) ELSE None

PreflightRepair ==
    /\ pc = "preflight"
    /\ issues # {} /\ PreflightFields = {}
    /\ plan' = PreflightRepaired
    /\ plan' # None
    /\ decision' = "REPAIR"
    /\ pc' = "step"
    /\ UNCHANGED <<world, opts, draft, issues, index, attempt, before, receipt, budget,
                   success, history>>

PreflightStop ==
    /\ pc = "preflight"
    /\ issues # {} /\ PreflightFields = {}
    /\ PreflightRepaired = None
    /\ GiveUp

(***************************************************************************)
(* The loop over the steps: refresh, guard, repair the unexecuted suffix.  *)
(***************************************************************************)
AtStep == pc = "step" /\ index <= Len(plan.steps)

Keep(rest) == UNCHANGED <<opts, budget, verdict, acted, stops, verified, rest>>

InvalidStep ==
    /\ AtStep
    /\ ~ValidStep(Step)
    /\ pc' = "halt"
    /\ UNCHANGED <<plan, draft, issues, index, attempt, before, receipt, commanded>>
    /\ Keep(world)

AdmitStep ==
    /\ AtStep
    /\ ValidStep(Step)
    /\ opts.guard => Allowed(Step, Evidence)
    /\ Judge(Evidence)
    /\ pc' = "dispatch"
    /\ attempt' = 1
    /\ UNCHANGED <<plan, draft, issues, index, receipt>>
    /\ Keep(world)

RefuseStep ==
    /\ AtStep
    /\ ValidStep(Step)
    /\ opts.guard /\ ~Allowed(Step, Evidence)
    /\ Judge(Evidence)
    /\ issues' = Ground(Suffix, Evidence, Caps)
    /\ pc' = "blocked"
    /\ UNCHANGED <<plan, draft, index, attempt, receipt>>
    /\ Keep(world)

Policy == Contract(Step.skill).policy

RuntimeFields ==
    IF opts.observe /\ "observe" \in Policy /\ repairs < MaxObservations
    THEN ObservableIssueFields(Suffix, issues) ELSE {}

\* Looking again at run time is free of charge (a mutation of RuntimeObserve).
RuntimeObserveUncharged ==
    /\ pc = "blocked"
    /\ RuntimeFields # {}
    /\ world' = BackendAcquire(world, RuntimeFields)
    /\ pc' = "step"
    /\ UNCHANGED <<opts, plan, draft, issues, index, attempt, before, receipt, budget,
                   verdict, history>>

RuntimeObserve ==
    /\ pc = "blocked"
    /\ RuntimeFields # {}
    /\ world' = BackendAcquire(world, RuntimeFields)
    /\ repairs' = repairs + 1
    /\ pc' = "step"
    /\ UNCHANGED <<opts, plan, draft, issues, index, attempt, before, receipt, observations,
                   replans, verdict, history>>

\* The repaired suffix, None when there is none or it changes nothing.
RuntimeRepaired ==
    LET changed(fixed) == IF fixed # None /\ fixed.steps # Suffix.steps THEN fixed ELSE None
    IN  IF opts.repair /\ "repair" \in Policy /\ repairs < 2
        THEN changed(Repair(Suffix, before, issues)) ELSE None

RuntimeRepair ==
    /\ pc = "blocked"
    /\ RuntimeFields = {}
    /\ \E fixed \in {RuntimeRepaired} \ {None} :
          plan' = [plan EXCEPT !.steps    = SubSeq(@, 1, index - 1) \o fixed.steps,
                               !.revision = fixed.revision]
    /\ repairs' = repairs + 1
    /\ decision' = IF decision = "EXECUTE" THEN "REPAIR" ELSE decision
    /\ pc' = "step"
    /\ UNCHANGED <<world, opts, draft, issues, index, attempt, before, receipt, observations,
                   replans, success, history>>

RuntimeStop ==
    /\ pc = "blocked"
    /\ RuntimeFields = {}
    /\ RuntimeRepaired = None
    /\ pc' = "halt"
    /\ UNCHANGED <<plan, draft, issues, index, attempt, before, receipt, commanded>>
    /\ Keep(world)

(***************************************************************************)
(* One attempt: command, look again, verify.                               *)
(***************************************************************************)
Dispatch ==
    /\ pc = "dispatch"
    /\ \E outcome \in BackendCommand(world, Step) :
          /\ world' = outcome.world
          /\ receipt' = (outcome.accepted /\ ~outcome.late)
    /\ commanded' = TRUE /\ acted' = TRUE
    /\ pc' = "verify"
    /\ UNCHANGED <<opts, plan, draft, issues, index, attempt, before, budget, verdict,
                   stops, verified>>

Achieved == receipt /\ (opts.verify => VerifyOutcome(Step, before, Evidence))

StepAchieved ==
    /\ pc = "verify"
    /\ Achieved
    /\ verified' = verified \cup {index}
    /\ index' = index + 1
    /\ pc' = "step"
    /\ UNCHANGED <<world, opts, plan, draft, issues, attempt, before, receipt, budget, verdict,
                   commanded, acted, stops>>

\* A failure that nothing recovers from ends without a stop (a mutation of
\* AfterFailure).
AfterFailureSilently == IF opts.recovery THEN "recover" ELSE "done"

AfterFailure == IF opts.recovery THEN "recover" ELSE "halt"

StepNotAchieved ==
    /\ pc = "verify"
    /\ ~Achieved
    /\ pc' = AfterFailure
    /\ UNCHANGED <<plan, draft, issues, index, attempt, before, receipt, commanded>>
    /\ Keep(world)

(***************************************************************************)
(* Recovery.  RecoveryManager.decide: retry, else replan, else stop.       *)
(***************************************************************************)
\* One attempt too many (a mutation of MayRetry).
MayRetryOnceMore == "local_retry" \in Policy /\ attempt <= MaxRetries + 1

MayRetry == "local_retry" \in Policy /\ attempt <= MaxRetries

MayReplan == ~MayRetry /\ "replan" \in Policy /\ HasReplanner /\ replans < MaxReplans

\* Mutations of NextAttempt: the attempt is not counted, or counted down.
SameAttempt == attempt
AttemptsLeft == attempt - 1

NextAttempt == attempt + 1

\* The retry is not guarded (a mutation of AfterRetry).
AfterRetryUnguarded == "dispatch"

\* REGROUND goes back to the head of the loop, where the step is judged anew.
AfterRetry == IF opts.guard /\ ~Allowed(Step, Evidence) THEN "step" ELSE "dispatch"

\* REGROUND skips the step it should come back to (a mutation of Retry).
RetrySkipping ==
    /\ pc = "recover"
    /\ MayRetry
    /\ Judge(Evidence)
    /\ attempt' = NextAttempt
    /\ pc' = AfterRetry
    /\ index' = IF pc' = "step" THEN index + 1 ELSE index
    /\ UNCHANGED <<plan, draft, issues, receipt>>
    /\ Keep(world)

Retry ==
    /\ pc = "recover"
    /\ MayRetry
    /\ Judge(Evidence)
    /\ attempt' = NextAttempt
    /\ pc' = AfterRetry
    /\ UNCHANGED <<plan, draft, issues, index, receipt>>
    /\ Keep(world)

ProposeReplan ==
    /\ pc = "recover"
    /\ MayReplan
    /\ draft' = Replan([plan EXCEPT !.blocked = @ \cup {Step.skill}], Evidence)
    /\ pc' = IF draft' = None THEN "halt" ELSE "ground"
    /\ UNCHANGED <<plan, issues, index, attempt, before, receipt, commanded>>
    /\ Keep(world)

Adopt ==
    /\ plan' = draft
    /\ draft' = None
    /\ replans' = replans + 1
    /\ decision' = "REPLAN"
    /\ index' = 1
    /\ verified' = {}
    /\ pc' = "step"
    /\ UNCHANGED <<world, opts, issues, attempt, before, receipt, observations, repairs,
                   success, commanded, acted, stops>>

AdoptGrounded ==
    /\ pc \in {"ground", "check"}
    /\ Ground(draft, Evidence, Caps) = {}
    /\ Adopt

RejectUngrounded ==
    /\ pc \in {"ground", "check"}
    /\ issues' = Ground(draft, Evidence, Caps)
    /\ issues' # {}
    /\ pc' = IF pc = "ground" THEN "repair" ELSE "halt"
    /\ UNCHANGED <<plan, draft, index, attempt, before, receipt, commanded>>
    /\ Keep(world)

RepairDraft ==
    /\ pc = "repair"
    /\ draft' = Repair(draft, Evidence, issues)
    /\ pc' = IF draft' = None THEN "halt" ELSE "check"
    /\ UNCHANGED <<plan, issues, index, attempt, before, receipt, commanded>>
    /\ Keep(world)

RecoveryExhausted ==
    /\ pc = "recover"
    /\ ~MayRetry /\ ~MayReplan
    /\ pc' = "halt"
    /\ UNCHANGED <<plan, draft, issues, index, attempt, before, receipt, commanded>>
    /\ Keep(world)

(***************************************************************************)
(* The end.                                                                *)
(***************************************************************************)
AtEnd == pc = "step" /\ index > Len(plan.steps)

\* Projected goals are taken as verified step by step (a mutation of GoalsMet).
GoalsMetByProjection ==
    opts.verify /\ ~plan.projected => GoalMismatches(plan, Evidence) = {}

GoalsMet == opts.verify => GoalMismatches(plan, Evidence) = {}

Succeed ==
    /\ AtEnd
    /\ GoalsMet
    /\ pc' = "done" /\ success' = TRUE
    /\ UNCHANGED <<world, opts, plan, draft, issues, index, attempt, before, receipt, budget,
                   decision, history>>

\* No stop when the goal is missed (a mutation of GoalMissed).
GoalMissedSilently ==
    /\ AtEnd
    /\ ~GoalsMet
    /\ GiveUp

GoalMissed ==
    /\ AtEnd
    /\ ~GoalsMet
    /\ pc' = "halt"
    /\ UNCHANGED <<plan, draft, issues, index, attempt, before, receipt, commanded>>
    /\ Keep(world)

\* Every return inside the loop but the successful one.
Halt ==
    /\ pc = "halt"
    /\ world' = BackendStop(world)
    /\ stops' = stops + 1
    /\ decision' = "STOP"
    /\ pc' = "done"
    /\ UNCHANGED <<opts, plan, draft, issues, index, attempt, before, receipt, budget, success,
                   commanded, acted, verified>>

(***************************************************************************)
(* Exceptions.  The sensing call that is due may raise instead.            *)
(***************************************************************************)
AcquireDue ==
    \/ pc = "preflight" /\ PreflightFields # {}
    \/ pc = "blocked" /\ RuntimeFields # {}

\* Commands do not catch their exceptions (a mutation of ObserveDue).
ObserveOrCommandDue == pc \in {"start", "dispatch", "verify", "ground", "repair", "check"}

ObserveDue ==
    \/ pc \in {"start", "verify", "ground", "repair", "check"}
    \/ AtStep /\ ValidStep(Step)
    \/ AtEnd /\ opts.verify
    \/ pc = "recover" /\ (MayRetry \/ MayReplan)

Raise ==
    /\ \/ AcquireDue /\ "acquire" \in BackendRaises(world)
       \/ ObserveDue /\ "observe" \in BackendRaises(world)
    /\ pc' = "raised"
    /\ UNCHANGED <<world, opts, plan, draft, issues, index, attempt, before, receipt, budget,
                   verdict, history>>

(***************************************************************************)
(* The world changes by itself; nothing happens after the call has ended.  *)
(***************************************************************************)
Ended == pc \in {"done", "raised"}

Drift ==
    /\ ~Ended
    /\ world' \in Drifts(world)
    /\ UNCHANGED <<opts, flow, before, receipt, budget, verdict, history>>

Returned == Ended /\ UNCHANGED vars

Execute ==
    \/ Start \/ PreflightObserve \/ PreflightPass \/ PreflightRepair \/ PreflightStop
    \/ InvalidStep \/ AdmitStep \/ RefuseStep
    \/ RuntimeObserve \/ RuntimeRepair \/ RuntimeStop
    \/ Dispatch \/ StepAchieved \/ StepNotAchieved
    \/ Retry \/ ProposeReplan \/ AdoptGrounded \/ RejectUngrounded \/ RepairDraft
    \/ RecoveryExhausted
    \/ Succeed \/ GoalMissed \/ Halt \/ Raise

Next == Execute \/ Drift \/ Returned

Spec == Init /\ [][Next]_vars

\* The method runs in one thread and every backend call returns or raises, so
\* it keeps moving until it ends.  Some disjunct of Execute is enabled wherever
\* it has not, and all but the bounded PreflightObserve change pc, so this is
\* weak fairness of Execute, with an ENABLED that is cheap to evaluate.
Moves == ~Ended /\ pc' \in ControlPoints \ {pc}

FairSpec == Spec /\ WF_pc(Moves)
===========================================================================
