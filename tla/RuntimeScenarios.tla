------------------------- MODULE RuntimeScenarios -------------------------
(***************************************************************************)
(* The scenarios of ros2/runtime_validation.py: the executor driving the   *)
(* process-separated fake robot, each with its registry, its scripted      *)
(* behaviours and the checks it records.                                   *)
(*                                                                         *)
(* The harness only ever scripts samples that come in time and refreshes   *)
(* that are answered.  The "free" scenario runs the same two processes     *)
(* over pairs of arbitrary behaviours, with samples that come too late,    *)
(* at any time between two calls, and refreshes that fail or go unanswered.*)
(*                                                                         *)
(* One registry holds the skills of all scenarios (a scenario reaches its  *)
(* own only), and the budgets are those of the scenario that spends most:  *)
(* no other scenario has a policy and a failure that would spend more than *)
(* its own.                                                                *)
(***************************************************************************)
EXTENDS ExecutorProperties, SampledRobot

(***************************************************************************)
(* _skill: the validation skills.                                          *)
(***************************************************************************)
ValidationSkill(name, f, needs, policy) ==
    [name |-> name, params |-> <<>>, some |-> FALSE, resources |-> {name}, incompatible |-> {},
     sideEffects |-> {}, pre |-> needs, effects |-> <<Assigns(Plain(f), Yes)>>, policy |-> policy]

StopOnly == {"safe_stop"}
Clear == <<Needs(Plain("hazard_clear"))>>

\* The three scenarios that register a skill of the same name with another
\* policy get one of another name.
ValidationSkills ==
    <<ValidationSkill("reject_move", "reject_position", <<>>, StopOnly),
      ValidationSkill("no_motion_move", "no_motion_position", <<>>, StopOnly),
      ValidationSkill("delayed_move", "delayed_position", <<>>, StopOnly),
      ValidationSkill("guarded_inspection", "inspection_done", Clear, {"observe", "safe_stop"}),
      ValidationSkill("blind_inspection", "inspection_done", Clear, StopOnly),
      ValidationSkill("primary_route", "arrived", <<>>, {"replan", "safe_stop"}),
      ValidationSkill("alternate_route", "arrived", <<>>, StopOnly),
      ValidationSkill("only_route", "retried", <<>>, {"local_retry", "safe_stop"}),
      ValidationSkill("timeout_move", "test_position", <<>>, {"local_retry", "safe_stop"}),
      ValidationSkill("cancel_move", "cancel_position", <<>>, StopOnly)>>

ScenarioRegistry == DefaultRegistry \o ValidationSkills

ScenarioFields ==
    {"left_arm_ready", "right_arm_ready", "left_arm_safe", "right_arm_safe", "agv_ready",
     "agv_position_m", "lift_ready", "lift_height_mm", "head_ready", "head_yaw_deg",
     "head_pitch_deg", "emergency_stop", "fault", "hazard_clear", "inspection_done", "arrived",
     "retried", "test_position", "cancel_position", "delayed_position", "no_motion_position",
     "reject_position"}

\* _default_world; the facts of the validation skills are absent from it.
DefaultWorld ==
    [f \in Fields |->
        IF f \in {"agv_position_m", "head_yaw_deg", "head_pitch_deg", "emergency_stop", "fault"}
        THEN 0
        ELSE IF f = "lift_height_mm" THEN 1
        ELSE IF \E c \in ToSet(ValidationSkills) : f \in {"hazard_clear", c.effects[1].field.at[None]}
             THEN None ELSE Yes]

(***************************************************************************)
(* The scenarios: a plan and what configure_scenario is given.             *)
(***************************************************************************)
Ordinary ==
    [initial |-> <<>>, script |-> <<>>, unknown |-> {}, stale |-> {}, overrides |-> <<>>,
     refresh |-> [succeeds |-> FALSE, values |-> <<>>, delayed |-> FALSE],
     semantics |-> <<>>, deaf |-> FALSE, prompt |-> TRUE]

\* _plan: one step, a stated goal.
Scenario(skill, args, f, target, setup) ==
    [plan |-> PlanOf(<<StepOf(1, skill, args)>>, Reach(f, target)), setup |-> setup]

Scripted(setup, name, behaviours) == [setup EXCEPT !.script = @ @@ (name :> behaviours)]

Stalled(late) == [Behaviour("stall") EXCEPT !.late = late]

\* A validation skill on its own field, which is false to begin with.
Validation(name, f, behaviours) ==
    Scenario(name, <<>>, f, Yes, Scripted([Ordinary EXCEPT !.initial = Reach(f, No)],
                                          name, behaviours))

\* _guarded.
Guarded(name, setup) ==
    Scenario(name, <<>>, "inspection_done", Yes,
             [setup EXCEPT !.initial = Reach("hazard_clear", Yes) \o Reach("inspection_done", No)])

HiddenHazard == [Ordinary EXCEPT !.unknown = {"hazard_clear"}]

Drive(initial, behaviours) ==
    Scenario("move_agv", [distance_m |-> 1], "agv_position_m", 1,
             Scripted([Ordinary EXCEPT !.initial = initial], "move_agv", behaviours))

Turn(setup, behaviours) ==
    Scenario("set_head", [yaw_deg |-> 1], "head_yaw_deg", 1, Scripted(setup, "set_head", behaviours))

Nominal            == Turn(Ordinary, <<>>)
Rejection          == Validation("reject_move", "reject_position", <<Behaviour("reject")>>)
AcceptedNoMotion   == Validation("no_motion_move", "no_motion_position", <<Behaviour("no_motion")>>)
DelayedObservation == Validation("delayed_move", "delayed_position",
                                 <<[Behaviour("normal") EXCEPT !.delayed = TRUE]>>)
StaleEvidence      == Guarded("guarded_inspection", [Ordinary EXCEPT !.stale = {"hazard_clear"}])
UnknownSafety      == Guarded("blind_inspection", HiddenHazard)
RefreshSucceeds    == Guarded("guarded_inspection",
                              [HiddenHazard EXCEPT !.refresh.succeeds = TRUE,
                                                   !.refresh.values = Reach("hazard_clear", Yes)])
RefreshFails       == Guarded("guarded_inspection", HiddenHazard)
TransientRetry     == Turn(Ordinary, <<Behaviour("no_motion"), Behaviour("normal")>>)
GenericRepair      == Drive(Reach("left_arm_safe", No), <<>>)
GenuineReplan      == Validation("primary_route", "arrived", <<Behaviour("no_motion")>>)
RetryOnly          == Validation("only_route", "retried", [n \in 1 .. 3 |-> Behaviour("no_motion")])

\* The capabilities are overridden by those of an adapter that moves both arms.
CapabilityMismatch ==
    Scenario("retract_arm", [arm |-> "left"], "left_arm_safe", Yes,
             [Ordinary EXCEPT !.initial   = Reach("left_arm_safe", No),
                              !.semantics = "retract_arm" :> [domains     |-> <<>>,
                                                              unavoidable |-> {"left_arm_safe",
                                                                               "right_arm_safe"}]])

TimeoutThenRetry   == Validation("timeout_move", "test_position", <<Stalled(TRUE), Behaviour("normal")>>)

\* A goal that is cancelled from another thread long before it would end.
Cancellation       == Validation("cancel_move", "cancel_position", <<Stalled(FALSE)>>)
PressedStop        == Drive(Reach("emergency_stop", Yes), <<>>)
Toctou             == Drive(<<>>, <<[Behaviour("toctou") EXCEPT !.change = Reach("left_arm_safe", No)]>>)
FreshSpoof         == Turn([Ordinary EXCEPT !.overrides = "head_yaw_deg" :> 1],
                           <<Behaviour("fresh_spoof")>>)

Scenarios ==
    [R1  |-> Nominal,            R2  |-> Rejection,       R3  |-> AcceptedNoMotion,
     R4  |-> DelayedObservation, R5  |-> StaleEvidence,   R6  |-> UnknownSafety,
     R7  |-> RefreshSucceeds,    R8  |-> RefreshFails,    R9  |-> TransientRetry,
     R10 |-> GenericRepair,      R11 |-> GenuineReplan,   R11_retry_only |-> RetryOnly,
     R12 |-> CapabilityMismatch, R13 |-> TimeoutThenRetry, R14 |-> Cancellation,
     R15 |-> PressedStop,        L1  |-> Toctou,          L2  |-> FreshSpoof]

(***************************************************************************)
(* The checks each scenario records.                                       *)
(***************************************************************************)
Truth(f) == world.truth[f]

\* _goal_true, over the hidden world.
GoalTrue == \A i \in DOMAIN plan.goals : Truth(plan.goals[i].field) = plan.goals[i].value

Completed == success /\ GoalTrue
Stopped   == ~success /\ decision = "STOP"
NothingSent == ~acted
Commanded == [i \in DOMAIN plan.steps |-> plan.steps[i].skill]

Checks(id) ==
    CASE id \in {"R1", "R4"} -> Completed
      [] id = "R2"  -> Stopped /\ acted /\ ~receipt /\ Truth("reject_position") = No
      [] id = "R3"  -> Stopped /\ receipt /\ Truth("no_motion_position") = No
      [] id = "R5"  -> Stopped /\ observations = 1 /\ NothingSent
                       /\ \E i \in issues : i.knowledge = "STALE"
      [] id = "R6"  -> Stopped /\ NothingSent /\ \E i \in issues : i.knowledge = "UNKNOWN"
      [] id = "R7"  -> Completed /\ observations = 1
      [] id = "R8"  -> Stopped /\ observations = 1 /\ NothingSent
      [] id = "R9"  -> Completed /\ attempt = 2 /\ replans = 0
      [] id = "R10" -> Completed /\ decision = "REPAIR" /\ Commanded = <<"retract_arm", "move_agv">>
      [] id = "R11" -> Completed /\ decision = "REPLAN" /\ Commanded = <<"alternate_route">>
      [] id = "R11_retry_only" -> ~success /\ attempt = 3 /\ Truth("retried") = No
      [] id = "R12" -> Stopped /\ NothingSent
                       /\ \E i \in issues : i.code = "BACKEND_SEMANTIC_MISMATCH"
      [] id = "R13" -> Completed /\ attempt = 2 /\ replans = 0
      [] id = "R14" -> /\ Stopped /\ world.stops >= 1
                       /\ Truth("cancel_position") = No /\ world.shown.val["cancel_position"] = No
      [] id = "R15" -> /\ Stopped /\ NothingSent /\ Truth("agv_position_m") = 0
                       /\ \E i \in issues : i.code = "EMERGENCY_STOP"
      [] id = "L1"  -> success /\ Truth("left_arm_safe") = No /\ Truth("agv_position_m") = 1
      [] id = "L2"  -> success /\ Truth("head_yaw_deg") = 0

(***************************************************************************)
(* Properties.                                                             *)
(***************************************************************************)
\* Every scenario passes all of its checks, the two limitations included
\* (Ros2RuntimeValidation.run_all): what the executor, the grounder and the two
\* processes are modelled to do is what the repository's own runs report.
EveryScenarioPasses ==
    pc = "done" /\ world.scenario \in DOMAIN Scenarios => Checks(world.scenario)

\* Samples in time, and none that the scenario makes false.
Truthful == world.prompt /\ world.overrides = <<>>

\* A success report on in-time samples means that the goals hold in the hidden
\* world, whatever moved, did not move, was aborted, rejected or cancelled, and
\* however often it was retried: no sample of an earlier attempt is taken for
\* the outcome of a later one.
SampledSuccessIsPhysical == success /\ opts.verify /\ Truthful => GoalTrue

\* The same of samples that come later than the client waits for them:
\* "asynchronous delayed observations can be handled with a post-command sequence
\* barrier" (docs/ROS2_RUNTIME_VALIDATION_REPORT.md:199-200).
LateSamplesHandled == success /\ opts.verify /\ world.overrides = <<>> => GoalTrue

\* On in-time samples the base is commanded under the guard only while both
\* arms are safe in the hidden world, not merely in the last sample received.
ArmsSafeWhenDriven ==
    pc = "dispatch" /\ opts.guard /\ Truthful /\ Step.skill = "move_agv" =>
        Truth("left_arm_safe") = Yes /\ Truth("right_arm_safe") = Yes

(***************************************************************************)
(* The instance.                                                           *)
(***************************************************************************)
MCMetres  == -2 .. 2
MCHeights == 0 .. 2
MCYaws    == 0 .. 1
MCPitches == 0 .. 1

MCSkills == SkillNames

FreePlans ==
    {PlanOf(<<StepOf(1, "move_agv", [distance_m |-> 1])>>, None),
     PlanOf(<<StepOf(1, "extend_arm", [arm |-> "left"]),
              StepOf(2, "move_agv", [distance_m |-> 1])>>, None)}

Modes == {[Behaviour("normal") EXCEPT !.delayed = TRUE], [Behaviour("no_motion") EXCEPT !.delayed = TRUE],
          Behaviour("abort"), Behaviour("reject"), Stalled(TRUE)}

FreeSetups ==
    {[Ordinary EXCEPT !.initial = Reach("left_arm_safe", safe),
                      !.script  = [name \in {"move_agv", "extend_arm"} |->
                                      IF name = "extend_arm"
                                      THEN <<[Behaviour("normal") EXCEPT !.delayed = TRUE]>>
                                      ELSE <<first, second>>],
                      !.unknown = hidden,
                      !.refresh = [succeeds |-> answer # "fails", values |-> <<>>, delayed |-> TRUE],
                      !.deaf    = answer = "none",
                      !.prompt  = prompt]
        : safe \in {Yes, No}, first \in Modes, second \in Modes,
          hidden \in {{}, {"right_arm_safe"}}, answer \in {"succeeds", "fails", "none"},
          prompt \in BOOLEAN}

MCTasks == {Scenarios[id].plan : id \in DOMAIN Scenarios} \cup FreePlans

MCOptions == {Defaults, Without("verify"), Without("ground")}

MCWorlds ==
    {Configured(id, Scenarios[id].setup, DefaultWorld) : id \in DOMAIN Scenarios}
    \cup {Configured("free", setup, DefaultWorld) : setup \in FreeSetups}

\* Every scenario is run with its plan and execute's default flags.
MCInit ==
    /\ Init
    /\ IF world.scenario = "free" THEN plan \in FreePlans
       ELSE plan = Scenarios[world.scenario].plan /\ opts = Defaults

MCSpec == MCInit /\ [][Next]_vars
============================================================================
