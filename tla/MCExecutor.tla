---------------------------- MODULE MCExecutor ----------------------------
(***************************************************************************)
(* SkillExecutor against MockRobotBackend with the default registry and    *)
(* the skills of tests/test_replanning_and_policy.py that have             *)
(* alternatives: three ways to power up, two processes that need power.    *)
(* The cfg files choose the tasks, flags, worlds and faults out of the     *)
(* definitions below.                                                      *)
(***************************************************************************)
EXTENDS MockExecution

MCFields == {"left_arm_ready", "right_arm_ready", "left_arm_safe", "right_arm_safe",
             "agv_ready", "agv_position_m", "lift_ready", "lift_height_mm",
             "head_ready", "head_yaw_deg", "head_pitch_deg", "emergency_stop", "fault",
             "power_available", "process_done"}

MCMetres  == -2 .. 2
MCHeights == 0 .. 2
MCYaws    == 0 .. 1
MCPitches == 0 .. 1

(***************************************************************************)
(* The registry.                                                           *)
(***************************************************************************)
PowerSkill(name, f, needs) ==
    [name |-> name, params |-> <<>>, some |-> FALSE, resources |-> {name}, incompatible |-> {},
     sideEffects |-> {}, pre |-> needs, effects |-> <<Assigns(Plain(f), Yes)>>,
     policy |-> DefaultPolicy]

Powered == <<[Needs(Plain("power_available")) EXCEPT !.ages = FALSE]>>

PowerSkills ==
    <<PowerSkill("main_power", "power_available", <<>>),
      PowerSkill("backup_power", "power_available", <<>>),
      PowerSkill("spare_power", "power_available", <<>>),
      PowerSkill("run_process", "process_done", Powered),
      PowerSkill("run_by_hand", "process_done", Powered)>>

MCRegistry == DefaultRegistry \o PowerSkills

MCHandlers == [name \in {"main_power", "backup_power", "spare_power", "run_process",
                         "run_by_hand"} |->
                  IF name \in {"run_process", "run_by_hand"} THEN Reach("process_done", Yes)
                                                             ELSE Reach("power_available", Yes)]

(***************************************************************************)
(* Tasks.                                                                  *)
(***************************************************************************)
Move(n)       == StepOf(n, "move_agv", [distance_m |-> 1])
Lift(n)       == StepOf(n, "set_lift", [height_mm |-> 2])
Extend(n)     == StepOf(n, "extend_arm", [arm |-> "left"])
Retract(n)    == StepOf(n, "retract_arm", [arm |-> "left"])

MoveTask     == PlanOf(<<Move(1)>>, None)
MoveLiftTask == PlanOf(<<Move(1), Lift(2)>>, None)
StatedTask   == PlanOf(<<Move(1), Lift(2)>>,
                       Reach("agv_position_m", 1) \o Reach("lift_height_mm", 2))
ExtendTask   == PlanOf(<<Extend(1), Move(2)>>, None)
InvalidTask  == PlanOf(<<StepOf(1, "set_lift", [height_mm |-> 7])>>, None)
ParallelTask ==
    PlanOf(<<[Move(1) EXCEPT !.group = "together"], [Lift(2) EXCEPT !.group = "together"]>>, None)

LookTask == PlanOf(<<StepOf(1, "set_head", [yaw_deg |-> 1])>>, None)

Do(n, name) == StepOf(n, name, <<>>)

PowerTasks ==
    {PlanOf(steps, goals) :
        steps \in {<<Do(1, "main_power"), Do(2, "run_process")>>, <<Do(1, "run_process")>>},
        goals \in {None, Reach("process_done", Yes)}}

OneMove     == {MoveTask}
OneMoveLift == {MoveLiftTask}
MCTasks == {MoveTask, MoveLiftTask, StatedTask, ExtendTask, InvalidTask, ParallelTask, LookTask}
           \cup PowerTasks

(***************************************************************************)
(* Flags of execute.                                                       *)
(***************************************************************************)
DefaultOptions == {Defaults}
Ablations == {Defaults} \cup {Without(o) : o \in OptionNames}

(***************************************************************************)
(* Sensors.                                                                *)
(***************************************************************************)
\* The left arm's pose is stale and the lift's and the head's readiness hidden
\* until they are asked for; the lift's sensor answers only the second time,
\* the head's later than any budget lasts.
PatientSensor ==
    [ClearSensor EXCEPT !.stale = {"left_arm_safe"}, !.hidden = {"lift_ready", "head_ready"},
                        !.refreshable = {"left_arm_safe", "lift_ready", "head_ready"},
                        !.failures = [f \in {"lift_ready", "head_ready"} |->
                                         IF f = "lift_ready" THEN 1 ELSE MaxObservations + 2]]

\* Every field has been asked for often enough.
Sensed(w) == [w EXCEPT !.acquired = [f \in Fields |-> MaxObservations + 3]]

(***************************************************************************)
(* Worlds.                                                                 *)
(***************************************************************************)
Ready == [f \in Fields |-> IF f \in {"agv_position_m", "head_yaw_deg", "head_pitch_deg",
                                     "emergency_stop", "fault", "power_available",
                                     "process_done"} THEN 0 ELSE 1]

Unsafe == Reach("left_arm_safe", No)
Arrived == Reach("agv_position_m", 1)

MoveFaults ==
    {<<>>} \cup {<<e>> : e \in {Event("timeout", <<>>), Event("timeout", Arrived),
                                Event("physical_failure", Unsafe)}}
           \cup {<<Event("command_failure", <<>>), Event("timeout", Arrived)>>,
                 <<Event("state_drift", <<>>), Event("state_drift", <<>>)>>}

\* The process may fail twice, the second time pulling the power down.
ProcessFaults == <<Event("command_failure", <<>>), Event("timeout", Reach("power_available", No))>>

\* Nothing hides, commands fail: the backup power accepts its first command
\* without effect.
FaultyWorlds ==
    {Sensed(WorldOf([Ready EXCEPT !["left_arm_safe"] = safe],
                    [Quiet EXCEPT !["move_agv"] = faults,
                                  !["backup_power"] = <<Event("state_drift", <<>>)>>,
                                  !["run_process"] = IF safe = Yes THEN <<>> ELSE ProcessFaults],
                    1, 1))
        : safe \in {Yes, No}, faults \in MoveFaults}

\* Nothing fails, sensors hide.
SensingWorlds ==
    {WorldOf([Ready EXCEPT !["left_arm_safe"] = safe, !["lift_ready"] = ready], Quiet, 0, 1)
        : safe \in {Yes, No}, ready \in {Yes, No}}

MCWorlds == FaultyWorlds \cup SensingWorlds

MCDisturbances == {Unsafe, Reach("emergency_stop", Yes), Reach("agv_position_m", 2),
                   Reach("power_available", No), Reach("process_done", No)}

\* The main power never comes.
MainOutage == [name \in {"main_power"} |-> Event("command_failure", <<>>)]

\* The base never completes a command, and the left arm will not rest.
RestlessWorlds == {Sensed(WorldOf(Ready, Quiet, 0, None))}
BaseOutage == [name \in {"move_agv"} |-> Event("command_failure", <<>>)]
RestlessArm == {Unsafe, Reach("left_arm_safe", Yes)}

\* The base reports failure twice although it arrived the first time.
LateWorlds ==
    {Sensed(WorldOf(Ready, [Quiet EXCEPT !["move_agv"] = <<Event("timeout", Arrived),
                                                           Event("command_failure", <<>>)>>],
                    0, 2))}
===========================================================================
