------------------------------- MODULE MCJaka -------------------------------
(***************************************************************************)
(* SkillExecutor with the default registry against JakaRobotBackend, in    *)
(* deployments that differ in what they can measure and move.              *)
(***************************************************************************)
EXTENDS JakaExecution

(***************************************************************************)
(* The instance.                                                           *)
(***************************************************************************)
MCFields == {"left_arm_ready", "right_arm_ready", "left_arm_safe", "right_arm_safe",
             "agv_ready", "agv_position_m", "lift_ready", "lift_height_mm",
             "head_ready", "head_yaw_deg", "head_pitch_deg", "emergency_stop", "fault"}

MCMetres  == -2 .. 2
MCHeights == 0 .. 2
MCYaws    == 0 .. 1
MCPitches == 0 .. 1

Drive(n)   == StepOf(n, "move_agv", [distance_m |-> 1])
Lift(n)    == StepOf(n, "set_lift", [height_mm |-> 2])
Look(n)    == StepOf(n, "set_head", [yaw_deg |-> 1, pitch_deg |-> 1])
Retract(n) == StepOf(n, "retract_arm", [arm |-> "left"])
Extend(n)  == StepOf(n, "extend_arm", [arm |-> "left"])

MCTasks ==
    {PlanOf(steps, None) :
               steps \in {<<Look(1), Drive(2)>>, <<Lift(1), Drive(2)>>, <<Retract(1), Look(2)>>,
                          <<Look(1)>>, <<Extend(1)>>}}
           \cup {PlanOf(<<Look(1)>>, Reach("head_yaw_deg", 1) \o Reach("left_arm_safe", No))}

OneDrive == {PlanOf(<<Drive(1)>>, None)}

MCOptions == {Defaults, Without("ground"), Without("capability"), Without("repair")}
DefaultOptions == {Defaults}

Deployment(parts, provider, odometry) ==
    [parts |-> parts, queries |-> TRUE, pose |-> TRUE, provider |-> provider, odometry |-> odometry]

MCDeployments ==
    {Deployment(Parts, TRUE, FALSE), Deployment(Parts, FALSE, TRUE),
     Deployment(Parts \ {"agv"}, TRUE, FALSE),
     [Deployment(Parts \ {"lift"}, FALSE, FALSE) EXCEPT !.queries = FALSE, !.pose = FALSE]}

Provision == {Deployment(Parts, TRUE, FALSE)}

WorldsOf(deployments, downs, glitches) ==
    {[dep |-> d,
      truth |-> [f \in Fields |-> IF f \in {"agv_position_m", "head_yaw_deg", "head_pitch_deg",
                                            "emergency_stop", "fault", "lift_height_mm"}
                                  THEN 0 ELSE 1],
      down |-> down, pending |-> [x \in Axes |-> <<>>], glitches |-> glitches, drifts |-> 1]
        : d \in deployments, down \in downs}

MCWorlds == WorldsOf(MCDeployments, {{}, {"head"}}, 2)
QuietWorlds == WorldsOf(Provision, {{}}, 0)

ArmUnsafe == {<<[field |-> "left_arm_safe", value |-> No]>>}
============================================================================
