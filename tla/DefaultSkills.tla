--------------------------- MODULE DefaultSkills ---------------------------
(***************************************************************************)
(* The contracts build_default_registry registers, in its order:           *)
(* skills/arm_skills.py, agv_skills.py, lift_skills.py, head_skills.py.    *)
(* Metres, millimetres and degrees are grid points; Metres, Heights,       *)
(* Yaws and Pitches are the points an instance uses out of the ranges the  *)
(* parameter schemas accept.  move_agv's optional speed_mps, which no      *)
(* precondition and no effect reads, is left out.                          *)
(***************************************************************************)
EXTENDS SkillContracts

CONSTANTS Metres, Heights, Yaws, Pitches

Arms == {"left", "right"}
ArmReady == [by |-> "arm", at |-> [arm \in Arms |-> IF arm = "left" THEN "left_arm_ready"
                                                                  ELSE "right_arm_ready"]]
ArmSafe == [by |-> "arm", at |-> [arm \in Arms |-> IF arm = "left" THEN "left_arm_safe"
                                                                 ELSE "right_arm_safe"]]

Needs(template) == [field |-> template, expected |-> Yes, ages |-> TRUE]

Assigns(template, value) ==
    [field |-> template, operation |-> "assign", value |-> value, argument |-> None, when |-> None]

Sets(f, operation, argument, when) ==
    [field |-> Plain(f), operation |-> operation, value |-> None,
     argument |-> argument, when |-> when]

Required(domain) == [domain |-> domain, required |-> TRUE]
Optional(domain) == [domain |-> domain, required |-> FALSE]

\* SkillContract's default recovery_policy.
DefaultPolicy == {"observe", "repair", "local_retry", "replan", "safe_stop"}

ArmContract(name, safe) ==
    [name |-> name, params |-> [arm |-> Required(Arms)], some |-> FALSE,
     resources |-> {"arm"}, incompatible |-> {"agv", "lift"}, sideEffects |-> {},
     pre |-> <<Needs(ArmReady)>>,
     effects |-> IF safe = Yes THEN <<Assigns(ArmSafe, Yes), Assigns(ArmReady, Yes)>>
                 ELSE <<Assigns(ArmSafe, No)>>,
     policy |-> DefaultPolicy]

ArmsSafe == <<Needs(Plain("left_arm_safe")), Needs(Plain("right_arm_safe"))>>

MoveAgv ==
    [name |-> "move_agv", params |-> [distance_m |-> Required(Metres)], some |-> FALSE,
     resources |-> {"agv"}, incompatible |-> {"arm", "lift"}, sideEffects |-> {},
     pre |-> <<Needs(Plain("agv_ready"))>> \o ArmsSafe,
     effects |-> <<Sets("agv_position_m", "increment", "distance_m", None)>>,
     policy |-> DefaultPolicy]

SetLift ==
    [name |-> "set_lift", params |-> [height_mm |-> Required(Heights)], some |-> FALSE,
     resources |-> {"lift"}, incompatible |-> {"agv", "arm"}, sideEffects |-> {},
     pre |-> <<Needs(Plain("lift_ready"))>> \o ArmsSafe,
     effects |-> <<Sets("lift_height_mm", "assign", "height_mm", None)>>,
     policy |-> DefaultPolicy]

SetHead ==
    [name |-> "set_head", some |-> TRUE,
     params |-> [yaw_deg |-> Optional(Yaws), pitch_deg |-> Optional(Pitches)],
     resources |-> {"head"}, incompatible |-> {}, sideEffects |-> {},
     pre |-> <<Needs(Plain("head_ready"))>>,
     effects |-> <<Sets("head_yaw_deg", "assign", "yaw_deg", "yaw_deg"),
                   Sets("head_pitch_deg", "assign", "pitch_deg", "pitch_deg")>>,
     policy |-> DefaultPolicy]

DefaultRegistry ==
    <<ArmContract("retract_arm", Yes), ArmContract("extend_arm", No), MoveAgv, SetLift, SetHead>>
===========================================================================
