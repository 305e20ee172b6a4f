--------------------------- MODULE SampledRobot ---------------------------
(***************************************************************************)
(* Ros2RobotBackend and FakeRobotNode (ros2/ros2_backend.py,               *)
(* ros2/fake_robot_node.py), call by call, as a backend of the executor: a *)
(* robot that is seen through numbered samples only.  Ros2Runtime models   *)
(* the same two processes step by step, with the deadlines of each call;   *)
(* here a goal is answered, ends, or is cancelled at its deadline within   *)
(* the call that sent it, and samples on the wire arrive in time.          *)
(*                                                                         *)
(* A world is a record                                                     *)
(*   scenario  the scenario it was configured for                          *)
(*   truth     the hidden value of each field                              *)
(*   script    the behaviours still queued for some skills                 *)
(*   unknown, stale, overrides, refresh   what a sample hides, marks and   *)
(*             overrides, and what a refresh does about it                 *)
(*   semantics the skill semantics the capabilities state                  *)
(*   deaf      whether the parameter call of a refresh may go unanswered   *)
(*   prompt    whether scheduled samples come within the client's deadline *)
(*   published the number of the last sample                               *)
(*   due       how many samples are scheduled for later                    *)
(*   wire      the samples published and not yet received, in order        *)
(*   shown     the latest sample received                                  *)
(*   stops     how often the robot was asked for a safe stop               *)
(***************************************************************************)
EXTENDS Grounding, DefaultSkills

CONSTANT RobotSkills    \* the skills the robot has transitions for

(***************************************************************************)
(* Samples.                                                                *)
(***************************************************************************)
\* _state_message: overrides replace the truth, unknown fields read None.
Sample(w) ==
    [seq   |-> w.published + 1,
     val   |-> [f \in Fields |-> IF f \in w.unknown THEN None
                                 ELSE IF f \in DOMAIN w.overrides THEN w.overrides[f]
                                 ELSE w.truth[f]],
     stale |-> w.stale]

Publish(w) == [w EXCEPT !.published = @ + 1, !.wire = Append(@, Sample(w))]

\* _schedule_observation: at once, or later, by the timer.
Schedule(w, delayed) == IF delayed THEN [w EXCEPT !.due = @ + 1] ELSE Publish(w)

PublishDue(w) == Publish([w EXCEPT !.due = @ - 1])

Receive(w) == [w EXCEPT !.shown = IF Head(w.wire).seq >= @.seq THEN Head(w.wire) ELSE @,
                        !.wire  = Tail(@)]

\* The client looks at the latest sample right away (a mutation of Awaited).
AwaitedNothing(w, after) == w

\* The samples on the wire that are newer than "after".
Newer(w, after) == {i \in DOMAIN w.wire : w.wire[i].seq > after}

\* What is on the wire is received up to its i-th sample.
ReceivedUpTo(w, i) == [w EXCEPT !.shown = w.wire[i], !.wire = SubSeq(@, i + 1, Len(@))]

\* _wait_for_observation: received up to the first sample newer than "after",
\* on the wire or still to be published; the latest one if none comes in time.
Awaited(w, after) ==
    LET v == IF w.due > 0 /\ w.prompt /\ Newer(w, after) = {} THEN PublishDue(w) ELSE w
        newer == Newer(v, after)
    IN  IF w.shown.seq > after \/ newer = {} THEN w
        ELSE ReceivedUpTo(v, CHOOSE i \in newer : \A j \in newer : i <= j)

\* A sample is looked at before it reaches the age a precondition tolerates.
SampledObserve(w) ==
    [val |-> w.shown.val, stale |-> w.shown.stale, aged |-> {}, conflicts |-> {}, busy |-> {}]

(***************************************************************************)
(* Refreshing.                                                             *)
(***************************************************************************)
\* _refresh_observation, before it publishes.
Refreshed(w, fields) ==
    IF ~w.refresh.succeeds THEN w
    ELSE [w EXCEPT !.truth     = With([val |-> @], w.refresh.values).val,
                   !.unknown   = @ \ fields,
                   !.stale     = @ \ fields,
                   !.overrides = [f \in DOMAIN @ \ fields |-> @[f]]]

\* acquire waits for a sample newer than the one it has.
SampledAcquire(w, fields) ==
    Awaited(Schedule(Refreshed(w, fields), w.refresh.delayed), w.shown.seq)

\* The parameter call's own deadline is the one acquire does not catch.
SampledRaises(w) == IF w.deaf THEN {"acquire"} ELSE {}

(***************************************************************************)
(* Commands.                                                               *)
(***************************************************************************)
Behaviour(mode) == [mode |-> mode, delayed |-> FALSE, late |-> FALSE, change |-> <<>>]

NextBehaviour(w, name) ==
    IF name \in DOMAIN w.script /\ w.script[name] # <<>> THEN Head(w.script[name])
    ELSE Behaviour("normal")

Popped(w, name) ==
    IF name \in DOMAIN w.script /\ w.script[name] # <<>>
    THEN [w EXCEPT !.script[name] = Tail(@)] ELSE w

\* _apply_transition; a validation skill sets the field of its own effect.
Motion(w, step) ==
    LET to(f, v) == <<[field |-> f, value |-> v]>>
        asked(arg, f) == IF arg \in DOMAIN step.args THEN to(f, step.args[arg]) ELSE <<>>
    IN  CASE step.skill = "retract_arm" ->
                to(Resolve(ArmSafe, step.args), Yes) \o to(Resolve(ArmReady, step.args), Yes)
          [] step.skill = "extend_arm"  -> to(Resolve(ArmSafe, step.args), No)
          [] step.skill = "move_agv"    ->
                to("agv_position_m", w.truth["agv_position_m"] + step.args.distance_m)
          [] step.skill = "set_lift"    -> to("lift_height_mm", step.args.height_mm)
          [] step.skill = "set_head"    ->
                asked("yaw_deg", "head_yaw_deg") \o asked("pitch_deg", "head_pitch_deg")
          [] OTHER -> to(Contract(step.skill).effects[1].field.at[None], Yes)

Changed(w, changes) == [w EXCEPT !.truth = With([val |-> @], changes).val]

\* _execute: a stalled goal is cancelled, an aborted one moves nothing; either
\* way it was accepted, and a sample is published.
Executed(w, step, b) ==
    CASE b.mode \in {"stall", "abort"}           -> Publish(w)
      [] b.mode \in {"no_motion", "fresh_spoof"} -> Schedule(w, b.delayed)
      [] b.mode \in {"normal", "toctou"}         ->
            LET v == Changed(w, b.change) IN Schedule(Changed(v, Motion(v, step)), b.delayed)

\* command, and the wait of the observe that follows it for a sample newer
\* than the command; a rejected goal asks for none.
SampledCommand(w, step) ==
    LET b == NextBehaviour(w, step.skill)
        v == Popped(w, step.skill)
    IN  IF b.mode = "reject" THEN {[world |-> v, accepted |-> FALSE, late |-> FALSE]}
        ELSE {[world |-> Awaited(Executed(v, step, b), w.shown.seq),
               accepted |-> TRUE, late |-> b.late]}

SampledStop(w) == [Publish(w) EXCEPT !.stops = @ + 1]

SampledCapabilities(w) ==
    [supported |-> RobotSkills, observable |-> Fields, refreshable |-> Fields,
     semantics |-> w.semantics]

(***************************************************************************)
(* Between the calls samples arrive, and the timer publishes.              *)
(***************************************************************************)
SampledDrifts(w) ==
    {Receive(v) : v \in {u \in {w} : u.wire # <<>>}}
    \cup {PublishDue(v) : v \in {u \in {w} : u.due > 0}}

(***************************************************************************)
(* configure_scenario: the node installs the scenario and publishes, and   *)
(* the client waits for a sample newer than the one it had.                *)
(***************************************************************************)
Installed(id, setup, truth) ==
    LET w == [scenario |-> id, truth |-> With([val |-> truth], setup.initial).val,
              script |-> setup.script, unknown |-> setup.unknown, stale |-> setup.stale,
              overrides |-> setup.overrides, refresh |-> setup.refresh,
              semantics |-> setup.semantics, deaf |-> setup.deaf, prompt |-> setup.prompt,
              published |-> 1, due |-> 0, wire |-> <<>>, stops |-> 0]
    IN  [shown |-> [seq |-> 1, val |-> truth, stale |-> {}]] @@ w

\* A sample of the scenario before, still on the wire, is taken for the
\* answer (a mutation of Configured).
ConfiguredOnLateSample(id, setup, truth) == Publish(Installed(id, setup, truth))

Configured(id, setup, truth) == Awaited(Publish(Installed(id, setup, truth)), 1)
============================================================================
