---------------------------- MODULE MockBackend ----------------------------
(***************************************************************************)
(* MockRobotBackend (backends/mock_backend.py): a hidden physical world,   *)
(* sensors that may hide, delay, contradict or override it, and commands   *)
(* that may fail in scripted ways.                                         *)
(*                                                                         *)
(* A world is a record                                                     *)
(*   truth    the physical value of each field                             *)
(*   busy     the active resources                                         *)
(*   faults   the injected FaultEvents still queued for each command       *)
(*   acquired how often active sensing was asked for each field            *)
(*   slow     how many more commands may outlast their skill's timeout     *)
(*   drifts   how many more times the world may change by itself, as       *)
(*            set_state lets a test do between any two calls; None is no   *)
(*            limit                                                        *)
(***************************************************************************)
EXTENDS Grounding, DefaultSkills

CONSTANTS
    Sensor,          \* the ObservationModel: [hidden, stale, refreshable, failures,
                     \*                        overrides, contradictions]
    PermanentFaults, \* inject_permanent: a function from some skills to events
    Handlers,        \* register_handler: a function from some skills to changes
    Disturbances     \* the changes a drift of the world may make

NoEvent == [mode |-> "none", drift |-> <<>>]

SetState(w, changes) == [w EXCEPT !.truth = With([val |-> @], changes).val]

(***************************************************************************)
(* Sensing.                                                                *)
(***************************************************************************)
Unavailable(w, f) ==
    \/ f \notin Sensor.refreshable
    \/ w.acquired[f] <= (IF f \in DOMAIN Sensor.failures THEN Sensor.failures[f] ELSE 0)

Observe(w) ==
    LET hidden == {f \in Sensor.hidden : Unavailable(w, f)}
        seen   == [f \in Fields |-> IF f \in hidden THEN None ELSE w.truth[f]]
    IN  [val       |-> With([val |-> seen], Sensor.overrides).val,
         stale     |-> {f \in Sensor.stale : Unavailable(w, f)},
         aged      |-> {},
         conflicts |-> Sensor.contradictions,
         busy      |-> w.busy]

Acquire(w, fields) ==
    [w EXCEPT !.acquired = [f \in Fields |-> IF f \in fields THEN @[f] + 1 ELSE @[f]]]

(***************************************************************************)
(* Commands.  Each returns the new world and whether it was accepted.      *)
(***************************************************************************)
Receipt(w, accepted) == [world |-> w, accepted |-> accepted]

NextEvent(w, name) ==
    IF w.faults[name] # <<>> THEN Head(w.faults[name])
    ELSE IF name \in DOMAIN PermanentFaults THEN PermanentFaults[name]
    ELSE NoEvent

Consume(w, name) ==
    [w EXCEPT !.faults[name] = IF @ = <<>> THEN @ ELSE Tail(@)]

Set(f, value) == <<[field |-> f, value |-> value]>>

\* What the command does when no event keeps it from doing so.
Transition(w, name, args) ==
    IF name \in DOMAIN Handlers THEN Handlers[name]
    ELSE CASE name = "retract_arm" ->
                Set(Resolve(ArmSafe, args), Yes) \o Set(Resolve(ArmReady, args), Yes)
           [] name = "extend_arm" ->
                Set(Resolve(ArmSafe, args), No) \o Set(Resolve(ArmReady, args), Yes)
           [] name = "move_agv" ->
                Set("agv_position_m", IF w.truth["agv_position_m"] = None THEN None
                                      ELSE w.truth["agv_position_m"] + args.distance_m)
           [] name = "set_lift" -> Set("lift_height_mm", args.height_mm)
           [] name = "set_head" ->
                (IF "yaw_deg" \in DOMAIN args THEN Set("head_yaw_deg", args.yaw_deg) ELSE <<>>)
                \o (IF "pitch_deg" \in DOMAIN args THEN Set("head_pitch_deg", args.pitch_deg)
                                                   ELSE <<>>)

Builtins == {"retract_arm", "extend_arm", "move_agv", "set_lift", "set_head", "safe_stop"}

\* The low-level controller accepts a base or lift motion it then inhibits.
Inhibited(w, name) ==
    /\ name \in {"move_agv", "set_lift"}
    /\ w.truth["left_arm_safe"] # Yes \/ w.truth["right_arm_safe"] # Yes

Command(world, name, args) ==
    LET event == NextEvent(world, name)
        w     == SetState(Consume(world, name), event.drift)
    IN  CASE event.mode \in {"timeout", "command_failure"} -> Receipt(w, FALSE)
          [] event.mode \in {"physical_failure", "state_drift"} -> Receipt(w, TRUE)
          [] OTHER ->
                IF Inhibited(w, name) THEN Receipt(w, TRUE)
                ELSE IF name \notin DOMAIN Handlers \cup Builtins THEN Receipt(w, FALSE)
                ELSE IF name = "safe_stop" THEN Receipt([w EXCEPT !.busy = {}], TRUE)
                ELSE Receipt(SetState(w, Transition(w, name, args)), TRUE)

\* RobotBackend.stop.
Stop(w) == Command(w, "safe_stop", <<>>).world

\* MockRobotBackend.capabilities, as BackendCapabilities.
MockCapabilities(w) ==
    [supported   |-> Builtins \cup DOMAIN Handlers,
     observable  |-> Fields \ (Sensor.hidden \ Sensor.refreshable),
     refreshable |-> Sensor.refreshable,
     semantics   |-> <<>>]

\* observe and acquire compute; they never raise.
NeverRaises(w) == {}

(***************************************************************************)
(* The world as the executor meets it: a command may outlast its skill's   *)
(* timeout, and the world may change between two calls.                    *)
(***************************************************************************)
Outcomes(w, step) ==
    LET r == Command(w, step.skill, step.args)
    IN  {[world |-> r.world, accepted |-> r.accepted, late |-> FALSE]}
        \cup {[world |-> [r.world EXCEPT !.slow = @ - 1], accepted |-> r.accepted, late |-> TRUE]
                : n \in {m \in {w.slow} : m > 0}}

Disturbed(w) ==
    IF w.drifts = 0 THEN {}
    ELSE {SetState([w EXCEPT !.drifts = IF @ = None THEN None ELSE @ - 1], d) : d \in Disturbances}
===========================================================================
