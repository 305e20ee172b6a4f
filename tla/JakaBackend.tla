---------------------------- MODULE JakaBackend ----------------------------
(***************************************************************************)
(* JakaRobotBackend (backends/jaka_backend.py): the adapter over legacy    *)
(* skill objects of the core package.  It asks each object for what it can *)
(* measure and passes each command on; what the objects do is external.    *)
(*                                                                         *)
(* A world is a record                                                     *)
(*   dep      the deployment, which never changes: the "parts" present,    *)
(*            whether the arm object has the "queries", whether a          *)
(*            transport "pose" is configured, and whether there is a state *)
(*            "provider" and an "odometry" provider                        *)
(*   truth    the physical value of each field                             *)
(*   down     the parts, and "provider", whose queries raise, and "stop"   *)
(*            when the base's own stop does                                *)
(*   pending  the motion still under way on each axis, after its call      *)
(*   glitches how many more calls may misbehave                            *)
(*   drifts   how many more times the world may change by itself           *)
(***************************************************************************)
EXTENDS Grounding

CONSTANT JakaDisturbances   \* the changes a drift of the world may make

Parts == {"arm", "agv", "lift", "head"}

ReadyFields(p) ==
    CASE p = "arm" -> {"left_arm_ready", "right_arm_ready"}
      [] p = "agv" -> {"agv_ready"} [] p = "lift" -> {"lift_ready"} [] p = "head" -> {"head_ready"}

MeasuredFields(p) ==
    CASE p = "arm" -> {} [] p = "agv" -> {"agv_position_m"} [] p = "lift" -> {"lift_height_mm"}
      [] p = "head" -> {"head_yaw_deg", "head_pitch_deg"}

SafeFields == {"left_arm_safe", "right_arm_safe"}

JakaSet(w, changes) == [w EXCEPT !.truth = With([val |-> @], changes).val]

(***************************************************************************)
(* observe.                                                                *)
(***************************************************************************)
\* Whether there is anything to ask about a part: the base is asked for
\* through the odometry provider only.
Queried(w, p) ==
    CASE p = "agv" -> w.dep.odometry
      [] p = "arm" -> p \in w.dep.parts /\ w.dep.queries
      [] OTHER     -> p \in w.dep.parts

\* A part is ready when its query answers, and UNKNOWN when it has none.
Readiness(w, p) ==
    IF ~Queried(w, p) THEN (IF p \in w.dep.parts THEN None ELSE No)
    ELSE IF p \in w.dep.parts \ w.down THEN Yes ELSE No

Measured(w, f) ==
    IF \E p \in Parts : f \in ReadyFields(p)
    THEN Readiness(w, CHOOSE p \in Parts : f \in ReadyFields(p))
    ELSE IF \E p \in Parts : f \in MeasuredFields(p) /\ Queried(w, p) /\ p \notin w.down
         THEN w.truth[f] ELSE None

\* What the state provider hands over: it measures every field, but those of
\* a part that is down.
Provided(w, f) ==
    IF \E p \in w.down \cap Parts :
          f \in ReadyFields(p) \cup MeasuredFields(p) \cup (IF p = "arm" THEN SafeFields ELSE {})
    THEN None ELSE w.truth[f]

Evident(val) == [val |-> val, stale |-> {}, aged |-> {}, conflicts |-> {}, busy |-> {}]

\* Arms that answer are taken to be in a safe pose (a mutation of JakaObserve).
JakaObserveAssuming(w) ==
    Evident([f \in Fields |-> IF w.dep.provider THEN Provided(w, f)
                              ELSE IF f \in SafeFields THEN Readiness(w, "arm")
                              ELSE Measured(w, f)])

JakaObserve(w) ==
    Evident([f \in Fields |-> IF w.dep.provider THEN Provided(w, f) ELSE Measured(w, f)])

\* RobotBackend.acquire: no active sensing, it just observes.
JakaAcquire(w, fields) == w

\* The queries of observe are caught, the provider's call is not.
JakaRaises(w) ==
    IF w.dep.provider /\ "provider" \in w.down THEN {"observe", "acquire"} ELSE {}

(***************************************************************************)
(* capabilities.                                                           *)
(***************************************************************************)
JakaSupported(w) ==
    {CASE p = "arm" -> "retract_arm" [] p = "agv" -> "move_agv" [] p = "lift" -> "set_lift"
       [] p = "head" -> "set_head"
     : p \in {q \in w.dep.parts : q = "arm" => w.dep.pose}}

JakaObservable(w) ==
    IF w.dep.provider THEN Fields
    ELSE UNION {ReadyFields(p) \cup MeasuredFields(p)
                : p \in (w.dep.parts \ {"agv"}) \cup (IF w.dep.odometry THEN {"agv"} ELSE {})}

\* The preset moves both arms, whichever arm is asked for.  (The domains of the
\* other skills hold every argument the instances use.)
JakaSemantics(w) ==
    [name \in JakaSupported(w) \cap {"retract_arm"} |->
        [domains |-> [arm |-> {"left", "right"}], unavoidable |-> SafeFields]]

JakaCapabilities(w) ==
    [supported   |-> JakaSupported(w),
     observable  |-> JakaObservable(w),
     refreshable |-> IF w.dep.provider THEN Fields ELSE {},
     semantics   |-> JakaSemantics(w)]

(***************************************************************************)
(* command.                                                                *)
(***************************************************************************)
Axes == {"arm", "agv", "lift", "yaw", "pitch"}

To(f, value) == [field |-> f, value |-> value]

\* A call of a legacy object: the motion it commands is done when it returns,
\* or was not begun, or is still under way, and the object answers true, false
\* or with an exception; only one that misbehaves leaves the two unrelated.
\* A new motion of an axis takes the place of the one under way.
Call(w, axis, motion) ==
    LET idle  == [w EXCEPT !.pending[axis] = <<>>]
        moved == JakaSet(idle, motion)
        under == [w EXCEPT !.pending[axis] = motion]
    IN  {[world |-> moved, answer |-> "true"]}
        \cup {[world |-> [v EXCEPT !.glitches = @ - 1], answer |-> a]
                : v \in {x \in {moved, idle, under} : x.glitches > 0},
                  a \in {"true", "false", "raise"}}

Outcome(w, accepted) == [world |-> w, accepted |-> accepted, late |-> FALSE]

\* The outcomes of calls that are accepted on some of the answers.
Accepted(calls, answers) == {Outcome(c.world, c.answer \in answers) : c \in calls}

\* yaw_to, then pitch_to, unless yaw_to raised.
HeadOutcomes(w, args) ==
    LET ask(v, name, axis, f) ==
            IF name \in DOMAIN args THEN Call(v, axis, <<To(f, args[name])>>)
                                    ELSE {[world |-> v, answer |-> "true"]}
        yaws == ask(w, "yaw_deg", "yaw", "head_yaw_deg")
    IN  {Outcome(y.world, FALSE) : y \in {x \in yaws : x.answer = "raise"}}
        \cup UNION {Accepted(ask(y.world, "pitch_deg", "pitch", "head_pitch_deg"),
                             IF y.answer = "true" THEN {"true"} ELSE {})
                    : y \in {x \in yaws : x.answer # "raise"}}

\* drive_distance returns nothing: it is accepted unless it raises.
JakaCommand(w, step) ==
    CASE step.skill = "retract_arm" /\ "arm" \in w.dep.parts /\ w.dep.pose ->
            Accepted(Call(w, "arm", <<To("left_arm_safe", Yes), To("right_arm_safe", Yes)>>),
                     {"true"})
      [] step.skill = "move_agv" /\ "agv" \in w.dep.parts ->
            Accepted(Call(w, "agv", <<To("agv_position_m",
                                         w.truth["agv_position_m"] + step.args.distance_m)>>),
                     {"true", "false"})
      [] step.skill = "set_lift" /\ "lift" \in w.dep.parts ->
            Accepted(Call(w, "lift", <<To("lift_height_mm", step.args.height_mm)>>), {"true"})
      [] step.skill = "set_head" /\ "head" \in w.dep.parts -> HeadOutcomes(w, step.args)
      [] OTHER -> {Outcome(w, FALSE)}

\* safe_stop reaches the base only.  A stop that raises is caught and leaves the
\* base moving; the receipt is refused either way.
JakaStop(w) ==
    IF "agv" \in w.dep.parts /\ "stop" \notin w.down THEN [w EXCEPT !.pending["agv"] = <<>>] ELSE w

(***************************************************************************)
(* The world by itself: a motion under way ends, a query or the base's     *)
(* stop goes down or comes back, something else moves.                     *)
(***************************************************************************)
JakaDrifts(w) ==
    {[JakaSet(w, w.pending[x]) EXCEPT !.pending[x] = <<>>] : x \in {y \in Axes : w.pending[y] # <<>>}}
    \cup {[v EXCEPT !.drifts = @ - 1]
            : v \in {u \in {[w EXCEPT !.down = (@ \cup {p}) \ (@ \cap {p})]
                              : p \in Parts \cup {"provider", "stop"}}
                           \cup {JakaSet(w, d) : d \in JakaDisturbances} : u.drifts > 0}}
============================================================================
