--------------------------- MODULE SimulatorProofs ---------------------------
(***************************************************************************)
(* What is proved of the executor over the two robots that hide a physical *)
(* world from it: MockRobotBackend, for every registry, task, set of       *)
(* flags, budget, fault script and disturbance; and the sampled robot of   *)
(* the runtime validation, for every task, set of flags, budget and script *)
(* of behaviours.  The theorems assume which of the two the backend is,    *)
(* and, of the mock, that its sensors override nothing, and say so in      *)
(* their hypotheses.                                                       *)
(***************************************************************************)
EXTENDS MockExecution, RuntimeScenarios, SkillExecutorProofs

\* The part of a world that sensing changes.
Counting(w) == "acquired" \in DOMAIN w

\* The backend is MockRobotBackend.
MockIsBackend ==
    /\ \A w \in Worlds : Counting(w)
    /\ \A w : BackendObserve(w) = Observe(w)
    /\ \A w, fields : BackendAcquire(w, fields) = Acquire(w, fields)
    /\ \A w, step : BackendCommand(w, step) = Outcomes(w, step)
    /\ \A w : BackendStop(w) = Stop(w)
    /\ \A w : Drifts(w) = Disturbed(w)

(***************************************************************************)
(* What an honest sensor shows.                                            *)
(***************************************************************************)
LEMMA HonestValues ==
    ASSUME Sensor.overrides = <<>>, NEW w
    PROVE  Observe(w).val = [f \in Fields |->
               IF f \in {h \in Sensor.hidden : Unavailable(w, h)} THEN None ELSE w.truth[f]]
<1> DEFINE seen == [f \in Fields |-> IF f \in {h \in Sensor.hidden : Unavailable(w, h)} THEN None
                                     ELSE w.truth[f]]
<1>1. With([val |-> seen], <<>>).val = seen
  BY DEF With
<1>2. Observe(w).val = With([val |-> seen], Sensor.overrides).val
  BY DEF Observe
<1> QED
  BY <1>1, <1>2

\* A fact that is known is physically true.
LEMMA KnownIsTrue ==
    ASSUME Sensor.overrides = <<>>, NEW w, NEW f, NEW v, KnownFact(Observe(w), f, v)
    PROVE  w.truth[f] = v
<1>1. RawValue(Observe(w), f) = v /\ RawValue(Observe(w), f) # None
  BY DEF KnownFact, Knowledge
<1> QED
  BY <1>1, HonestValues DEF RawValue

\* A field that is known was sensed, if it had to be.
LEMMA KnownIsSensed ==
    ASSUME Sensor.overrides = <<>>, NEW w, NEW f \in Sensor.hidden \cup Sensor.stale, NEW ages,
           Knowledge(Observe(w), f, ages) = "KNOWN"
    PROVE  ~Unavailable(w, f)
<1>1. RawValue(Observe(w), f) # None /\ f \notin Observe(w).stale
  BY DEF Knowledge
<1>2. CASE f \in Sensor.stale
  BY <1>1, <1>2 DEF Observe
<1>3. CASE f \in Sensor.hidden
  BY <1>1, <1>3, HonestValues DEF RawValue
<1> QED
  BY <1>2, <1>3

\* A success report under verification means the goals are physically true.
THEOREM VerdictIsPhysical ==
    ASSUME MockIsBackend, Sensor.overrides = <<>>
    PROVE  Spec => []SuccessIsPhysical
<1>1. SuccessIsObserved => SuccessIsPhysical
  <2> SUFFICES ASSUME SuccessIsObserved, success, opts.verify, NEW i \in DOMAIN plan.goals
               PROVE  world.truth[plan.goals[i].field] = plan.goals[i].value
    BY DEF SuccessIsPhysical
  <2>1. KnownFact(Observe(world), plan.goals[i].field, plan.goals[i].value)
    BY DEF SuccessIsObserved, Evidence, MockIsBackend
  <2> QED
    BY <2>1, KnownIsTrue
<1> QED
  BY <1>1, SuccessIsWarranted, PTL

(***************************************************************************)
(* Only acquire changes what has been sensed.                              *)
(***************************************************************************)
Kept(v, w) == Counting(v) /\ v.acquired = w.acquired

LEMMA KeptTransitive ==
    ASSUME NEW u, NEW v, NEW w, Kept(u, v), Kept(v, w) PROVE Kept(u, w)
BY DEF Kept

LEMMA OtherPartKept ==
    ASSUME NEW w, Counting(w), NEW f \in {"truth", "busy", "faults", "slow", "drifts"}, NEW x
    PROVE  Kept([w EXCEPT ![f] = x], w)
BY DEF Kept, Counting

LEMMA SetStateKept ==
    ASSUME NEW w, Counting(w), NEW changes PROVE Kept(SetState(w, changes), w)
BY OtherPartKept DEF SetState

LEMMA CommandKept ==
    ASSUME NEW w, Counting(w), NEW name, NEW args PROVE Kept(Command(w, name, args).world, w)
<1> DEFINE event == NextEvent(w, name)
           v == SetState(Consume(w, name), event.drift)
<1>1. Kept(v, w)
  <2>1. Kept(Consume(w, name), w)
    BY DEF Consume, Kept, Counting
  <2>2. Kept(v, Consume(w, name))
    BY <2>1, SetStateKept DEF Kept
  <2> QED
    BY <2>1, <2>2, KeptTransitive
<1>2. Kept([v EXCEPT !.busy = {}], v)
  BY <1>1, OtherPartKept DEF Kept
<1>3. \A changes : Kept(SetState(v, changes), v)
  BY <1>1, SetStateKept DEF Kept
<1>4. Command(w, name, args).world \in {v, [v EXCEPT !.busy = {}]}
          \cup {SetState(v, Transition(v, name, args))}
  <2> HIDE DEF event, v
  <2> QED
    BY DEF Command, Receipt, event, v
<1> HIDE DEF v
<1> QED
  BY <1>1, <1>2, <1>3, <1>4, KeptTransitive

LEMMA OutcomesKept ==
    ASSUME NEW w, Counting(w), NEW step, NEW o \in Outcomes(w, step) PROVE Kept(o.world, w)
<1> DEFINE r == Command(w, step.skill, step.args)
<1>1. Kept(r.world, w)
  BY CommandKept
<1>2. Kept([r.world EXCEPT !.slow = @ - 1], r.world)
  BY <1>1, OtherPartKept DEF Kept
<1> HIDE DEF r
<1>3. o.world \in {r.world, [r.world EXCEPT !.slow = @ - 1]}
  BY DEF Outcomes, r
<1> QED
  BY <1>1, <1>2, <1>3, KeptTransitive

LEMMA DisturbedKept ==
    ASSUME NEW w, Counting(w), NEW v \in Disturbed(w) PROVE Kept(v, w)
<1> DEFINE u == [w EXCEPT !.drifts = IF @ = None THEN None ELSE @ - 1]
<1>1. Kept(u, w)
  BY OtherPartKept
<1>2. \A d : Kept(SetState(u, d), u)
  BY <1>1, SetStateKept DEF Kept
<1> HIDE DEF u
<1>3. \E d : v = SetState(u, d)
  BY DEF Disturbed, u
<1> QED
  BY <1>1, <1>2, <1>3, KeptTransitive

LEMMA AlwaysCounting == ASSUME MockIsBackend PROVE Spec => []Counting(world)
<1>1. Init => Counting(world)
  BY DEF Init, MockIsBackend
<1>2. Counting(world) /\ [Next]_vars => Counting(world)'
  <2> SUFFICES ASSUME Counting(world), [Next]_vars PROVE Counting(world)'
    OBVIOUS
  <2>1. CASE \E fields : world' = BackendAcquire(world, fields)
    BY <2>1 DEF MockIsBackend, Acquire, Counting
  <2>2. CASE \E outcome \in BackendCommand(world, Step) : world' = outcome.world
    BY <2>2, OutcomesKept DEF MockIsBackend, Kept
  <2>3. CASE world' = BackendStop(world)
    BY <2>3, CommandKept DEF MockIsBackend, Stop, Kept
  <2>4. CASE world' \in Drifts(world)
    BY <2>4, DisturbedKept DEF MockIsBackend, Kept
  <2> QED
    BY <2>1, <2>2, <2>3, <2>4, WorldSteps
<1> QED
  BY <1>1, <1>2, PTL DEF Spec

\* What the guard lets pass on the evidence of this world was sensed in it.
LEMMA AllowedIsSensed ==
    ASSUME Sensor.overrides = <<>>, NEW w, NEW step, Allowed(step, Observe(w)),
           NEW i \in DOMAIN Preconditions(step),
           Preconditions(step)[i].field \in Sensor.hidden \cup Sensor.stale
    PROVE  ~Unavailable(w, Preconditions(step)[i].field)
BY KnownIsSensed DEF Allowed, Satisfied

\* No command goes out while a field it needs is hidden or stale.
THEOREM NothingIsAssumed ==
    ASSUME MockIsBackend, Sensor.overrides = <<>>
    PROVE  Spec => []NothingAssumed
<1>1. Init => NothingAssumed
  BY DEF Init, NothingAssumed
<1>2. NothingAssumed /\ Counting(world) /\ [Next]_vars => NothingAssumed'
  <2> SUFFICES ASSUME NothingAssumed, Counting(world), [Next]_vars, (pc = "dispatch")',
                      opts'.guard, NEW i \in DOMAIN Preconditions(Step'),
                      Preconditions(Step')[i].field \in Sensor.hidden \cup Sensor.stale
               PROVE  ~Unavailable(world', Preconditions(Step')[i].field)
    BY DEF NothingAssumed
  <2>1. Evidence = Observe(world)
    BY DEF Evidence, MockIsBackend
  <2>2. CASE AdmitStep
    <3>1. /\ UNCHANGED <<world, opts, plan, index>>
          /\ opts.guard => Allowed(Step, Evidence)
      BY <2>2 DEF AdmitStep, Keep
    <3> QED
      BY <2>1, <3>1, AllowedIsSensed DEF Step
  <2>3. CASE Retry
    <3>1. /\ UNCHANGED <<world, opts, plan, index>>
          /\ opts.guard => Allowed(Step, Evidence)
      BY <2>3 DEF Retry, AfterRetry, Keep
    <3> QED
      BY <2>1, <3>1, AllowedIsSensed DEF Step
  <2>4. CASE Drift
    <3>1. world'.acquired = world.acquired /\ UNCHANGED <<pc, opts, plan, index>>
      BY <2>4, DisturbedKept DEF Drift, flow, MockIsBackend, Kept
    <3> QED
      BY <3>1 DEF NothingAssumed, Unavailable, Step
  <2>5. CASE UNCHANGED vars
    BY <2>5 DEF NothingAssumed, vars, flow, Step
  <2>6. CASE \/ Start \/ PreflightObserve \/ PreflightPass \/ PreflightRepair \/ PreflightStop
             \/ InvalidStep \/ RefuseStep \/ RuntimeObserve \/ RuntimeRepair \/ RuntimeStop
    BY <2>6 DEF Start, PreflightObserve, PreflightPass, PreflightRepair, PreflightStop, GiveUp,
                InvalidStep, RefuseStep, RuntimeObserve, RuntimeRepair, RuntimeStop
  <2>7. CASE \/ Dispatch \/ StepAchieved \/ StepNotAchieved \/ ProposeReplan \/ AdoptGrounded
             \/ RejectUngrounded \/ RepairDraft \/ RecoveryExhausted
             \/ Succeed \/ GoalMissed \/ Halt \/ Raise
    BY <2>7 DEF Dispatch, StepAchieved, StepNotAchieved, AfterFailure, ProposeReplan,
                AdoptGrounded, Adopt, RejectUngrounded, RepairDraft, RecoveryExhausted,
                Succeed, GoalMissed, Halt, Raise
  <2> QED
    BY <2>2, <2>3, <2>4, <2>5, <2>6, <2>7 DEF Next, Execute, Returned
<1> QED
  BY <1>1, <1>2, AlwaysCounting, PTL DEF Spec

(***************************************************************************)
(* Types of the mock's world.  They make its evidence typed, so that what  *)
(* is proved of repairs and replans holds of the executor over it.         *)
(***************************************************************************)
Events == [mode : STRING, drift : Seq(Effect)]

WorldFields == {"truth", "busy", "faults", "acquired", "slow", "drifts"}

WorldTyped(w) ==
    /\ w = [field \in WorldFields |-> w[field]]
    /\ w.truth \in [Fields -> Value]
    /\ w.busy \subseteq STRING
    /\ w.faults \in [SkillNames \cup {"safe_stop"} -> Seq(Events)]

\* The registry has the default skills, whose arguments are measured in grid points.
DefaultsRegistered ==
    /\ ToSet(DefaultRegistry) \subseteq ToSet(Contracts)
    /\ Metres \subseteq Int /\ Heights \subseteq Int /\ Yaws \subseteq Int /\ Pitches \subseteq Int

\* The default skills are registered, and what the instance chooses is typed.
MockIsTyped ==
    /\ DefaultsRegistered
    /\ Sensor.overrides \in Seq(Effect) /\ Sensor.contradictions \subseteq Fields
    /\ Sensor.stale \subseteq Fields
    /\ \A name \in DOMAIN Handlers : Handlers[name] \in Seq(Effect)
    /\ \A name \in DOMAIN PermanentFaults : PermanentFaults[name] \in Events
    /\ Disturbances \subseteq Seq(Effect)
    /\ \A w \in Worlds : WorldTyped(w)

LEMMA TruthTyped ==
    ASSUME NEW truth \in [Fields -> Value], NEW changes \in Seq(Effect)
    PROVE  With([val |-> truth], changes).val \in [Fields -> Value]
<1> DEFINE s == [val |-> truth, stale |-> {}, aged |-> {}, conflicts |-> {}, busy |-> {}]
<1>1. s \in States /\ s.val = truth
  BY DEF States
<1>2. With([val |-> truth], changes).val = With(s, changes).val
  BY DEF With
<1> HIDE DEF s
<1> QED
  BY <1>1, <1>2, WithTyped DEF States

\* A world changes in one of its parts.
LEMMA PartTyped ==
    ASSUME NEW w, WorldTyped(w)
    PROVE  /\ \A x \in [Fields -> Value] : WorldTyped([w EXCEPT !.truth = x])
           /\ \A x \in SUBSET STRING : WorldTyped([w EXCEPT !.busy = x])
           /\ \A x \in [SkillNames \cup {"safe_stop"} -> Seq(Events)] :
                 WorldTyped([w EXCEPT !.faults = x])
           /\ \A x : /\ WorldTyped([w EXCEPT !.acquired = x])
                     /\ WorldTyped([w EXCEPT !.slow = x])
                     /\ WorldTyped([w EXCEPT !.drifts = x])
<1> USE DEF WorldTyped, WorldFields
<1>1. \A x \in [Fields -> Value] : WorldTyped([w EXCEPT !.truth = x])
  OBVIOUS
<1>2. \A x \in SUBSET STRING : WorldTyped([w EXCEPT !.busy = x])
  OBVIOUS
<1>3. \A x \in [SkillNames \cup {"safe_stop"} -> Seq(Events)] :
         WorldTyped([w EXCEPT !.faults = x])
  OBVIOUS
<1>4. \A x : WorldTyped([w EXCEPT !.acquired = x])
  OBVIOUS
<1>5. \A x : WorldTyped([w EXCEPT !.slow = x])
  OBVIOUS
<1>6. \A x : WorldTyped([w EXCEPT !.drifts = x])
  OBVIOUS
<1> QED
  BY <1>1, <1>2, <1>3, <1>4, <1>5, <1>6

LEMMA SetStateTyped ==
    ASSUME NEW w, WorldTyped(w), NEW changes \in Seq(Effect)
    PROVE  WorldTyped(SetState(w, changes))
<1>1. With([val |-> w.truth], changes).val \in [Fields -> Value]
  BY TruthTyped DEF WorldTyped
<1>2. SetState(w, changes) = [w EXCEPT !.truth = With([val |-> w.truth], changes).val]
  BY DEF SetState
<1> QED
  BY <1>1, <1>2, PartTyped

LEMMA EventTyped ==
    ASSUME MockIsTyped, NEW w, WorldTyped(w), NEW name \in SkillNames \cup {"safe_stop"}
    PROVE  NextEvent(w, name).drift \in Seq(Effect) /\ WorldTyped(Consume(w, name))
<1> DEFINE queue == w.faults[name]
           rest  == IF queue = <<>> THEN queue ELSE Tail(queue)
<1>1. queue \in Seq(Events) /\ w.faults \in [SkillNames \cup {"safe_stop"} -> Seq(Events)]
  BY DEF WorldTyped
<1>2. queue # <<>> => Head(queue) \in Events /\ Tail(queue) \in Seq(Events)
  BY <1>1, HeadTailProperties
<1>3. NextEvent(w, name).drift \in Seq(Effect)
  <2>1. NoEvent.drift \in Seq(Effect)
    BY DEF NoEvent
  <2>2. \A e \in Events : e.drift \in Seq(Effect)
    BY DEF Events
  <2>3. NextEvent(w, name) = NoEvent \/ NextEvent(w, name) \in Events
    BY <1>2 DEF NextEvent, MockIsTyped
  <2> QED
    BY <2>1, <2>2, <2>3
<1>4. rest \in Seq(Events)
  BY <1>1, <1>2
<1>5. Consume(w, name) = [w EXCEPT !.faults = [w.faults EXCEPT ![name] = rest]]
  BY DEF Consume
<1> DEFINE left == [w.faults EXCEPT ![name] = rest]
<1>6. left \in [SkillNames \cup {"safe_stop"} -> Seq(Events)]
  <2> HIDE DEF rest, queue
  <2> QED
    BY <1>1, <1>4
<1>7. WorldTyped(Consume(w, name))
  <2>1. Consume(w, name) = [w EXCEPT !.faults = left]
    BY <1>5
  <2>2. \A x \in [SkillNames \cup {"safe_stop"} -> Seq(Events)] :
           WorldTyped([w EXCEPT !.faults = x])
    BY PartTyped
  <2> HIDE DEF left
  <2>3. WorldTyped([w EXCEPT !.faults = left])
    BY <1>6, <2>2
  <2> QED
    BY <2>1, <2>3
<1> QED
  BY <1>3, <1>7

\* A built-in skill has the contract of DefaultSkills.
LEMMA DefaultContract ==
    ASSUME DefaultsRegistered, NEW c \in ToSet(DefaultRegistry)
    PROVE  c \in ToSet(Contracts) /\ Contract(c.name) = c /\ IsContract(c)
BY ContractFound, RegistryAssumption DEF DefaultsRegistered

LEMMA SetTyped ==
    ASSUME NEW f \in Fields, NEW v \in Value PROVE Set(f, v) \in Seq(Effect)
<1>1. [field |-> f, value |-> v] \in Effect
  BY DEF Effect
<1> QED
  BY <1>1 DEF Set

\* A valid step of a default skill moves fields, to values of the grid.
LEMMA MovesFields ==
    ASSUME DefaultsRegistered, NEW step, ValidStep(step)
    PROVE  /\ step.skill \in {"retract_arm", "extend_arm"} =>
                 Resolve(ArmSafe, step.args) \in Fields /\ Resolve(ArmReady, step.args) \in Fields
           /\ step.skill = "move_agv" => "agv_position_m" \in Fields /\ step.args.distance_m \in Int
           /\ step.skill = "set_lift" => "lift_height_mm" \in Fields /\ step.args.height_mm \in Int
           /\ step.skill = "set_head" =>
                 /\ "head_yaw_deg" \in Fields /\ "head_pitch_deg" \in Fields
                 /\ "yaw_deg" \in DOMAIN step.args => step.args["yaw_deg"] \in Int
                 /\ "pitch_deg" \in DOMAIN step.args => step.args["pitch_deg"] \in Int
<1> DEFINE args == step.args
           retract == ArmContract("retract_arm", Yes)
           extend  == ArmContract("extend_arm", No)
<1>1. {retract, extend, MoveAgv, SetLift, SetHead} \subseteq ToSet(DefaultRegistry)
  <2>1. /\ DefaultRegistry[1] = retract /\ DefaultRegistry[2] = extend
        /\ DefaultRegistry[3] = MoveAgv /\ DefaultRegistry[4] = SetLift
        /\ DefaultRegistry[5] = SetHead /\ DOMAIN DefaultRegistry = 1 .. 5
    BY DEF DefaultRegistry
  <2> HIDE DEF retract, extend
  <2> QED
    BY <2>1 DEF ToSet
<1>2. ValidArguments(Contract(step.skill), args)
  BY DEF ValidStep
<1>3. ASSUME NEW safe, NEW name, ArmContract(name, safe) \in ToSet(DefaultRegistry),
             step.skill = name
      PROVE  Resolve(ArmSafe, args) \in Fields /\ Resolve(ArmReady, args) \in Fields
  <2> DEFINE c == ArmContract(name, safe)
  <2>1. c.name = name /\ IsContract(c) /\ Contract(name) = c
    BY <1>3, DefaultContract DEF ArmContract
  <2>2. ValidArguments(c, args)
    BY <1>2, <1>3, <2>1
  <2>3. IsTemplate(c, ArmReady)
    <3>1. c.pre = <<Needs(ArmReady)>>
      BY DEF ArmContract
    <3>2. Needs(ArmReady).field = ArmReady
      BY DEF Needs
    <3>3. \A x : x \in ToSet(<<x>>)
      BY DEF ToSet
    <3>4. Needs(ArmReady) \in ToSet(c.pre)
      BY <3>1, <3>3
    <3> QED
      BY <2>1, <3>2, <3>4 DEF IsContract, IsPrecondition
  <2>4. IsTemplate(c, ArmSafe)
    <3>1. c.effects[1].field = ArmSafe /\ 1 \in DOMAIN c.effects
      BY DEF ArmContract, Assigns
    <3>2. c.effects[1] \in ToSet(c.effects)
      BY <3>1 DEF ToSet
    <3> QED
      BY <2>1, <3>1, <3>2 DEF IsContract, IsEffect
  <2> QED
    BY <2>2, <2>3, <2>4, Resolves
\* The field an effect of a registered skill sets.
<1>4. ASSUME NEW c \in ToSet(DefaultRegistry), NEW f, NEW op, NEW arg, NEW when,
             Sets(f, op, arg, when) \in ToSet(c.effects)
      PROVE  f \in Fields
  <2>1. IsTemplate(c, Plain(f))
    BY <1>4, DefaultContract DEF IsContract, IsEffect, Sets
  <2> QED
    BY <2>1 DEF IsTemplate, Plain
<1>5. ASSUME step.skill \in {"retract_arm", "extend_arm"}
      PROVE  Resolve(ArmSafe, args) \in Fields /\ Resolve(ArmReady, args) \in Fields
  BY <1>1, <1>3, <1>5
<1>6. ASSUME step.skill = "move_agv"
      PROVE  "agv_position_m" \in Fields /\ args.distance_m \in Int
  <2>1. MoveAgv.name = "move_agv" /\ Contract("move_agv") = MoveAgv
    BY <1>1, DefaultContract DEF MoveAgv
  <2>2. args.distance_m \in Metres
    BY <1>2, <1>6, <2>1 DEF ValidArguments, MoveAgv, Required
  <2>3. "agv_position_m" \in Fields
    BY <1>1, <1>4 DEF MoveAgv, ToSet
  <2> QED
    BY <2>2, <2>3 DEF DefaultsRegistered
<1>7. ASSUME step.skill = "set_lift"
      PROVE  "lift_height_mm" \in Fields /\ args.height_mm \in Int
  <2>1. SetLift.name = "set_lift" /\ Contract("set_lift") = SetLift
    BY <1>1, DefaultContract DEF SetLift
  <2>2. args.height_mm \in Heights
    BY <1>2, <1>7, <2>1 DEF ValidArguments, SetLift, Required
  <2>3. "lift_height_mm" \in Fields
    BY <1>1, <1>4 DEF SetLift, ToSet
  <2> QED
    BY <2>2, <2>3 DEF DefaultsRegistered
<1>8. ASSUME step.skill = "set_head"
      PROVE  /\ "head_yaw_deg" \in Fields /\ "head_pitch_deg" \in Fields
             /\ "yaw_deg" \in DOMAIN args => args["yaw_deg"] \in Int
             /\ "pitch_deg" \in DOMAIN args => args["pitch_deg"] \in Int
  <2>1. SetHead.name = "set_head" /\ Contract("set_head") = SetHead
    BY <1>1, DefaultContract DEF SetHead
  <2>2. /\ "yaw_deg" \in DOMAIN args => args["yaw_deg"] \in Yaws
        /\ "pitch_deg" \in DOMAIN args => args["pitch_deg"] \in Pitches
    BY <1>2, <1>8, <2>1 DEF ValidArguments, SetHead, Optional
  <2>3. "head_yaw_deg" \in Fields /\ "head_pitch_deg" \in Fields
    <3>1. /\ SetHead.effects[1] = Sets("head_yaw_deg", "assign", "yaw_deg", "yaw_deg")
          /\ SetHead.effects[2] = Sets("head_pitch_deg", "assign", "pitch_deg", "pitch_deg")
          /\ DOMAIN SetHead.effects = 1 .. 2
      BY DEF SetHead
    <3>2. /\ Sets("head_yaw_deg", "assign", "yaw_deg", "yaw_deg") \in ToSet(SetHead.effects)
          /\ Sets("head_pitch_deg", "assign", "pitch_deg", "pitch_deg") \in ToSet(SetHead.effects)
      BY <3>1 DEF ToSet
    <3> QED
      BY <1>1, <1>4, <3>2
  <2> QED
    BY <2>2, <2>3 DEF DefaultsRegistered
<1> QED
  BY <1>5, <1>6, <1>7, <1>8

\* What a built-in skill does are values for fields.
LEMMA TransitionTyped ==
    ASSUME MockIsTyped, NEW w, WorldTyped(w), NEW step, ValidStep(step),
           step.skill \in DOMAIN Handlers \cup (Builtins \ {"safe_stop"})
    PROVE  Transition(w, step.skill, step.args) \in Seq(Effect)
<1> DEFINE args == step.args
           did  == Transition(w, step.skill, args)
<1>1. CASE step.skill \in DOMAIN Handlers
  BY <1>1 DEF Transition, MockIsTyped
<1> SUFFICES ASSUME step.skill \notin DOMAIN Handlers, step.skill \in Builtins \ {"safe_stop"}
             PROVE  did \in Seq(Effect)
  BY <1>1
<1>2. Yes \in Value /\ No \in Value /\ Int \subseteq Value
  BY DEF Yes, No, Value
<1>3. DefaultsRegistered
  BY DEF MockIsTyped
<1>4. CASE step.skill \in {"retract_arm", "extend_arm"}
  <2> DEFINE safe == IF step.skill = "retract_arm" THEN Yes ELSE No
  <2>1. Resolve(ArmSafe, args) \in Fields /\ Resolve(ArmReady, args) \in Fields
    BY <1>3, <1>4, MovesFields
  <2>2. did = Set(Resolve(ArmSafe, args), safe) \o Set(Resolve(ArmReady, args), Yes)
    BY <1>4 DEF Transition
  <2>3. safe \in Value
    BY <1>2
  <2> HIDE DEF safe, did
  <2>4. /\ Set(Resolve(ArmSafe, args), safe) \in Seq(Effect)
        /\ Set(Resolve(ArmReady, args), Yes) \in Seq(Effect)
    BY <1>2, <2>1, <2>3, SetTyped
  <2> QED
    BY <2>2, <2>4, ConcatProperties
<1>5. CASE step.skill = "move_agv"
  <2> DEFINE from == w.truth["agv_position_m"]
             to   == IF from = None THEN None ELSE from + args.distance_m
  <2>1. "agv_position_m" \in Fields /\ args.distance_m \in Int
    BY <1>3, <1>5, MovesFields
  <2>2. from \in Value
    BY <2>1 DEF WorldTyped
  <2>3. did = Set("agv_position_m", to)
    BY <1>5 DEF Transition
  <2> HIDE DEF from
  <2>4. to \in Value
    BY <2>1, <2>2 DEF Value
  <2> HIDE DEF to, did
  <2> QED
    BY <2>1, <2>3, <2>4, SetTyped
<1>6. CASE step.skill = "set_lift"
  <2>1. "lift_height_mm" \in Fields /\ args.height_mm \in Value
    BY <1>2, <1>3, <1>6, MovesFields
  <2>2. did = Set("lift_height_mm", args.height_mm)
    BY <1>6 DEF Transition
  <2> QED
    BY <2>1, <2>2, SetTyped
<1>7. CASE step.skill = "set_head"
  <2> DEFINE yaw   == IF "yaw_deg" \in DOMAIN args THEN Set("head_yaw_deg", args.yaw_deg) ELSE <<>>
             pitch == IF "pitch_deg" \in DOMAIN args THEN Set("head_pitch_deg", args.pitch_deg)
                      ELSE <<>>
  <2>1. did = yaw \o pitch
    BY <1>7 DEF Transition
  <2>2. /\ "head_yaw_deg" \in Fields /\ "head_pitch_deg" \in Fields
        /\ "yaw_deg" \in DOMAIN args => args.yaw_deg \in Value
        /\ "pitch_deg" \in DOMAIN args => args.pitch_deg \in Value
    BY <1>2, <1>3, <1>7, MovesFields
  <2>3. yaw \in Seq(Effect)
    BY <2>2, SetTyped
  <2>4. pitch \in Seq(Effect)
    BY <2>2, SetTyped
  <2> HIDE DEF yaw, pitch
  <2> QED
    BY <2>1, <2>3, <2>4, ConcatProperties
<1> QED
  BY <1>4, <1>5, <1>6, <1>7 DEF Builtins

\* Wherever the command is carried out, it does what the fields can hold.
Sensible(name, args) ==
    name \in (DOMAIN Handlers \cup Builtins) \ {"safe_stop"}
        => \A v : WorldTyped(v) => Transition(v, name, args) \in Seq(Effect)

LEMMA CommandTyped ==
    ASSUME MockIsTyped, NEW w, WorldTyped(w), NEW name \in SkillNames \cup {"safe_stop"}, NEW args,
           Sensible(name, args)
    PROVE  WorldTyped(Command(w, name, args).world)
<1> DEFINE event == NextEvent(w, name)
           v     == SetState(Consume(w, name), event.drift)
<1>1. WorldTyped(v)
  BY EventTyped, SetStateTyped
<1>2. \/ Command(w, name, args).world = v
      \/ Command(w, name, args).world = [v EXCEPT !.busy = {}]
      \/ /\ name \in (DOMAIN Handlers \cup Builtins) \ {"safe_stop"}
         /\ Command(w, name, args).world = SetState(v, Transition(v, name, args))
  <2> HIDE DEF event, v
  <2> QED
    BY DEF Command, Receipt, event, v
<1> HIDE DEF v
<1>3. WorldTyped([v EXCEPT !.busy = {}])
  BY <1>1, PartTyped
<1>4. name \in (DOMAIN Handlers \cup Builtins) \ {"safe_stop"}
        => WorldTyped(SetState(v, Transition(v, name, args)))
  BY <1>1, SetStateTyped DEF Sensible
<1> QED
  BY <1>1, <1>2, <1>3, <1>4

LEMMA OutcomesTyped ==
    ASSUME MockIsTyped, NEW w, WorldTyped(w), NEW step, ValidStep(step), NEW o \in Outcomes(w, step)
    PROVE  WorldTyped(o.world)
<1> DEFINE r == Command(w, step.skill, step.args)
<1>1. step.skill \in SkillNames
  BY DEF ValidStep
<1>2. WorldTyped(r.world)
  <2>1. Sensible(step.skill, step.args)
    BY TransitionTyped DEF Sensible
  <2> QED
    BY <1>1, <2>1, CommandTyped
<1> HIDE DEF r
<1>3. WorldTyped([r.world EXCEPT !.slow = @ - 1])
  BY <1>2, PartTyped
<1>4. o.world \in {r.world, [r.world EXCEPT !.slow = @ - 1]}
  BY DEF Outcomes, r
<1> QED
  BY <1>2, <1>3, <1>4

LEMMA ObserveTyped ==
    ASSUME MockIsTyped, NEW w, WorldTyped(w) PROVE Observe(w) \in States
<1> DEFINE hidden == {f \in Sensor.hidden : Unavailable(w, f)}
           seen   == [f \in Fields |-> IF f \in hidden THEN None ELSE w.truth[f]]
<1>1. seen \in [Fields -> Value]
  BY DEF WorldTyped, Value
<1>2. With([val |-> seen], Sensor.overrides).val \in [Fields -> Value]
  BY <1>1, TruthTyped DEF MockIsTyped
<1> DEFINE val == With([val |-> seen], Sensor.overrides).val
           old == {f \in Sensor.stale : Unavailable(w, f)}
<1>3. Observe(w) = [val       |-> val,
                    stale     |-> old,
                    aged      |-> {},
                    conflicts |-> Sensor.contradictions,
                    busy      |-> w.busy]
  BY DEF Observe
<1>4. old \subseteq Fields /\ Sensor.contradictions \subseteq Fields /\ w.busy \subseteq STRING
  BY DEF MockIsTyped, WorldTyped
<1>5. val \in [Fields -> Value]
  BY <1>2
<1> HIDE DEF seen, val, old
<1> QED
  BY <1>3, <1>4, <1>5 DEF States

LEMMA DisturbedTyped ==
    ASSUME MockIsTyped, NEW w, WorldTyped(w), NEW v \in Disturbed(w) PROVE WorldTyped(v)
<1> DEFINE u == [w EXCEPT !.drifts = IF @ = None THEN None ELSE @ - 1]
<1>1. WorldTyped(u)
  BY PartTyped
<1> HIDE DEF u
<1>2. \E d \in Disturbances : v = SetState(u, d)
  BY DEF Disturbed, u
<1> QED
  BY <1>1, <1>2, SetStateTyped DEF MockIsTyped

\* Whatever the executor does, the world stays typed and the plans keep what
\* they block.
LEMMA MockStaysTyped ==
    ASSUME MockIsBackend, MockIsTyped
    PROVE  Spec => [](WorldTyped(world) /\ Blocking)
<1>1. \A w : WorldTyped(w) => BackendObserve(w) \in States
  BY ObserveTyped DEF MockIsBackend
<1>2. Init => WorldTyped(world) /\ Blocking
  BY TasksAssumption DEF Init, MockIsTyped, Blocking, PlanKept
<1>3. WorldTyped(world) /\ Blocking /\ TypeOK /\ [Next]_vars => WorldTyped(world)' /\ Blocking'
  <2> SUFFICES ASSUME WorldTyped(world), Blocking, TypeOK, [Next]_vars
               PROVE  WorldTyped(world)' /\ Blocking'
    OBVIOUS
  <2>0. SUFFICES WorldTyped(world')
    BY <1>1, StepKeepsBlocking DEF EvidenceTyped, Evidence
  <2>1. CASE \E fields : world' = BackendAcquire(world, fields)
    <3>1. PICK fields : world' = Acquire(world, fields)
      BY <2>1 DEF MockIsBackend
    <3> QED
      BY <3>1, PartTyped DEF Acquire
  <2>2. CASE pc = "dispatch" /\ \E outcome \in BackendCommand(world, Step) : world' = outcome.world
    <3>1. PICK outcome \in Outcomes(world, Step) : world' = outcome.world
      BY <2>2 DEF MockIsBackend
    <3>2. ValidStep(Step)
      BY <2>2 DEF Blocking
    <3> QED
      BY <3>1, <3>2, OutcomesTyped
  <2>3. CASE world' = BackendStop(world)
    <3>1. world' = Command(world, "safe_stop", <<>>).world
      BY <2>3 DEF MockIsBackend, Stop
    <3>2. Sensible("safe_stop", <<>>)
      BY DEF Sensible
    <3> QED
      BY <3>1, <3>2, CommandTyped
  <2>4. CASE world' \in Drifts(world)
    BY <2>4, DisturbedTyped DEF MockIsBackend
  <2> QED
    BY <2>1, <2>2, <2>3, <2>4, WorldSteps
<1> QED
  BY <1>2, <1>3, TypeCorrect, PTL DEF Spec

\* So its evidence is typed.
LEMMA MockEvidenceTyped ==
    ASSUME MockIsBackend, MockIsTyped
    PROVE  Spec => []EvidenceTyped
<1>1. WorldTyped(world) => EvidenceTyped
  BY ObserveTyped DEF EvidenceTyped, Evidence, MockIsBackend
<1> QED
  BY <1>1, MockStaysTyped, PTL

\* Over the mock, a skill a replan blocked is never commanded again.
THEOREM MockNeverCommandsBlocked ==
    ASSUME MockIsBackend, MockIsTyped
    PROVE  Spec => []BlockedNeverCommanded
BY MockEvidenceTyped, BlockedIsNeverCommanded, PTL

\* Over the mock, REGROUND is the only way a call can go on for ever.
THEOREM MockOnlyRegroundGoesOn ==
    ASSUME MockIsBackend, MockIsTyped
    PROVE  Spec => WorkRunsOut
BY MockEvidenceTyped, OnlyRegroundGoesOn, PTL

(***************************************************************************)
(* The sampled robot.  Between two calls of the executor on in-time        *)
(* samples there is none on the wire and none due, and the last one        *)
(* received shows the robot as it is: every call that may change the robot *)
(* publishes one sample and waits for it.                                  *)
(***************************************************************************)
WorldParts == {"scenario", "truth", "script", "unknown", "stale", "overrides", "refresh",
               "semantics", "deaf", "prompt", "published", "due", "wire", "shown", "stops"}

Whole(w) == w = [part \in WorldParts |-> w[part]]

\* n is the number of the last sample, and it was received.
Idle(w, n) ==
    /\ Whole(w)
    /\ w.prompt => n \in Nat /\ w.published = n /\ w.due = 0 /\ w.wire = <<>> /\ w.shown.seq = n

Settled(w) ==
    /\ Idle(w, w.shown.seq)
    /\ w.prompt => w.shown.val = Sample(w).val

LEMMA PartChanged ==
    ASSUME NEW w, Whole(w), NEW part \in WorldParts, NEW x
    PROVE  LET v == [w EXCEPT ![part] = x]
           IN  Whole(v) /\ v[part] = x /\ \A other \in WorldParts \ {part} : v[other] = w[other]
<1> DEFINE v == [w EXCEPT ![part] = x]
<1>1. v = [other \in WorldParts |-> IF other = part THEN x ELSE w[other]]
  BY DEF Whole
<1> HIDE DEF v
<1>2. Whole(v) /\ v[part] = x /\ \A other \in WorldParts \ {part} : v[other] = w[other]
  BY <1>1 DEF Whole
<1> QED
  BY <1>2 DEF v

\* What a world publishes.
LEMMA Published ==
    ASSUME NEW w, Whole(w)
    PROVE  LET v == Publish(w)
           IN  /\ Whole(v) /\ v.published = w.published + 1 /\ v.wire = Append(w.wire, Sample(w))
               /\ \A part \in WorldParts \ {"published", "wire"} : v[part] = w[part]
               /\ Sample(v).val = Sample(w).val
<1> DEFINE v == Publish(w)
<1>1. v = [part \in WorldParts |-> CASE part = "published" -> w.published + 1
                                     [] part = "wire"      -> Append(w.wire, Sample(w))
                                     [] OTHER              -> w[part]]
  BY DEF Whole, Publish, WorldParts
<1> HIDE DEF v
<1>2. /\ Whole(v) /\ v.published = w.published + 1 /\ v.wire = Append(w.wire, Sample(w))
      /\ \A part \in WorldParts \ {"published", "wire"} : v[part] = w[part]
  BY <1>1 DEF Whole, WorldParts
<1>3. Sample(v).val = Sample(w).val
  <2>1. v.unknown = w.unknown /\ v.overrides = w.overrides /\ v.truth = w.truth
    BY <1>2 DEF WorldParts
  <2> QED
    BY <2>1 DEF Sample
<1> QED
  BY <1>2, <1>3 DEF v

\* The wait takes a sample off the wire.
LEMMA TakenOff ==
    ASSUME NEW v, Whole(v), NEW i
    PROVE  LET u == ReceivedUpTo(v, i)
           IN  /\ Whole(u) /\ u.shown = v.wire[i] /\ u.wire = SubSeq(v.wire, i + 1, Len(v.wire))
               /\ \A part \in WorldParts \ {"shown", "wire"} : u[part] = v[part]
               /\ Sample(u).val = Sample(v).val
<1> DEFINE u == ReceivedUpTo(v, i)
<1>1. u = [part \in WorldParts |-> CASE part = "shown" -> v.wire[i]
                                     [] part = "wire"  -> SubSeq(v.wire, i + 1, Len(v.wire))
                                     [] OTHER          -> v[part]]
  BY DEF Whole, WorldParts, ReceivedUpTo
<1> HIDE DEF u
<1>2. /\ Whole(u) /\ u.shown = v.wire[i] /\ u.wire = SubSeq(v.wire, i + 1, Len(v.wire))
      /\ \A part \in WorldParts \ {"shown", "wire"} : u[part] = v[part]
  BY <1>1 DEF Whole, WorldParts
<1>3. Sample(u).val = Sample(v).val
  <2>1. v.unknown = u.unknown /\ v.overrides = u.overrides /\ v.truth = u.truth
    BY <1>2 DEF WorldParts
  <2> QED
    BY <2>1 DEF Sample
<1> QED
  BY <1>2, <1>3 DEF u

\* Due is a sample that is published while the wait goes on.
LEMMA DuePublished ==
    ASSUME NEW w, Whole(w)
    PROVE  LET v == PublishDue(w)
           IN  /\ Whole(v) /\ v.due = w.due - 1
               /\ v.published = w.published + 1 /\ v.wire = Append(w.wire, Sample(w))
               /\ \A part \in WorldParts \ {"published", "wire", "due"} : v[part] = w[part]
               /\ Sample(v).val = Sample(w).val
<1> DEFINE y == [w EXCEPT !.due = @ - 1]
           v == Publish(y)
<1>1. Whole(y) /\ \A part \in WorldParts \ {"due"} : y[part] = w[part]
  BY PartChanged DEF WorldParts
<1>2. y.due = w.due - 1
  BY DEF Whole, WorldParts
<1>3. Sample(y) = Sample(w)
  <2>1. /\ y.unknown = w.unknown /\ y.overrides = w.overrides /\ y.truth = w.truth
        /\ y.published = w.published /\ y.stale = w.stale
    BY <1>1 DEF WorldParts
  <2> HIDE DEF y
  <2> QED
    BY <2>1 DEF Sample
<1> HIDE DEF y
<1>4. /\ Whole(v) /\ v.published = y.published + 1 /\ v.wire = Append(y.wire, Sample(y))
      /\ \A part \in WorldParts \ {"published", "wire"} : v[part] = y[part]
      /\ Sample(v).val = Sample(y).val
  BY <1>1, Published
<1> HIDE DEF v
<1>5. /\ Whole(v) /\ v.due = w.due - 1
      /\ v.published = w.published + 1 /\ v.wire = Append(w.wire, Sample(w))
      /\ \A part \in WorldParts \ {"published", "wire", "due"} : v[part] = w[part]
      /\ Sample(v).val = Sample(w).val
  BY <1>1, <1>2, <1>3, <1>4 DEF WorldParts
<1> QED
  BY <1>5 DEF v, y, PublishDue

\* n + 1 is the number of the one sample on the wire, which shows the robot as
\* it is.
Answered(v, n) ==
    /\ Whole(v) /\ v.published = n + 1 /\ v.due = 0
    /\ Len(v.wire) = 1 /\ v.wire[1].seq = n + 1 /\ v.wire[1].val = Sample(v).val
    /\ v.wire \in Seq({v.wire[1]})

LEMMA AnswerTaken ==
    ASSUME NEW v, NEW n \in Nat, Answered(v, n)
    PROVE  Newer(v, n) = {1} /\ Settled(ReceivedUpTo(v, 1))
<1> DEFINE u == ReceivedUpTo(v, 1)
<1>1. /\ Whole(u) /\ u.shown = v.wire[1] /\ u.wire = SubSeq(v.wire, 2, Len(v.wire))
      /\ u.published = n + 1 /\ u.due = 0 /\ Sample(u).val = Sample(v).val
  <2>1. Whole(v)
    BY DEF Answered
  <2>2. /\ Whole(u) /\ u.shown = v.wire[1] /\ u.wire = SubSeq(v.wire, 1 + 1, Len(v.wire))
        /\ \A part \in WorldParts \ {"shown", "wire"} : u[part] = v[part]
        /\ Sample(u).val = Sample(v).val
    BY <2>1, TakenOff
  <2> HIDE DEF u
  <2> QED
    BY <2>2 DEF Answered, WorldParts
<1> HIDE DEF u
<1>2. SubSeq(v.wire, 2, Len(v.wire)) = <<>>
  BY DEF Answered
<1>3. Newer(v, n) = {1}
  BY DEF Newer, Answered
<1>4. Settled(u)
  BY <1>1, <1>2 DEF Settled, Idle, Answered
<1> QED
  BY <1>3, <1>4 DEF u

\* The wait of a call that published, or scheduled, one sample.
LEMMA AnswerAwaited ==
    ASSUME NEW w, NEW n \in Nat, NEW v, Answered(v, n), w.shown.seq = n,
           \/ w = v
           \/ w.due > 0 /\ w.prompt /\ Newer(w, n) = {} /\ v = PublishDue(w)
    PROVE  Settled(Awaited(w, n))
<1>1. Newer(v, n) = {1} /\ Settled(ReceivedUpTo(v, 1))
  BY AnswerTaken
<1>2. (CHOOSE i \in {1} : \A j \in {1} : i <= j) = 1
  OBVIOUS
<1>3. ~(w.shown.seq > n) /\ {1} # {}
  OBVIOUS
<1>4. (IF w.due > 0 /\ w.prompt /\ Newer(w, n) = {} THEN PublishDue(w) ELSE w) = v
  BY <1>1
<1>5. Awaited(w, n) = ReceivedUpTo(v, CHOOSE i \in Newer(v, n) : \A j \in Newer(v, n) : i <= j)
  BY <1>1, <1>3, <1>4 DEF Awaited
<1> QED
  BY <1>1, <1>2, <1>5

\* What the samples are made of stays.
Robot == WorldParts \ {"published", "due", "wire", "shown"}

LEMMA WaitedWhole ==
    ASSUME NEW v, Whole(v), NEW n
    PROVE  Whole(Awaited(v, n)) /\ \A part \in Robot : Awaited(v, n)[part] = v[part]
<1>1. \A x : Whole(x) => \A i : /\ Whole(ReceivedUpTo(x, i))
                                /\ \A part \in Robot : ReceivedUpTo(x, i)[part] = x[part]
  BY TakenOff DEF Robot
<1>2. Whole(PublishDue(v)) /\ \A part \in Robot : PublishDue(v)[part] = v[part]
  BY DuePublished DEF Robot
<1>3. \/ Awaited(v, n) = v
      \/ \E i : Awaited(v, n) \in {ReceivedUpTo(v, i), ReceivedUpTo(PublishDue(v), i)}
  BY DEF Awaited
<1> QED
  BY <1>1, <1>2, <1>3

\* A call that leaves the world idle, schedules a sample and waits for it
\* leaves it settled.
LEMMA WaitSettles ==
    ASSUME NEW w, NEW n, Idle(w, n), NEW delayed
    PROVE  Settled(Awaited(Schedule(w, delayed), n)) /\ Settled(Awaited(Publish(w), n))
<1> DEFINE later == [w EXCEPT !.due = @ + 1]
           now   == Publish(w)
<1>1. Whole(w)
  BY DEF Idle
<1>2. /\ Whole(later) /\ later.due = w.due + 1
      /\ \A part \in WorldParts \ {"due"} : later[part] = w[part]
  BY <1>1, PartChanged DEF WorldParts
<1>3. /\ Whole(now) /\ now.published = w.published + 1 /\ now.wire = Append(w.wire, Sample(w))
      /\ \A part \in WorldParts \ {"published", "wire"} : now[part] = w[part]
      /\ Sample(now).val = Sample(w).val
  BY <1>1, Published
<1>4. Schedule(w, delayed) \in {later, now}
  BY DEF Schedule
<1> HIDE DEF later, now
<1>5. CASE ~w.prompt
  <2>1. \A v \in {later, now} : Whole(v) /\ ~v.prompt
    BY <1>2, <1>3, <1>5 DEF WorldParts
  <2>2. \A v \in {later, now} : Settled(Awaited(v, n))
    BY <2>1, WaitedWhole DEF Settled, Idle, Robot, WorldParts
  <2> QED
    BY <1>4, <2>2 DEF now
<1>6. CASE w.prompt
  <2>1. n \in Nat /\ w.published = n /\ w.due = 0 /\ w.wire = <<>> /\ w.shown.seq = n
    BY <1>6 DEF Idle
  <2>2. \A v : Append(<<>>, v) = <<v>> /\ <<v>> \in Seq({v}) /\ Len(<<v>>) = 1 /\ <<v>>[1] = v
    OBVIOUS
  <2>3. Sample(w).seq = n + 1
    BY <2>1 DEF Sample
  <2>4. Answered(now, n) /\ now.shown.seq = n
    BY <1>3, <2>1, <2>2, <2>3 DEF Answered, WorldParts
  <2>5. Settled(Awaited(now, n))
    BY <2>1, <2>4, AnswerAwaited
  <2>6. /\ later.due = 1 /\ later.prompt /\ later.wire = <<>> /\ later.shown.seq = n
        /\ later.published = n
    BY <1>2, <1>6, <2>1 DEF WorldParts
  <2>7. Newer(later, n) = {}
    BY <2>6 DEF Newer
  <2>8. Answered(PublishDue(later), n)
    <3> DEFINE v == PublishDue(later)
    <3>1. /\ Whole(v) /\ v.due = 0 /\ v.published = n + 1 /\ v.wire = Append(<<>>, Sample(later))
          /\ Sample(v).val = Sample(later).val
      BY <1>2, <2>1, <2>6, DuePublished
    <3>2. Sample(later).seq = n + 1
      BY <2>6 DEF Sample
    <3> HIDE DEF v
    <3>3. Answered(v, n)
      BY <2>2, <3>1, <3>2 DEF Answered
    <3> QED
      BY <3>3 DEF v
  <2>9. Settled(Awaited(later, n))
    BY <2>1, <2>6, <2>7, <2>8, AnswerAwaited
  <2> QED
    BY <1>4, <2>5, <2>9 DEF now
<1> QED
  BY <1>5, <1>6

LEMMA WaitKeepsRobot ==
    ASSUME NEW w, Whole(w), NEW n, NEW delayed
    PROVE  \A part \in Robot : /\ Awaited(Schedule(w, delayed), n)[part] = w[part]
                               /\ Awaited(Publish(w), n)[part] = w[part]
<1> DEFINE later == [w EXCEPT !.due = @ + 1]
<1>1. Whole(later) /\ \A part \in Robot : later[part] = w[part]
  BY PartChanged DEF WorldParts, Robot
<1>2. Whole(Publish(w)) /\ \A part \in Robot : Publish(w)[part] = w[part]
  BY Published DEF Robot
<1>3. Schedule(w, delayed) \in {later, Publish(w)}
  BY DEF Schedule
<1> HIDE DEF later
<1> QED
  BY <1>1, <1>2, <1>3, WaitedWhole

(***************************************************************************)
(* The calls.                                                              *)
(***************************************************************************)
BehaviourModes == {"normal", "toctou", "no_motion", "fresh_spoof", "stall", "abort", "reject"}

IsScript(queue) ==
    /\ queue \in Seq(ToSet(queue))
    /\ \A b \in ToSet(queue) : b.mode \in BehaviourModes

Playable(script) == \A name \in DOMAIN script : IsScript(script[name])

\* The world between two calls.
Ready(w) == Settled(w) /\ Playable(w.script)

\* The backend is the sampled robot, and configure_scenario has waited for a
\* sample of the scenario it installed.
SampledIsBackend ==
    /\ \A w \in Worlds : Ready(w)
    /\ \A w : BackendObserve(w) = SampledObserve(w)
    /\ \A w, fields : BackendAcquire(w, fields) = SampledAcquire(w, fields)
    /\ \A w, step : BackendCommand(w, step) = SampledCommand(w, step)
    /\ \A w : Drifts(w) = SampledDrifts(w)

\* A part that no sample's number depends on.
LEMMA StillIdle ==
    ASSUME NEW w, NEW n, Idle(w, n), NEW part \in Robot \ {"prompt"}, NEW x
    PROVE  /\ Idle([w EXCEPT ![part] = x], n)
           /\ [w EXCEPT ![part] = x].shown = w.shown
           /\ \A other \in WorldParts \ {part} : [w EXCEPT ![part] = x][other] = w[other]
<1> DEFINE v == [w EXCEPT ![part] = x]
<1>1. Whole(w) /\ part \in WorldParts
  BY DEF Idle, Robot
<1>2. Whole(v) /\ \A other \in WorldParts \ {part} : v[other] = w[other]
  BY <1>1, PartChanged
<1> HIDE DEF v
<1>3. Idle(v, n) /\ v.shown = w.shown /\ \A other \in WorldParts \ {part} : v[other] = w[other]
  BY <1>2 DEF Idle, Robot, WorldParts
<1> QED
  BY <1>3 DEF v

LEMMA AcquireSettles ==
    ASSUME NEW w, Ready(w), NEW fields
    PROVE  Ready(SampledAcquire(w, fields))
<1> DEFINE n == w.shown.seq
           a == [w EXCEPT !.truth = With([val |-> @], w.refresh.values).val]
           b == [a EXCEPT !.unknown = @ \ fields]
           c == [b EXCEPT !.stale = @ \ fields]
           d == [c EXCEPT !.overrides = [f \in DOMAIN @ \ fields |-> @[f]]]
           v == Refreshed(w, fields)
<1>0. Idle(w, n)
  BY DEF Ready, Settled
<1>1. Idle(a, n) /\ a.script = w.script
  BY <1>0, StillIdle DEF Robot, WorldParts
<1> HIDE DEF a
<1>2. Idle(b, n) /\ b.script = w.script
  BY <1>1, StillIdle DEF Robot, WorldParts
<1> HIDE DEF b
<1>3. Idle(c, n) /\ c.script = w.script
  BY <1>2, StillIdle DEF Robot, WorldParts
<1> HIDE DEF c
<1>4. Idle(d, n) /\ d.script = w.script
  BY <1>3, StillIdle DEF Robot, WorldParts
<1>5. v \in {w, d}
  BY DEF Refreshed, a, b, c
<1> HIDE DEF d, v
<1>6. Idle(v, n) /\ v.script = w.script
  BY <1>0, <1>4, <1>5
<1> DEFINE u == Awaited(Schedule(v, w.refresh.delayed), n)
<1>7. Settled(u)
  BY <1>6, WaitSettles
<1>8. u.script = v.script
  BY <1>6, WaitKeepsRobot DEF Idle, Robot, WorldParts
<1> HIDE DEF u
<1>9. Ready(u)
  BY <1>6, <1>7, <1>8 DEF Ready
<1> QED
  BY <1>9 DEF SampledAcquire, u, v

\* The behaviour played is one that the robot knows.
LEMMA PlayedKnown ==
    ASSUME NEW w, Ready(w), NEW name
    PROVE  /\ NextBehaviour(w, name).mode \in BehaviourModes
           /\ Ready(Popped(w, name)) /\ Popped(w, name).shown = w.shown
<1> DEFINE playing == name \in DOMAIN w.script /\ w.script[name] # <<>>
           queue   == w.script[name]
           rest    == [w.script EXCEPT ![name] = Tail(queue)]
           v       == [w EXCEPT !.script = rest]
<1>1. CASE ~playing
  <2>1. NextBehaviour(w, name) = Behaviour("normal") /\ Popped(w, name) = w
    BY <1>1 DEF NextBehaviour, Popped
  <2> QED
    BY <2>1 DEF Behaviour, BehaviourModes
<1>2. CASE playing
  <2>1. queue \in Seq(ToSet(queue)) /\ queue # <<>> /\ \A b \in ToSet(queue) : b.mode \in BehaviourModes
    BY <1>2 DEF Ready, Playable, IsScript
  <2> HIDE DEF queue
  <2>2. /\ Head(queue) \in ToSet(queue)
        /\ ToSet(Tail(queue)) \subseteq ToSet(queue) /\ Tail(queue) \in Seq(ToSet(Tail(queue)))
    <3>1. Head(queue) \in ToSet(queue) /\ Tail(queue) \in Seq(ToSet(queue))
      BY <2>1, HeadTailProperties
    <3> QED
      BY <3>1, SequenceIsSequence DEF IsSequence
  <2>3. IsScript(Tail(queue))
    BY <2>1, <2>2 DEF IsScript
  <2>4. Playable(rest)
    <3>1. DOMAIN rest = DOMAIN w.script
          /\ \A x \in DOMAIN rest : rest[x] = IF x = name THEN Tail(queue) ELSE w.script[x]
      OBVIOUS
    <3> HIDE DEF rest
    <3> QED
      BY <2>3, <3>1 DEF Playable, Ready
  <2>5. /\ Idle(v, w.shown.seq) /\ v.shown = w.shown
        /\ \A other \in WorldParts \ {"script"} : v[other] = w[other]
    <3> DEFINE n == w.shown.seq
    <3>1. Idle(w, n) /\ "script" \in Robot \ {"prompt"}
      BY DEF Ready, Settled, Robot, WorldParts
    <3> HIDE DEF rest, n
    <3>2. /\ Idle(v, n) /\ v.shown = w.shown
          /\ \A other \in WorldParts \ {"script"} : v[other] = w[other]
      BY <3>1, StillIdle
    <3> QED
      BY <3>2 DEF n
  <2>6. v.script = rest
    BY DEF Ready, Settled, Idle, Whole, WorldParts
  <2>7. Popped(w, name) = v /\ NextBehaviour(w, name) = Head(queue)
    BY <1>2 DEF Popped, NextBehaviour, queue
  <2> HIDE DEF v, rest
  <2>8. Sample(v).val = Sample(w).val
    BY <2>5 DEF Sample, WorldParts
  <2>9. Ready(v)
    BY <2>4, <2>5, <2>6, <2>8 DEF Ready, Settled, WorldParts
  <2> QED
    BY <2>1, <2>2, <2>5, <2>7, <2>9
<1> QED
  BY <1>1, <1>2

LEMMA CommandSettles ==
    ASSUME NEW w, Ready(w), NEW step, NEW o \in SampledCommand(w, step)
    PROVE  Ready(o.world)
<1> DEFINE b == NextBehaviour(w, step.skill)
           v == Popped(w, step.skill)
           n == w.shown.seq
           x == Changed(v, b.change)
           y == Changed(x, Motion(x, step))
<1>1. b.mode \in BehaviourModes /\ Ready(v) /\ v.shown = w.shown
  BY PlayedKnown
<1>2. CASE b.mode = "reject"
  BY <1>1, <1>2 DEF SampledCommand
<1>3. CASE b.mode # "reject"
  <2>1. o.world = Awaited(Executed(v, step, b), n)
    BY <1>3 DEF SampledCommand
  <2>2. Executed(v, step, b) \in {Publish(v), Schedule(v, b.delayed), Schedule(y, b.delayed)}
    <3>1. b.mode \in {"stall", "abort"} \cup {"no_motion", "fresh_spoof"} \cup {"normal", "toctou"}
      BY <1>1, <1>3 DEF BehaviourModes
    <3> HIDE DEF b, v
    <3> QED
      BY <3>1 DEF Executed
  <2> HIDE DEF b, v
  <2>3. Idle(v, n)
    BY <1>1 DEF Ready, Settled
  <2>4. Idle(x, n) /\ x.script = v.script
    BY <2>3, StillIdle DEF Changed, Robot, WorldParts
  <2> HIDE DEF x
  <2>5. Idle(y, n) /\ y.script = v.script
    BY <2>4, StillIdle DEF Changed, Robot, WorldParts
  <2> HIDE DEF y
  <2>6. ASSUME NEW u, Idle(u, n), u.script = v.script
        PROVE  Ready(Awaited(Publish(u), n)) /\ Ready(Awaited(Schedule(u, b.delayed), n))
    BY <1>1, <2>6, WaitSettles, WaitKeepsRobot DEF Ready, Idle, Robot, WorldParts
  <2> QED
    BY <2>1, <2>2, <2>3, <2>5, <2>6
<1> QED
  BY <1>2, <1>3

\* On in-time samples nothing is left to happen between two calls; others come
\* when they come.
LEMMA NothingDrifts ==
    ASSUME NEW w, Ready(w), w.prompt PROVE SampledDrifts(w) = {}
BY DEF Ready, Settled, Idle, SampledDrifts

LEMMA LateDrifts ==
    ASSUME NEW w, Ready(w), ~w.prompt, NEW v \in SampledDrifts(w) PROVE Ready(v)
<1>1. Whole(w)
  BY DEF Ready, Settled, Idle
<1>2. CASE v = PublishDue(w)
  <2>1. Whole(v) /\ v.prompt = w.prompt /\ v.script = w.script
    BY <1>1, <1>2, DuePublished DEF WorldParts
  <2> QED
    BY <2>1 DEF Ready, Settled, Idle
<1>3. CASE v = Receive(w)
  <2>1. v = [part \in WorldParts |->
               CASE part = "shown" -> IF Head(w.wire).seq >= w.shown.seq THEN Head(w.wire) ELSE w.shown
                 [] part = "wire"  -> Tail(w.wire)
                 [] OTHER          -> w[part]]
    BY <1>1, <1>3 DEF Receive, Whole, WorldParts
  <2>2. Whole(v) /\ v.prompt = w.prompt /\ v.script = w.script
    BY <2>1 DEF Whole, WorldParts
  <2> QED
    BY <2>2 DEF Ready, Settled, Idle
<1> QED
  BY <1>2, <1>3 DEF SampledDrifts

(***************************************************************************)
(* The invariant: until a stop was asked for, the world is ready for the   *)
(* next call, and a step that is due to go out on in-time samples would be *)
(* admitted on what the backend shows now.                                 *)
(***************************************************************************)
Sampling == stops = 0 => Ready(world)

StillAdmitted == pc = "dispatch" /\ opts.guard /\ world.prompt => Allowed(Step, Evidence)

LEMMA StepKeepsSampling ==
    ASSUME SampledIsBackend, Sampling, Stopping, TypeOK, [Next]_vars
    PROVE  Sampling'
<1>1. CASE PreflightObserve \/ RuntimeObserve
  <2>1. PICK fields : world' = SampledAcquire(world, fields)
    BY <1>1 DEF PreflightObserve, RuntimeObserve, SampledIsBackend
  <2>2. stops' = stops
    BY <1>1 DEF PreflightObserve, RuntimeObserve, history
  <2> QED
    BY <2>1, <2>2, AcquireSettles DEF Sampling
<1>2. CASE Dispatch
  <2>1. PICK outcome \in BackendCommand(world, Step) : world' = outcome.world
    BY <1>2 DEF Dispatch
  <2>2. outcome \in SampledCommand(world, Step) /\ stops' = stops
    BY <1>2, <2>1 DEF SampledIsBackend, Dispatch
  <2> QED
    BY <2>1, <2>2, CommandSettles DEF Sampling
<1>3. CASE Halt
  BY <1>3 DEF Halt, TypeOK, Sampling
<1>4. CASE Drift
  <2>1. world' \in SampledDrifts(world) /\ stops' = stops
    BY <1>4 DEF Drift, SampledIsBackend, history
  <2> QED
    BY <2>1, NothingDrifts, LateDrifts DEF Sampling
<1>5. CASE \/ Start \/ PreflightPass \/ PreflightRepair \/ PreflightStop
           \/ InvalidStep \/ AdmitStep \/ RefuseStep \/ RuntimeRepair \/ RuntimeStop
           \/ StepAchieved \/ StepNotAchieved
  BY <1>5 DEF Start, PreflightPass, PreflightRepair, PreflightStop, GiveUp, InvalidStep,
              AdmitStep, RefuseStep, RuntimeRepair, RuntimeStop, StepAchieved,
              StepNotAchieved, Keep, history, Sampling
<1>6. CASE \/ Retry \/ ProposeReplan \/ AdoptGrounded \/ RejectUngrounded \/ RepairDraft
           \/ RecoveryExhausted \/ Succeed \/ GoalMissed \/ Raise \/ UNCHANGED vars
  BY <1>6 DEF Retry, ProposeReplan, AdoptGrounded, Adopt, RejectUngrounded, RepairDraft,
              RecoveryExhausted, Succeed, GoalMissed, Raise, Keep, vars, history, Sampling
<1> QED
  BY <1>1, <1>2, <1>3, <1>4, <1>5, <1>6 DEF Next, Execute, Returned

LEMMA StepKeepsAdmitted ==
    ASSUME SampledIsBackend, Sampling, Stopping, StillAdmitted, [Next]_vars
    PROVE  StillAdmitted'
<1> SUFFICES ASSUME (pc = "dispatch")', opts'.guard, world'.prompt
             PROVE  Allowed(Step, Evidence)'
  BY DEF StillAdmitted
<1>1. CASE AdmitStep
  <2>1. UNCHANGED <<opts, plan, index, world>> /\ (opts.guard => Allowed(Step, Evidence))
    BY <1>1 DEF AdmitStep, Keep
  <2> QED
    BY <2>1 DEF Step, Evidence
<1>2. CASE Retry
  <2>1. UNCHANGED <<opts, plan, index, world>> /\ (opts.guard => Allowed(Step, Evidence))
    BY <1>2 DEF Retry, AfterRetry, Keep
  <2> QED
    BY <2>1 DEF Step, Evidence
<1>3. CASE Drift
  <2>1. pc = "dispatch" /\ world' \in SampledDrifts(world)
    BY <1>3 DEF Drift, SampledIsBackend, flow
  <2>2. Ready(world)
    BY <2>1 DEF Stopping, Sampling
  <2>3. world'.prompt = world.prompt
    <3>1. Whole(world)
      BY <2>2 DEF Ready, Settled, Idle
    <3>2. PublishDue(world).prompt = world.prompt
      BY <3>1, DuePublished DEF WorldParts
    <3>3. Receive(world).prompt = world.prompt
      BY <3>1 DEF Receive, Whole, WorldParts
    <3> QED
      BY <2>1, <3>2, <3>3 DEF SampledDrifts
  <2> QED
    BY <2>1, <2>2, <2>3, NothingDrifts
<1>4. CASE UNCHANGED vars
  BY <1>4 DEF vars, flow, Step, Evidence, StillAdmitted
<1>5. CASE \/ Start \/ PreflightObserve \/ PreflightPass \/ PreflightRepair \/ PreflightStop
           \/ InvalidStep \/ RefuseStep \/ RuntimeObserve \/ RuntimeRepair \/ RuntimeStop
  BY <1>5 DEF Start, PreflightObserve, PreflightPass, PreflightRepair, PreflightStop, GiveUp,
              InvalidStep, RefuseStep, RuntimeObserve, RuntimeRepair, RuntimeStop
<1>6. CASE \/ Dispatch \/ StepAchieved \/ StepNotAchieved \/ ProposeReplan \/ AdoptGrounded
           \/ RejectUngrounded \/ RepairDraft \/ RecoveryExhausted
           \/ Succeed \/ GoalMissed \/ Halt \/ Raise
  BY <1>6 DEF Dispatch, StepAchieved, StepNotAchieved, AfterFailure, ProposeReplan,
              AdoptGrounded, Adopt, RejectUngrounded, RepairDraft, RecoveryExhausted,
              Succeed, GoalMissed, Halt, Raise
<1> QED
  BY <1>1, <1>2, <1>3, <1>4, <1>5, <1>6 DEF Next, Execute, Returned

LEMMA AlwaysSampling ==
    ASSUME SampledIsBackend PROVE Spec => [](Sampling /\ StillAdmitted)
<1>1. Init => Sampling /\ StillAdmitted
  BY DEF Init, Sampling, StillAdmitted, SampledIsBackend
<1>2. Sampling /\ StillAdmitted /\ Stopping /\ TypeOK /\ [Next]_vars
        => (Sampling /\ StillAdmitted)'
  BY StepKeepsSampling, StepKeepsAdmitted
<1> QED
  BY <1>1, <1>2, StoppingInvariant, TypeCorrect, PTL DEF Spec

(***************************************************************************)
(* What in-time samples that nothing overrides show is true.               *)
(***************************************************************************)
LEMMA ShownIsTrue ==
    ASSUME NEW w, Ready(w), w.prompt, w.overrides = <<>>, NEW f,
           RawValue(SampledObserve(w), f) # None
    PROVE  w.truth[f] = RawValue(SampledObserve(w), f)
<1>1. SampledObserve(w).val = [g \in Fields |-> IF g \in w.unknown THEN None ELSE w.truth[g]]
  <2>1. SampledObserve(w).val = w.shown.val
    BY DEF SampledObserve
  <2>2. w.shown.val = Sample(w).val
    BY DEF Ready, Settled
  <2>3. Sample(w).val = [g \in Fields |-> IF g \in w.unknown THEN None ELSE w.truth[g]]
    BY DEF Sample
  <2> QED
    BY <2>1, <2>2, <2>3
<1> QED
  BY <1>1 DEF RawValue

\* A success report on in-time samples means that the goals hold in the hidden
\* world: every call that moved the robot waited for a sample of it.
THEOREM SampledVerdictIsPhysical ==
    ASSUME SampledIsBackend PROVE Spec => []SampledSuccessIsPhysical
<1>1. Sampling /\ Stopping /\ SuccessIsObserved => SampledSuccessIsPhysical
  <2> SUFFICES ASSUME Sampling, Stopping, SuccessIsObserved, success, opts.verify, Truthful,
                      NEW i \in DOMAIN plan.goals
               PROVE  Truth(plan.goals[i].field) = plan.goals[i].value
    BY DEF SampledSuccessIsPhysical, GoalTrue
  <2>1. KnownFact(SampledObserve(world), plan.goals[i].field, plan.goals[i].value)
    BY DEF SuccessIsObserved, Evidence, SampledIsBackend
  <2>2. stops = 0
    BY DEF Stopping, StopTransmitted
  <2> QED
    BY <2>1, <2>2, ShownIsTrue DEF Sampling, Truthful, Truth, KnownFact, Knowledge
<1> QED
  BY <1>1, AlwaysSampling, StoppingInvariant, SuccessIsWarranted, PTL

LEMMA DriveNeedsArms ==
    ASSUME MoveAgv \in ToSet(Contracts), NEW step, step.skill = "move_agv", NEW s, Allowed(step, s)
    PROVE  \A f \in {"left_arm_safe", "right_arm_safe"} :
              RawValue(s, f) = Yes /\ RawValue(s, f) # None
<1> DEFINE pre == Contract(step.skill).pre
<1>1. pre = <<Needs(Plain("agv_ready"))>> \o ArmsSafe
  <2>1. MoveAgv.name = "move_agv" /\ MoveAgv.pre = <<Needs(Plain("agv_ready"))>> \o ArmsSafe
    BY DEF MoveAgv
  <2> QED
    BY <2>1, ContractFound
<1>2. /\ {2, 3} \subseteq DOMAIN pre
      /\ pre[2] = Needs(Plain("left_arm_safe")) /\ pre[3] = Needs(Plain("right_arm_safe"))
  BY <1>1 DEF ArmsSafe
<1>3. \A f : /\ Resolve(Needs(Plain(f)).field, step.args) = f
             /\ Needs(Plain(f)).expected = Yes
  BY DEF Needs, Plain, Resolve
<1>4. /\ {2, 3} \subseteq DOMAIN Preconditions(step)
      /\ Preconditions(step)[2].field = "left_arm_safe" /\ Preconditions(step)[2].expected = Yes
      /\ Preconditions(step)[3].field = "right_arm_safe" /\ Preconditions(step)[3].expected = Yes
  BY <1>2, <1>3 DEF Preconditions
<1> QED
  BY <1>4 DEF Allowed, Satisfied, Knowledge

\* On in-time samples the base is commanded under the guard only while both
\* arms are safe in the hidden world.
THEOREM ArmsAreSafeWhenDriven ==
    ASSUME SampledIsBackend, MoveAgv \in ToSet(Contracts)
    PROVE  Spec => []ArmsSafeWhenDriven
<1>1. Sampling /\ StillAdmitted /\ Stopping => ArmsSafeWhenDriven
  <2> SUFFICES ASSUME Sampling, StillAdmitted, Stopping, pc = "dispatch", opts.guard, Truthful,
                      Step.skill = "move_agv"
               PROVE  Truth("left_arm_safe") = Yes /\ Truth("right_arm_safe") = Yes
    BY DEF ArmsSafeWhenDriven
  <2> DEFINE s == SampledObserve(world)
  <2>1. Ready(world) /\ world.prompt /\ world.overrides = <<>>
    BY DEF Stopping, Sampling, Truthful
  <2>2. Allowed(Step, s)
    BY <2>1 DEF StillAdmitted, Evidence, SampledIsBackend
  <2>3. \A f \in {"left_arm_safe", "right_arm_safe"} :
           RawValue(s, f) = Yes /\ RawValue(s, f) # None
    BY <2>2, DriveNeedsArms
  <2> QED
    BY <2>1, <2>3, ShownIsTrue DEF Truth
<1> QED
  BY <1>1, AlwaysSampling, StoppingInvariant, PTL
(***************************************************************************)
(* The samples are typed: whatever is published, scheduled, refreshed,     *)
(* scripted or moved, also out of time and after a stop, what the client   *)
(* shows the executor are values of the modelled fields.                   *)
(***************************************************************************)
\* The base's position is measured: it is what a drive adds to.
Reading == {e \in Effect : e.field = "agv_position_m" => e.value \in Int}

Readings == {t \in [Fields -> Value] : "agv_position_m" \in Fields => t["agv_position_m"] \in Int}

Samples == [seq : Nat, val : [Fields -> Value], stale : SUBSET Fields]

\* What a sample is made from.
MakesSamples(w) ==
    /\ w.published \in Nat /\ w.truth \in Readings /\ w.stale \subseteq Fields
    /\ \A f \in Fields \cap DOMAIN w.overrides : w.overrides[f] \in Value

ReadingsQueued(queue) == IsScript(queue) /\ \A b \in ToSet(queue) : b.change \in Seq(Reading)

RobotTyped(w) ==
    /\ Whole(w) /\ MakesSamples(w)
    /\ w.refresh.values \in Seq(Reading)
    /\ \A name \in DOMAIN w.script : ReadingsQueued(w.script[name])

SampledTyped(w) == RobotTyped(w) /\ w.wire \in Seq(Samples) /\ w.shown \in Samples

\* The default skills are registered, any other skill sets the field of its
\* first effect, and what the scenarios install is typed.
SampledIsTyped ==
    /\ DefaultsRegistered
    /\ \A c \in ToSet(Contracts) \ ToSet(DefaultRegistry) :
          c.effects # <<>> /\ c.effects[1].field.by = None
    /\ \A w : BackendStop(w) = SampledStop(w)
    /\ \A w \in Worlds : SampledTyped(w)

LEMMA ReadingsKept ==
    ASSUME NEW truth \in Readings, NEW changes \in Seq(Reading)
    PROVE  With([val |-> truth], changes).val \in Readings
<1> DEFINE s == [val |-> truth, stale |-> {}, aged |-> {}, conflicts |-> {}, busy |-> {}]
           moved == With(s, changes)
<1>1. changes \in Seq(Effect)
  <2>1. Reading \subseteq Effect
    BY DEF Reading
  <2> QED
    BY <2>1, SeqMonotonic
<1>2. s \in States /\ s.val = truth
  BY DEF States, Readings
<1>3. With([val |-> truth], changes).val = moved.val
  BY DEF With
<1> HIDE DEF s
<1>4. moved \in States
  BY <1>1, <1>2, WithTyped
<1>5. moved.val \in [Fields -> Value]
  BY <1>4 DEF States
<1>6. ASSUME "agv_position_m" \in Fields PROVE moved.val["agv_position_m"] \in Int
  <2> DEFINE f == "agv_position_m"
  <2>1. CASE moved.val[f] = s.val[f]
    BY <1>2, <1>6, <2>1 DEF Readings
  <2>2. CASE \E i \in DOMAIN changes : changes[i].field = f
    <3>1. PICK i \in DOMAIN changes : changes[i].field = f
      BY <2>2
    <3>2. PICK j \in DOMAIN changes : /\ changes[j].field = changes[i].field
                                      /\ changes[j].value = RawValue(moved, changes[i].field)
      BY <1>1, <1>2, WithTyped
    <3>3. changes[j] \in Reading
      BY ElementOfSeq, LenProperties
    <3>4. RawValue(moved, f) \in Int
      BY <3>1, <3>2, <3>3 DEF Reading
    <3> QED
      BY <1>5, <1>6, <3>4 DEF RawValue
  <2>3. moved.val[f] = s.val[f] \/ \E i \in DOMAIN changes : changes[i].field = f
    BY <1>1, <1>2, <1>6, WithTyped
  <2> QED
    BY <2>1, <2>2, <2>3
<1> QED
  BY <1>3, <1>5, <1>6 DEF Readings

LEMMA SampleTyped ==
    ASSUME NEW w, MakesSamples(w) PROVE Sample(w) \in Samples
<1> DEFINE val == [f \in Fields |-> IF f \in w.unknown THEN None
                                    ELSE IF f \in DOMAIN w.overrides THEN w.overrides[f]
                                    ELSE w.truth[f]]
<1>1. val \in [Fields -> Value]
  BY DEF MakesSamples, Readings, Value
<1>2. Sample(w) = [seq |-> w.published + 1, val |-> val, stale |-> w.stale]
  BY DEF Sample
<1>3. w.published + 1 \in Nat /\ w.stale \subseteq Fields
  BY DEF MakesSamples
<1> HIDE DEF val
<1> QED
  BY <1>1, <1>2, <1>3 DEF Samples

LEMMA PublishTyped ==
    ASSUME NEW w, SampledTyped(w) PROVE SampledTyped(Publish(w)) /\ SampledTyped(PublishDue(w))
<1>1. Sample(w) \in Samples /\ Append(w.wire, Sample(w)) \in Seq(Samples)
  BY SampleTyped, AppendProperties DEF SampledTyped, RobotTyped
<1>2. ASSUME NEW v, Whole(v), v.published = w.published + 1, v.wire = Append(w.wire, Sample(w)),
             \A part \in WorldParts \ {"published", "wire", "due"} : v[part] = w[part]
      PROVE  SampledTyped(v)
  <2>1. /\ v.truth = w.truth /\ v.stale = w.stale /\ v.overrides = w.overrides
        /\ v.refresh = w.refresh /\ v.script = w.script /\ v.shown = w.shown
    BY <1>2 DEF WorldParts
  <2> QED
    BY <1>1, <1>2, <2>1 DEF SampledTyped, RobotTyped, MakesSamples
<1>3. Whole(w)
  BY DEF SampledTyped, RobotTyped
<1>4. SampledTyped(Publish(w))
  BY <1>2, <1>3, Published
<1>5. SampledTyped(PublishDue(w))
  BY <1>2, <1>3, DuePublished
<1> QED
  BY <1>4, <1>5

\* A part the samples are not made from.
LEMMA OtherPartTyped ==
    ASSUME NEW w, SampledTyped(w), NEW part \in {"unknown", "due", "stops"}, NEW x
    PROVE  SampledTyped([w EXCEPT ![part] = x])
<1> DEFINE v == [w EXCEPT ![part] = x]
<1>1. Whole(w) /\ part \in WorldParts
  BY DEF SampledTyped, RobotTyped, WorldParts
<1>2. Whole(v) /\ \A other \in WorldParts \ {part} : v[other] = w[other]
  BY <1>1, PartChanged
<1> HIDE DEF v
<1>3. /\ v.truth = w.truth /\ v.stale = w.stale /\ v.overrides = w.overrides
      /\ v.refresh = w.refresh /\ v.script = w.script /\ v.shown = w.shown
      /\ v.published = w.published /\ v.wire = w.wire
  BY <1>2 DEF WorldParts
<1>4. SampledTyped(v)
  BY <1>2, <1>3 DEF SampledTyped, RobotTyped, MakesSamples
<1> QED
  BY <1>4 DEF v

LEMMA ScheduleTyped ==
    ASSUME NEW w, SampledTyped(w), NEW delayed PROVE SampledTyped(Schedule(w, delayed))
<1>1. SampledTyped([w EXCEPT !.due = @ + 1])
  BY OtherPartTyped
<1> QED
  BY <1>1, PublishTyped DEF Schedule

LEMMA ReceivedTyped ==
    ASSUME NEW w, SampledTyped(w), NEW i \in DOMAIN w.wire
    PROVE  SampledTyped(ReceivedUpTo(w, i))
<1> DEFINE v == ReceivedUpTo(w, i)
           rest == SubSeq(w.wire, i + 1, Len(w.wire))
<1>1. Whole(w) /\ w.wire \in Seq(Samples)
  BY DEF SampledTyped, RobotTyped
<1>2. w.wire[i] \in Samples /\ rest \in Seq(Samples)
  <2>1. i \in 1 .. Len(w.wire) /\ Len(w.wire) \in Nat
    BY <1>1, LenProperties
  <2>2. w.wire[i] \in Samples
    BY <1>1, <2>1, ElementOfSeq
  <2>3. \A j \in i + 1 .. Len(w.wire) : w.wire[j] \in Samples
    BY <1>1, <2>1, ElementOfSeq
  <2> QED
    BY <1>1, <2>1, <2>2, <2>3, SubSeqProperties
<1>3. /\ Whole(v) /\ v.shown = w.wire[i] /\ v.wire = rest
      /\ \A part \in WorldParts \ {"shown", "wire"} : v[part] = w[part]
  BY <1>1, TakenOff
<1> HIDE DEF v, rest
<1>4. /\ v.truth = w.truth /\ v.stale = w.stale /\ v.overrides = w.overrides
      /\ v.refresh = w.refresh /\ v.script = w.script /\ v.published = w.published
  BY <1>3 DEF WorldParts
<1>5. SampledTyped(v)
  BY <1>2, <1>3, <1>4 DEF SampledTyped, RobotTyped, MakesSamples
<1> QED
  BY <1>5 DEF v

LEMMA AwaitedTyped ==
    ASSUME NEW w, SampledTyped(w), NEW n PROVE SampledTyped(Awaited(w, n))
<1> DEFINE v == IF w.due > 0 /\ w.prompt /\ Newer(w, n) = {} THEN PublishDue(w) ELSE w
           newer == Newer(v, n)
           first == CHOOSE i \in newer : \A j \in newer : i <= j
<1>1. SampledTyped(v)
  BY PublishTyped
<1>2. Awaited(w, n) = w \/ (newer # {} /\ Awaited(w, n) = ReceivedUpTo(v, first))
  BY DEF Awaited
<1> HIDE DEF v
<1>3. newer # {} => first \in DOMAIN v.wire
  <2>1. DOMAIN v.wire \subseteq Nat
    BY <1>1, LenProperties DEF SampledTyped
  <2>2. newer \subseteq DOMAIN v.wire
    BY DEF Newer
  <2> QED
    BY <2>1, <2>2, Selecting!LeastNumber
<1> QED
  BY <1>1, <1>2, <1>3, ReceivedTyped

LEMMA TruthMoved ==
    ASSUME NEW w, SampledTyped(w), NEW changes \in Seq(Reading)
    PROVE  SampledTyped(Changed(w, changes))
<1> DEFINE t == With([val |-> w.truth], changes).val
           v == [w EXCEPT !.truth = t]
<1>1. Whole(w) /\ t \in Readings
  BY ReadingsKept DEF SampledTyped, RobotTyped, MakesSamples
<1>2. Changed(w, changes) = v
  BY DEF Changed
<1> HIDE DEF t
<1>3. Whole(v) /\ v.truth = t /\ \A other \in WorldParts \ {"truth"} : v[other] = w[other]
  <2>1. \A x : LET u == [w EXCEPT !.truth = x]
                IN  /\ Whole(u) /\ u.truth = x
                    /\ \A other \in WorldParts \ {"truth"} : u[other] = w[other]
    BY <1>1, PartChanged DEF WorldParts
  <2> QED
    BY <2>1
<1> HIDE DEF v
<1>4. /\ v.stale = w.stale /\ v.overrides = w.overrides
      /\ v.refresh = w.refresh /\ v.script = w.script /\ v.shown = w.shown
      /\ v.published = w.published /\ v.wire = w.wire
  BY <1>3 DEF WorldParts
<1> QED
  BY <1>1, <1>2, <1>3, <1>4 DEF SampledTyped, RobotTyped, MakesSamples

LEMMA RefreshTyped ==
    ASSUME NEW w, SampledTyped(w), NEW fields PROVE SampledTyped(Refreshed(w, fields))
<1> DEFINE a == Changed(w, w.refresh.values)
           b == [a EXCEPT !.unknown = @ \ fields]
           c == [b EXCEPT !.stale = @ \ fields]
           d == [c EXCEPT !.overrides = [f \in DOMAIN @ \ fields |-> @[f]]]
<1>1. SampledTyped(a)
  BY TruthMoved DEF SampledTyped, RobotTyped
<1>2. Refreshed(w, fields) \in {w, d}
  BY DEF Refreshed, Changed
<1> HIDE DEF a
<1>3. SampledTyped(b)
  BY <1>1, OtherPartTyped
<1> HIDE DEF b
<1>4. SampledTyped(c)
  <2> DEFINE x == b.stale \ fields
  <2>1. Whole(b) /\ x \subseteq Fields
    BY <1>3 DEF SampledTyped, RobotTyped, MakesSamples
  <2> HIDE DEF x
  <2>2. Whole(c) /\ c.stale = x /\ \A other \in WorldParts \ {"stale"} : c[other] = b[other]
    <3>1. c = [b EXCEPT !.stale = x]
      BY DEF x
    <3> HIDE DEF c
    <3> QED
      BY <2>1, <3>1, PartChanged DEF WorldParts
  <2> HIDE DEF c
  <2>3. /\ c.truth = b.truth /\ c.overrides = b.overrides
        /\ c.refresh = b.refresh /\ c.script = b.script /\ c.shown = b.shown
        /\ c.published = b.published /\ c.wire = b.wire
    BY <2>2 DEF WorldParts
  <2> QED
    BY <1>3, <2>1, <2>2, <2>3 DEF SampledTyped, RobotTyped, MakesSamples
<1> HIDE DEF c
<1>5. SampledTyped(d)
  <2> DEFINE x == [f \in DOMAIN c.overrides \ fields |-> c.overrides[f]]
  <2>1. Whole(c) /\ \A f \in Fields \cap DOMAIN x : x[f] \in Value
    BY <1>4 DEF SampledTyped, RobotTyped, MakesSamples
  <2> HIDE DEF x
  <2>2. Whole(d) /\ d.overrides = x /\ \A other \in WorldParts \ {"overrides"} : d[other] = c[other]
    <3>1. d = [c EXCEPT !.overrides = x]
      BY DEF x
    <3> HIDE DEF d
    <3> QED
      BY <2>1, <3>1, PartChanged DEF WorldParts
  <2> HIDE DEF d
  <2>3. /\ d.truth = c.truth /\ d.stale = c.stale
        /\ d.refresh = c.refresh /\ d.script = c.script /\ d.shown = c.shown
        /\ d.published = c.published /\ d.wire = c.wire
    BY <2>2 DEF WorldParts
  <2> QED
    BY <1>4, <2>1, <2>2, <2>3 DEF SampledTyped, RobotTyped, MakesSamples
<1> QED
  BY <1>2, <1>5

\* The behaviour played, and the script left over.
LEMMA PlayedTyped ==
    ASSUME NEW w, SampledTyped(w), NEW name
    PROVE  /\ NextBehaviour(w, name).change \in Seq(Reading)
           /\ NextBehaviour(w, name).mode \in BehaviourModes
           /\ SampledTyped(Popped(w, name))
<1> DEFINE playing == name \in DOMAIN w.script /\ w.script[name] # <<>>
           queue   == w.script[name]
           rest    == [w.script EXCEPT ![name] = Tail(queue)]
           v       == [w EXCEPT !.script = rest]
<1>1. CASE ~playing
  BY <1>1 DEF NextBehaviour, Popped, Behaviour, BehaviourModes
<1>2. CASE playing
  <2>1. ReadingsQueued(queue) /\ queue # <<>>
    BY <1>2 DEF SampledTyped, RobotTyped
  <2>2. NextBehaviour(w, name) = Head(queue) /\ Popped(w, name) = v
    BY <1>2 DEF NextBehaviour, Popped
  <2> HIDE DEF queue
  <2>3. Head(queue) \in ToSet(queue) /\ Tail(queue) \in Seq(ToSet(queue))
    BY <2>1, HeadTailProperties DEF ReadingsQueued, IsScript
  <2>4. ReadingsQueued(Tail(queue))
    <3>1. ToSet(Tail(queue)) \subseteq ToSet(queue) /\ Tail(queue) \in Seq(ToSet(Tail(queue)))
      BY <2>3, SequenceIsSequence DEF IsSequence
    <3> QED
      BY <2>1, <3>1 DEF ReadingsQueued, IsScript
  <2>5. \A x \in DOMAIN rest : ReadingsQueued(rest[x])
    <3>1. DOMAIN rest = DOMAIN w.script
          /\ \A x \in DOMAIN rest : rest[x] = IF x = name THEN Tail(queue) ELSE w.script[x]
      OBVIOUS
    <3> HIDE DEF rest
    <3> QED
      BY <2>4, <3>1 DEF SampledTyped, RobotTyped
  <2>6. Whole(v) /\ v.script = rest /\ \A other \in WorldParts \ {"script"} : v[other] = w[other]
    <3>1. Whole(w)
      BY DEF SampledTyped, RobotTyped
    <3> HIDE DEF rest
    <3> QED
      BY <3>1, PartChanged DEF WorldParts
  <2> HIDE DEF v, rest
  <2>7. /\ v.truth = w.truth /\ v.stale = w.stale /\ v.overrides = w.overrides
        /\ v.refresh = w.refresh /\ v.shown = w.shown
        /\ v.published = w.published /\ v.wire = w.wire
    BY <2>6 DEF WorldParts
  <2>8. SampledTyped(v)
    BY <2>5, <2>6, <2>7 DEF SampledTyped, RobotTyped, MakesSamples
  <2> QED
    BY <2>1, <2>2, <2>3, <2>8 DEF ReadingsQueued, IsScript
<1> QED
  BY <1>1, <1>2

\* What a valid step moves are readings.
LEMMA MotionRead ==
    ASSUME SampledIsTyped, NEW w, SampledTyped(w), NEW step, ValidStep(step)
    PROVE  Motion(w, step) \in Seq(Reading)
<1> DEFINE args == step.args
           moved == Motion(w, step)
           to(f, v) == <<[field |-> f, value |-> v]>>
<1>1. ASSUME NEW f \in Fields, NEW v \in Int PROVE to(f, v) \in Seq(Reading)
  <2>1. [field |-> f, value |-> v] \in Reading
    BY DEF Reading, Effect, Value
  <2> QED
    BY <2>1
<1>2. Yes \in Int /\ No \in Int
  BY DEF Yes, No
<1>3. DefaultsRegistered
  BY DEF SampledIsTyped
<1> HIDE DEF to
<1>4. CASE step.skill = "retract_arm"
  <2>1. Resolve(ArmSafe, args) \in Fields /\ Resolve(ArmReady, args) \in Fields
    BY <1>3, <1>4, MovesFields
  <2>2. moved = to(Resolve(ArmSafe, args), Yes) \o to(Resolve(ArmReady, args), Yes)
    BY <1>4 DEF Motion, to
  <2>3. to(Resolve(ArmSafe, args), Yes) \in Seq(Reading) /\ to(Resolve(ArmReady, args), Yes) \in Seq(Reading)
    BY <1>1, <1>2, <2>1
  <2> QED
    BY <2>2, <2>3, ConcatProperties
<1>5. CASE step.skill = "extend_arm"
  <2>1. Resolve(ArmSafe, args) \in Fields
    BY <1>3, <1>5, MovesFields
  <2>2. moved = to(Resolve(ArmSafe, args), No)
    BY <1>5 DEF Motion, to
  <2> QED
    BY <1>1, <1>2, <2>1, <2>2
<1>6. CASE step.skill = "move_agv"
  <2> DEFINE there == w.truth["agv_position_m"] + args.distance_m
  <2>1. "agv_position_m" \in Fields /\ args.distance_m \in Int
    BY <1>3, <1>6, MovesFields
  <2>2. w.truth["agv_position_m"] \in Int
    BY <2>1 DEF SampledTyped, RobotTyped, MakesSamples, Readings
  <2>3. moved = to("agv_position_m", there)
    BY <1>6 DEF Motion, to
  <2>4. there \in Int
    BY <2>1, <2>2
  <2> HIDE DEF there
  <2> QED
    BY <1>1, <2>1, <2>3, <2>4
<1>7. CASE step.skill = "set_lift"
  <2>1. "lift_height_mm" \in Fields /\ args.height_mm \in Int
    BY <1>3, <1>7, MovesFields
  <2>2. moved = to("lift_height_mm", args.height_mm)
    BY <1>7 DEF Motion, to
  <2> QED
    BY <1>1, <2>1, <2>2
<1>8. CASE step.skill = "set_head"
  <2> DEFINE yaw   == IF "yaw_deg" \in DOMAIN args THEN to("head_yaw_deg", args["yaw_deg"]) ELSE <<>>
             pitch == IF "pitch_deg" \in DOMAIN args THEN to("head_pitch_deg", args["pitch_deg"])
                      ELSE <<>>
  <2>1. moved = yaw \o pitch
    BY <1>8 DEF Motion, to
  <2>2. /\ "head_yaw_deg" \in Fields /\ "head_pitch_deg" \in Fields
        /\ "yaw_deg" \in DOMAIN args => args["yaw_deg"] \in Int
        /\ "pitch_deg" \in DOMAIN args => args["pitch_deg"] \in Int
    BY <1>3, <1>8, MovesFields
  <2>3. yaw \in Seq(Reading)
    <3>1. "yaw_deg" \in DOMAIN args => to("head_yaw_deg", args["yaw_deg"]) \in Seq(Reading)
      BY <1>1, <2>2
    <3> QED
      BY <3>1
  <2>4. pitch \in Seq(Reading)
    <3>1. "pitch_deg" \in DOMAIN args => to("head_pitch_deg", args["pitch_deg"]) \in Seq(Reading)
      BY <1>1, <2>2
    <3> QED
      BY <3>1
  <2> HIDE DEF yaw, pitch
  <2> QED
    BY <2>1, <2>3, <2>4, ConcatProperties
<1>9. CASE step.skill \notin {"retract_arm", "extend_arm", "move_agv", "set_lift", "set_head"}
  <2> DEFINE c == Contract(step.skill)
             e == c.effects[1]
  <2>1. c \in ToSet(Contracts) /\ IsContract(c) /\ c.name = step.skill
    <3>1. PICK k \in ToSet(Contracts) : k.name = step.skill
      BY DEF ValidStep, SkillNames, ToSet
    <3>2. c = k
      BY <3>1, ContractFound
    <3> QED
      BY <3>1, <3>2, RegistryAssumption
  <2>2. \A k \in ToSet(DefaultRegistry) :
           k.name \in {"retract_arm", "extend_arm", "move_agv", "set_lift", "set_head"}
    BY DEF DefaultRegistry, ToSet, ArmContract, MoveAgv, SetLift, SetHead
  <2>3. c.effects # <<>> /\ e.field.by = None
    BY <1>9, <2>1, <2>2 DEF SampledIsTyped
  <2>4. e \in ToSet(c.effects)
    BY <2>1, <2>3 DEF IsContract, ToSet
  <2>5. IsTemplate(c, e.field)
    BY <2>1, <2>4 DEF IsContract, IsEffect
  <2>6. e.field.at[None] \in Fields
    BY <2>3, <2>5 DEF IsTemplate
  <2>7. moved = to(e.field.at[None], Yes)
    BY <1>9 DEF Motion, to
  <2> QED
    BY <1>1, <1>2, <2>6, <2>7
<1> QED
  BY <1>4, <1>5, <1>6, <1>7, <1>8, <1>9

\* What is scheduled, moved or not, is typed.
LEMMA SampledCommandTyped ==
    ASSUME SampledIsTyped, NEW w, SampledTyped(w), NEW step, ValidStep(step),
           NEW o \in SampledCommand(w, step)
    PROVE  SampledTyped(o.world)
<1> DEFINE b == NextBehaviour(w, step.skill)
           v == Popped(w, step.skill)
           x == Changed(v, b.change)
           y == Changed(x, Motion(x, step))
<1>1. b.change \in Seq(Reading) /\ b.mode \in BehaviourModes /\ SampledTyped(v)
  BY PlayedTyped
<1>2. SampledTyped(x)
  BY <1>1, TruthMoved
<1>3. SampledTyped(y)
  BY <1>2, MotionRead, TruthMoved
<1>4. CASE b.mode = "reject"
  BY <1>1, <1>4 DEF SampledCommand
<1>5. CASE b.mode # "reject"
  <2>1. o.world = Awaited(Executed(v, step, b), w.shown.seq)
    BY <1>5 DEF SampledCommand
  <2>2. SampledTyped(Executed(v, step, b))
    <3>1. Executed(v, step, b) \in {Publish(v), Schedule(v, b.delayed), Schedule(y, b.delayed)}
      <4>1. b.mode \in {"stall", "abort"} \cup {"no_motion", "fresh_spoof"} \cup {"normal", "toctou"}
        BY <1>1, <1>5 DEF BehaviourModes
      <4> HIDE DEF b, v
      <4> QED
        BY <4>1 DEF Executed
    <3> HIDE DEF y
    <3> QED
      BY <1>1, <1>3, <3>1, PublishTyped, ScheduleTyped
  <2> QED
    BY <2>1, <2>2, AwaitedTyped
<1> QED
  BY <1>4, <1>5

LEMMA SampledDriftTyped ==
    ASSUME NEW w, SampledTyped(w), NEW v \in SampledDrifts(w) PROVE SampledTyped(v)
<1>1. CASE v = PublishDue(w)
  BY <1>1, PublishTyped
<1>2. CASE w.wire # <<>> /\ v = Receive(w)
  <2> DEFINE late == [w EXCEPT !.wire = Tail(@)]
             seen == IF Head(w.wire).seq >= w.shown.seq THEN Head(w.wire) ELSE w.shown
  <2>1. /\ Whole(w) /\ w.wire \in Seq(Samples) /\ w.shown \in Samples
    BY DEF SampledTyped, RobotTyped
  <2>2. Head(w.wire) \in Samples /\ Tail(w.wire) \in Seq(Samples)
    BY <1>2, <2>1, HeadTailProperties
  <2>3. v = [part \in WorldParts |-> CASE part = "shown" -> seen
                                       [] part = "wire"  -> Tail(w.wire)
                                       [] OTHER          -> w[part]]
    BY <1>2, <2>1 DEF Receive, Whole, WorldParts
  <2>4. seen \in Samples
    BY <2>1, <2>2
  <2> HIDE DEF seen
  <2>5. /\ Whole(v) /\ v.shown = seen /\ v.wire = Tail(w.wire)
        /\ v.truth = w.truth /\ v.stale = w.stale /\ v.overrides = w.overrides
        /\ v.refresh = w.refresh /\ v.script = w.script /\ v.published = w.published
    BY <2>3 DEF Whole, WorldParts
  <2> QED
    BY <2>2, <2>4, <2>5 DEF SampledTyped, RobotTyped, MakesSamples
<1> QED
  BY <1>1, <1>2 DEF SampledDrifts

LEMMA SampledObserveTyped ==
    ASSUME NEW w, SampledTyped(w) PROVE SampledObserve(w) \in States
BY DEF SampledTyped, Samples, SampledObserve, States

\* Whatever the executor does and whenever samples come, the world stays typed.
LEMMA SampledStaysTyped ==
    ASSUME SampledIsBackend, SampledIsTyped
    PROVE  Spec => [](SampledTyped(world) /\ Blocking)
<1>1. \A w : SampledTyped(w) => BackendObserve(w) \in States
  BY SampledObserveTyped DEF SampledIsBackend
<1>2. Init => SampledTyped(world) /\ Blocking
  BY TasksAssumption DEF Init, SampledIsTyped, Blocking, PlanKept
<1>3. SampledTyped(world) /\ Blocking /\ TypeOK /\ [Next]_vars
        => SampledTyped(world)' /\ Blocking'
  <2> SUFFICES ASSUME SampledTyped(world), Blocking, TypeOK, [Next]_vars
               PROVE  SampledTyped(world)' /\ Blocking'
    OBVIOUS
  <2>0. SUFFICES SampledTyped(world')
    BY <1>1, StepKeepsBlocking DEF EvidenceTyped, Evidence
  <2>1. CASE \E fields : world' = BackendAcquire(world, fields)
    <3>1. PICK fields : world' = SampledAcquire(world, fields)
      BY <2>1 DEF SampledIsBackend
    <3> QED
      BY <3>1, RefreshTyped, ScheduleTyped, AwaitedTyped DEF SampledAcquire
  <2>2. CASE pc = "dispatch" /\ \E outcome \in BackendCommand(world, Step) : world' = outcome.world
    <3>1. PICK outcome \in SampledCommand(world, Step) : world' = outcome.world
      BY <2>2 DEF SampledIsBackend
    <3>2. ValidStep(Step)
      BY <2>2 DEF Blocking
    <3> QED
      BY <3>1, <3>2, SampledCommandTyped
  <2>3. CASE world' = BackendStop(world)
    BY <2>3, PublishTyped, OtherPartTyped DEF SampledIsTyped, SampledStop
  <2>4. CASE world' \in Drifts(world)
    BY <2>4, SampledDriftTyped DEF SampledIsBackend
  <2> QED
    BY <2>1, <2>2, <2>3, <2>4, WorldSteps
<1> QED
  BY <1>2, <1>3, TypeCorrect, PTL DEF Spec

\* So its evidence is typed.
LEMMA SampledEvidenceTyped ==
    ASSUME SampledIsBackend, SampledIsTyped
    PROVE  Spec => []EvidenceTyped
<1>1. SampledTyped(world) => EvidenceTyped
  BY SampledObserveTyped DEF EvidenceTyped, Evidence, SampledIsBackend
<1> QED
  BY <1>1, SampledStaysTyped, PTL

\* Over the sampled robot, whatever it does and however late its samples come,
\* a skill a replan blocked is never commanded again.
THEOREM SampledNeverCommandsBlocked ==
    ASSUME SampledIsBackend, SampledIsTyped
    PROVE  Spec => []BlockedNeverCommanded
BY SampledEvidenceTyped, BlockedIsNeverCommanded, PTL

\* Over the sampled robot, whatever it does and however late its samples come,
\* REGROUND is the only way a call can go on for ever.
THEOREM SampledOnlyRegroundGoesOn ==
    ASSUME SampledIsBackend, SampledIsTyped
    PROVE  Spec => WorkRunsOut
BY SampledEvidenceTyped, OnlyRegroundGoesOn, PTL
=============================================================================
