------------------------ MODULE JakaExecutionProofs ------------------------
(***************************************************************************)
(* What is proved of the executor over JakaRobotBackend, for every         *)
(* deployment, task, set of flags and budget, whatever the legacy objects  *)
(* answer.  The theorems assume that the backend is the one of             *)
(* JakaBackend, and say so in their hypotheses.                            *)
(***************************************************************************)
EXTENDS JakaExecution, SkillExecutorProofs

\* The parts of a world that the proofs read.
Shaped(w) == {"dep", "pending"} \subseteq DOMAIN w /\ "agv" \in DOMAIN w.pending

\* The backend is JakaRobotBackend.
JakaIsBackend ==
    /\ \A w \in Worlds : Shaped(w)
    /\ \A w : BackendObserve(w) = JakaObserve(w)
    /\ \A w, fields : BackendAcquire(w, fields) = JakaAcquire(w, fields)
    /\ \A w, step : BackendCommand(w, step) = JakaCommand(w, step)
    /\ \A w : BackendStop(w) = JakaStop(w)
    /\ \A w : Drifts(w) = JakaDrifts(w)

(***************************************************************************)
(* Nothing the backend does changes the deployment.                        *)
(***************************************************************************)
Same(v, w) == Shaped(v) /\ v.dep = w.dep

LEMMA SameTransitive ==
    ASSUME NEW u, NEW v, NEW w, Same(u, v), Same(v, w) PROVE Same(u, w)
BY DEF Same

\* Changing another part of the world leaves the deployment alone.
LEMMA OtherPart ==
    ASSUME NEW w, Shaped(w), NEW f \in {"truth", "down", "glitches", "drifts"}, NEW x
    PROVE  Same([w EXCEPT ![f] = x], w)
BY DEF Same, Shaped

LEMMA Pending ==
    ASSUME NEW w, Shaped(w), NEW axis, NEW x
    PROVE  Same([w EXCEPT !.pending[axis] = x], w)
BY DEF Same, Shaped

LEMMA SetSame ==
    ASSUME NEW w, Shaped(w), NEW changes PROVE Same(JakaSet(w, changes), w)
BY OtherPart DEF JakaSet

LEMMA CallSame ==
    ASSUME NEW w, Shaped(w), NEW axis, NEW motion, NEW c \in Call(w, axis, motion)
    PROVE  Same(c.world, w)
<1> DEFINE idle  == [w EXCEPT !.pending[axis] = <<>>]
           moved == JakaSet(idle, motion)
           under == [w EXCEPT !.pending[axis] = motion]
<1>1. Same(idle, w) /\ Same(under, w)
  BY Pending
<1>2. Same(moved, w)
  <2>1. Shaped(idle)
    BY <1>1 DEF Same
  <2>2. Same(moved, idle)
    BY <2>1, SetSame
  <2> QED
    BY <1>1, <2>2, SameTransitive
<1>3. CASE c = [world |-> moved, answer |-> "true"]
  BY <1>2, <1>3
<1>4. CASE \E v \in {moved, idle, under} : \E a \in {"true", "false", "raise"} :
             c = [world |-> [v EXCEPT !.glitches = @ - 1], answer |-> a]
  <2>1. PICK v \in {moved, idle, under}, a \in {"true", "false", "raise"} :
               c = [world |-> [v EXCEPT !.glitches = @ - 1], answer |-> a]
    BY <1>4
  <2>2. Same(v, w)
    BY <1>1, <1>2
  <2>3. Same([v EXCEPT !.glitches = @ - 1], v)
    BY <2>2, OtherPart DEF Same
  <2> QED
    BY <2>1, <2>2, <2>3, SameTransitive
<1>5. c \in {[world |-> moved, answer |-> "true"]}
            \cup {[world |-> [v EXCEPT !.glitches = @ - 1], answer |-> a]
                     : v \in {x \in {moved, idle, under} : x.glitches > 0},
                       a \in {"true", "false", "raise"}}
  BY DEF Call
<1> HIDE DEF idle, moved, under
<1> QED
  BY <1>3, <1>4, <1>5

LEMMA AcceptedSame ==
    ASSUME NEW w, NEW calls, \A c \in calls : Same(c.world, w), NEW answers,
           NEW o \in Accepted(calls, answers)
    PROVE  Same(o.world, w)
BY DEF Accepted, Outcome

LEMMA HeadSame ==
    ASSUME NEW w, Shaped(w), NEW args, NEW o \in HeadOutcomes(w, args)
    PROVE  Same(o.world, w)
<1> DEFINE ask(v, name, axis, f) ==
             IF name \in DOMAIN args THEN Call(v, axis, <<To(f, args[name])>>)
                                     ELSE {[world |-> v, answer |-> "true"]}
           yaws == ask(w, "yaw_deg", "yaw", "head_yaw_deg")
           pitches(y) == ask(y.world, "pitch_deg", "pitch", "head_pitch_deg")
<1>1. ASSUME NEW y \in yaws PROVE Same(y.world, w)
  BY CallSame DEF Same
<1>2. ASSUME NEW y \in yaws, NEW p \in pitches(y) PROVE Same(p.world, w)
  <2>1. Same(y.world, w)
    BY <1>1
  <2>2. Same(p.world, y.world)
    BY <2>1, CallSame DEF Same
  <2> QED
    BY <2>1, <2>2, SameTransitive
<1>3. CASE o \in {Outcome(y.world, FALSE) : y \in {x \in yaws : x.answer = "raise"}}
  BY <1>1, <1>3 DEF Outcome
<1>4. CASE \E y \in yaws : \E answers : o \in Accepted(pitches(y), answers)
  <2>1. PICK y \in yaws : \E answers : o \in Accepted(pitches(y), answers)
    BY <1>4
  <2> QED
    BY <1>2, <2>1, AcceptedSame
<1>5. o \in {Outcome(y.world, FALSE) : y \in {x \in yaws : x.answer = "raise"}}
            \cup UNION {Accepted(pitches(y), IF y.answer = "true" THEN {"true"} ELSE {})
                        : y \in {x \in yaws : x.answer # "raise"}}
  BY Zenon DEF HeadOutcomes
<1> HIDE DEF yaws, pitches
<1> QED
  BY <1>3, <1>4, <1>5

LEMMA CommandSame ==
    ASSUME NEW w, Shaped(w), NEW step, NEW o \in JakaCommand(w, step)
    PROVE  Same(o.world, w)
<1>1. CASE \E axis, motion, answers : o \in Accepted(Call(w, axis, motion), answers)
  BY <1>1, CallSame, AcceptedSame
<1>2. CASE o \in HeadOutcomes(w, step.args)
  BY <1>2, HeadSame
<1>3. CASE o = Outcome(w, FALSE)
  BY <1>3 DEF Outcome, Same
<1> QED
  BY <1>1, <1>2, <1>3 DEF JakaCommand

LEMMA StopSame ==
    ASSUME NEW w, Shaped(w) PROVE Same(JakaStop(w), w)
BY Pending DEF JakaStop, Same

LEMMA DriftSame ==
    ASSUME NEW w, Shaped(w), NEW v \in JakaDrifts(w) PROVE Same(v, w)
<1>1. CASE \E x \in Axes : v = [JakaSet(w, w.pending[x]) EXCEPT !.pending[x] = <<>>]
  <2>1. PICK x \in Axes : v = [JakaSet(w, w.pending[x]) EXCEPT !.pending[x] = <<>>]
    BY <1>1
  <2>2. Same(JakaSet(w, w.pending[x]), w)
    BY SetSame
  <2>3. Same(v, JakaSet(w, w.pending[x]))
    BY <2>1, <2>2, Pending DEF Same
  <2> QED
    BY <2>2, <2>3, SameTransitive
<1>2. CASE \E u : Same(u, w) /\ v = [u EXCEPT !.drifts = @ - 1]
  <2>1. PICK u : Same(u, w) /\ v = [u EXCEPT !.drifts = @ - 1]
    BY <1>2
  <2>2. Same(v, u)
    BY <2>1, OtherPart DEF Same
  <2> QED
    BY <2>1, <2>2, SameTransitive
<1> QED
  <2>1. \A p : Same([w EXCEPT !.down = (@ \cup {p}) \ (@ \cap {p})], w)
    BY OtherPart
  <2>2. \A d : Same(JakaSet(w, d), w)
    BY SetSame
  <2> QED
    BY <1>1, <1>2, <2>1, <2>2 DEF JakaDrifts

(***************************************************************************)
(* The deployment never changes.                                           *)
(***************************************************************************)
LEMMA WorldSame ==
    ASSUME JakaIsBackend, Shaped(world), [Next]_vars PROVE Same(world', world)
<1>1. CASE world' = world
  BY <1>1 DEF Same
<1>2. CASE \E fields : world' = BackendAcquire(world, fields)
  BY <1>2 DEF JakaIsBackend, JakaAcquire, Same
<1>3. CASE \E outcome \in BackendCommand(world, Step) : world' = outcome.world
  BY <1>3, CommandSame DEF JakaIsBackend
<1>4. CASE world' = BackendStop(world)
  BY <1>4, StopSame DEF JakaIsBackend
<1>5. CASE world' \in Drifts(world)
  BY <1>5, DriftSame DEF JakaIsBackend
<1> QED
  BY <1>1, <1>2, <1>3, <1>4, <1>5, WorldSteps

LEMMA AlwaysShaped == ASSUME JakaIsBackend PROVE Spec => []Shaped(world)
<1>1. Init => Shaped(world)
  BY DEF Init, JakaIsBackend
<1>2. Shaped(world) /\ [Next]_vars => Shaped(world)'
  BY WorldSame DEF Same
<1> QED
  BY <1>1, <1>2, PTL DEF Spec

(***************************************************************************)
(* Without a state provider the arms' poses read None, and the contracts   *)
(* of the base and the lift require them.                                  *)
(***************************************************************************)
LEMMA PosesUnknown ==
    ASSUME NEW w, ~w.dep.provider, NEW f \in SafeFields
    PROVE  RawValue(JakaObserve(w), f) = None
<1>1. \A p \in Parts : f \notin ReadyFields(p) \cup MeasuredFields(p)
  BY DEF SafeFields, Parts, ReadyFields, MeasuredFields
<1>2. Measured(w, f) = None
  BY <1>1 DEF Measured
<1>3. JakaObserve(w).val = [g \in Fields |-> Measured(w, g)]
  BY DEF JakaObserve, Evident
<1> QED
  BY <1>2, <1>3 DEF RawValue

LEMMA TransportContracts ==
    ASSUME Contracts = DefaultRegistry
    PROVE  Contract("move_agv") = MoveAgv /\ Contract("set_lift") = SetLift
<1>0. /\ ArmContract("retract_arm", Yes).name = "retract_arm"
      /\ ArmContract("extend_arm", No).name = "extend_arm"
      /\ MoveAgv.name = "move_agv" /\ SetLift.name = "set_lift" /\ SetHead.name = "set_head"
  BY DEF ArmContract, MoveAgv, SetLift, SetHead
<1>1. /\ DOMAIN Contracts = 1 .. 5
      /\ Contracts[1].name = "retract_arm" /\ Contracts[2].name = "extend_arm"
      /\ Contracts[3].name = "move_agv" /\ Contracts[4].name = "set_lift"
      /\ Contracts[5].name = "set_head"
      /\ Contracts[3] = MoveAgv /\ Contracts[4] = SetLift
  BY <1>0 DEF DefaultRegistry
<1>2. \A i \in DOMAIN Contracts : Contracts[i].name = "move_agv" => i = 3
  BY <1>1
<1>3. \A i \in DOMAIN Contracts : Contracts[i].name = "set_lift" => i = 4
  BY <1>1
<1> QED
  BY <1>1, <1>2, <1>3 DEF Contract

LEMMA TransportNeedsPoses ==
    ASSUME Contracts = DefaultRegistry, NEW step, step.skill \in {"move_agv", "set_lift"}
    PROVE  2 \in DOMAIN Preconditions(step) /\ Preconditions(step)[2].field = "left_arm_safe"
<1> DEFINE pre == Contract(step.skill).pre
<1>1. \E f : pre = <<Needs(Plain(f))>> \o ArmsSafe
  <2>1. CASE step.skill = "move_agv"
    <3>1. pre = MoveAgv.pre
      BY <2>1, TransportContracts
    <3>2. MoveAgv.pre = <<Needs(Plain("agv_ready"))>> \o ArmsSafe
      BY DEF MoveAgv
    <3> QED
      BY <3>1, <3>2
  <2>2. CASE step.skill = "set_lift"
    <3>1. pre = SetLift.pre
      BY <2>2, TransportContracts
    <3>2. SetLift.pre = <<Needs(Plain("lift_ready"))>> \o ArmsSafe
      BY DEF SetLift
    <3> QED
      BY <3>1, <3>2
  <2> QED
    BY <2>1, <2>2
<1>2. 2 \in DOMAIN pre /\ pre[2] = Needs(Plain("left_arm_safe"))
  BY <1>1 DEF ArmsSafe
<1>3. Resolve(Needs(Plain("left_arm_safe")).field, step.args) = "left_arm_safe"
  BY DEF Needs, Plain, Resolve
<1> QED
  BY <1>2, <1>3 DEF Preconditions

LEMMA TransportRefused ==
    ASSUME Contracts = DefaultRegistry, NEW w, ~w.dep.provider,
           NEW step, step.skill \in {"move_agv", "set_lift"}
    PROVE  ~Allowed(step, JakaObserve(w))
<1>1. RawValue(JakaObserve(w), "left_arm_safe") = None
  BY PosesUnknown DEF SafeFields
<1>2. ~Satisfied(JakaObserve(w), Preconditions(step)[2])
  BY <1>1, TransportNeedsPoses DEF Satisfied, Knowledge
<1> QED
  BY <1>2, TransportNeedsPoses DEF Allowed

\* Under the runtime guard no deployment without a state provider ever commands
\* the base or the lift: the step that goes out was admitted on evidence the
\* backend had just given, by the deployment of today.
THEOREM NoTransportBlindly ==
    ASSUME JakaIsBackend, Contracts = DefaultRegistry
    PROVE  Spec => []NoBlindTransport
<1>1. Init => NoBlindTransport
  BY DEF Init, NoBlindTransport
<1>2. NoBlindTransport /\ Shaped(world) /\ [Next]_vars => NoBlindTransport'
  <2> SUFFICES ASSUME NoBlindTransport, Shaped(world), [Next]_vars, (pc = "dispatch")',
                      opts'.guard, ~world'.dep.provider
               PROVE  Step'.skill \notin {"move_agv", "set_lift"}
    BY DEF NoBlindTransport
  <2>1. Evidence = JakaObserve(world)
    BY DEF Evidence, JakaIsBackend
  <2>2. world'.dep = world.dep
    BY WorldSame DEF Same
  <2>3. CASE AdmitStep
    <3>1. /\ UNCHANGED <<opts, plan, index>>
          /\ opts.guard => Allowed(Step, Evidence)
      BY <2>3 DEF AdmitStep, Keep
    <3> QED
      BY <2>1, <2>2, <3>1, TransportRefused DEF Step
  <2>4. CASE Retry
    <3>1. /\ UNCHANGED <<opts, plan, index>>
          /\ opts.guard => Allowed(Step, Evidence)
      BY <2>4 DEF Retry, AfterRetry, Keep
    <3> QED
      BY <2>1, <2>2, <3>1, TransportRefused DEF Step
  <2>5. CASE Drift \/ UNCHANGED vars
    BY <2>2, <2>5 DEF NoBlindTransport, Drift, vars, flow, Step
  <2>6. CASE \/ Start \/ PreflightObserve \/ PreflightPass \/ PreflightRepair \/ PreflightStop
             \/ InvalidStep \/ RefuseStep \/ RuntimeObserve \/ RuntimeRepair \/ RuntimeStop
    BY <2>6 DEF Start, PreflightObserve, PreflightPass, PreflightRepair, PreflightStop, GiveUp,
                InvalidStep, RefuseStep, RuntimeObserve, RuntimeRepair, RuntimeStop
  <2>7. CASE \/ Dispatch \/ StepAchieved \/ StepNotAchieved \/ ProposeReplan \/ AdoptGrounded
             \/ RejectUngrounded \/ RepairDraft \/ RecoveryExhausted
             \/ Succeed \/ GoalMissed \/ Halt \/ Raise
    BY <2>7 DEF Dispatch, StepAchieved, StepNotAchieved, AfterFailure, ProposeReplan,
                AdoptGrounded, Adopt, RejectUngrounded, RepairDraft, RecoveryExhausted,
                Succeed, GoalMissed, Halt, Raise
  <2> QED
    BY <2>3, <2>4, <2>5, <2>6, <2>7 DEF Next, Execute, Returned
<1> QED
  BY <1>1, <1>2, AlwaysShaped, PTL DEF Spec

(***************************************************************************)
(* What the adapter shows of a measured field is its physical value.       *)
(***************************************************************************)
LEMMA MeasuredIsTrue ==
    ASSUME NEW w, NEW f, f \notin Derived, NEW v, KnownFact(JakaObserve(w), f, v)
    PROVE  w.truth[f] = v
<1> DEFINE s == JakaObserve(w)
<1>1. RawValue(s, f) = v /\ RawValue(s, f) # None
  BY DEF KnownFact, Knowledge
<1>2. s.val = [g \in Fields |-> IF w.dep.provider THEN Provided(w, g) ELSE Measured(w, g)]
  BY DEF JakaObserve, Evident
<1>3. Provided(w, f) \in {w.truth[f], None}
  BY DEF Provided
<1>4. Measured(w, f) \in {w.truth[f], None}
  <2>1. ~\E p \in Parts : f \in ReadyFields(p)
    BY DEF Derived
  <2> QED
    BY <2>1 DEF Measured
<1> HIDE DEF s
<1> QED
  BY <1>1, <1>2, <1>3, <1>4 DEF RawValue

\* A success report under verification means that the measured goals are
\* physically true, whatever the legacy objects answered.
THEOREM JakaVerdictIsPhysical == ASSUME JakaIsBackend PROVE Spec => []JakaSuccessIsPhysical
<1>1. SuccessIsObserved => JakaSuccessIsPhysical
  <2> SUFFICES ASSUME SuccessIsObserved, success, opts.verify, NEW i \in DOMAIN plan.goals,
                      plan.goals[i].field \notin Derived
               PROVE  world.truth[plan.goals[i].field] = plan.goals[i].value
    BY DEF JakaSuccessIsPhysical
  <2>1. KnownFact(JakaObserve(world), plan.goals[i].field, plan.goals[i].value)
    BY DEF SuccessIsObserved, Evidence, JakaIsBackend
  <2> QED
    BY <2>1, MeasuredIsTrue
<1> QED
  BY <1>1, SuccessIsWarranted, PTL

(***************************************************************************)
(* Types of the adapter's world.  They make its evidence typed, so that    *)
(* what is proved of repairs and replans holds of the executor over it.    *)
(***************************************************************************)
Motion == [field : Fields, value : Int]

JakaFields == {"dep", "truth", "down", "pending", "glitches", "drifts"}

JakaWorldTyped(w) ==
    /\ w = [field \in JakaFields |-> w[field]]
    /\ w.truth \in [Fields -> Int]
    /\ w.pending \in [Axes -> Seq(Motion)]

\* The default skills are registered, and what the instance chooses is typed.
JakaIsTyped ==
    /\ Contracts = DefaultRegistry
    /\ Metres \subseteq Int /\ Heights \subseteq Int /\ Yaws \subseteq Int /\ Pitches \subseteq Int
    /\ JakaDisturbances \subseteq Seq(Motion)
    /\ \A w \in Worlds : JakaWorldTyped(w)

LEMMA TypedIsShaped == ASSUME NEW w, JakaWorldTyped(w) PROVE Shaped(w)
BY DEF JakaWorldTyped, JakaFields, Shaped, Axes

LEMMA TruthMoves ==
    ASSUME NEW truth \in [Fields -> Int], NEW changes \in Seq(Motion)
    PROVE  With([val |-> truth], changes).val \in [Fields -> Int]
<1> DEFINE s == [val |-> truth, stale |-> {}, aged |-> {}, conflicts |-> {}, busy |-> {}]
           moved == With(s, changes)
<1>1. changes \in Seq(Effect)
  <2>1. Motion \subseteq Effect
    BY DEF Motion, Effect, Value
  <2> QED
    BY <2>1, SeqMonotonic
<1>2. s \in States /\ s.val = truth
  BY DEF States, Value
<1>3. With([val |-> truth], changes).val = moved.val
  BY DEF With
<1> HIDE DEF s
<1>4. /\ moved.val \in [Fields -> Value]
      /\ \A i \in DOMAIN changes : \E j \in DOMAIN changes :
            /\ changes[j].field = changes[i].field
            /\ changes[j].value = RawValue(moved, changes[i].field)
      /\ \A f \in Fields : \/ \E i \in DOMAIN changes : changes[i].field = f
                           \/ moved.val[f] = truth[f]
  <2>1. moved \in States
    BY <1>1, <1>2, WithTyped
  <2>2. moved.val \in [Fields -> Value]
    BY <2>1 DEF States
  <2>3. \A i \in DOMAIN changes : \E j \in DOMAIN changes :
           /\ changes[j].field = changes[i].field
           /\ changes[j].value = RawValue(moved, changes[i].field)
    BY <1>1, <1>2, WithTyped
  <2>4. \A f \in Fields : \/ \E i \in DOMAIN changes : changes[i].field = f
                          \/ moved.val[f] = s.val[f]
    BY <1>1, <1>2, WithTyped
  <2> QED
    BY <1>2, <2>2, <2>3, <2>4
<1>5. \A j \in DOMAIN changes : changes[j].value \in Int
  <2>1. \A j \in DOMAIN changes : changes[j] \in Motion
    BY ElementOfSeq, LenProperties
  <2> QED
    BY <2>1 DEF Motion
<1> HIDE DEF moved
<1>6. \A f \in Fields : moved.val[f] \in Int
  <2> SUFFICES ASSUME NEW f \in Fields PROVE moved.val[f] \in Int
    OBVIOUS
  <2>1. CASE \E i \in DOMAIN changes : changes[i].field = f
    <3>1. RawValue(moved, f) \in Int
      BY <1>4, <1>5, <2>1
    <3> QED
      BY <1>4, <3>1 DEF RawValue
  <2>2. CASE moved.val[f] = truth[f]
    BY <2>2
  <2> QED
    BY <1>4, <2>1, <2>2
<1> QED
  BY <1>3, <1>4, <1>6

\* A world changes in one of its parts.
LEMMA JakaPartTyped ==
    ASSUME NEW w, JakaWorldTyped(w)
    PROVE  /\ \A x \in [Fields -> Int] : JakaWorldTyped([w EXCEPT !.truth = x])
           /\ \A x \in [Axes -> Seq(Motion)] : JakaWorldTyped([w EXCEPT !.pending = x])
           /\ \A x : /\ JakaWorldTyped([w EXCEPT !.down = x])
                     /\ JakaWorldTyped([w EXCEPT !.glitches = x])
                     /\ JakaWorldTyped([w EXCEPT !.drifts = x])
<1> USE DEF JakaWorldTyped, JakaFields
<1>1. \A x \in [Fields -> Int] : JakaWorldTyped([w EXCEPT !.truth = x])
  OBVIOUS
<1>2. \A x \in [Axes -> Seq(Motion)] : JakaWorldTyped([w EXCEPT !.pending = x])
  OBVIOUS
<1>3. \A x : JakaWorldTyped([w EXCEPT !.down = x])
  OBVIOUS
<1>4. \A x : JakaWorldTyped([w EXCEPT !.glitches = x])
  OBVIOUS
<1>5. \A x : JakaWorldTyped([w EXCEPT !.drifts = x])
  OBVIOUS
<1> QED
  BY <1>1, <1>2, <1>3, <1>4, <1>5

LEMMA JakaSetTyped ==
    ASSUME NEW w, JakaWorldTyped(w), NEW changes \in Seq(Motion)
    PROVE  JakaWorldTyped(JakaSet(w, changes))
<1>1. With([val |-> w.truth], changes).val \in [Fields -> Int]
  BY TruthMoves DEF JakaWorldTyped
<1>2. JakaSet(w, changes) = [w EXCEPT !.truth = With([val |-> w.truth], changes).val]
  BY DEF JakaSet
<1> QED
  BY <1>1, <1>2, JakaPartTyped

LEMMA PendingTyped ==
    ASSUME NEW w, JakaWorldTyped(w), NEW axis \in Axes, NEW x \in Seq(Motion)
    PROVE  JakaWorldTyped([w EXCEPT !.pending[axis] = x])
<1> DEFINE left == [w.pending EXCEPT ![axis] = x]
<1>1. left \in [Axes -> Seq(Motion)]
  BY DEF JakaWorldTyped
<1>2. [w EXCEPT !.pending[axis] = x] = [w EXCEPT !.pending = left]
  OBVIOUS
<1> HIDE DEF left
<1>3. JakaWorldTyped([w EXCEPT !.pending = left])
  BY <1>1, JakaPartTyped
<1> QED
  BY <1>2, <1>3

LEMMA CallTyped ==
    ASSUME NEW w, JakaWorldTyped(w), NEW axis \in Axes, NEW motion \in Seq(Motion),
           NEW c \in Call(w, axis, motion)
    PROVE  JakaWorldTyped(c.world)
<1> DEFINE idle  == [w EXCEPT !.pending[axis] = <<>>]
           moved == JakaSet(idle, motion)
           under == [w EXCEPT !.pending[axis] = motion]
<1>1. JakaWorldTyped(idle) /\ JakaWorldTyped(under)
  <2>1. <<>> \in Seq(Motion)
    OBVIOUS
  <2> QED
    BY <2>1, PendingTyped
<1>2. JakaWorldTyped(moved)
  BY <1>1, JakaSetTyped
<1>3. CASE c = [world |-> moved, answer |-> "true"]
  BY <1>2, <1>3
<1>4. CASE \E v \in {moved, idle, under} : \E a \in {"true", "false", "raise"} :
             c = [world |-> [v EXCEPT !.glitches = @ - 1], answer |-> a]
  <2>1. PICK v \in {moved, idle, under}, a \in {"true", "false", "raise"} :
               c = [world |-> [v EXCEPT !.glitches = @ - 1], answer |-> a]
    BY <1>4
  <2>2. JakaWorldTyped(v)
    BY <1>1, <1>2
  <2> QED
    BY <2>1, <2>2, JakaPartTyped
<1>5. c \in {[world |-> moved, answer |-> "true"]}
            \cup {[world |-> [v EXCEPT !.glitches = @ - 1], answer |-> a]
                     : v \in {x \in {moved, idle, under} : x.glitches > 0},
                       a \in {"true", "false", "raise"}}
  BY DEF Call
<1> HIDE DEF idle, moved, under
<1> QED
  BY <1>3, <1>4, <1>5

LEMMA AcceptedTyped ==
    ASSUME NEW calls, \A c \in calls : JakaWorldTyped(c.world), NEW answers,
           NEW o \in Accepted(calls, answers)
    PROVE  JakaWorldTyped(o.world)
BY DEF Accepted, Outcome

\* The fields the adapter's commands move are fields of the default skills.
LEMMA MovedFields ==
    ASSUME JakaIsTyped
    PROVE  {"left_arm_safe", "right_arm_safe", "agv_position_m", "lift_height_mm",
            "head_yaw_deg", "head_pitch_deg"} \subseteq Fields
<1>1. /\ DOMAIN Contracts = 1 .. 5 /\ Contracts[1] = ArmContract("retract_arm", Yes)
      /\ Contracts[3] = MoveAgv /\ Contracts[4] = SetLift /\ Contracts[5] = SetHead
  BY DEF JakaIsTyped, DefaultRegistry
<1>2. \A i \in 1 .. 5 : IsContract(Contracts[i])
  BY <1>1, RegistryAssumption DEF ToSet
<1>3. ASSUME NEW c, IsContract(c), NEW i \in DOMAIN c.effects
      PROVE  \A b \in DOMAIN c.effects[i].field.at : c.effects[i].field.at[b] \in Fields
  BY <1>3 DEF IsContract, IsEffect, IsTemplate, ToSet
<1>4. "left_arm_safe" \in Fields /\ "right_arm_safe" \in Fields
  <2> DEFINE c == Contracts[1]
  <2>1. c.effects = <<Assigns(ArmSafe, Yes), Assigns(ArmReady, Yes)>>
    BY <1>1 DEF ArmContract
  <2>2. 1 \in DOMAIN c.effects /\ c.effects[1].field = ArmSafe
    BY <2>1 DEF Assigns
  <2>3. \A b \in DOMAIN ArmSafe.at : ArmSafe.at[b] \in Fields
    BY <1>2, <1>3, <2>2
  <2>4. /\ {"left", "right"} = DOMAIN ArmSafe.at
        /\ ArmSafe.at["left"] = "left_arm_safe" /\ ArmSafe.at["right"] = "right_arm_safe"
    BY DEF ArmSafe, Arms
  <2> QED
    BY <2>3, <2>4
<1>5. ASSUME NEW c, IsContract(c), NEW i \in DOMAIN c.effects, NEW f,
             c.effects[i].field = Plain(f)
      PROVE  f \in Fields
  BY <1>3, <1>5 DEF Plain
<1>6. "agv_position_m" \in Fields
  <2>1. 1 \in DOMAIN MoveAgv.effects /\ MoveAgv.effects[1].field = Plain("agv_position_m")
    BY DEF MoveAgv, Sets
  <2> QED
    BY <1>1, <1>2, <1>5, <2>1
<1>7. "lift_height_mm" \in Fields
  <2>1. 1 \in DOMAIN SetLift.effects /\ SetLift.effects[1].field = Plain("lift_height_mm")
    BY DEF SetLift, Sets
  <2> QED
    BY <1>1, <1>2, <1>5, <2>1
<1>8. "head_yaw_deg" \in Fields /\ "head_pitch_deg" \in Fields
  <2>1. /\ 1 \in DOMAIN SetHead.effects /\ SetHead.effects[1].field = Plain("head_yaw_deg")
        /\ 2 \in DOMAIN SetHead.effects /\ SetHead.effects[2].field = Plain("head_pitch_deg")
    BY DEF SetHead, Sets
  <2> QED
    BY <1>1, <1>2, <1>5, <2>1
<1> QED
  BY <1>4, <1>6, <1>7, <1>8

LEMMA MotionTyped ==
    ASSUME NEW f \in Fields, NEW v \in Int PROVE <<To(f, v)>> \in Seq(Motion)
<1>1. To(f, v) \in Motion
  BY DEF To, Motion
<1> QED
  BY <1>1

\* What the arguments of a valid step are.
LEMMA ArgumentsTyped ==
    ASSUME JakaIsTyped, NEW step, ValidStep(step)
    PROVE  /\ step.skill = "move_agv" => step.args.distance_m \in Int
           /\ step.skill = "set_lift" => step.args.height_mm \in Int
           /\ step.skill = "set_head" =>
                 /\ "yaw_deg" \in DOMAIN step.args => step.args["yaw_deg"] \in Int
                 /\ "pitch_deg" \in DOMAIN step.args => step.args["pitch_deg"] \in Int
<1>1. ValidArguments(Contract(step.skill), step.args)
  BY DEF ValidStep
<1>2. /\ Contract("move_agv") = MoveAgv /\ Contract("set_lift") = SetLift
      /\ Contract("set_head") = SetHead
  <2>1. SetHead \in ToSet(Contracts) /\ SetHead.name = "set_head"
    <3>1. 5 \in DOMAIN Contracts /\ Contracts[5] = SetHead
      BY DEF JakaIsTyped, DefaultRegistry
    <3> QED
      BY <3>1 DEF ToSet, SetHead
  <2> QED
    BY <2>1, ContractFound, TransportContracts DEF JakaIsTyped
<1>3. ASSUME step.skill = "move_agv" PROVE step.args.distance_m \in Int
  <2>1. ValidArguments(MoveAgv, step.args)
    BY <1>1, <1>2, <1>3
  <2>2. step.args.distance_m \in Metres
    BY <2>1 DEF ValidArguments, MoveAgv, Required
  <2> QED
    BY <2>2 DEF JakaIsTyped
<1>4. ASSUME step.skill = "set_lift" PROVE step.args.height_mm \in Int
  <2>1. ValidArguments(SetLift, step.args)
    BY <1>1, <1>2, <1>4
  <2>2. step.args.height_mm \in Heights
    BY <2>1 DEF ValidArguments, SetLift, Required
  <2> QED
    BY <2>2 DEF JakaIsTyped
<1>5. ASSUME step.skill = "set_head"
      PROVE  /\ "yaw_deg" \in DOMAIN step.args => step.args["yaw_deg"] \in Int
             /\ "pitch_deg" \in DOMAIN step.args => step.args["pitch_deg"] \in Int
  <2>1. ValidArguments(SetHead, step.args)
    BY <1>1, <1>2, <1>5
  <2>2. /\ "yaw_deg" \in DOMAIN step.args => step.args["yaw_deg"] \in Yaws
        /\ "pitch_deg" \in DOMAIN step.args => step.args["pitch_deg"] \in Pitches
    BY <2>1 DEF ValidArguments, SetHead, Optional
  <2> QED
    BY <2>2 DEF JakaIsTyped
<1> QED
  BY <1>3, <1>4, <1>5

LEMMA HeadTyped ==
    ASSUME JakaIsTyped, NEW w, JakaWorldTyped(w), NEW args,
           "yaw_deg" \in DOMAIN args => args["yaw_deg"] \in Int,
           "pitch_deg" \in DOMAIN args => args["pitch_deg"] \in Int,
           NEW o \in HeadOutcomes(w, args)
    PROVE  JakaWorldTyped(o.world)
<1> DEFINE ask(v, name, axis, f) ==
             IF name \in DOMAIN args THEN Call(v, axis, <<To(f, args[name])>>)
                                     ELSE {[world |-> v, answer |-> "true"]}
           yaws == ask(w, "yaw_deg", "yaw", "head_yaw_deg")
           pitches(y) == ask(y.world, "pitch_deg", "pitch", "head_pitch_deg")
<1>0. "head_yaw_deg" \in Fields /\ "head_pitch_deg" \in Fields /\ "yaw" \in Axes /\ "pitch" \in Axes
  BY MovedFields DEF Axes
<1>1. ASSUME NEW y \in yaws PROVE JakaWorldTyped(y.world)
  <2> DEFINE turn == <<To("head_yaw_deg", args["yaw_deg"])>>
  <2>1. "yaw_deg" \in DOMAIN args => turn \in Seq(Motion)
    BY <1>0, MotionTyped
  <2>2. \/ "yaw_deg" \in DOMAIN args /\ y \in Call(w, "yaw", turn)
        \/ y = [world |-> w, answer |-> "true"]
    BY <1>1
  <2> HIDE DEF turn
  <2> QED
    BY <1>0, <2>1, <2>2, CallTyped
<1>2. ASSUME NEW y \in yaws, NEW p \in pitches(y) PROVE JakaWorldTyped(p.world)
  <2> DEFINE turn == <<To("head_pitch_deg", args["pitch_deg"])>>
  <2>1. "pitch_deg" \in DOMAIN args => turn \in Seq(Motion)
    BY <1>0, MotionTyped
  <2>2. \/ "pitch_deg" \in DOMAIN args /\ p \in Call(y.world, "pitch", turn)
        \/ p = [world |-> y.world, answer |-> "true"]
    BY <1>2
  <2> HIDE DEF turn
  <2> QED
    BY <1>0, <1>1, <2>1, <2>2, CallTyped
<1>3. CASE o \in {Outcome(y.world, FALSE) : y \in {x \in yaws : x.answer = "raise"}}
  BY <1>1, <1>3 DEF Outcome
<1>4. CASE \E y \in yaws : \E answers : o \in Accepted(pitches(y), answers)
  <2>1. PICK y \in yaws : \E answers : o \in Accepted(pitches(y), answers)
    BY <1>4
  <2> QED
    BY <1>2, <2>1, AcceptedTyped
<1>5. o \in {Outcome(y.world, FALSE) : y \in {x \in yaws : x.answer = "raise"}}
            \cup UNION {Accepted(pitches(y), IF y.answer = "true" THEN {"true"} ELSE {})
                        : y \in {x \in yaws : x.answer # "raise"}}
  BY Zenon DEF HeadOutcomes
<1> HIDE DEF yaws, pitches
<1> QED
  BY <1>3, <1>4, <1>5

LEMMA JakaCommandTyped ==
    ASSUME JakaIsTyped, NEW w, JakaWorldTyped(w), NEW step, ValidStep(step),
           NEW o \in JakaCommand(w, step)
    PROVE  JakaWorldTyped(o.world)
<1> DEFINE arms  == <<To("left_arm_safe", Yes), To("right_arm_safe", Yes)>>
           drive == <<To("agv_position_m", w.truth["agv_position_m"] + step.args.distance_m)>>
           lift  == <<To("lift_height_mm", step.args.height_mm)>>
<1>1. \/ \E answers : o \in Accepted(Call(w, "arm", arms), answers)
      \/ step.skill = "move_agv" /\ \E answers : o \in Accepted(Call(w, "agv", drive), answers)
      \/ step.skill = "set_lift" /\ \E answers : o \in Accepted(Call(w, "lift", lift), answers)
      \/ step.skill = "set_head" /\ o \in HeadOutcomes(w, step.args)
      \/ o = Outcome(w, FALSE)
  <2> HIDE DEF arms, drive, lift
  <2> QED
    BY DEF JakaCommand, arms, drive, lift
<1>2. arms \in Seq(Motion)
  <2>1. To("left_arm_safe", Yes) \in Motion /\ To("right_arm_safe", Yes) \in Motion
    BY MovedFields DEF To, Motion, Yes
  <2> QED
    BY <2>1
<1>3. step.skill = "move_agv" => drive \in Seq(Motion)
  <2>1. "agv_position_m" \in Fields /\ w.truth["agv_position_m"] \in Int
    BY MovedFields DEF JakaWorldTyped
  <2> QED
    BY <2>1, ArgumentsTyped, MotionTyped
<1>4. step.skill = "set_lift" => lift \in Seq(Motion)
  BY MovedFields, ArgumentsTyped, MotionTyped
<1> HIDE DEF arms, drive, lift
<1>5. ASSUME NEW axis \in Axes, NEW motion \in Seq(Motion), NEW answers,
             o \in Accepted(Call(w, axis, motion), answers)
      PROVE  JakaWorldTyped(o.world)
  BY <1>5, CallTyped, AcceptedTyped
<1>6. ASSUME step.skill = "set_head", o \in HeadOutcomes(w, step.args)
      PROVE  JakaWorldTyped(o.world)
  BY <1>6, ArgumentsTyped, HeadTyped
<1>7. ASSUME o = Outcome(w, FALSE) PROVE JakaWorldTyped(o.world)
  BY <1>7 DEF Outcome
<1>8. {"arm", "agv", "lift"} \subseteq Axes
  BY DEF Axes
<1> QED
  BY <1>1, <1>2, <1>3, <1>4, <1>5, <1>6, <1>7, <1>8

LEMMA JakaStopTyped ==
    ASSUME NEW w, JakaWorldTyped(w) PROVE JakaWorldTyped(JakaStop(w))
<1>1. "agv" \in Axes /\ <<>> \in Seq(Motion)
  BY DEF Axes
<1>2. JakaWorldTyped([w EXCEPT !.pending["agv"] = <<>>])
  BY <1>1, PendingTyped
<1> QED
  BY <1>2 DEF JakaStop

LEMMA JakaDriftTyped ==
    ASSUME JakaIsTyped, NEW w, JakaWorldTyped(w), NEW v \in JakaDrifts(w) PROVE JakaWorldTyped(v)
<1>1. CASE \E x \in Axes : v = [JakaSet(w, w.pending[x]) EXCEPT !.pending[x] = <<>>]
  <2>1. PICK x \in Axes : v = [JakaSet(w, w.pending[x]) EXCEPT !.pending[x] = <<>>]
    BY <1>1
  <2>2. w.pending[x] \in Seq(Motion) /\ <<>> \in Seq(Motion)
    BY DEF JakaWorldTyped
  <2>3. JakaWorldTyped(JakaSet(w, w.pending[x]))
    BY <2>2, JakaSetTyped
  <2> QED
    BY <2>1, <2>2, <2>3, PendingTyped
<1>2. CASE \E u : JakaWorldTyped(u) /\ v = [u EXCEPT !.drifts = @ - 1]
  <2>1. PICK u : JakaWorldTyped(u) /\ v = [u EXCEPT !.drifts = @ - 1]
    BY <1>2
  <2> QED
    BY <2>1, JakaPartTyped
<1> QED
  <2>1. \A p : JakaWorldTyped([w EXCEPT !.down = (@ \cup {p}) \ (@ \cap {p})])
    BY JakaPartTyped
  <2>2. \A d \in JakaDisturbances : JakaWorldTyped(JakaSet(w, d))
    BY JakaSetTyped DEF JakaIsTyped
  <2> DEFINE moves == {[JakaSet(w, w.pending[x]) EXCEPT !.pending[x] = <<>>]
                          : x \in {y \in Axes : w.pending[y] # <<>>}}
             downs == {[w EXCEPT !.down = (@ \cup {p}) \ (@ \cap {p})]
                          : p \in Parts \cup {"provider", "stop"}}
             sets  == {JakaSet(w, d) : d \in JakaDisturbances}
  <2>3. v \in moves \cup {[u EXCEPT !.drifts = @ - 1] : u \in {x \in downs \cup sets : x.drifts > 0}}
    BY DEF JakaDrifts
  <2>4. \A u \in downs \cup sets : JakaWorldTyped(u)
    BY <2>1, <2>2
  <2>5. v \in moves => \E x \in Axes : v = [JakaSet(w, w.pending[x]) EXCEPT !.pending[x] = <<>>]
    OBVIOUS
  <2> HIDE DEF moves, downs, sets
  <2> QED
    BY <1>1, <1>2, <2>3, <2>4, <2>5

LEMMA JakaObserveTyped ==
    ASSUME NEW w, JakaWorldTyped(w) PROVE JakaObserve(w) \in States
<1> DEFINE val == [f \in Fields |-> IF w.dep.provider THEN Provided(w, f) ELSE Measured(w, f)]
<1>1. \A f \in Fields : w.truth[f] \in Value /\ None \in Value /\ Yes \in Value /\ No \in Value
  BY DEF JakaWorldTyped, Value, Yes, No
<1>2. \A f \in Fields : Provided(w, f) \in Value
  BY <1>1 DEF Provided
<1>3. \A f \in Fields : Measured(w, f) \in Value
  BY <1>1 DEF Measured, Readiness
<1>4. val \in [Fields -> Value]
  BY <1>2, <1>3
<1>5. JakaObserve(w) = [val |-> val, stale |-> {}, aged |-> {}, conflicts |-> {}, busy |-> {}]
  BY DEF JakaObserve, Evident
<1> HIDE DEF val
<1> QED
  BY <1>4, <1>5 DEF States

\* Whatever the executor does, the world stays typed and the plans keep what
\* they block.
LEMMA JakaStaysTyped ==
    ASSUME JakaIsBackend, JakaIsTyped
    PROVE  Spec => [](JakaWorldTyped(world) /\ Blocking)
<1>1. \A w : JakaWorldTyped(w) => BackendObserve(w) \in States
  BY JakaObserveTyped DEF JakaIsBackend
<1>2. Init => JakaWorldTyped(world) /\ Blocking
  BY TasksAssumption DEF Init, JakaIsTyped, Blocking, PlanKept
<1>3. JakaWorldTyped(world) /\ Blocking /\ TypeOK /\ [Next]_vars
        => JakaWorldTyped(world)' /\ Blocking'
  <2> SUFFICES ASSUME JakaWorldTyped(world), Blocking, TypeOK, [Next]_vars
               PROVE  JakaWorldTyped(world)' /\ Blocking'
    OBVIOUS
  <2>0. SUFFICES JakaWorldTyped(world')
    BY <1>1, StepKeepsBlocking DEF EvidenceTyped, Evidence
  <2>1. CASE \E fields : world' = BackendAcquire(world, fields)
    BY <2>1 DEF JakaIsBackend, JakaAcquire
  <2>2. CASE pc = "dispatch" /\ \E outcome \in BackendCommand(world, Step) : world' = outcome.world
    <3>1. PICK outcome \in JakaCommand(world, Step) : world' = outcome.world
      BY <2>2 DEF JakaIsBackend
    <3>2. ValidStep(Step)
      BY <2>2 DEF Blocking
    <3> QED
      BY <3>1, <3>2, JakaCommandTyped
  <2>3. CASE world' = BackendStop(world)
    BY <2>3, JakaStopTyped DEF JakaIsBackend
  <2>4. CASE world' \in Drifts(world)
    BY <2>4, JakaDriftTyped DEF JakaIsBackend
  <2> QED
    BY <2>1, <2>2, <2>3, <2>4, WorldSteps
<1> QED
  BY <1>2, <1>3, TypeCorrect, PTL DEF Spec

\* So its evidence is typed.
LEMMA JakaEvidenceTyped ==
    ASSUME JakaIsBackend, JakaIsTyped
    PROVE  Spec => []EvidenceTyped
<1>1. JakaWorldTyped(world) => EvidenceTyped
  BY JakaObserveTyped DEF EvidenceTyped, Evidence, JakaIsBackend
<1> QED
  BY <1>1, JakaStaysTyped, PTL

\* Over JakaRobotBackend, a skill a replan blocked is never commanded again.
THEOREM JakaNeverCommandsBlocked ==
    ASSUME JakaIsBackend, JakaIsTyped
    PROVE  Spec => []BlockedNeverCommanded
BY JakaEvidenceTyped, BlockedIsNeverCommanded, PTL

\* Over JakaRobotBackend, REGROUND is the only way a call can go on for ever.
THEOREM JakaOnlyRegroundGoesOn ==
    ASSUME JakaIsBackend, JakaIsTyped
    PROVE  Spec => WorkRunsOut
BY JakaEvidenceTyped, OnlyRegroundGoesOn, PTL

(***************************************************************************)
(* Capabilities.  They are those of the deployment, and a step is within   *)
(* them whatever the evidence.                                             *)
(***************************************************************************)
\* The capabilities are those of JakaBackend, and Python's None is not among
\* them.
JakaLimits ==
    /\ \A w : BackendCapabilities(w) = JakaCapabilities(w)
    /\ \A w : JakaCapabilities(w) # None

Within(step, caps) ==
    /\ step.skill \in caps.supported
    /\ \A s : CapabilityIssues(step, ExpectedEffects(step, s), caps) = {}

\* Which fields a step affects does not depend on the evidence.
LEMMA FieldsFixed ==
    ASSUME NEW step, NEW s, NEW t, NEW caps
    PROVE  CapabilityIssues(step, ExpectedEffects(step, s), caps)
             = CapabilityIssues(step, ExpectedEffects(step, t), caps)
<1> DEFINE declared == Contract(step.skill).effects
           active   == Only(declared, {e \in ToSet(declared) :
                                           e.when = None \/ e.when \in DOMAIN step.args})
           fields(u) == {ExpectedEffects(step, u)[i].field : i \in DOMAIN ExpectedEffects(step, u)}
<1>1. ASSUME NEW u
      PROVE  fields(u) = {Resolve(active[i].field, step.args) : i \in DOMAIN active}
  <2>1. ExpectedEffects(step, u)
          = [i \in DOMAIN active |-> [field |-> Resolve(active[i].field, step.args),
                                      value |-> ExpectedValue(active[i], step.args, u)]]
    BY DEF ExpectedEffects, Active, Predicted
  <2> HIDE DEF active
  <2> QED
    BY <2>1
<1>2. fields(s) = fields(t)
  BY <1>1
<1> HIDE DEF active
<1> QED
  BY <1>2 DEF CapabilityIssues

\* Neither does it depend on the step's group.
LEMMA WithinUngrouped ==
    ASSUME NEW step, IsStep(step), NEW caps, Within(step, caps)
    PROVE  Within(Ungrouped(step), caps)
<1> DEFINE u == Ungrouped(step)
<1>1. /\ u.id = step.id /\ u.skill = step.skill /\ u.args = step.args
      /\ \A s : ExpectedEffects(u, s) = ExpectedEffects(step, s)
  BY UngroupedAlike
<1> HIDE DEF u
<1>2. \A effects : CapabilityIssues(u, effects, caps) = CapabilityIssues(step, effects, caps)
  BY <1>1 DEF CapabilityIssues
<1> QED
  BY <1>1, <1>2 DEF Within, u

\* ctx: the steps and the capabilities.
LimitedSoFar(ctx, n, acc) ==
    /\ acc = [field \in GroundedFields |-> acc[field]]
    /\ acc.issues = {} => \A j \in 1 .. n : Within(ctx.steps[j], ctx.caps)

Limiting == INSTANCE Folding WITH Op <- GroundOne, Inv <- LimitedSoFar

LEMMA GroundedStep ==
    ASSUME NEW acc, acc = [field \in GroundedFields |-> acc[field]], NEW step,
           NEW caps, caps # None
    PROVE  LET b == GroundStep(acc, step, caps)
           IN  /\ b = [field \in GroundedFields |-> b[field]]
               /\ b.issues = {} => acc.issues = {} /\ Within(step, caps)
<1> DEFINE b == GroundStep(acc, step, caps)
           effects == ExpectedEffects(step, acc.s)
           failed(code) == [acc EXCEPT !.issues = @ \cup {Issue(code, step.id, FALSE, None, None)}]
           projected == [s      |-> With(acc.s, effects),
                         issues |-> acc.issues \cup StepIssues(step, acc.s, effects, caps)]
<1>1. ASSUME NEW code
      PROVE  /\ failed(code) = [field \in GroundedFields |-> failed(code)[field]]
             /\ failed(code).issues # {}
  BY DEF GroundedFields
<1>2. CASE \E code : b = failed(code)
  <2> HIDE DEF b
  <2> QED
    BY <1>1, <1>2 DEF b
<1>3. CASE step.skill \in caps.supported /\ b = projected
  <2>1. /\ projected = [field \in GroundedFields |-> projected[field]]
        /\ projected.issues = acc.issues \cup StepIssues(step, acc.s, effects, caps)
    BY DEF GroundedFields
  <2>2. CapabilityIssues(step, effects, caps) \subseteq StepIssues(step, acc.s, effects, caps)
    BY DEF StepIssues
  <2> HIDE DEF b, projected, effects
  <2>3. projected.issues = {} => acc.issues = {} /\ CapabilityIssues(step, effects, caps) = {}
    BY <2>1, <2>2
  <2>4. CapabilityIssues(step, effects, caps) = {} => Within(step, caps)
    BY <1>3, FieldsFixed DEF Within, effects
  <2> QED
    BY <1>3, <2>1, <2>3, <2>4 DEF b
<1>4. \/ \E code : b = failed(code)
      \/ step.skill \in caps.supported /\ b = projected
  <2> HIDE DEF failed, projected
  <2>1. \/ b = failed("UNKNOWN_SKILL") \/ b = failed("BACKEND_SKILL_UNSUPPORTED")
        \/ b = failed("INVALID_ARGUMENTS")
        \/ step.skill \in caps.supported /\ b = projected
    BY DEF GroundStep, failed, projected
  <2> QED
    BY <2>1
<1> QED
  BY <1>2, <1>3, <1>4

\* A plan the grounder reports nothing of is within the capabilities it was
\* grounded with.
LEMMA GroundedWithin ==
    ASSUME NEW p, IsSequence(p.steps), NEW s, NEW caps, caps # None, Ground(p, s, caps) = {}
    PROVE  \A step \in ToSet(p.steps) : Within(step, caps)
<1> DEFINE steps == p.steps
           base  == [s |-> s, issues |-> {}]
           all   == Limiting!Folded(caps, None, base, steps)
           ctx   == [steps |-> steps, caps |-> caps]
<1>1. Len(steps) \in Nat /\ DOMAIN steps = 1 .. Len(steps)
  BY SequenceIsSequence DEF IsSequence
<1>2. LimitedSoFar(ctx, 0, base)
  <2>1. base = [field \in GroundedFields |-> base[field]]
    BY DEF GroundedFields
  <2> HIDE DEF base
  <2> QED
    BY <2>1 DEF LimitedSoFar
<1>3. ctx.steps = steps /\ ctx.caps = caps
  OBVIOUS
<1> HIDE DEF ctx
<1>4. ASSUME NEW i \in 1 .. Len(steps), NEW acc, LimitedSoFar(ctx, i-1, acc)
      PROVE  LimitedSoFar(ctx, i, GroundOne(caps, None, acc, steps[i]))
  <2> DEFINE b == GroundStep(acc, steps[i], caps)
  <2>1. /\ b = [field \in GroundedFields |-> b[field]]
        /\ b.issues = {} => acc.issues = {} /\ Within(steps[i], caps)
    BY <1>4, GroundedStep DEF LimitedSoFar
  <2> HIDE DEF b
  <2>2. acc.issues = {} => \A j \in 1 .. i-1 : Within(steps[j], caps)
    BY <1>3, <1>4 DEF LimitedSoFar
  <2>3. \A j \in 1 .. i : j \in 1 .. i-1 \/ j = i
    OBVIOUS
  <2>4. LimitedSoFar(ctx, i, b)
    BY <1>3, <2>1, <2>2, <2>3 DEF LimitedSoFar
  <2> QED
    BY <2>4 DEF GroundOne, b
<1>5. all = GroundFold(p, s, caps)
  BY DEF GroundFold, GroundOne, Limiting!Folded, FoldLeft, Limiting!FoldLeft,
         MapThenFoldSet, Limiting!MapThenFoldSet, Max, Limiting!Max
<1> HIDE DEF base
<1>6. LimitedSoFar(ctx, Len(steps), all)
  <2> HIDE DEF steps
  <2> QED
    BY <1>1, <1>2, <1>4, Limiting!FoldInduction
<1>7. all.issues = {}
  BY <1>5, GroundParts
<1> QED
  BY <1>1, <1>3, <1>6, <1>7 DEF LimitedSoFar, ToSet

(***************************************************************************)
(* The invariant: once preflight is over, what the task or a replan put    *)
(* into the plan has been grounded with the deployment's capabilities.     *)
(***************************************************************************)
PlannedWithin(steps, caps) == \A step \in ToSet(steps) : FromRepair(step) \/ Within(step, caps)

Planned ==
    opts.capability /\ opts.ground =>
        /\ pc = "preflight" /\ issues = {} => PlannedWithin(plan.steps, Capabilities)
        /\ pc \notin {"start", "preflight", "done", "raised"} => PlannedWithin(plan.steps, Capabilities)

\* A repair adds only steps that are told by their ids.
LEMMA RepairDraws ==
    ASSUME NEW p, PlanKept(p), NEW s \in States, NEW found,
           ~RequiresStop(found) => AllValid(p.steps), Repair(p, s, found) # None,
           NEW caps, PlannedWithin(p.steps, caps)
    PROVE  PlannedWithin(Repair(p, s, found).steps, caps)
<1> DEFINE fixed == Repair(p, s, found)
           n     == Len(p.steps)
<1>1. Repairable(p, s)
  BY DEF Repair, Repairable, PlanKept, AllValid
<1>2. Drawn(p, n, fixed.steps)
  <2>1. Follows(RepairJob(p, s), fixed)
    BY <1>1, RepairSound
  <2> HIDE DEF fixed
  <2> QED
    BY <2>1 DEF Follows, RepairJob
<1> HIDE DEF fixed
<1>3. DOMAIN p.steps = 1 .. n
  BY SequenceIsSequence DEF PlanKept, WellFormed
<1>4. ASSUME NEW i \in 1 .. n
      PROVE  FromRepair(Ungrouped(p.steps[i])) \/ Within(Ungrouped(p.steps[i]), caps)
  <2> DEFINE own == p.steps[i]
  <2>1. own \in ToSet(p.steps) /\ IsStep(own)
    BY <1>3 DEF PlanKept, WellFormed, ToSet
  <2>2. FromRepair(own) \/ Within(own, caps)
    BY <2>1 DEF PlannedWithin
  <2> HIDE DEF own
  <2>3. Ungrouped(own).id = own.id
    BY <2>1, UngroupedAlike
  <2>4. FromRepair(Ungrouped(own)) \/ Within(Ungrouped(own), caps)
    BY <2>1, <2>2, <2>3, WithinUngrouped DEF FromRepair
  <2> QED
    BY <2>4 DEF own
<1>5. PlannedWithin(fixed.steps, caps)
  BY <1>2, <1>4 DEF Drawn, PlannedWithin
<1> QED
  BY <1>5 DEF fixed

LEMMA CapabilitiesFixed ==
    ASSUME JakaIsBackend, JakaLimits, Shaped(world), [Next]_vars
    PROVE  Capabilities' = Capabilities
<1>1. world'.dep = world.dep
  BY WorldSame DEF Same
<1>2. \A v, w : v.dep = w.dep => JakaCapabilities(v) = JakaCapabilities(w)
  BY DEF JakaCapabilities, JakaSupported, JakaObservable, JakaSemantics
<1> QED
  BY <1>1, <1>2 DEF Capabilities, JakaLimits

LEMMA StepKeepsPlanned ==
    ASSUME JakaIsBackend, JakaLimits, Shaped(world), EvidenceTyped, EvidenceTyped',
           Blocking, TypeOK, Planned, [Next]_vars
    PROVE  Planned'
<1> SUFFICES ASSUME opts'.capability, opts'.ground
             PROVE  /\ pc' = "preflight" /\ issues' = {} => PlannedWithin(plan'.steps, Capabilities)
                    /\ pc' \notin {"start", "preflight", "done", "raised"}
                         => PlannedWithin(plan'.steps, Capabilities)
  BY CapabilitiesFixed DEF Planned
<1>1. opts' = opts
  BY DEF Next, Execute, Returned, vars, Start, PreflightObserve, PreflightPass, PreflightRepair,
         PreflightStop, GiveUp, InvalidStep, AdmitStep, RefuseStep, RuntimeObserve,
         RuntimeRepair, RuntimeStop, Dispatch, StepAchieved, StepNotAchieved, Retry,
         ProposeReplan, AdoptGrounded, Adopt, RejectUngrounded, RepairDraft,
         RecoveryExhausted, Succeed, GoalMissed, Halt, Raise, Drift, Keep
<1>2. Caps = Capabilities /\ Capabilities # None
  BY <1>1 DEF Caps, Capabilities, JakaLimits
<1>3. PlanKept(plan) /\ Evidence \in States
  BY DEF Blocking, EvidenceTyped
<1>4. ASSUME NEW p, PlanKept(p), NEW s, Ground(p, s, Capabilities) = {}
      PROVE  PlannedWithin(p.steps, Capabilities)
  BY <1>2, <1>4, GroundedWithin DEF PlannedWithin, PlanKept, WellFormed, IsSequence
<1>5. CASE Start
  <2>1. /\ plan' = WithGoalState(plan, Evidence)
        /\ pc' = "preflight" /\ issues' = Ground(plan', Evidence, Capabilities)
    BY <1>1, <1>2, <1>5 DEF Start
  <2>2. PlanKept(plan')
    BY <1>3, <2>1, GoalsProjected DEF PlanKept, Unblocked
  <2> QED
    BY <1>4, <2>1, <2>2
<1>6. CASE PreflightObserve
  <2>1. plan' = plan /\ pc' = "preflight"
        /\ \E s : issues' = Ground(plan, s, Capabilities)
    BY <1>2, <1>6 DEF PreflightObserve
  <2> QED
    BY <1>3, <1>4, <2>1
<1>7. CASE PreflightRepair
  <2>1. /\ pc = "preflight" /\ pc' = "step" /\ plan' # None
        /\ plan' = Repair(plan, before, issues) /\ Ground(plan', before, Capabilities) = {}
    BY <1>2, <1>7 DEF PreflightRepair, PreflightRepaired
  <2>2. PlanKept(plan')
    <3>1. before \in States /\ (~RequiresStop(issues) => AllValid(plan.steps))
      BY <2>1 DEF Blocking
    <3> QED
      BY <1>3, <2>1, <3>1, RepairKeepsPlan
  <2> QED
    BY <1>4, <2>1, <2>2
<1>8. CASE RuntimeRepair
  <2>1. PICK fixed \in {RuntimeRepaired} \ {None} :
           plan' = [plan EXCEPT !.steps    = SubSeq(@, 1, index - 1) \o fixed.steps,
                                !.revision = fixed.revision]
    BY <1>8 DEF RuntimeRepair
  <2>2. pc = "blocked" /\ pc' = "step"
    BY <1>8 DEF RuntimeRepair
  <2>3. fixed = Repair(Suffix, before, issues) /\ fixed # None
    BY DEF RuntimeRepaired
  <2>4. /\ index \in DOMAIN plan.steps /\ before \in States
        /\ ~RequiresStop(issues) => AllValid(Suffix.steps)
    BY <2>2 DEF Blocking
  <2>5. PlannedWithin(plan.steps, Capabilities)
    BY <1>1, <2>2 DEF Planned
  <2> DEFINE head == SubSeq(plan.steps, 1, index - 1)
  <2>6. /\ DOMAIN plan.steps = 1 .. Len(plan.steps) /\ Len(plan.steps) \in Nat
        /\ \A i \in DOMAIN plan.steps : plan.steps[i] \in ToSet(plan.steps)
    BY <1>3, SequenceIsSequence DEF PlanKept, WellFormed, ToSet
  <2>7. PlanKept(Suffix) /\ PlannedWithin(Suffix.steps, Capabilities)
    <3>1. Suffix.steps = SubSeq(plan.steps, index, Len(plan.steps))
      BY <1>3 DEF Suffix, PlanKept, IsPlan, PlanFields
    <3>2. index \in Int /\ Len(plan.steps) \in Int
          /\ \A i \in index .. Len(plan.steps) : plan.steps[i] \in ToSet(plan.steps)
      BY <2>4, <2>6
    <3>3. SubSeq(plan.steps, index, Len(plan.steps)) \in Seq(ToSet(plan.steps))
      BY <3>2, SubSeqProperties
    <3>4. ToSet(Suffix.steps) \subseteq ToSet(plan.steps)
      BY <3>1, <3>3, SequenceIsSequence
    <3> QED
      BY <1>3, <2>4, <2>5, <3>4, SuffixKept DEF PlannedWithin
  <2>8. IsSequence(head) /\ ToSet(head) \subseteq ToSet(plan.steps)
    <3>1. 1 \in Int /\ index - 1 \in Int
          /\ \A i \in 1 .. index - 1 : plan.steps[i] \in ToSet(plan.steps)
      BY <2>4, <2>6
    <3>2. head \in Seq(ToSet(plan.steps))
      BY <3>1, SubSeqProperties
    <3> QED
      BY <3>2, SequenceIsSequence
  <2>9. PlannedWithin(fixed.steps, Capabilities)
    BY <2>3, <2>4, <2>7, RepairDraws
  <2>10. PlanKept(fixed)
    BY <2>3, <2>4, <2>7, RepairKeepsPlan
  <2> HIDE DEF head
  <2>11. ToSet(head \o fixed.steps) \subseteq ToSet(head) \cup ToSet(fixed.steps)
    BY <2>8, <2>10, ConcatMembers DEF PlanKept, WellFormed, IsSequence
  <2>12. plan'.steps = head \o fixed.steps
    BY <1>3, <2>1 DEF head, PlanKept, IsPlan, PlanFields
  <2>13. PlannedWithin(plan'.steps, Capabilities)
    BY <2>5, <2>8, <2>9, <2>11, <2>12 DEF PlannedWithin
  <2> QED
    BY <2>2, <2>13
<1>9. CASE AdoptGrounded
  <2>1. /\ pc \in {"ground", "check"} /\ pc' = "step"
        /\ plan' = draft /\ Ground(draft, Evidence, Capabilities) = {}
    BY <1>2, <1>9 DEF AdoptGrounded, Adopt
  <2>2. PlanKept(draft)
    BY <2>1 DEF Blocking
  <2> QED
    BY <1>4, <2>1, <2>2
<1>10. CASE PreflightPass
  BY <1>1, <1>10 DEF PreflightPass, Planned
<1>11. CASE PreflightStop \/ Succeed \/ Halt \/ Raise
  BY <1>11 DEF PreflightStop, GiveUp, Succeed, Halt, Raise
<1>12. CASE \/ InvalidStep \/ AdmitStep \/ RefuseStep \/ RuntimeObserve \/ RuntimeStop
            \/ Dispatch \/ StepAchieved \/ StepNotAchieved
  BY <1>1, <1>12 DEF InvalidStep, AdmitStep, RefuseStep, AtStep, RuntimeObserve, RuntimeStop,
                     Dispatch, StepAchieved, StepNotAchieved, AfterFailure, Planned
<1>13. CASE Retry \/ ProposeReplan \/ RejectUngrounded \/ RepairDraft \/ RecoveryExhausted
            \/ GoalMissed
  BY <1>1, <1>13 DEF Retry, AfterRetry, ProposeReplan, RejectUngrounded, RepairDraft,
                     RecoveryExhausted, GoalMissed, AtEnd, Planned
<1>14. CASE Drift \/ UNCHANGED vars
  BY <1>1, <1>14 DEF Drift, vars, flow, Planned
<1> QED
  BY <1>5, <1>6, <1>7, <1>8, <1>9, <1>10, <1>11, <1>12, <1>13, <1>14
     DEF Next, Execute, Returned

\* With capability preflight on, whatever skills replans fall back on and
\* repairs insert, a step of the task or of a replanned task that goes out is
\* within what the deployment supports and can observe.
THEOREM PlannedStaysWithin ==
    ASSUME JakaIsBackend, JakaIsTyped, JakaLimits
    PROVE  Spec => []PlannedWithinCapabilities
<1>1. Init => Planned
  BY DEF Init, Planned
<1>2. JakaWorldTyped(world) => Shaped(world) /\ EvidenceTyped
  BY JakaObserveTyped, TypedIsShaped DEF EvidenceTyped, Evidence, JakaIsBackend
<1>3. Shaped(world) /\ EvidenceTyped /\ EvidenceTyped' /\ Blocking /\ TypeOK /\ Planned /\ [Next]_vars
        => Planned'
  BY StepKeepsPlanned
<1>4. Blocking /\ Planned => PlannedWithinCapabilities
  <2> SUFFICES ASSUME Blocking, Planned, pc = "dispatch", opts.capability, opts.ground,
                      Step.id[1] # "repair"
               PROVE  ~BeyondCapabilities(Step, ExpectedEffects(Step, before))
    BY DEF PlannedWithinCapabilities
  <2>1. Step \in ToSet(plan.steps) /\ ~FromRepair(Step)
    BY DEF Blocking, Step, ToSet, FromRepair
  <2>2. Within(Step, Capabilities)
    BY <2>1 DEF Planned, PlannedWithin
  <2> QED
    BY <2>2 DEF Within, BeyondCapabilities
<1> QED
  BY <1>1, <1>2, <1>3, <1>4, JakaStaysTyped, TypeCorrect, PTL DEF Spec
============================================================================
