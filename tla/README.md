# EmbodiedSkill-ROS in TLA+

Specifications, model-checking configurations and machine-checked proofs for the
embodied skill executor of this repository: the closed loop that grounds a task
plan against what a robot's sensors show, repairs it, commands a backend, looks
at what really happened, and retries, replans or stops; and for the backends through
which it reaches a robot: the mock, the legacy JAKA adapter, the ROS 2 client with
its process-separated robot and validation scenarios, and the JAKA/Kargo adapter.

Paths below are relative to `src/embodied_skill_ros/` unless they start with
`docs/` or `tests/`.

## 1. Inventory

| Component | Source | State it keeps | Operations | What makes it correct |
|---|---|---|---|---|
| Skill executor | `execution/skill_executor.py`, `recovery_manager.py`, `runtime_guard.py`, `outcome_verifier.py`, `state/state_manager.py` | plan, index, attempt, replan / repair / observation counters, decision, latest evidence | `execute` | no command but on fresh, admitted evidence; no step skipped; success only when the goals are really met; a stop on every failing path; the budgets bound the work; it returns |
| Skill contracts, registry | `skills/base_skill.py`, `skills/registry.py`, `models/robot_state.py` | none (pure) | evaluate preconditions, predict and invert effects, verify outcomes | unknown, stale and contradictory evidence never counts as true |
| Default skills | `skills/{arm,agv,lift,head}_skills.py` | none | the five contracts | |
| Grounder, constraints | `grounding/plan_grounder.py`, `constraint_checker.py` | none | `ground` | reports every unmet precondition along the projection |
| Repairer | `grounding/plan_repairer.py` | search counters | `repair` | the repaired plan grounds; it keeps the task; it is bounded |
| Replanner | `planner/goal_replanner.py` | none | `__call__` | reaches the goals without the blocked skills |
| Mock backend | `backends/mock_backend.py`, `base_backend.py` | hidden world, fault queues, acquisition counts | `observe`, `acquire`, `command`, `stop`, `set_state` | accepts commands without claiming their effect |
| ROS 2 client | `ros2/ros2_backend.py` | latest state and its sequence number, required sequence (barrier), request id, current goal | `observe`, `acquire`, `command`, `stop`, topic callbacks | verification sees evidence newer than the command |
| ROS 2 fake robot | `ros2/fake_robot_node.py` | world, command envelope, scripted behaviours, pending observations | goal, cancel, execute, parameter, timer and service callbacks | each goal moves the robot once, with its own command unless its call was given up on |
| JAKA backend | `backends/jaka_backend.py` | none but the objects it is given | `observe`, `command`, `stop`, `capabilities` | no motion while nobody knows where the arms are; a legacy answer is never taken for a motion |
| ROS 2 validation | `ros2/runtime_validation.py` | the scenario | seventeen scenarios with their checks | each scenario shows what it says about executor and robot |
| JAKA/Kargo | `integrations/jaka_kargo/*.py` | latest odometry and motion state with sequence numbers, two-topic barrier | `observe`, `command`, `stop`, capability mapping | motion only under known e-stop evidence; no success claimed on old odometry |
| Facade, planners | `system.py`, `planner/*` | none | wiring, instruction to plan | |
| Tracing, metrics, oracle, benchmarks, scripts | `tracing/`, `evaluation/`, `integrations/jaka_kargo/runtime_validation.py`, ... | files | reporting | |

How they interact. `SkillExecutor.execute` is one synchronous method in one
thread. It calls the backend (`observe`, `acquire`, `command`, `stop`) and does
pure computation on what it got (ground, guard, repair, replan, verify). The
robot, and with ROS also the callbacks that store observations, move on
concurrently: **between any two backend calls the world may be another one.**
That is where the hard behaviours are:

* evidence that was judged is not the evidence the command meets (time of check,
  time of use), and the evidence after the command is not the evidence the final
  verdict is given on;
* a command may be refused, accepted without effect, late with effect, or
  reported failed with effect; a retried relative move then moves twice;
* `observe` and `acquire` may raise, and nothing in `execute` catches that;
* retries, regrounds, repairs, replans and observations loop back to different
  places with different counters reset;
* repair and replan rewrite the plan, its goals and the skills they may use, in
  sequences (repair, fail, replan, repair, drift, repair) nobody wrote a test for;
* over ROS, observations, goal responses, results and cancellations race.

`PROJECT.json` lists each of these hazards at its line with the properties that
would catch it.

## 2. Modules

```
SkillContracts            evidence, contracts, effect inversion     (pure)
  Grounding               grounder, guard, repairer, replanner      (pure)
    GroundingProofs       theorems on repair and replan (TLAPS), over Folding
    SkillExecutor         the execute method over an abstract backend
      ExecutorProperties  what it promises      ----INSTANCE----> ClosedLoop
        SkillExecutorProofs                      theorems (TLAPS), with GroundingProofs
        MockExecution     SkillExecutor + MockBackend, properties of the pair
          MCExecutor                             instance for TLC
        JakaExecution     SkillExecutor + JakaBackend, properties of the pair
          JakaExecutionProofs                    theorems (TLAPS)
          MCJaka                                 deployments for TLC
        RuntimeScenarios  SkillExecutor + SampledRobot: the validation scenarios
          SimulatorProofs                        theorems (TLAPS), also on MockExecution
    MCRepair              grounder and repairer on their own, for TLC
      RepairProofs                               theorems (TLAPS)
    JakaBackend           the legacy adapter and the objects it calls
    SampledRobot          ROS 2 client and robot node, call by call
  Folding                 induction for folds and recursive functions (TLAPS)
  DefaultSkills           the five registered contracts
  MockBackend             the mock robot        (Grounding, DefaultSkills)

Ros2Runtime               ROS 2 client, robot node, network   ----INSTANCE----> RemoteBackend
  Ros2RuntimeProofs       theorems (TLAPS)

KargoTransport            adapter, transport, legacy services ----INSTANCE----> RemoteBackend
  KargoTransportProofs    theorems (TLAPS)
  MCKargo                 deployments for TLC
    KargoDispatch         with a memory of what was received as a navigation left
```

The executor model takes a backend as a parameter, and is composed with three:
`MockBackend`, `JakaBackend` and `SampledRobot`. The ROS 2 robot is modelled twice.
`Ros2Runtime` has every wait, deadline and message of the two processes and shows
what the backend interface is worth there: which receipts and observations the
caller may get (`RemoteBackend`), and that its calls return (`CallsReturn`).
`SampledRobot` makes each call one step and keeps the robot's world, its scripted
behaviours and its numbered samples, so that the executor can be run on it.

**Data.** A `RobotState` is a record of values plus the marks the code
distinguishes: stale, aged, contradictory, busy. Python's `None` is the model
value `None`; booleans are 0 and 1 as in Python, and measured floats are grid
points, so the tolerances (1e-3, 1e-6) become equality. The clock is not
modelled: whether an observation is too old, and whether a command outlasted its
timeout, are outcomes. Dictionaries whose order the code uses (`goal_state`) are
sequences of `[field, value]`; reports, whose order only shows in messages, are
sets of issues. Step ids are tuples built as the code builds its strings,
because a duplicate id is a diagnosis.

**SkillExecutor** has one action per stretch of code between two backend calls.

| Action | Code in `skill_executor.py` |
|---|---|
| `Start` | first refresh, projected goals, grounding (118-126) |
| `PreflightObserve`, `PreflightPass`, `PreflightRepair`, `PreflightStop` | the observation loop and the one repair before the loop (127-164); these returns send no stop |
| `InvalidStep`, `AdmitStep`, `RefuseStep` | head of the loop: validation, refresh, guard, grounding of the suffix (173-191) |
| `RuntimeObserve`, `RuntimeRepair`, `RuntimeStop` | what to do with a refused step (192-225) |
| `Dispatch` | one command and the timeout check (226-239) |
| `StepAchieved`, `StepNotAchieved` | refresh, verify (240-262, 322-323) |
| `Retry`, `ProposeReplan`, `RecoveryExhausted` | `RecoveryManager.decide` and its three outcomes (263-299, 319-321); `Retry` includes REGROUND |
| `AdoptGrounded`, `RejectUngrounded`, `RepairDraft` | the refreshes a replanned draft goes through (300-318) |
| `Succeed`, `GoalMissed` | the final check (324-333) |
| `Halt` | `backend.stop()` and the STOP report, common to the six failing returns of the loop |
| `Raise` | an `observe` or `acquire` that is due raises; the exception leaves `execute` (pc "raised"), with no stop and no report |
| `Drift` | the world changes by itself |

The backend is a parameter: what a world shows, what sensing, a command and a
stop make of it, which calls may raise, what it is capable of, what it may drift
to. Commands and stops never raise in the three backends, they catch their own
exceptions. `commanded`, `acted`, `stops` and `verified` are history
variables, read by properties only.

**ClosedLoop** is the abstract specification: deliberate, admit, send, look; and
once something was sent the task ends in success or in a stop. `Phase` in
`ExecutorProperties` is the refinement mapping: everything the executor does
between looking at the outcome of a command and admitting the next one is
deliberation. `Break` is the one other way out: a call that senses raised, in a
phase that senses, so never between a command and its receipt and never after a stop.

**JakaBackend** is `JakaRobotBackend` over external objects. A world has the
deployment (parts present, query methods, transport pose, state provider, odometry
provider), the physical values, the queries, and the stop, that are down, and the motion still
under way on each axis. `Call` is one call of a legacy object: normally it moves and
answers true; a misbehaving one moves, does not begin, or returns early, and answers
true, false or an exception, independently. `JakaCommand` has one case per branch of
`command`, `JakaStop` reaches the base only, and not while its stop is down (the exception
is caught and the receipt refused all the same), `JakaCapabilities` follows `capabilities`.

**SampledRobot** has `Sample`, `Schedule`, `PublishDue` and `Receive` for the
numbered samples, `Awaited` for `_wait_for_observation`, and one operator for each
call: `SampledObserve`, `SampledAcquire`, `SampledCommand` (all seven modes of
`_execute`), `SampledStop`, `SampledCapabilities`, `Configured`.
**RuntimeScenarios** has one definition per scenario method of the harness, the
checks it records (`Checks`), and a "free" scenario for what the harness does not
script: pairs of behaviours, samples that come too late, refreshes that fail or whose
parameter call goes unanswered.

**Ros2Runtime** composes three parts over shared in-flight calls and samples.

| Part | Actions | Code |
|---|---|---|
| client, executor's thread | `Call`, `ParameterSet`, `GoalAccepted`, `GoalRejected`, `Result`, `ActionTimeout`, `CancelAnswered`, `CanceledResult`, `TransportError` | `command`, one action per wait and outcome |
| | `Observe`, `ObservationArrived`, `ObservationTimeout` | `observe` and its barrier |
| | `Acquire`, `RefreshSet`, `RefreshError`, `Refreshed`, `RefreshTimeout` | `acquire` |
| | `Stop`, `Stopped` | `stop` |
| client, other threads | `ExternalCancel`, `ReceiveState` | `cancel_current_goal`, `_receive_state` |
| robot, services | `HandleCommand`, `HandleRefresh`, `HandleGoal`, `HandleCancel`, `HandleStop`, `TimerPublish` | the callbacks of `FakeRobotNode` |
| robot, one thread per goal | `Begin`, `CancelSeen`, `StallAbort`, `Abort`, `Move`, `Report` | `_execute` |

A call is in flight until its handler ran, and is never lost but may be served
after the client has given up on it; parameter requests, which one service
serves, keep their order. A sample is in flight until the spin thread stores it;
samples may overtake each other because several robot threads publish outside the
lock under which they number them. What a sample shows is abstracted to two
facts: which goals have moved the robot with whose command, and whether the fields that were unknown
or stale have been refreshed. `sent`, `admitted` and `abandoned` are history.

**KargoTransport** composes the adapter, the transport it calls, and the robot.

| Part | Actions | Code |
|---|---|---|
| adapter, executor's thread | `Look`, `Looked` | `observe`, `acquire` |
| | `Unsupported`, `Command`, `Admit`, `NotAdmitted` | `command`: capability map, admission under e-stop evidence |
| | `Locate`, `NotLocated` | the second observation, from which `move_agv` computes its target |
| | `Note`, `Send`, `Accepted`, `Rejected`, `CallTimeout`, `CallFails` | one service request and how it ends; `set_head` sends up to two, a navigation first notes the sequence numbers and then waits for its service |
| | `QueryTimeout` | `query_agv` gives up on a topic or on the barrier |
| | `Stop`, `Stopped` | `stop`: the base only |
| transport, spin thread | `ReceiveOdom`, `ReceiveMotion` | the two topic callbacks |
| robot | `CarryOut`, `Pretend`, `Reject`, `PublishState` | the service callbacks and the timer of `legacy_stub_node.py` |
| outside | `Disturb` | somebody presses or releases the stop, or a drive fails (no code) |

Abstracted: an odometry message is only counted, a motion-state message says
`clear` or `blocked`; the age of evidence is a free choice between `Admit` and
`NotAdmitted`; what axes and arms show is the set of requests whose effect was
measured (what an observation measures is so a set of requests that were carried out by
construction). `navs`, `own`, `called`, `admitted`, `grounded` and `navigated` are
history, and so is `departed` in **KargoDispatch**, which adds to the adapter a memory of
what had been received as a navigation was sent.

**RemoteBackend** is the abstract specification: a request stays open until an
accepted receipt closes it; an open request may move the robot, once, at any time; what
the caller is shown lies between what it was shown and what is. A movement is a pair,
the request that moved the robot and the request whose command it was. The two are the
same, except on a robot that keeps one command for all requests (`Shared`): there a
request that was given up on may find the command of a later one (`MoveOvertaken`), and
a later receipt then says nothing of that second execution. In both models `open` maps to
the requests the client waits for or the robot may still carry out; `Shared` holds of the
ROS 2 robot, whose goals read the envelope as they begin, and not of the Kargo services,
whose requests carry their own arguments.

**MCRepair** wraps the pure `Ground` and `Repair` in a one-step machine, so that
TLC evaluates them on every combination of evidence. Its tasks block no skill they
use, as in the code: only a replan blocks skills, and it leaves none of them in the plan.

## 3. What is checked

| Run | Checks | What it shows |
|---|---|---|
| `executor` | `TypeOK`, `AdmittedOnFreshEvidence`, `StopTransmitted`, `EveryStepAchieved`, `BudgetsRespected`, `BlockedNeverCommanded`, `NothingAssumed`, `SuccessIsPhysical`, `StatedGoalsKept`, `WorkRunsOut`, `ImplementsClosedLoop`, `Returns` | the executor with the default skills, for all eight flag settings (defaults and one flag off), faulty, late and ineffective commands, evidence that must be sensed once or twice, replans two deep, a drifting world |
| `repair` | `RepairGrounds`, `RepairKeepsTask` | the repairer's answers agree with the grounder and keep the task, blocked skills and limits included |
| `reground` | `Returns` **is violated** | finding 1 |
| `goals` | `ReplanKeepsGoals` **is violated** | finding 2 |
| `ros2` | `TypeOK`, `OwnCommand`, `NoMotionAfterCancel`, `NothingLost`, `NewerThanAdmitted`, `ImplementsRemoteBackend`, `CallsReturn`, `EffectsShown` | what receipts, cancellations and observations mean when calls and samples are late, and that every call returns |
| `kargo` | `TypeOK`, `PlainRefusalIsHarmless`, `NewerThanGrounding`, `AdmittedOnLaterEvidence`, `StopIsHeeded`, `ImplementsRemoteBackend`, `CallsReturn` | the two-topic barrier, admission, multi-request commands and late services, for five deployments and changing discovery |
| `ros2_presample` | `PublishedAfterCall` **is violated** | finding 3 |
| `jaka` | `NoBlindTransport`, `JakaSuccessIsPhysical`, `PlannedWithinCapabilities`, `ImplementsClosedLoop` | what guard, verdict and capability preflight are worth over objects that measure little, answer anything and raise |
| `capability` | `UnsupportedNeverDispatched` **is violated** | finding 4 |
| `scenarios` | `EveryScenarioPasses`, `SampledSuccessIsPhysical`, `ArmsSafeWhenDriven` | the model passes the repository's own seventeen scenarios, check by check; on samples in time, which every call waits for, no success and no drive rests on a sample from before it (for late ones see finding 6) |
| `kargo_dispatch` | `LiftedAfterDispatch` **is violated** | finding 5 |
| `late_samples` | `LateSamplesHandled` **is violated** | finding 6 |

**Bounds.** `MaxRetries` is 1 as the constructor's default; `MaxReplans` and
`MaxObservations` are 2 in `executor`, since a draft made after a blocked draft, and a
field that needs two acquisitions, are where the counters can go wrong. Plans have
one or two steps: enough for a step before, a step after and a parallel pair; repairs
and replans make them longer. The world may drift once or twice per run, at any
point, to an unsafe arm, an active emergency stop or a displaced base; one
command may come late. Fault queues hold up to two events, so that a retry can
fail too. The repair bounds are the code's (16 insertions, 6 levels, 64
expansions), except for 3 insertions in `MCRepair`, so that the limit is met.
In `jaka`, four deployments (with a state provider; with odometry only; without a base;
without lift, query methods, pose and providers), `glitches` = 2 calls misbehave, so that the
first try and the retry both can, and `drifts` = 1 query, stop or provider goes down or
arm drops, between any two calls, with one query down from the start in half of the
worlds. In `scenarios`, `MaxRetries` is 2 as in the scenario that spends it all;
scripts hold two behaviours, one for the first attempt and one for the retry or replan.
`MaxCalls` is 2 in `ros2`: a command, refresh or stop before and one after, so that
an abandoned goal meets the next command, a refresh or a stop; all five
behaviours; the number of samples follows from the calls.
`MaxRequests` is 2 in `kargo`: the two requests of `set_head`, or a navigation and
the command after it; `MaxTicks` is 2: one message per topic to be admitted on, one
to lift the barrier; the deployments are that of the tests and its single
deviations, and the services that may be found at a time are all, none, or all but
the base's stop; in `kargo_dispatch` one navigation and two messages per topic suffice.
With these bounds each action of `Next` fires, and every property is violated by
a mutation of the code it is about (`mutants` in `PROJECT.json`; the mutated
operators stand next to the originals).

**Fairness.** `Returns` assumes `WF_pc(Moves)`: the method runs in one thread and
each backend call returns (each has a timeout in the code), so it keeps moving.
Nothing is assumed of the world: it may drift at any time, finitely often in
`executor`, without limit in `reground`.

`CallsReturn` and `EffectsShown` assume that the client's deadlines pass (each
`_await_future` and `_wait_for_observation` has one), that the topic delivers
(RELIABLE, TRANSIENT_LOCAL, depth 100), that the robot's timer fires and that a goal
which has moved reports. No call is assumed to be served and no goal to begin, so
the client's return depends on its own deadlines only.

In `kargo`, `CallsReturn` assumes `WF_vars(Awaiting)`: each wait of the adapter (for a
service, an answer or a topic) has a deadline. Nothing is assumed of the robot or
the spin thread.

**Findings.**

1. *An unbounded retry.* After a failed command the retry is guarded; when the
   guard refuses, the code goes back to the head of the loop (REGROUND), where
   the attempt count restarts and no budget is spent. If the evidence is good
   again at that moment, the step is commanded with all its retries again. A base
   that fails each command while an arm's safety evidence comes and goes is
   commanded forever; `docs/EMBODIED_CONSTRAINTS.md` line 15 promises "bounded
   retry, then replan, then stop". Nothing else in `execute` can go on for ever:
   every other step leaves less work (`WorkRunsOut`, proved).
2. *A goal is forgotten.* When the draft of a replan needs a repair, and the
   goals were projected from the plan, the repair replaces them by the effects of
   the repaired steps. Goals that held when the draft was made have no step in it
   and are no longer checked, against the "stable goal facts" of
   `planner/goal_replanner.py` line 11. Goals the task states are safe from this
   (`StatedGoalsKept`, proved).
3. *A sample from before the command passes the barrier.* The barrier is the
   sequence number the client had received when the command was called; a sample
   built earlier but delivered later has a higher one. `observe` then returns a
   state from before the command as the state after it, and outcome verification
   judges that; `docs/ROS2_RUNTIME_VALIDATION_REPORT.md` lines 118-120 say that the
   newer sequence prevents reasoning over the pre-command sample and "handles
   bounded reporting delay". What the barrier does give is `NewerThanAdmitted`.
4. *A step preflight would reject is dispatched.* Capability preflight judges the
   plan before the loop, and drafts of replans. A step refused in the loop is
   repaired there, and the inserted steps are only guarded, which looks at
   preconditions and emergency facts. On the legacy JAKA backend, whose preset moves both
   arms, preflight rejects `retract_arm(left)`; when the left arm drops during a drive
   task, the runtime repair inserts and dispatches it.
   `docs/NEW_ARCHITECTURE.md` lines 110-111: "Unsupported execution stops before command
   dispatch". What the task itself or a replan brings in is within the capabilities
   (`PlannedWithinCapabilities`).
5. *A navigation's barrier is lifted by what came before it.* `navigate_agv_x` notes the
   sequence numbers, then builds the request and waits up to two seconds for the service
   while the spin thread stores messages. One message of each topic in that time lifts the
   barrier of the navigation, although nothing came after it was sent;
   `docs/JAKA_KARGO_INTERFACE_MATRIX.md` line 12: "both revisions must advance after
   dispatch". What the barrier does give is `NewerThanGrounding`, and of the next command
   `AdmittedOnLaterEvidence`.
6. *A late sample of one attempt passes for the outcome of the next.* When the sample after a
   command does not come in time, `observe` falls back to the one before it, the step
   fails, and the retry repeats the command. The late sample is newer than the number the
   second command noted, so it ends the second wait. A drive of one unit is so reported
   verified after the robot moved two. `docs/ROS2_RUNTIME_VALIDATION_REPORT.md` lines 199-200:
   "asynchronous delayed observations can be handled with a post-command sequence
   barrier", and lines 20-21: "verification consumes a later topic observation".

Two more divergences, of the repairer alone, are visible in its code and no run is kept for
them. The search solves the preconditions of a candidate one after the other and keeps a
step made redundant by a later one, where `docs/BENCHMARK_V2_METHODOLOGY.md` lines 156-157
say that it "selects a shortest bounded path". And a projected effect does not clear the
stale mark, so the search rejects every candidate for a stale fact, where
`docs/NEW_ARCHITECTURE.md` lines 90-91 and `docs/EMBODIED_CONSTRAINTS.md` line 10 say that a
registered effect is used.

Seen while modelling and not counted as findings, because no document states
otherwise: a plan repaired twice may hold two inserted steps with one id, which
the grounder then reports as not repairable; a goal whose call ended in a transport
error may begin late, when the robot's envelope is the next command's, and then
executes that one, which its own goal may have executed before, may execute after, or
may report as canceled (`OwnCommand` says that no other goal can, `NoMotionAfterCancel` and
`MoveOvertaken` make that one exception); a safe
stop does not cancel a running goal; the deadline of `acquire`'s parameter call, and
any exception of the legacy backend's state provider,
raises out of `execute`, without a stop, also after a command was sent (`Raise`, `Break`);
success can be reported while an
emergency stop that came after the last step is active; verification and the
final check accept evidence of any age that is not marked stale.

Likewise for JAKA/Kargo: the stop evidence of `move_agv`'s second observation is
not judged, so a stop pressed between the two does not prevent the navigation (what
holds is `StopIsHeeded`, about a stop known as the command was called); a command
that ends in an exception does not say which part was done; a message built before or
during a navigation but delivered after it lifts the barrier, as in finding 3; a navigation whose answer is late sets no barrier at all;
the stop service of the stub does not cancel a running navigation.

## 4. What is proved

The proofs about the executor and the pure algorithms assume of the constants
`SearchBounds`, `Budgets`, `OptionsAssumption`; `RegistryAssumption` (names are unique, as `SkillRegistry.register` enforces, and each
field template and operand of a contract exists for valid arguments); `TasksAssumption`
(a task is a well-formed `TaskPlan` that blocks no skill it uses). TLC evaluates them
on every run.

`GroundingProofs` is about the pure algorithms, for **every** registry, plan, evidence
and search bound. `Ground`, `Repair` and `Replan` are left folds and the search is a
recursive function. The library's induction theorems take an operator as a parameter
and cannot be used; the theorems of a module with operator CONSTANTs can be
instantiated, so `Folding` proves induction for any step and invariant
(`FoldInduction`), that two folds with agreeing steps agree (`FoldAgreement`), what a
fold does on a longer sequence (`FoldAppend`), and induction over a set of numbers
(`SetInduction`); each fold instantiates it. That `Search` satisfies its recursive
equation is proved by building the function one depth at a time (`SearchDefined`), which
is where the depth bound matters.

| Theorem | Says | Argument |
|---|---|---|
| `SearchSound` | a path found establishes its fact; each of its steps is valid, not excluded, and its preconditions hold when its turn comes; the expansions spent stay within the limit | induction on the levels left below `MaxDepth`; in each, folds over candidates and over a candidate's failed preconditions |
| `RepairSound` | the same of the whole repaired plan; on the first repair the plan's own steps are all there in order and ungrouped, at most `MaxInsertions` others are inserted, and ids are unique | `Mending`: what the fold has after n steps, in terms of the first n steps of the plan |
| `ReplanSound` | a replanned plan has valid steps only, and none of a blocked skill | `AchievedSoFar`, over the goals |
| `RepairGroundsPlan` | the grounder finds no unmet precondition, invalid step, parallel conflict or ambiguous id in a repaired plan | the grounder's projection follows the path of `RepairSound` step by step; what may remain are issues no repair addresses (emergency stop, fault, busy resource, the effects a step declares) |

"The first repair" is a hypothesis (`Fresh`): the steps of a plan repaired before carry
the ids a repair gives out, which is why a second repair may find an ambiguous id (see the end
of section 3).

`RepairProofs` draws the consequences for the registry of `MCRepair` (`Configured`: what
`MCRepair.cfg` substitutes), where nothing declares an effect or takes a resource; the bounds
and the assignment of evidence are arbitrary. Their invariant is `Answered`: the plan on
show is what `Repair` returned for the task and evidence on show.

| Theorem | States | Rests on |
|---|---|---|
| `RepairedPlanGrounds` | `Spec => []RepairGrounds` | `RepairGroundsPlan`, and that in this registry none of the remaining issues can arise |
| `RepairedPlanKeepsTask` | `Spec => []RepairKeepsTask` | `RepairSound` |

`SkillExecutorProofs` holds theorems for **every** registry, backend, world, plan
set, flag set and budget.

| Theorem | States | Inductive invariant and why it is needed |
|---|---|---|
| `TypeCorrect` | `Spec => []TypeOK` | inductive as it stands |
| `FreshEvidence` | `Spec => []AdmittedOnFreshEvidence` | inductive as it stands: `dispatch` is entered by `AdmitStep` and `Retry` only, both of which judge new evidence |
| `StopIsTransmitted` | `Spec => []StopTransmitted` | `Stopping`: no stop was sent before `done`, and nothing was commanded before the loop; without the second part the preflight returns, which send no stop, would break it |
| `NoStepSkipped` | `Spec => []EveryStepAchieved` | `Progress`, which adds that success is only reported at `done` |
| `BudgetsAreRespected` | `Spec => []BudgetsRespected` | `Spending`: the counters with the place of the method, since `replans < MaxReplans` is known where a draft is made and used where it is adopted |
| `StatedGoalsAreKept` | `Spec => StatedGoalsKept` | `TaskKept`: the draft, too, has the goals of the plan when they are stated; it rests on lemmas on `Repair`, `Replan` and `WithGoalState` |
| `BlockedIsNeverCommanded` | `Spec /\ []EvidenceTyped => []BlockedNeverCommanded` | `Blocking`: plan and draft are well formed and hold no skill they block, and what is given to the repairer has no invalid step; it rests on `RepairSound` and `ReplanSound`. `EvidenceTyped` says that the backend shows evidence of the modelled fields; it is proved of the mock, the JAKA adapter and the sampled robot below |
| `OnlyRegroundGoesOn` | `Spec /\ []EvidenceTyped => WorkRunsOut` | `WorkLeft` is a variant: what is left of the preflight, of the observation, replan and repair budgets, of the plan, of the attempts and of the way to the next of these, read in this order. `SpendingInvariant` keeps its parts from falling below zero, `BlockingInvariant` keeps plan and draft well formed, so that the number of steps to come is defined whatever repair and replan did, and `Position` ties the index to the plan. One step per action shows which part falls (`StepLeavesLess`) |
| `Refinement` | `Spec => ImplementsClosedLoop` | `InitMaps`, `StepMaps`, and `Stopping` to rule out a silent return |

`Ros2RuntimeProofs` holds theorems for **every** number of calls, set of scripted
behaviours and outcome of active sensing (`RuntimeBounds`, `BehaviorsAssumption`,
`RefreshAssumption`), hence for any number of samples and of goals that run at once.
They rest on one inductive invariant, `IInv`, the conjunction of six:

| Invariant | Says | Needed because |
|---|---|---|
| `TypeInv` | types, and that a request waited for was made | `goals[request]` means nothing for request 0 |
| `InStep` | at most one request in progress is not abandoned, and envelopes are served in order | the robot keeps one envelope, which any later command replaces |
| `OwnEnvelope` | an accepted goal that is not abandoned finds its own envelope | `OwnCommand` speaks of goals that have begun; what protects them holds before |
| `Reported` | a receipt that ends a call names what the goal ended with, and only goals that moved show in the world | it ties what the client holds to what the robot did |
| `Ordered` | of two samples anywhere, the one with the lower number shows no more | samples overtake each other, so order of arrival says nothing |
| `Guarded` | the barrier is not below the sample the command was admitted on | the barrier is set when the call ends, from what was noted as it began |

| Theorem | States | Rests on |
|---|---|---|
| `TypeCorrect` | `Spec => []TypeOK` | `TypeInv` |
| `GoalsRunTheirOwn` | `Spec => []OwnCommand` | `InStep`, `OwnEnvelope` |
| `CanceledMeansUnmoved` | `Spec => []NoMotionAfterCancel` | `Reported`: a moved goal can only succeed; `OwnCommand`: no other goal has its envelope but an abandoned one |
| `BarrierIsNewer` | `Spec => NewerThanAdmitted` | `Guarded` |
| `EffectsAreKept` | `Spec => []NothingLost` | `Ordered`: a sample the client drops shows no more than the one it has; and that publishing and scheduling show the world as it is (`PublishShows`, `ScheduleShows`) |
| `Refinement` | `Spec => ImplementsRemoteBackend` | all: each client action maps to `Send`, `Accept`, `Refuse`, `Sense` or `Read`, each robot action to `Move`, `MoveOvertaken`, `Expire` or `Clear`, the rest to stutters |

`KargoTransportProofs` holds theorems for **every** number of requests and messages,
set of deployments and pattern of discovery (`TransportBounds`,
`ConfigsAssumption`). Its inductive invariants:

| Invariant | Says | Needed because |
|---|---|---|
| `TypeInv` | types, and that the requests still to be sent fit the bound | the second request of a head command was counted when the first was admitted |
| `BarrierInv` | a barrier is one above the last accepted navigation, whose target is no newer; without a barrier both topics have passed that navigation; between admission and answer there is none | the property compares the sequence numbers of up to four moments (target computed, noted, admitted again, lifted) |
| `HeedInv` | past admission, either the motion state was clear or a newer one came | the check is made once, the command goes on for several waits |
| `RefusalInv` | only requests sent by now run or have moved, none does both; an awaited request runs until it is answered; what precedes it in a command was the yaw axis | a refusal speaks of all requests of its command, its answer of the last one |

| Theorem | States | Rests on |
|---|---|---|
| `TypeCorrect` | `Spec => []TypeOK` | `TypeInv` |
| `BarrierIsNewer` | `Spec => NewerThanGrounding` | `BarrierInv`, and that only an observation lifts a barrier |
| `AdmissionIsNewer` | `Spec => AdmittedOnLaterEvidence`: newer than what the last accepted navigation noted, which is not what had come as it was sent (finding 5) | `BarrierInv` |
| `KnownStopIsHeeded` | `Spec => StopIsHeeded` | `HeedInv` |
| `RefusalIsHarmless` | `Spec => []PlainRefusalIsHarmless` | `RefusalInv` |
| `Refinement` | `Spec => ImplementsRemoteBackend` | `RefusalInv`: an accepted request does not run any more |

`SimulatorProofs` and `JakaExecutionProofs` are about the executor with one backend.
Their hypotheses `MockIsBackend`, `JakaIsBackend` and `SampledIsBackend` say that the backend
parameters are that backend's operators, and what shape its worlds have; `MockIsTyped`,
`JakaIsTyped` and `SampledIsTyped`, that the registry has the default skills and that worlds,
fault scripts and disturbances hold values (in `SampledIsTyped` the base has a position to
begin with, to which the node adds, and any other registered skill has an effect on one field,
which the node sets); `JakaLimits`, that preflight uses its
capabilities. They are what the cfg of the corresponding run substitutes. Everything else
is arbitrary: plans, flags, budgets, fault scripts, deployments, disturbances, behaviours.
The initial worlds of `SampledIsBackend` are `Ready`: `configure_scenario` has waited for a
sample of the scenario.

| Theorem | States | Further hypothesis | Argument |
|---|---|---|---|
| `VerdictIsPhysical` | `Spec => []SuccessIsPhysical` | no forged sensor value (`Sensor.overrides = <<>>`) | a success report means that the goals show (`SuccessIsWarranted`, a lemma for every backend), and what the mock shows as known is true (`KnownIsTrue`) |
| `NothingIsAssumed` | `Spec => []NothingAssumed` | the same | a field once sensed stays so: acquisition counts never fall (`Kept`), and the guard passes on known facts only (`AllowedIsSensed`) |
| `MockNeverCommandsBlocked` | `Spec => []BlockedNeverCommanded` | `MockIsTyped` | `WorldTyped(world)` is invariant, so `EvidenceTyped` holds always (`ObserveTyped`) |
| `SampledNeverCommandsBlocked` | `Spec => []BlockedNeverCommanded` | `SampledIsBackend`, `SampledIsTyped` | `SampledTyped(world)` is invariant, also on samples out of time and after a stop: what samples are made from, the ones on the wire and the one shown are typed, the wait takes the first of the newer ones (`AwaitedTyped`), and a command moves fields to readings (`MotionRead`) |
| `MockOnlyRegroundGoesOn`, `JakaOnlyRegroundGoesOn`, `SampledOnlyRegroundGoesOn` | `Spec => WorkRunsOut` | `MockIsTyped`; `JakaIsTyped`; `SampledIsTyped` | the variant of `OnlyRegroundGoesOn`, over evidence that is typed for the same reason |
| `NoTransportBlindly` | `Spec => []NoBlindTransport` | `Contracts = DefaultRegistry` | both transports need the left arm's pose (`TransportNeedsPoses`), which is unknown without a provider (`PosesUnknown`), and no step of any action changes the deployment (`WorldSame`) |
| `JakaVerdictIsPhysical` | `Spec => []JakaSuccessIsPhysical` | none | `SuccessIsWarranted`, and what the adapter shows of a measured field is its value or nothing (`MeasuredIsTrue`) |
| `JakaNeverCommandsBlocked` | `Spec => []BlockedNeverCommanded` | `JakaIsTyped` | the same with `JakaWorldTyped` |
| `PlannedStaysWithin` | `Spec => []PlannedWithinCapabilities` | `JakaIsTyped`, `JakaLimits` | `Planned`: once preflight has passed, every step of the plan that no repair inserted is within the capabilities; the capabilities are those of the deployment, which does not change, an issue found anywhere in the grounder's fold stays in its report, and which fields a step affects does not depend on the evidence (`FieldsFixed`) |
| `SampledVerdictIsPhysical` | `Spec => []SampledSuccessIsPhysical` | `SampledIsBackend` | `SuccessIsWarranted`, and `Sampling`: until a stop, in a world whose samples come in time, no sample is due or on the wire between two calls and the one shown is the robot as it is |
| `ArmsAreSafeWhenDriven` | `Spec => []ArmsSafeWhenDriven` | `SampledIsBackend`, the registry has the default `move_agv` | `Sampling`, and `StillAdmitted`: when a step is about to go out, the guard would admit it on what is shown now |

Each proof has one step per action, or, when it is about the world, one per call of the
backend (`WorldSteps`); the temporal step at the end combines them.

Only model-checked: `Returns`, `CallsReturn` and `EffectsShown` (liveness is out of
the prover's reach; what is proved are their safety cores: that no step but REGROUND
fails to bring `execute` nearer to its end, `WorkRunsOut`, and that what the robot did is
never lost on its way to the client, `NothingLost`); `EveryScenarioPasses`, which is about the seventeen concrete scripts of
the harness and what they compute; and the six findings, which are counterexamples. The
module `Grounding` uses folds and one recursive function, no `RECURSIVE` operator, so that it
can be used under proofs.

## 5. What is not modelled

Not modelled in the parts above: the wording of messages, traces and results,
the wall clock, arithmetic on floats, the parsing of plans.

* Of the ROS 2 runtime: a restart of the robot node (its sequence would start again
  at 1 and the client would ignore it; nothing in the code restarts it), construction
  and close, the event log. A scenario is configured once, at the start, and its
  predecessor's last sample is taken to have arrived before: `_configure` does not
  stop running goals, and the harness runs one scenario after the other.
* Of the JAKA backend: speed and messages.
* Of the executor's goals: a step that is not valid predicts nothing. `_with_goal_state` skips
  only a step whose effects cannot be computed; but a plan with an invalid step is stopped at
  preflight or, ungrounded, at that step, so only a replan of a step before it could see the
  difference.
* Of the executor on the sampled robot: samples that are looked at after the maximum age a
  precondition tolerates; a sample shows its stale marks only.
* `integrations/jaka_kargo/skills.py`, `integration_probe.py` and
  `runtime_validation.py`: one more contract of the modelled kind, a script that
  inspects ROS names, and a harness whose scenarios check the adapter modelled in
  `KargoTransport` against the stub, one call at a time; their interleavings are those
  of that module.
* The facade and planners (wiring, text to plan), the mock bridge (it republishes the mock
  backend's observation), tracing, metrics, oracle, benchmarks and scripts: nothing
  of the running system reads their state back.

What would come next: the Kargo adapter call by call, so that the executor and the
harness of `integrations/jaka_kargo/runtime_validation.py` can be run on it, and, in the
proofs, its evidence typed as that of the other three backends is.
