--------------------------- MODULE JakaExecution ---------------------------
(***************************************************************************)
(* SkillExecutor composed with JakaRobotBackend: what the guard, the       *)
(* verdict and the capability preflight are worth over legacy objects that *)
(* measure little and answer anything.                                     *)
(***************************************************************************)
EXTENDS ExecutorProperties, DefaultSkills, JakaBackend

(***************************************************************************)
(* Properties of the composition.                                          *)
(***************************************************************************)
\* Without a state provider nobody knows where the arms are, so under the
\* runtime guard no base or lift motion is ever commanded, through whatever
\* repairs and replans; docs/EMBODIED_CONSTRAINTS.md, "UNKNOWN policy".
NoBlindTransport ==
    pc = "dispatch" /\ opts.guard /\ ~world.dep.provider => Step.skill \notin {"move_agv", "set_lift"}

\* Readiness is not measured: it is what the adapter makes of a query.
Derived == UNION {ReadyFields(p) : p \in Parts}

\* With verification on, a success report means that every goal fact about a
\* measured field is physically true when execute returns, although the legacy
\* calls may answer before, after or without moving, and queries may fail.
JakaSuccessIsPhysical ==
    success /\ opts.verify =>
        \A i \in DOMAIN plan.goals :
            plan.goals[i].field \notin Derived => world.truth[plan.goals[i].field] = plan.goals[i].value

\* What capability preflight would reject: an unsupported skill, or effects
\* the backend cannot observe or does not keep to the declared ones.
BeyondCapabilities(step, effects) ==
    \/ step.skill \notin Capabilities.supported
    \/ CapabilityIssues(step, effects, Capabilities) # {}

\* With capability preflight on, whatever skills a replan falls back on, a step
\* of the task or of a replanned task that goes out is within the backend's
\* capabilities.  (Steps a runtime repair inserted are not: see below.)
PlannedWithinCapabilities ==
    pc = "dispatch" /\ opts.capability /\ opts.ground /\ Step.id[1] # "repair" =>
        ~BeyondCapabilities(Step, ExpectedEffects(Step, before))

\* "Unsupported execution stops before command dispatch"
\* (docs/NEW_ARCHITECTURE.md, "Backend boundary").
UnsupportedNeverDispatched ==
    pc = "dispatch" /\ opts.capability =>
        ~BeyondCapabilities(Step, ExpectedEffects(Step, before))
============================================================================
