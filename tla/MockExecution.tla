--------------------------- MODULE MockExecution ---------------------------
(***************************************************************************)
(* SkillExecutor composed with MockRobotBackend: what its verdict means in *)
(* the world it cannot see, and the vocabulary in which the MC modules     *)
(* describe worlds and sensors.                                            *)
(***************************************************************************)
EXTENDS ExecutorProperties, MockBackend

(***************************************************************************)
(* Properties of the composition.                                          *)
(***************************************************************************)
\* With verification on and sensors that do not lie, a success report means
\* that every goal fact is physically true when execute returns, whatever
\* commands failed, came late or moved twice, and however the world drifted.
SuccessIsPhysical ==
    success /\ opts.verify =>
        \A i \in DOMAIN plan.goals : world.truth[plan.goals[i].field] = plan.goals[i].value

\* No command goes out while a field its preconditions read is still hidden
\* or stale: what was never sensed is never assumed.
NothingAssumed ==
    pc = "dispatch" /\ opts.guard =>
        \A i \in DOMAIN Preconditions(Step) :
            LET f == Preconditions(Step)[i].field
            IN  f \in Sensor.hidden \cup Sensor.stale => ~Unavailable(world, f)

(***************************************************************************)
(* Worlds and sensors.                                                     *)
(***************************************************************************)
Event(mode, drift) == [mode |-> mode, drift |-> drift]

Quiet == [name \in SkillNames \cup {"safe_stop"} |-> <<>>]

WorldOf(truth, faults, slow, drifts) ==
    [truth |-> truth, busy |-> {}, faults |-> faults,
     acquired |-> [f \in Fields |-> 0], slow |-> slow, drifts |-> drifts]

ClearSensor == [hidden |-> {}, stale |-> {}, refreshable |-> {}, failures |-> <<>>,
                overrides |-> <<>>, contradictions |-> {}]
============================================================================
