---------------------------- MODULE ClosedLoop ----------------------------
(***************************************************************************)
(* What a closed-loop execution of a task promises, whatever the plan, the *)
(* skills and the recovery policy: a command is sent only after it was     *)
(* admitted, every command is looked at before anything else is decided,   *)
(* and once a command was sent the task never ends silently: either it     *)
(* succeeds or a stop is sent.  A task that sends nothing may simply be    *)
(* refused.  The one way out of these promises is that looking itself      *)
(* fails: then the task breaks off, without a verdict and without a stop,  *)
(* but never between the admission of a command and the command.           *)
(***************************************************************************)
VARIABLES
    phase,      \* where the execution stands
    acted,      \* whether a command was sent
    success,    \* the verdict
    stopped     \* whether a stop was sent

vars == <<phase, acted, success, stopped>>

Phases == {"deliberating", "admitted", "commanded", "returned", "broken"}

Init == phase = "deliberating" /\ acted = FALSE /\ success = FALSE /\ stopped = FALSE

Admit ==
    /\ phase = "deliberating"
    /\ phase' = "admitted"
    /\ UNCHANGED <<acted, success, stopped>>

Send ==
    /\ phase = "admitted"
    /\ phase' = "commanded"
    /\ acted' = TRUE
    /\ UNCHANGED <<success, stopped>>

Look ==
    /\ phase = "commanded"
    /\ phase' = "deliberating"
    /\ UNCHANGED <<acted, success, stopped>>

Refuse ==
    /\ phase = "deliberating" /\ ~acted
    /\ phase' = "returned"
    /\ UNCHANGED <<acted, success, stopped>>

Complete ==
    /\ phase = "deliberating"
    /\ phase' = "returned" /\ success' = TRUE
    /\ UNCHANGED <<acted, stopped>>

StopAndReturn ==
    /\ phase = "deliberating"
    /\ phase' = "returned" /\ stopped' = TRUE
    /\ UNCHANGED <<acted, success>>

Break ==
    /\ phase \in {"deliberating", "commanded"}
    /\ phase' = "broken"
    /\ UNCHANGED <<acted, success, stopped>>

Next == Admit \/ Send \/ Look \/ Refuse \/ Complete \/ StopAndReturn \/ Break

Spec == Init /\ [][Next]_vars
===========================================================================
