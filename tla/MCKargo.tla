------------------------------ MODULE MCKargo ------------------------------
(***************************************************************************)
(* Deployments and discovered services for TLC.                            *)
(***************************************************************************)
EXTENDS KargoTransport

\* The deployment of the integration tests, and its single deviations.
Reviewed ==
    [motion |-> TRUE, estop |-> TRUE, calibrated |-> TRUE, ready |-> TRUE, bilateral |-> FALSE]

MCConfigs ==
    {Reviewed,
     [Reviewed EXCEPT !.motion = FALSE],
     [Reviewed EXCEPT !.estop = FALSE],
     [Reviewed EXCEPT !.calibrated = FALSE, !.ready = FALSE],
     [Reviewed EXCEPT !.bilateral = TRUE]}

\* All services, none, and all but the base's stop.
MCServiceSets == {Services, {}, Services \ {"agv_stop"}}
============================================================================
