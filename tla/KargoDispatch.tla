---------------------------- MODULE KargoDispatch ----------------------------
(***************************************************************************)
(* KargoTransport with a memory of what had been received as a navigation  *)
(* was sent, for the claim of docs/JAKA_KARGO_INTERFACE_MATRIX.md that     *)
(* both topics must advance after dispatch.                                *)
(***************************************************************************)
EXTENDS MCKargo

VARIABLE departed   \* both sequences as the last navigation was sent

Remember ==
    departed' = IF request' # request /\ todo = <<"nav">> THEN <<odomSeq, motionSeq>>
                                                          ELSE departed

DispatchSpec ==
    /\ Init /\ departed = <<0, 0>>
    /\ [][Next /\ Remember]_<<vars, departed>>
    /\ WF_vars(Awaiting)

\* An observation lifts the barrier of an accepted navigation only once both
\* topics have delivered a message since the navigation was sent: "both revisions
\* must advance after dispatch" (docs/JAKA_KARGO_INTERFACE_MATRIX.md:12).
LiftedAfterDispatch ==
    [][Lifted => odomSeq > departed[1] /\ motionSeq > departed[2]]_vars
==============================================================================
