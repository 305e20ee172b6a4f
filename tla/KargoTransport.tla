--------------------------- MODULE KargoTransport ---------------------------
(***************************************************************************)
(* JakaKargoBackend (integrations/jaka_kargo/skill_adapter.py) with its    *)
(* capability mapper and state provider, the ROS 2 transport under it, and *)
(* the legacy services and topics it commands (legacy_stub_node.py).       *)
(*                                                                         *)
(* The robot cannot number its messages, so the transport counts, topic by *)
(* topic, what it has received.  A service call whose answer is late is    *)
(* given up but runs on.  The robot serves calls concurrently.             *)
(***************************************************************************)
EXTENDS Integers, Sequences

CONSTANTS
    MaxRequests,   \* bound on the motion requests sent
    MaxTicks,      \* bound on the ticks of the publishing timer
    Configs,       \* the deployments considered
    ServiceSets    \* the sets of services that may be discovered at a time

Services == {"axis_status", "arm_pose", "axis_move", "arm_move", "navigation", "agv_stop"}

\* What JakaKargoIntegrationConfig states of a deployment.
Config == [motion : BOOLEAN, estop : BOOLEAN, calibrated : BOOLEAN,
           ready : BOOLEAN, bilateral : BOOLEAN]

ASSUME TransportBounds == MaxRequests \in Nat /\ MaxTicks \in Nat
ASSUME ConfigsAssumption == Configs \subseteq Config
ASSUME ServicesAssumption == ServiceSets \subseteq SUBSET Services

VARIABLES
    config,      \* the deployment
    \* the robot
    condition,   \* what its base reports: clear, or blocked by a stop or a fault
    running,     \* the requests its services have not answered yet
    moved,       \* the requests it carried out
    answer,      \* what it answered to the request that is awaited
    \* the topics
    tick,        \* the ticks so far
    odoms,       \* the number of odometry messages in flight
    motions,     \* the motion-state messages in flight
    \* the transport
    odomSeq,     \* _odom_sequence
    motion,      \* _latest_motion, None before the first
    motionSeq,   \* _motion_sequence
    barrier,     \* _pending_agv_observation_barrier
    \* the adapter
    pc,          \* the wait it is in, or "idle"
    todo,        \* the requests the present command still has to send
    request,     \* the last request sent
    outcome,     \* none | awaited | accepted | refused: what became of it
    dispatched,  \* before_sequences of the navigation under way
    receipt,     \* the last CommandReceipt
    measured,    \* the requests whose effect on axes and arms was measured
    \* history, read by properties only
    navs,        \* the requests that are navigations
    own,         \* the requests of the last command
    called,      \* motionSeq as the last command was called
    admitted,    \* both sequences as it was admitted
    grounded,    \* both sequences as the last navigation's target was computed
    navigated    \* before_sequences of the last accepted navigation

robot   == <<condition, running, moved, answer>>
topics  == <<tick, odoms, motions>>
inbox   == <<odomSeq, motion, motionSeq>>
evidence == <<own, admitted, grounded, navigated>>
history == <<called, evidence>>
vars    == <<config, robot, topics, inbox, barrier, pc, todo, request, outcome, dispatched,
             receipt, measured, navs, history>>

Requests   == 1 .. MaxRequests
Revisions  == Nat \X Nat
None       == "none"
NoBarrier  == <<0, 0>>
Conditions == {"clear", "blocked"}
Skills     == {"set_lift", "set_waist", "set_head", "retract_arm", "move_agv"}
\* What a CommandReceipt says, partial and error in its message.
Receipt    == [accepted : BOOLEAN, partial : BOOLEAN, timedOut : BOOLEAN, error : BOOLEAN]

\* The requests a command sends, one after the other.
Plans(skill) ==
    CASE skill \in {"set_lift", "set_waist"} -> {<<"axis">>}
      [] skill = "set_head"    -> {<<"yaw">>, <<"pitch">>, <<"yaw", "pitch">>}
      [] skill = "retract_arm" -> {<<"arm">>}
      [] skill = "move_agv"    -> {<<"nav">>}

TypeOK ==
    /\ config \in Configs
    /\ condition \in Conditions
    /\ running \subseteq Requests /\ moved \subseteq Requests /\ navs \subseteq Requests
    /\ answer \in {None, "yes", "no"}
    /\ tick \in 0 .. MaxTicks /\ odoms \in Nat
    /\ motions \subseteq (1 .. MaxTicks) \X Conditions
    /\ odomSeq \in Nat /\ motionSeq \in Nat
    /\ motion \in Conditions \cup {None}
    /\ pc \in {"idle", "look", "admit", "locate", "send", "call", "await", "stop"}
    /\ todo \in {<<>>} \cup UNION {Plans(skill) : skill \in Skills}
    /\ request \in Requests \cup {0}
    /\ outcome \in {None, "awaited", "accepted", "refused"}
    /\ receipt \in Receipt
    /\ measured \subseteq Requests /\ own \subseteq Requests
    /\ called \in Nat
    /\ {barrier, dispatched, admitted, grounded, navigated} \subseteq Revisions

Init ==
    /\ config \in Configs
    /\ condition \in Conditions /\ running = {} /\ moved = {}
    /\ answer = None
    /\ tick = 0 /\ odoms = 0 /\ motions = {}
    /\ odomSeq = 0 /\ motion = None /\ motionSeq = 0
    /\ barrier = NoBarrier
    /\ pc = "idle" /\ todo = <<>> /\ request = 0 /\ outcome = None
    /\ dispatched = <<0, 0>>
    /\ receipt = [accepted |-> FALSE, partial |-> FALSE, timedOut |-> FALSE, error |-> FALSE]
    /\ measured = {}
    /\ navs = {} /\ own = {} /\ called = 0
    /\ admitted = <<0, 0>> /\ grounded = <<0, 0>> /\ navigated = <<0, 0>>

(***************************************************************************)
(* Capabilities and admission.                                             *)
(***************************************************************************)
\* The skills the mapper guarantees; a topic is discovered once it was heard.
Supported(services) ==
    LET heard == odomSeq > 0 /\ motion # None
        Has(required) == required \subseteq services
    IN  {skill \in Skills :
            /\ config.motion /\ config.estop
            /\ skill \in {"set_lift", "set_waist", "set_head"} =>
                  Has({"axis_move", "axis_status"})
            /\ skill = "retract_arm" =>
                  config.calibrated /\ config.ready /\ Has({"arm_move", "arm_pose"})
            /\ skill = "move_agv" => heard /\ Has({"navigation", "agv_stop"})}

\* The call is over; its locals are forgotten.
Return ==
    /\ todo' = <<>>
    /\ pc' = "idle"
    /\ dispatched' = <<0, 0>>
    /\ called' = 0

\* It is over with a receipt that was not accepted.
Refuse(flags) ==
    /\ receipt' = [accepted |-> FALSE, partial  |-> "partial" \in flags,
                   timedOut |-> "timedOut" \in flags, error |-> "error" \in flags]
    /\ Return

\* Each query of an axis or an arm succeeds or not.
Measure == \E seen \in SUBSET (moved \ navs) : measured' = measured \cup seen

\* observe() and acquire() measure axes and arms, then query the base.
Look ==
    /\ pc = "idle"
    /\ pc' = "look"
    /\ Measure
    /\ UNCHANGED <<config, robot, topics, inbox, barrier, todo, request, outcome, dispatched,
                   receipt, navs, history>>

\* command(): capabilities first, then an observation to be admitted on.
Unsupported ==
    /\ pc = "idle"
    /\ \E services \in ServiceSets : Supported(services) # Skills
    /\ Refuse({})
    /\ own' = {}
    /\ UNCHANGED <<config, robot, topics, inbox, barrier, request, outcome, measured, navs,
                   admitted, grounded, navigated>>

Command ==
    /\ pc = "idle"
    /\ \E services \in ServiceSets : \E skill \in Supported(services) :
          \E plan \in Plans(skill) : request + Len(plan) <= MaxRequests /\ todo' = plan
    /\ pc' = "admit"
    /\ Measure
    /\ own' = {} /\ called' = motionSeq
    /\ UNCHANGED <<config, robot, topics, inbox, barrier, request, outcome, dispatched,
                   receipt, navs, admitted, grounded, navigated>>

(***************************************************************************)
(* query_agv: waits for both topics, and for the barrier if there is one.  *)
(***************************************************************************)
Observing == pc \in {"look", "admit", "locate"}

\* The barrier asks for odometry only: a mutation of Fresh.
FreshOdometry == odomSeq > 0 /\ motion # None /\ odomSeq >= barrier[1]

Fresh ==
    /\ odomSeq > 0 /\ motion # None
    /\ odomSeq >= barrier[1] /\ motionSeq >= barrier[2]

Observed == Fresh /\ barrier' = NoBarrier

\* observe() and acquire() return.
Looked ==
    /\ pc = "look" /\ Observed
    /\ Return
    /\ UNCHANGED <<config, robot, topics, inbox, request, outcome, receipt, measured, navs,
                   evidence>>

\* Stop evidence is enough, whatever it says: a mutation of Admit.
AdmitOnAny ==
    /\ pc = "admit" /\ Observed
    /\ config.estop
    /\ todo # <<"arm">> \/ ~config.bilateral
    /\ admitted' = <<odomSeq, motionSeq>>
    /\ IF todo = <<"nav">> THEN pc' = "locate" /\ Measure
                           ELSE pc' = "send" /\ UNCHANGED measured
    /\ UNCHANGED <<config, robot, topics, inbox, todo, request, outcome, dispatched, receipt,
                   navs, own, called, grounded, navigated>>

\* The stop evidence is known, recent, and clear.
Admit ==
    /\ pc = "admit" /\ Observed
    /\ config.estop /\ motion = "clear"
    /\ todo # <<"arm">> \/ ~config.bilateral
    /\ admitted' = <<odomSeq, motionSeq>>
    /\ IF todo = <<"nav">> THEN pc' = "locate" /\ Measure
                           ELSE pc' = "send" /\ UNCHANGED measured
    /\ UNCHANGED <<config, robot, topics, inbox, todo, request, outcome, dispatched, receipt,
                   navs, own, called, grounded, navigated>>

\* It is not; or it is too old, which without a clock is a free choice; or the
\* deployment moves both arms with one preset.
NotAdmitted ==
    /\ pc = "admit" /\ Observed
    /\ Refuse({})
    /\ UNCHANGED <<config, robot, topics, inbox, request, outcome, measured, navs, evidence>>

\* The target is computed from a second observation.
Locate ==
    /\ pc = "locate" /\ Observed
    /\ grounded' = <<odomSeq, motionSeq>>
    /\ pc' = "send"
    /\ UNCHANGED <<config, robot, topics, inbox, todo, request, outcome, dispatched, receipt,
                   measured, navs, own, called, admitted, navigated>>

\* Its odometry is too old, which is a free choice too.
NotLocated ==
    /\ pc = "locate" /\ Observed
    /\ Refuse({})
    /\ UNCHANGED <<config, robot, topics, inbox, request, outcome, measured, navs, evidence>>

\* The barrier is given up with the wait: a mutation of QueryTimeout.
QueryTimeoutForgets ==
    /\ Observing /\ ~Fresh
    /\ barrier' = NoBarrier
    /\ IF pc = "look" THEN Return /\ UNCHANGED receipt ELSE Refuse({})
    /\ UNCHANGED <<config, robot, topics, inbox, request, outcome, measured, navs, evidence>>

\* Only the first message has a deadline: a mutation of QueryTimeout.
QueryTimeoutInitial ==
    /\ Observing /\ ~Fresh /\ barrier = NoBarrier
    /\ IF pc = "look" THEN Return /\ UNCHANGED receipt ELSE Refuse({})
    /\ UNCHANGED <<config, robot, topics, inbox, barrier, request, outcome, measured, navs,
                   evidence>>

\* The base stays unknown; only a look goes on without it.
QueryTimeout ==
    /\ Observing /\ ~Fresh
    /\ IF pc = "look" THEN Return /\ UNCHANGED receipt ELSE Refuse({})
    /\ UNCHANGED <<config, robot, topics, inbox, barrier, request, outcome, measured, navs,
                   evidence>>

(***************************************************************************)
(* A request and its answer.                                               *)
(***************************************************************************)
\* A navigation notes what was received before its request is built and its
\* service waited for: messages may still come between this and Send.
Note ==
    /\ pc = "send" /\ todo = <<"nav">>
    /\ dispatched' = <<odomSeq, motionSeq>>
    /\ pc' = "call"
    /\ UNCHANGED <<config, robot, topics, inbox, barrier, todo, request, outcome, receipt,
                   measured, navs, history>>

Calling == pc = IF todo = <<"nav">> THEN "call" ELSE "send"

Send ==
    /\ Calling
    /\ request' = request + 1
    /\ running' = running \cup {request'}
    /\ answer' = None
    /\ outcome' = "awaited"
    /\ navs' = IF todo = <<"nav">> THEN navs \cup {request'} ELSE navs
    /\ own' = own \cup {request'}
    /\ pc' = "await"
    /\ UNCHANGED <<config, condition, moved, topics, inbox, barrier, todo, dispatched, receipt,
                   measured, called, admitted, grounded, navigated>>

\* Yaw is not mentioned: a mutation of PartDone.
PartDoneUnsaid == {}

\* set_head has moved yaw already as pitch is refused.
PartDone == IF todo = <<"pitch">> /\ own \ {request} # {} THEN {"partial"} ELSE {}

\* The axes are not counted down: a mutation of Accepted.
AcceptedAgain ==
    /\ pc = "await" /\ answer = "yes"
    /\ outcome' = "accepted"
    /\ IF todo = <<"nav">>
       THEN barrier' = <<dispatched[1] + 1, dispatched[2] + 1>> /\ navigated' = dispatched
       ELSE UNCHANGED <<barrier, navigated>>
    /\ IF Tail(todo) = <<>>
       THEN /\ receipt' = [accepted |-> TRUE, partial |-> FALSE, timedOut |-> FALSE,
                           error |-> FALSE]
            /\ Return
       ELSE pc' = "send" /\ UNCHANGED <<todo, receipt, dispatched, called>>
    /\ UNCHANGED <<config, robot, topics, inbox, request, measured, navs, own, admitted,
                   grounded>>

\* Yaw is done and pitch follows, or the command is over.
Accepted ==
    /\ pc = "await" /\ answer = "yes"
    /\ outcome' = "accepted"
    /\ IF todo = <<"nav">>
       THEN barrier' = <<dispatched[1] + 1, dispatched[2] + 1>> /\ navigated' = dispatched
       ELSE UNCHANGED <<barrier, navigated>>
    /\ IF Tail(todo) = <<>>
       THEN /\ receipt' = [accepted |-> TRUE, partial |-> FALSE, timedOut |-> FALSE,
                           error |-> FALSE]
            /\ Return
       ELSE pc' = "send" /\ todo' = Tail(todo) /\ UNCHANGED <<receipt, dispatched, called>>
    /\ UNCHANGED <<config, robot, topics, inbox, request, measured, navs, own, admitted,
                   grounded>>

Rejected ==
    /\ pc = "await" /\ answer = "no"
    /\ outcome' = "refused"
    /\ Refuse(PartDone)
    /\ UNCHANGED <<config, robot, topics, inbox, barrier, request, measured, navs, evidence>>

\* Late is taken for done: a mutation of CallTimeout.
CallTimeoutAccepted ==
    /\ pc = "await"
    /\ outcome' = "accepted"
    /\ Refuse(PartDone \cup {"timedOut"})
    /\ UNCHANGED <<config, robot, topics, inbox, barrier, request, measured, navs, evidence>>

\* The wait is over; the service goes on.
CallTimeout ==
    /\ pc = "await"
    /\ outcome' = "refused"
    /\ Refuse(PartDone \cup {"timedOut"})
    /\ UNCHANGED <<config, robot, topics, inbox, barrier, request, measured, navs, evidence>>

\* The service is gone, or its answer is an exception: what was done is not told.
CallFails ==
    /\ Calling \/ pc = "await"
    /\ outcome' = IF pc = "await" THEN "refused" ELSE outcome
    /\ Refuse({"error"})
    /\ UNCHANGED <<config, robot, topics, inbox, barrier, request, measured, navs, evidence>>

\* stop() calls the base's stop service, and never claims to have stopped the robot.
Stop ==
    /\ pc = "idle"
    /\ pc' = "stop"
    /\ own' = {}
    /\ UNCHANGED <<config, robot, topics, inbox, barrier, todo, request, outcome, dispatched,
                   receipt, measured, navs, called, admitted, grounded, navigated>>

Stopped ==
    /\ pc = "stop"
    /\ \E flags \in SUBSET {"timedOut"} : Refuse(flags)
    /\ UNCHANGED <<config, robot, topics, inbox, barrier, request, outcome, measured, navs,
                   evidence>>

(***************************************************************************)
(* The spin thread of the transport.                                       *)
(***************************************************************************)
ReceiveOdom ==
    /\ odoms > 0
    /\ odoms' = odoms - 1
    /\ odomSeq' = odomSeq + 1
    /\ UNCHANGED <<config, robot, tick, motions, motion, motionSeq, barrier, pc, todo, request,
                   outcome, dispatched, receipt, measured, navs, history>>

\* Messages were built under the robot's lock and published outside it, by a
\* timer that may overlap itself: they come in any order.
ReceiveMotion ==
    /\ \E message \in motions : motions' = motions \ {message} /\ motion' = message[2]
    /\ motionSeq' = motionSeq + 1
    /\ UNCHANGED <<config, robot, tick, odoms, odomSeq, barrier, pc, todo, request, outcome,
                   dispatched, receipt, measured, navs, history>>

(***************************************************************************)
(* The robot.                                                              *)
(***************************************************************************)
client == <<inbox, barrier, pc, todo, request, outcome, dispatched, receipt, measured>>

\* A service carries a request out, claims to, or refuses it.
Answer(r, says) ==
    /\ r \in running
    /\ running' = running \ {r}
    /\ answer' = IF r = request /\ outcome = "awaited" THEN says ELSE answer
    /\ UNCHANGED <<config, condition, topics, client, navs, history>>

CarryOut(r) == Answer(r, "yes") /\ moved' = moved \cup {r}
Pretend(r)  == Answer(r, "yes") /\ UNCHANGED moved
Reject(r)   == Answer(r, "no")  /\ UNCHANGED moved

PublishState ==
    /\ tick < MaxTicks
    /\ tick' = tick + 1
    /\ odoms' = odoms + 1
    /\ motions' = motions \cup {<<tick', condition>>}
    /\ UNCHANGED <<config, robot, client, navs, history>>

\* Somebody presses or releases the stop, or a drive fails.
Disturb ==
    /\ condition' \in Conditions \ {condition}
    /\ UNCHANGED <<config, running, moved, answer, topics, client, navs, history>>

Awaiting ==
    \/ Looked \/ Admit \/ NotAdmitted \/ Locate \/ NotLocated \/ QueryTimeout
    \/ Note \/ Send \/ Accepted \/ Rejected \/ CallTimeout \/ CallFails
    \/ Stopped

Adapter == Look \/ Unsupported \/ Command \/ Stop \/ Awaiting

Robot ==
    \/ \E r \in Requests : CarryOut(r) \/ Pretend(r) \/ Reject(r)
    \/ PublishState \/ Disturb

Next == Adapter \/ ReceiveOdom \/ ReceiveMotion \/ Robot

Spec == Init /\ [][Next]_vars

\* Every wait of the adapter has a deadline.  Nothing is assumed of the robot.
FairSpec == Spec /\ WF_vars(Awaiting)

(***************************************************************************)
(* Properties.                                                             *)
(***************************************************************************)
Lifted == barrier # NoBarrier /\ barrier' = NoBarrier

\* The observation that lifts the barrier of a navigation consists of an
\* odometry and a motion-state message both received after those its target
\* was computed from (navigate_agv_x, query_agv).
NewerThanGrounding ==
    [][Lifted => odomSeq > grounded[1] /\ motionSeq > grounded[2]]_vars

\* No request of any skill is sent but on an admission that has, on both
\* topics, a message later than all the last accepted navigation had noted,
\* whatever observations failed, timed out or were skipped in between
\* (navigate_agv_x, query_agv).  Such a message need not be later than the
\* request itself: KargoDispatch.
AdmittedOnLaterEvidence ==
    [][request' # request =>
          admitted[1] > navigated[1] /\ admitted[2] > navigated[2]]_vars

\* While the last motion state received as a command was called says stop or
\* fault, and no other has come, nothing is sent.
StopIsHeeded ==
    [][request' # request /\ motionSeq = called => motion = "clear"]_vars

\* A receipt that was refused with no remark (partial, timed out, error) means
\* that nothing of the command has moved the robot or will.
PlainRefusalIsHarmless ==
    pc = "idle" /\ ~receipt.accepted /\ ~receipt.partial /\ ~receipt.timedOut /\ ~receipt.error
        => own \cap (moved \cup running) = {}

\* The requests that are awaited or may still be carried out.
Open == running \cup (IF outcome = "awaited" THEN {request} ELSE {})

World(done) == [moved |-> {<<r, r>> : r \in done}, clear |-> FALSE]

\* Seen over the wire, axes and arms are a remote backend: each request is
\* carried out at most once, by itself and never after it was accepted, and what is measured
\* is never ahead of the robot.  The base's topics carry no number, so nothing
\* of the kind holds for what they show.
Remote ==
    INSTANCE RemoteBackend WITH
        Shared  <- FALSE,
        last    <- request,
        receipt <- outcome,
        open    <- Open,
        world   <- World(moved),
        shown   <- World(measured)

ImplementsRemoteBackend == Remote!Spec

\* Every call of the adapter returns, whether the robot answers or not.
CallsReturn == []<>(pc = "idle")
=============================================================================
