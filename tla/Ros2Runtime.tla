---------------------------- MODULE Ros2Runtime ----------------------------
(***************************************************************************)
(* Ros2RobotBackend (ros2/ros2_backend.py), the FakeRobotNode it commands  *)
(* (ros2/fake_robot_node.py), and the ROS 2 network between them.          *)
(*                                                                         *)
(* The client runs one call at a time in the executor's thread, while its  *)
(* spin thread stores observations and another thread may cancel the       *)
(* current goal.  The robot serves goals, cancellations, parameters, its   *)
(* timer and safe stops in four threads.  A call is in flight until its    *)
(* handler has run; its answer can always be too late, so every wait of    *)
(* the client also has an action for its deadline.                         *)
(*                                                                         *)
(* A move of the robot is <<g, r>>: goal g applied the transition of       *)
(* request r, whose envelope it found as it began.  A sample is            *)
(* [seq, world, clear]: the robot's sequence number, the moves it shows,   *)
(* and whether its fields are neither unknown nor stale.  Samples are      *)
(* built under the robot's lock but published by several threads outside   *)
(* it, so they may arrive in any order.                                    *)
(***************************************************************************)
EXTENDS Integers

CONSTANTS
    MaxCalls,         \* bound on commands, refreshes and safe stops together
    Behaviors,        \* the modes the scenario may script for a goal
    RefreshSucceeds   \* whether the scenario's active sensing succeeds

Modes == {"normal", "no_motion", "abort", "reject", "stall"}

ASSUME RuntimeBounds == MaxCalls \in Nat
ASSUME BehaviorsAssumption == Behaviors \subseteq Modes
ASSUME RefreshAssumption == RefreshSucceeds \in BOOLEAN

VARIABLES
    \* the robot
    world,       \* the moves made: which goal applied whose transition
    clear,       \* no field is unknown or stale
    sequence,    \* the number of the last sample built
    envelope,    \* the request in the last command parameter, 0 before the first
    goals,       \* the state of each goal
    modes,       \* the behavior each accepted goal was given
    runs,        \* the request whose envelope each goal read as it began
    cancelling,  \* the goals a cancellation was accepted for
    timers,      \* the number of scheduled observations
    stops,       \* safe_stop_count
    \* the network
    calls,       \* the calls in flight: <<kind, request>>
    topic,       \* the samples in flight
    \* the client
    pc,          \* the wait it is in, or "idle"
    request,     \* _request_id
    before,      \* the sequence it had as the present call began
    latest,      \* _latest_state, with _sequence as latest.seq
    required,    \* _required_observation_sequence, NoBarrier for None
    handle,      \* _current_goal, 0 for None
    receipt,     \* the answer to the last command
    read,        \* the last observation it returned
    \* history, read by properties only
    sent,        \* the robot's sequence as the last command was called
    admitted,    \* read.seq as the last command was called
    abandoned    \* the requests whose call ended in an error

robot   == <<world, clear, sequence, envelope, goals, modes, runs, cancelling, timers, stops>>
network == <<calls, topic>>
client  == <<pc, request, before, latest, required, handle, receipt, read>>
history == <<sent, admitted, abandoned>>
vars    == <<robot, network, client, history>>

Requests  == 1 .. MaxCalls
NoBarrier == 0
Ended     == {"succeeded", "aborted", "canceled"}
Running   == {"accepted", "executing", "moved"}
GoalStates == {"none", "rejected"} \cup Running \cup Ended
Waits == {"idle", "parameter", "goal", "result", "cancel", "canceled",
          "observe", "refresh", "refreshing", "stop"}

Moves   == Requests \X Requests
Sample  == [seq : Nat, world : SUBSET Moves, clear : BOOLEAN]
Receipt == [request : Requests \cup {0},
            status : {"none", "awaited", "refused"} \cup Ended]
Calls   == ({"command", "refresh", "goal", "cancel", "external"} \X Requests)
           \cup {<<"stop", 0>>}

TypeOK ==
    /\ world \subseteq Moves
    /\ clear \in BOOLEAN
    /\ sequence \in Nat
    /\ envelope \in Requests \cup {0}
    /\ goals \in [Requests -> GoalStates]
    /\ modes \in [Requests -> Modes]
    /\ runs \in [Requests -> Requests \cup {0}]
    /\ cancelling \subseteq Requests
    /\ timers \in Nat
    /\ stops \in Nat
    /\ calls \subseteq Calls
    /\ topic \subseteq Sample
    /\ pc \in Waits
    /\ request \in Requests \cup {0}
    /\ before \in Nat
    /\ latest \in Sample
    /\ required \in Nat
    /\ handle \in Requests \cup {0}
    /\ receipt \in Receipt
    /\ read \in Sample
    /\ sent \in Nat
    /\ admitted \in Nat
    /\ abandoned \subseteq Requests

\* The constructor has waited for the first sample, published at startup.
Init ==
    /\ world = {} /\ clear = FALSE /\ sequence = 1
    /\ envelope = 0
    /\ goals = [g \in Requests |-> "none"]
    /\ modes = [g \in Requests |-> "normal"]
    /\ runs = [g \in Requests |-> 0]
    /\ cancelling = {} /\ timers = 0 /\ stops = 0
    /\ calls = {} /\ topic = {}
    /\ pc = "idle" /\ request = 0 /\ before = 0
    /\ latest = [seq |-> 1, world |-> {}, clear |-> clear]
    /\ required = NoBarrier /\ handle = 0
    /\ receipt = [request |-> 0, status |-> "none"]
    /\ read = latest
    /\ sent = 0 /\ admitted = 0 /\ abandoned = {}

(***************************************************************************)
(* The client.  Answered: the call of the present request was served.      *)
(***************************************************************************)
Answered(kind) == <<kind, request>> \notin calls

StopPending == <<"stop", 0>> \in calls

MayCall == pc = "idle" /\ request + stops + (IF StopPending THEN 1 ELSE 0) < MaxCalls

\* The call is over; its locals and the history of its start are forgotten.
Forget == before' = 0 /\ sent' = 0 /\ admitted' = 0

Refuse ==
    /\ receipt' = [receipt EXCEPT !.status = "refused"]
    /\ pc' = "idle"
    /\ Forget

\* command(): the envelope goes to the parameter service first.
Call ==
    /\ MayCall
    /\ request' = request + 1
    /\ before' = latest.seq
    /\ calls' = calls \cup {<<"command", request'>>}
    /\ receipt' = [request |-> request', status |-> "awaited"]
    /\ pc' = "parameter"
    /\ sent' = sequence /\ admitted' = read.seq
    /\ UNCHANGED <<robot, topic, latest, required, handle, read, abandoned>>

ParameterSet ==
    /\ pc = "parameter" /\ Answered("command")
    /\ calls' = calls \cup {<<"goal", request>>}
    /\ pc' = "goal"
    /\ UNCHANGED <<robot, topic, request, before, latest, required, handle, receipt, read, history>>

GoalAccepted ==
    /\ pc = "goal" /\ Answered("goal") /\ goals[request] # "rejected"
    /\ handle' = request
    /\ pc' = "result"
    /\ UNCHANGED <<robot, network, request, before, latest, required, receipt, read, history>>

GoalRejected ==
    /\ pc = "goal" /\ Answered("goal") /\ goals[request] = "rejected"
    /\ Refuse
    /\ UNCHANGED <<robot, network, request, latest, required, handle, read, abandoned>>

\* The terminal status is in; the next observe has to be newer than before.
Conclude ==
    /\ goals[request] \in Ended
    /\ receipt' = [receipt EXCEPT !.status = goals[request]]
    /\ required' = before
    /\ before' = 0
    /\ handle' = 0
    /\ pc' = "idle"
    /\ UNCHANGED <<robot, network, request, latest, read, history>>

Result == pc = "result" /\ Conclude

ActionTimeout ==
    /\ pc = "result"
    /\ calls' = calls \cup {<<"cancel", request>>}
    /\ pc' = "cancel"
    /\ UNCHANGED <<robot, topic, request, before, latest, required, handle, receipt, read, history>>

\* The answer taken for the end: a mutation of CancelAnswered.
CancelAnsweredAtOnce ==
    /\ pc = "cancel" /\ Answered("cancel")
    /\ receipt' = [receipt EXCEPT !.status = "canceled"]
    /\ required' = before
    /\ before' = 0
    /\ handle' = 0
    /\ pc' = "idle"
    /\ UNCHANGED <<robot, network, request, latest, read, history>>

\* The answer to a cancellation is not the end of the goal: the client waits for that too.
CancelAnswered ==
    /\ pc = "cancel" /\ Answered("cancel")
    /\ pc' = "canceled"
    /\ UNCHANGED <<robot, network, request, before, latest, required, handle, receipt, read, history>>

CanceledResult == pc = "canceled" /\ Conclude

\* No deadline while a goal is canceled: a mutation of TransportError.
TransportErrorEarly ==
    /\ pc \in {"parameter", "goal"}
    /\ Refuse
    /\ abandoned' = abandoned \cup {request}
    /\ UNCHANGED <<robot, network, request, latest, required, handle, read>>

\* A deadline of command() other than the result's: the goal, if any, is left alone.
TransportError ==
    /\ pc \in {"parameter", "goal", "cancel", "canceled"}
    /\ Refuse
    /\ handle' = 0
    /\ abandoned' = abandoned \cup {request}
    /\ UNCHANGED <<robot, network, request, latest, required, read>>

\* cancel_current_goal() from another thread, at any time.
ExternalCancel ==
    /\ handle # 0
    /\ calls' = calls \cup {<<"external", handle>>}
    /\ UNCHANGED <<robot, topic, client, history>>

\* The sample known already passes: a mutation of Newer.
NewerOrSame(sample, barrier) == sample.seq >= barrier

\* observe(): after a command it waits for a sample newer than the barrier.
Newer(sample, barrier) == sample.seq > barrier

ReadLatest ==
    /\ read' = latest
    /\ pc' = "idle"

Observe ==
    /\ pc = "idle"
    /\ \/ required = NoBarrier /\ ReadLatest
       \/ required # NoBarrier /\ pc' = "observe" /\ UNCHANGED read
    /\ UNCHANGED <<robot, network, request, before, latest, required, handle, receipt, history>>

BarrierPassed == pc = "observe" /\ Newer(latest, required)
BarrierLapsed == pc = "observe" /\ ~Newer(latest, required)

\* Both the newer sample and the deadline lift the barrier.
LiftBarrier ==
    /\ ReadLatest
    /\ required' = NoBarrier
    /\ Forget
    /\ UNCHANGED <<robot, network, request, latest, handle, receipt, abandoned>>

ObservationArrived ==
    /\ BarrierPassed
    /\ LiftBarrier

ObservationTimeout ==
    /\ BarrierLapsed
    /\ LiftBarrier

\* acquire(): a refresh, then any sample newer than the one it had; else observe().
Acquire ==
    /\ MayCall
    /\ request' = request + 1
    /\ before' = latest.seq
    /\ calls' = calls \cup {<<"refresh", request'>>}
    /\ pc' = "refresh"
    /\ UNCHANGED <<robot, topic, latest, required, handle, receipt, read, history>>

RefreshSet ==
    /\ pc = "refresh" /\ Answered("refresh")
    /\ pc' = "refreshing"
    /\ UNCHANGED <<robot, network, request, before, latest, required, handle, receipt, read, history>>

\* The deadline of the parameter call is not caught: acquire raises.
RefreshError ==
    /\ pc = "refresh"
    /\ pc' = "idle"
    /\ before' = 0
    /\ UNCHANGED <<robot, network, request, latest, required, handle, receipt, read, history>>

Refreshed ==
    /\ pc = "refreshing" /\ Newer(latest, before)
    /\ ReadLatest
    /\ before' = 0
    /\ UNCHANGED <<robot, network, request, latest, required, handle, receipt, history>>

RefreshTimeout ==
    /\ pc = "refreshing" /\ ~Newer(latest, before)
    /\ \/ required = NoBarrier /\ ReadLatest
       \/ required # NoBarrier /\ pc' = "observe" /\ UNCHANGED read
    /\ before' = 0
    /\ UNCHANGED <<robot, network, request, latest, required, handle, receipt, history>>

Stop ==
    /\ MayCall /\ ~StopPending
    /\ calls' = calls \cup {<<"stop", 0>>}
    /\ pc' = "stop"
    /\ UNCHANGED <<robot, topic, request, before, latest, required, handle, receipt, read, history>>

\* Answered or not: a transport error is a refused receipt, and the client goes on.
Stopped ==
    /\ pc = "stop"
    /\ pc' = "idle"
    /\ UNCHANGED <<robot, network, request, before, latest, required, handle, receipt, read, history>>

\* Whatever arrives last is kept: a mutation of Receive.
ReceiveAny(sample) == latest' = sample

\* _receive_state() in the spin thread.
Receive(sample) == latest' = IF sample.seq >= latest.seq THEN sample ELSE latest

ReceiveState ==
    /\ \E sample \in topic : Receive(sample) /\ topic' = topic \ {sample}
    /\ UNCHANGED <<robot, calls, pc, request, before, required, handle, receipt, read, history>>

(***************************************************************************)
(* The robot.                                                              *)
(***************************************************************************)
PublishWith(marks) ==
    /\ sequence' = sequence + 1
    /\ topic' = topic \cup {[seq |-> sequence', world |-> world, clear |-> marks]}

Publish == PublishWith(clear)

NoPublish == UNCHANGED <<sequence, topic>>

\* _schedule_observation(): at once, or by the timer.
Schedule(marks) ==
    \/ PublishWith(marks) /\ UNCHANGED timers
    \/ NoPublish /\ timers' = timers + 1

\* One client's parameter requests are served in the order it made them.
NextParameter(kind, r) ==
    /\ <<kind, r>> \in calls
    /\ \A c \in calls : c[1] \in {"command", "refresh"} => c[2] >= r
    /\ calls' = calls \ {<<kind, r>>}

HandleCommand ==
    /\ \E r \in Requests : NextParameter("command", r) /\ envelope' = r
    /\ UNCHANGED <<world, clear, sequence, goals, modes, runs, cancelling, timers, stops,
                   topic, client, history>>

HandleRefresh ==
    /\ \E r \in Requests : NextParameter("refresh", r)
    /\ clear' = (clear \/ RefreshSucceeds)
    /\ Schedule(clear')
    /\ UNCHANGED <<world, envelope, goals, modes, runs, cancelling, stops, client, history>>

\* _accept_goal(): only under its own envelope.
HandleGoal ==
    /\ \E g \in Requests, mode \in Behaviors :
          /\ <<"goal", g>> \in calls
          /\ calls' = calls \ {<<"goal", g>>}
          /\ IF envelope # g \/ mode = "reject"
             THEN goals' = [goals EXCEPT ![g] = "rejected"] /\ UNCHANGED modes
             ELSE /\ goals' = [goals EXCEPT ![g] = "accepted"]
                  /\ modes' = [modes EXCEPT ![g] = mode]
    /\ UNCHANGED <<world, clear, sequence, envelope, runs, cancelling, timers, stops,
                   topic, client, history>>

\* _cancel_goal() accepts; the action server asks it only about goals still running.
HandleCancel ==
    /\ \E kind \in {"cancel", "external"}, g \in Requests :
          /\ <<kind, g>> \in calls
          /\ calls' = calls \ {<<kind, g>>}
          /\ cancelling' = IF goals[g] \in Running THEN cancelling \cup {g} ELSE cancelling
    /\ UNCHANGED <<world, clear, sequence, envelope, goals, modes, runs, timers, stops,
                   topic, client, history>>

\* _safe_stop() stops the base but no goal.
HandleStop ==
    /\ StopPending
    /\ calls' = calls \ {<<"stop", 0>>}
    /\ stops' = stops + 1
    /\ Publish
    /\ UNCHANGED <<world, clear, envelope, goals, modes, runs, cancelling, timers, client, history>>

\* A timer that does not look at what is due: a mutation of TimerPublish.
TimerPublishAlways ==
    /\ timers' = timers - 1
    /\ Publish
    /\ UNCHANGED <<world, clear, envelope, goals, modes, runs, cancelling, stops,
                   calls, client, history>>

TimerPublish ==
    /\ timers > 0
    /\ timers' = timers - 1
    /\ Publish
    /\ UNCHANGED <<world, clear, envelope, goals, modes, runs, cancelling, stops,
                   calls, client, history>>

(***************************************************************************)
(* _execute() of one goal.  The loop ends with a cancellation, with the    *)
(* duration of the behavior, or ten seconds into a stall.                  *)
(***************************************************************************)
Goes(g, from, to) == goals[g] = from /\ goals' = [goals EXCEPT ![g] = to]

\* The goal handle is terminal, the callback returns.
Finish(g, status) ==
    /\ goals' = [goals EXCEPT ![g] = status]
    /\ modes' = [modes EXCEPT ![g] = "normal"]
    /\ cancelling' = cancelling \ {g}

Begin(g) ==
    /\ Goes(g, "accepted", "executing")
    /\ runs' = [runs EXCEPT ![g] = envelope]
    /\ UNCHANGED <<world, clear, sequence, envelope, modes, cancelling, timers, stops,
                   network, client, history>>

CancelSeen(g) ==
    /\ g \in cancelling
    /\ goals[g] = "executing"
    /\ Finish(g, "canceled")
    /\ Publish
    /\ UNCHANGED <<world, clear, envelope, runs, timers, stops, calls, client, history>>

StallAbort(g) ==
    /\ goals[g] = "executing" /\ modes[g] = "stall"
    /\ Finish(g, "aborted")
    /\ UNCHANGED <<world, clear, sequence, envelope, runs, timers, stops,
                   network, client, history>>

Abort(g) ==
    /\ goals[g] = "executing" /\ modes[g] = "abort"
    /\ Finish(g, "aborted")
    /\ Publish
    /\ UNCHANGED <<world, clear, envelope, runs, timers, stops, calls, client, history>>

\* _apply_transition() of the skill and arguments read as the goal began.
Move(g) ==
    /\ modes[g] = "normal"
    /\ Goes(g, "executing", "moved")
    /\ world' = world \cup {<<g, runs[g]>>}
    /\ UNCHANGED <<clear, sequence, envelope, modes, runs, cancelling, timers, stops,
                   network, client, history>>

Transitioned(g) == goals[g] = IF modes[g] = "no_motion" THEN "executing" ELSE "moved"

\* A cancellation honoured after the transition, and no observation: mutations of Report.
ReportCanceled(g) ==
    /\ Transitioned(g)
    /\ Schedule(clear)
    /\ Finish(g, IF g \in cancelling THEN "canceled" ELSE "succeeded")
    /\ UNCHANGED <<world, clear, envelope, runs, stops, calls, client, history>>

ReportSilently(g) ==
    /\ Transitioned(g)
    /\ NoPublish
    /\ Finish(g, "succeeded")
    /\ UNCHANGED <<world, clear, envelope, runs, timers, stops, calls, client, history>>

\* The post_action observation, then succeed().
Report(g) ==
    /\ Transitioned(g)
    /\ Schedule(clear)
    /\ Finish(g, "succeeded")
    /\ UNCHANGED <<world, clear, envelope, runs, stops, calls, client, history>>

(***************************************************************************)
Awaiting ==
    \/ ParameterSet \/ GoalAccepted \/ GoalRejected \/ Result
    \/ ActionTimeout \/ CancelAnswered \/ CanceledResult \/ TransportError
    \/ ObservationArrived \/ ObservationTimeout
    \/ RefreshSet \/ RefreshError \/ Refreshed \/ RefreshTimeout \/ Stopped

Client == Call \/ Observe \/ Acquire \/ Stop \/ Awaiting \/ ExternalCancel \/ ReceiveState

Serve == HandleCommand \/ HandleRefresh \/ HandleGoal \/ HandleCancel \/ HandleStop \/ TimerPublish

Execute(g) == Begin(g) \/ CancelSeen(g) \/ StallAbort(g) \/ Abort(g) \/ Move(g) \/ Report(g)

Next == Client \/ Serve \/ \E g \in Requests : Execute(g)

Spec == Init /\ [][Next]_vars

\* Deadlines pass, the topic is reliable, and the robot's timer and a goal that
\* has moved run on.  Nothing is assumed of calls or of goals before they move.
Fairness ==
    /\ WF_vars(Awaiting)
    /\ WF_vars(ReceiveState)
    /\ WF_vars(TimerPublish)
    /\ \A g \in Requests : WF_vars(Report(g))

FairSpec == Spec /\ Fairness

(***************************************************************************)
(* Properties.                                                             *)
(***************************************************************************)

\* A goal executes the envelope of its own request, although the robot reads
\* the envelope again as the goal begins (_execute), when another may have
\* replaced it: only a goal whose call ended in a transport error can find that.
OwnCommand == \A g \in Requests : runs[g] \in {0, g} \/ g \in abandoned

\* A receipt that says canceled or aborted means that the goal of that request
\* did not move the robot and will not, and that no other goal did so with that
\* request's envelope, however the cancellation, the end of the goal and the
\* deadlines raced; except for a goal whose own call ended in a transport error.
NoMotionAfterCancel ==
    receipt.status \in {"canceled", "aborted"} =>
        \A move \in world :
            receipt.request \in {move[1], move[2]} => move[1] \in abandoned \ {receipt.request}

BarrierLifted == required # NoBarrier /\ required' = NoBarrier /\ ~BarrierLapsed

\* When observe() passes the barrier of a command, what it returns is newer
\* than the observation the command was admitted on, whatever was read,
\* refreshed or received in between.
NewerThanAdmitted ==
    [][BarrierLifted /\ receipt.status \in Ended
          => read'.seq > admitted]_vars

\* The same with the claim of docs/ROS2_RUNTIME_VALIDATION_REPORT.md that this
\* excludes samples from before the command: what observe() returns was
\* published after the command was called.
PublishedAfterCall ==
    [][BarrierLifted /\ receipt.status \in Ended
          => read'.seq > sent]_vars

\* The requests the client waits for or the robot may still carry out.
CarriedOutLater(r) == <<"goal", r>> \in calls \/ goals[r] \in Running

Open == {r \in Requests : \/ r = request /\ receipt.status = "awaited"
                          \/ CarriedOutLater(r)}

Answer == IF receipt.status \in Ended THEN "accepted" ELSE receipt.status

Shown(sample) == [moved |-> sample.world, clear |-> sample.clear]

Remote ==
    INSTANCE RemoteBackend WITH
        Shared  <- TRUE,
        last    <- request,
        receipt <- Answer,
        open    <- Open,
        world   <- [moved |-> world, clear |-> clear],
        shown   <- Shown(read)

\* Client, network and robot together are a backend each of whose requests
\* moves the robot at most once and never after its accepted receipt, with its
\* own command or, only if it was given up on, with that of a later request;
\* and which shows its caller a world that never goes back (command, _execute,
\* _receive_state).
ImplementsRemoteBackend == Remote!Spec

\* Every call of the client returns, whether the robot answers or not.
CallsReturn == []<>(pc = "idle")

\* What the robot did, and what active sensing cleared, is never lost on the
\* way: until a sample that shows it is in flight or received, the goal is still
\* to be reported or an observation scheduled, whatever arrives out of order.
NothingLost ==
    \/ timers > 0
    \/ /\ \A move \in world :
             \/ goals[move[1]] = "moved"
             \/ \E s \in topic \cup {latest} : move \in s.world
       /\ clear => \E s \in topic \cup {latest} : s.clear

\* What the robot did is shown: the observation after a transition, at once or
\* scheduled, reaches the client and is not shadowed by what it has.
EffectsShown == \A move \in Moves : move \in world ~> move \in latest.world
============================================================================
