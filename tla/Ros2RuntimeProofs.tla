------------------------- MODULE Ros2RuntimeProofs -------------------------
(***************************************************************************)
(* What is proved of Ros2Runtime for every number of calls, every set of   *)
(* scripted behaviors and every outcome of active sensing.                 *)
(***************************************************************************)
EXTENDS Ros2Runtime, TLAPS

(***************************************************************************)
(* The invariants.                                                         *)
(***************************************************************************)
\* The client waits for a command's goal to be answered or to end.
Following == pc \in {"goal", "result", "cancel", "canceled"}

Awaited == pc = "parameter" \/ Following

WaitsForRequest == Awaited => request \in Requests

TypeInv == TypeOK /\ WaitsForRequest

\* Where each request stands.
InStep ==
    \* no request from the future
    /\ \A g \in Requests : g > request =>
          /\ goals[g] = "none" /\ <<"goal", g>> \notin calls /\ <<"command", g>> \notin calls
          /\ g \notin abandoned
    /\ Awaited => request \notin abandoned
    \* a goal still to be served is new, and so is the goal of an envelope on its way
    /\ \A g \in Requests : <<"goal", g>> \in calls => goals[g] = "none"
    /\ pc = "parameter" =>
          goals[request] = "none" /\ <<"goal", request>> \notin calls
    \* what the client does not wait for, it has abandoned
    /\ \A g \in Requests : <<"command", g>> \in calls =>
          g \in abandoned \/ (g = request /\ pc = "parameter")
    /\ \A g \in Requests : <<"goal", g>> \in calls \/ goals[g] \in Running =>
          g \in abandoned \/ (g = request /\ Following)
    \* envelopes are served in order
    /\ pc = "parameter" /\ <<"command", request>> \notin calls =>
          \A g \in Requests : <<"command", g>> \notin calls
    /\ Following => \A g \in Requests : <<"command", g>> \notin calls

\* A goal has its own envelope, or that of a later request if it was abandoned.
OwnEnvelope ==
    /\ envelope <= request
    /\ \A g \in Requests : <<"command", g>> \in calls => envelope < g
    /\ \A g \in Requests : goals[g] = "accepted" =>
          envelope = g \/ (g \in abandoned /\ g < envelope)
    /\ \A g \in Requests : goals[g] = "executing" =>
          runs[g] = g \/ (g \in abandoned /\ g < runs[g])
    /\ \A g \in Requests : runs[g] <= request
    /\ OwnCommand

\* A receipt reports what has become of the goal.
Reported ==
    /\ receipt.status = "awaited" <=> Awaited
    /\ Awaited => receipt.request = request
    /\ receipt.status \in Ended =>
          receipt.request \in Requests /\ goals[receipt.request] = receipt.status
    /\ receipt.request <= request
    /\ \A m \in world : goals[m[1]] \in {"moved", "succeeded"} /\ runs[m[1]] = m[2]

\* a was built before b: it shows no more than b.
Earlier(a, b) == a.seq <= b.seq => a.world \subseteq b.world /\ (a.clear => b.clear)

Seen == topic \cup {latest, read}

\* Samples are ordered like the world they show.
Ordered ==
    /\ \A a \in Seen : a.seq <= sequence /\ a.world \subseteq world /\ (a.clear => clear)
    /\ \A a, b \in Seen : Earlier(a, b)
    /\ read.seq <= latest.seq

\* The barrier is not older than what the command was admitted on.
Guarded ==
    /\ Awaited => admitted <= before
    /\ required # NoBarrier /\ receipt.status \in Ended => admitted <= required

IInv == TypeInv /\ InStep /\ OwnEnvelope /\ Reported /\ Ordered /\ Guarded

(***************************************************************************)
(* Types.                                                                  *)
(***************************************************************************)
\* A new sample is a sample.
LEMMA PublishTyped ==
    ASSUME TypeOK, NEW marks \in BOOLEAN, PublishWith(marks)
    PROVE  sequence' \in Nat /\ topic' \subseteq Sample
BY DEF TypeOK, PublishWith, Sample

\* Starting an effect leaves the timers and mutation modes well-typed.
LEMMA ScheduleTyped ==
    ASSUME TypeOK, NEW marks \in BOOLEAN, Schedule(marks)
    PROVE  sequence' \in Nat /\ topic' \subseteq Sample /\ timers' \in Nat
<1>1. CASE PublishWith(marks) /\ UNCHANGED timers
  BY <1>1, PublishTyped DEF TypeOK
<1>2. CASE NoPublish /\ timers' = timers + 1
  BY <1>2 DEF TypeOK, NoPublish
<1> QED
  BY <1>1, <1>2 DEF Schedule

\* A step keeps the types and waits only for a request it has made.
LEMMA TypeStep == TypeInv /\ OwnEnvelope /\ [Next]_vars => TypeInv'
<1> SUFFICES ASSUME TypeInv, OwnEnvelope, [Next]_vars PROVE TypeInv'
  OBVIOUS
<1> USE RuntimeBounds, BehaviorsAssumption, RefreshAssumption
    DEF TypeInv, TypeOK, WaitsForRequest, Awaited, Following, Requests, Waits, GoalStates,
        Ended, Running, Modes, Moves, Sample, Receipt, Calls, NoBarrier,
        robot, network, client, history
<1>1. CASE Call
  BY <1>1 DEF Call, MayCall
<1>2. CASE ParameterSet
  BY <1>2 DEF ParameterSet
<1>3. CASE GoalAccepted
  BY <1>3 DEF GoalAccepted
<1>4. CASE GoalRejected
  BY <1>4 DEF GoalRejected, Refuse, Forget
<1>5. CASE Result
  BY <1>5 DEF Result, Conclude
<1>6. CASE ActionTimeout
  BY <1>6 DEF ActionTimeout
<1>7. CASE CancelAnswered
  BY <1>7 DEF CancelAnswered
<1>8. CASE CanceledResult
  BY <1>8 DEF CanceledResult, Conclude
<1>9. CASE TransportError
  BY <1>9 DEF TransportError, Refuse, Forget
<1>10. CASE ExternalCancel
  BY <1>10 DEF ExternalCancel
<1>11. CASE Observe
  BY <1>11 DEF Observe, ReadLatest
<1>12. CASE ObservationArrived
  BY <1>12 DEF ObservationArrived, BarrierPassed, LiftBarrier, ReadLatest, Forget
<1>13. CASE ObservationTimeout
  BY <1>13 DEF ObservationTimeout, BarrierLapsed, LiftBarrier, ReadLatest, Forget
<1>14. CASE Acquire
  BY <1>14 DEF Acquire, MayCall
<1>15. CASE RefreshSet
  BY <1>15 DEF RefreshSet
<1>16. CASE RefreshError
  BY <1>16 DEF RefreshError
<1>17. CASE Refreshed
  BY <1>17 DEF Refreshed, ReadLatest
<1>18. CASE RefreshTimeout
  BY <1>18 DEF RefreshTimeout, ReadLatest
<1>19. CASE Stop
  BY <1>19 DEF Stop, MayCall
<1>20. CASE Stopped
  BY <1>20 DEF Stopped
<1>21. CASE ReceiveState
  BY <1>21 DEF ReceiveState, Receive
<1>22. CASE HandleCommand
  BY <1>22 DEF HandleCommand, NextParameter
<1>23. CASE HandleRefresh
  <2>1. clear' \in BOOLEAN /\ calls' \subseteq Calls
    BY <1>23 DEF HandleRefresh, NextParameter
  <2>2. sequence' \in Nat /\ topic' \subseteq Sample /\ timers' \in Nat
    BY <1>23, <2>1, ScheduleTyped DEF HandleRefresh
  <2> QED
    BY <1>23, <2>1, <2>2 DEF HandleRefresh
<1>24. CASE HandleGoal
  <2> PICK g \in Requests, mode \in Behaviors :
          /\ calls' = calls \ {<<"goal", g>>}
          /\ IF envelope # g \/ mode = "reject"
             THEN goals' = [goals EXCEPT ![g] = "rejected"] /\ UNCHANGED modes
             ELSE /\ goals' = [goals EXCEPT ![g] = "accepted"]
                  /\ modes' = [modes EXCEPT ![g] = mode]
    BY <1>24 DEF HandleGoal
  <2>1. calls' \subseteq Calls
    OBVIOUS
  <2>2. goals' \in [Requests -> GoalStates]
    OBVIOUS
  <2>3. modes' \in [Requests -> Modes]
    OBVIOUS
  <2> QED
    BY <1>24, <2>1, <2>2, <2>3 DEF HandleGoal
<1>25. CASE HandleCancel
  BY <1>25 DEF HandleCancel
<1>26. CASE HandleStop
  <2>1. sequence' \in Nat /\ topic' \subseteq Sample
    BY <1>26, PublishTyped DEF HandleStop, Publish
  <2> QED
    BY <1>26, <2>1 DEF HandleStop
<1>27. CASE TimerPublish
  <2>1. sequence' \in Nat /\ topic' \subseteq Sample
    BY <1>27, PublishTyped DEF TimerPublish, Publish
  <2> QED
    BY <1>27, <2>1 DEF TimerPublish
<1>28. ASSUME NEW g \in Requests, Begin(g) PROVE TypeInv'
  BY <1>28 DEF Begin, Goes
<1>29. ASSUME NEW g \in Requests, CancelSeen(g) PROVE TypeInv'
  <2>1. sequence' \in Nat /\ topic' \subseteq Sample
    BY <1>29, PublishTyped DEF CancelSeen, Finish, Publish
  <2> QED
    BY <1>29, <2>1 DEF CancelSeen, Finish
<1>30. ASSUME NEW g \in Requests, StallAbort(g) PROVE TypeInv'
  BY <1>30 DEF StallAbort, Finish
<1>31. ASSUME NEW g \in Requests, Abort(g) PROVE TypeInv'
  <2>1. sequence' \in Nat /\ topic' \subseteq Sample
    BY <1>31, PublishTyped DEF Abort, Finish, Publish
  <2> QED
    BY <1>31, <2>1 DEF Abort, Finish
<1>32. ASSUME NEW g \in Requests, Move(g) PROVE TypeInv'
  <2>1. runs[g] \in Requests
    BY <1>32 DEF Move, Goes, OwnEnvelope
  <2> QED
    BY <1>32, <2>1 DEF Move, Goes
<1>33. ASSUME NEW g \in Requests, Report(g) PROVE TypeInv'
  <2>1. sequence' \in Nat /\ topic' \subseteq Sample /\ timers' \in Nat
    BY <1>33, ScheduleTyped DEF Report
  <2> QED
    BY <1>33, <2>1 DEF Report, Finish
<1>34. CASE UNCHANGED vars
  BY <1>34 DEF vars
<1> QED
  BY <1>1, <1>2, <1>3, <1>4, <1>5, <1>6, <1>7, <1>8, <1>9, <1>10, <1>11, <1>12, <1>13,
    <1>14, <1>15, <1>16, <1>17, <1>18, <1>19, <1>20, <1>21, <1>22, <1>23, <1>24, <1>25,
    <1>26, <1>27, <1>28, <1>29, <1>30, <1>31, <1>32, <1>33, <1>34
    DEF Next, Client, Awaiting, Serve, Execute

\* The initial states are well-typed, and wait for nothing.
LEMMA TypeStart == Init => TypeInv
<1> SUFFICES ASSUME Init PROVE TypeInv
  OBVIOUS
<1> USE RuntimeBounds DEF Init, Requests
<1>1. /\ world \subseteq Moves /\ clear \in BOOLEAN /\ sequence \in Nat
      /\ envelope \in Requests \cup {0} /\ cancelling \subseteq Requests
      /\ timers \in Nat /\ stops \in Nat
  OBVIOUS
<1>2. /\ goals \in [Requests -> GoalStates] /\ modes \in [Requests -> Modes]
      /\ runs \in [Requests -> Requests \cup {0}]
  BY DEF GoalStates, Modes
<1>3. calls \subseteq Calls /\ topic \subseteq Sample
  OBVIOUS
<1>4. latest \in Sample /\ read \in Sample
  BY DEF Sample
<1>5. /\ pc \in Waits /\ request \in Requests \cup {0} /\ before \in Nat
      /\ required \in Nat /\ handle \in Requests \cup {0} /\ receipt \in Receipt
  BY DEF Waits, NoBarrier, Receipt
<1>6. sent \in Nat /\ admitted \in Nat /\ abandoned \subseteq Requests
  OBVIOUS
<1> QED
  BY <1>1, <1>2, <1>3, <1>4, <1>5, <1>6
     DEF TypeInv, TypeOK, WaitsForRequest, Awaited, Following

(***************************************************************************)
(* Where each request stands.                                              *)
(***************************************************************************)
\* Initially there is no request at all.
LEMMA InStepStart == Init => InStep
BY DEF Init, InStep, Awaited, Following, Requests, Running

\* A step leaves at most one request in progress that is not abandoned.
LEMMA InStepStep == TypeInv /\ InStep /\ [Next]_vars => InStep'
<1> SUFFICES ASSUME TypeInv, InStep, [Next]_vars PROVE InStep'
  OBVIOUS
<1>0. /\ MaxCalls \in Nat /\ request \in Nat
      /\ goals \in [Requests -> GoalStates]
      /\ pc = "parameter" \/ Following => request \in Requests
  BY RuntimeBounds DEF TypeInv, TypeOK, WaitsForRequest, Awaited, Requests
<1> USE DEF InStep, Awaited, Following, Requests, Running, robot, network, client, history
<1>1. CASE Call
  <2>1. /\ pc = "idle" /\ pc' = "parameter" /\ request' = request + 1
        /\ calls' = calls \cup {<<"command", request + 1>>}
        /\ goals' = goals /\ abandoned' = abandoned
    BY <1>1 DEF Call, MayCall
  <2>2. \A g \in Requests : <<"goal", g>> \in calls' <=> <<"goal", g>> \in calls
    BY <2>1
  <2>3. \A g \in Requests : g # request' =>
          (<<"command", g>> \in calls' <=> <<"command", g>> \in calls)
    BY <2>1
  <2>4. <<"command", request'>> \in calls'
    BY <2>1
  <2>5. request' \in Requests /\ request' > request
    BY <1>0, <1>1, RuntimeBounds DEF Call, MayCall, TypeInv, TypeOK
  <2>6. \A g \in Requests : g > request' =>
          /\ goals[g] = "none" /\ <<"goal", g>> \notin calls' /\ <<"command", g>> \notin calls'
          /\ g \notin abandoned
    <3> TAKE g \in Requests
    <3>1. g > request' => g > request /\ g # request'
      BY <1>0, <2>1
    <3> QED
      BY <2>2, <2>3, <3>1
  <2>7. goals[request'] = "none" /\ <<"goal", request'>> \notin calls' /\ request' \notin abandoned
    BY <2>2, <2>5
  <2>8. \A g \in Requests : <<"command", g>> \in calls' =>
          g \in abandoned \/ g = request'
    BY <2>1, <2>3
  <2>9. \A g \in Requests : <<"goal", g>> \in calls' \/ goals[g] \in Running => g \in abandoned
    BY <2>1, <2>2
  <2> QED
    BY <2>1, <2>2, <2>4, <2>6, <2>7, <2>8, <2>9
<1>2. CASE ParameterSet
  <2>1. /\ pc = "parameter" /\ pc' = "goal" /\ UNCHANGED <<request, goals, abandoned>>
        /\ <<"command", request>> \notin calls
        /\ calls' = calls \cup {<<"goal", request>>}
    BY <1>2 DEF ParameterSet, Answered
  <2>2. \A g \in Requests : <<"command", g>> \in calls' <=> <<"command", g>> \in calls
    BY <2>1
  <2>3. \A g \in Requests : <<"goal", g>> \in calls' =>
          <<"goal", g>> \in calls \/ g = request
    BY <2>1
  <2> QED
    BY <1>0, <2>1, <2>2, <2>3
<1>3. CASE GoalAccepted
  BY <1>0, <1>3 DEF GoalAccepted
<1>4. CASE GoalRejected
  BY <1>0, <1>4 DEF GoalRejected, Refuse, Forget
<1>5. CASE Result
  BY <1>0, <1>5 DEF Result, Conclude, Ended
<1>6. CASE ActionTimeout
  BY <1>0, <1>6 DEF ActionTimeout
<1>7. CASE CancelAnswered
  BY <1>0, <1>7 DEF CancelAnswered
<1>8. CASE CanceledResult
  BY <1>0, <1>8 DEF CanceledResult, Conclude, Ended
<1>9. CASE TransportError
  BY <1>0, <1>9 DEF TransportError, Refuse, Forget
<1>10. CASE ExternalCancel
  BY <1>0, <1>10 DEF ExternalCancel
<1>11. CASE Observe
  BY <1>0, <1>11 DEF Observe, ReadLatest
<1>12. CASE ObservationArrived
  BY <1>0, <1>12 DEF ObservationArrived, BarrierPassed, LiftBarrier, ReadLatest, Forget
<1>13. CASE ObservationTimeout
  BY <1>0, <1>13 DEF ObservationTimeout, BarrierLapsed, LiftBarrier, ReadLatest, Forget
<1>14. CASE Acquire
  BY <1>0, <1>14 DEF Acquire, MayCall
<1>15. CASE RefreshSet
  BY <1>0, <1>15 DEF RefreshSet
<1>16. CASE RefreshError
  BY <1>0, <1>16 DEF RefreshError
<1>17. CASE Refreshed
  BY <1>0, <1>17 DEF Refreshed, ReadLatest
<1>18. CASE RefreshTimeout
  BY <1>0, <1>18 DEF RefreshTimeout, ReadLatest
<1>19. CASE Stop
  BY <1>0, <1>19 DEF Stop, MayCall
<1>20. CASE Stopped
  BY <1>0, <1>20 DEF Stopped
<1>21. CASE ReceiveState
  BY <1>0, <1>21 DEF ReceiveState, Receive
<1>22. CASE HandleCommand
  <2> PICK r \in Requests : NextParameter("command", r)
    BY <1>22 DEF HandleCommand
  <2>1. /\ UNCHANGED <<pc, request, goals, abandoned>>
        /\ calls' = calls \ {<<"command", r>>}
        /\ <<"command", r>> \in calls
    BY <1>22 DEF HandleCommand, NextParameter
  <2>2. \A g \in Requests : <<"goal", g>> \in calls' <=> <<"goal", g>> \in calls
    BY <2>1
  <2>3. \A g \in Requests : <<"command", g>> \in calls' =>
          <<"command", g>> \in calls /\ g >= r /\ g # r
    BY <2>1 DEF NextParameter
  <2>4. ~(r > request)
    BY <2>1
  <2>5. pc = "parameter" /\ <<"command", request>> \notin calls' =>
          \A g \in Requests : <<"command", g>> \notin calls'
    <3> SUFFICES ASSUME pc = "parameter", <<"command", request>> \notin calls',
                        NEW g \in Requests, <<"command", g>> \in calls'
                 PROVE  FALSE
      OBVIOUS
    <3>1. <<"command", request>> \in calls
      BY <2>1
    <3>2. r = request
      BY <2>1, <3>1
    <3>3. <<"command", g>> \in calls /\ g > request
      BY <1>0, <2>3, <3>2
    <3> QED
      BY <3>3
  <2> QED
    BY <1>0, <2>1, <2>2, <2>3, <2>5
<1>23. CASE HandleRefresh
  BY <1>0, <1>23 DEF HandleRefresh, NextParameter, Schedule, PublishWith, NoPublish
<1>24. CASE HandleGoal
  BY <1>0, <1>24 DEF HandleGoal
<1>25. CASE HandleCancel
  BY <1>0, <1>25 DEF HandleCancel
<1>26. CASE HandleStop
  BY <1>0, <1>26 DEF HandleStop, Publish, PublishWith
<1>27. CASE TimerPublish
  BY <1>0, <1>27 DEF TimerPublish, Publish, PublishWith
<1>28. ASSUME NEW g \in Requests, Begin(g) PROVE InStep'
  BY <1>0, <1>28 DEF Begin, Goes
<1>29. ASSUME NEW g \in Requests, CancelSeen(g) PROVE InStep'
  BY <1>0, <1>29 DEF CancelSeen, Finish, Publish, PublishWith
<1>30. ASSUME NEW g \in Requests, StallAbort(g) PROVE InStep'
  BY <1>0, <1>30 DEF StallAbort, Finish
<1>31. ASSUME NEW g \in Requests, Abort(g) PROVE InStep'
  BY <1>0, <1>31 DEF Abort, Finish, Publish, PublishWith
<1>32. ASSUME NEW g \in Requests, Move(g) PROVE InStep'
  BY <1>0, <1>32 DEF Move, Goes
<1>33. ASSUME NEW g \in Requests, Report(g) PROVE InStep'
  <2>1. goals[g] \in Running
    BY <1>33 DEF Report, Transitioned
  <2> QED
    BY <1>0, <1>33, <2>1 DEF Report, Finish
<1>34. CASE UNCHANGED vars
  BY <1>34 DEF vars
<1> QED
  BY <1>1, <1>2, <1>3, <1>4, <1>5, <1>6, <1>7, <1>8, <1>9, <1>10, <1>11, <1>12, <1>13,
    <1>14, <1>15, <1>16, <1>17, <1>18, <1>19, <1>20, <1>21, <1>22, <1>23, <1>24, <1>25,
    <1>26, <1>27, <1>28, <1>29, <1>30, <1>31, <1>32, <1>33, <1>34
    DEF Next, Client, Awaiting, Serve, Execute

(***************************************************************************)
(* Which envelope a goal executes.                                         *)
(***************************************************************************)
\* Initially no goal executes an envelope.
LEMMA EnvelopeStart == Init => OwnEnvelope
BY RuntimeBounds DEF Requests, Init, OwnEnvelope, OwnCommand

\* A goal is accepted right after its own envelope, unless it was abandoned.
LEMMA EnvelopeStep == TypeInv /\ InStep /\ OwnEnvelope /\ [Next]_vars => OwnEnvelope'
<1> SUFFICES ASSUME TypeInv, InStep, OwnEnvelope, [Next]_vars PROVE OwnEnvelope'
  OBVIOUS
<1>0. /\ goals \in [Requests -> GoalStates] /\ runs \in [Requests -> Requests \cup {0}]
      /\ request \in Nat /\ envelope \in Nat /\ Requests \subseteq Nat
  BY RuntimeBounds DEF TypeInv, TypeOK, Requests
<1> USE DEF OwnEnvelope, OwnCommand, robot, network, client, history
<1>1. CASE Call
  <2>1. request' = request + 1 /\ UNCHANGED <<envelope, goals, runs, abandoned>>
    BY <1>1 DEF Call
  <2>2. \A g \in Requests : <<"command", g>> \in calls' =>
          <<"command", g>> \in calls \/ g = request + 1
    BY <1>1 DEF Call
  <2>3. \A g \in Requests : <<"command", g>> \in calls' => envelope < g
    BY <1>0, <2>2
  <2>4. envelope <= request' /\ \A g \in Requests : runs[g] <= request'
    BY <1>0, <2>1, RuntimeBounds DEF Requests
  <2> QED
    BY <2>1, <2>3, <2>4
<1>2. CASE ParameterSet
  BY <1>0, <1>2 DEF ParameterSet
<1>3. CASE GoalAccepted
  BY <1>0, <1>3 DEF GoalAccepted
<1>4. CASE GoalRejected
  BY <1>0, <1>4 DEF GoalRejected, Refuse, Forget
<1>5. CASE Result
  BY <1>0, <1>5 DEF Result, Conclude
<1>6. CASE ActionTimeout
  BY <1>0, <1>6 DEF ActionTimeout
<1>7. CASE CancelAnswered
  BY <1>0, <1>7 DEF CancelAnswered
<1>8. CASE CanceledResult
  BY <1>0, <1>8 DEF CanceledResult, Conclude
<1>9. CASE TransportError
  BY <1>0, <1>9 DEF TransportError, Refuse, Forget
<1>10. CASE ExternalCancel
  BY <1>0, <1>10 DEF ExternalCancel
<1>11. CASE Observe
  BY <1>0, <1>11 DEF Observe, ReadLatest
<1>12. CASE ObservationArrived
  BY <1>0, <1>12 DEF ObservationArrived, BarrierPassed, LiftBarrier, ReadLatest, Forget
<1>13. CASE ObservationTimeout
  BY <1>0, <1>13 DEF ObservationTimeout, BarrierLapsed, LiftBarrier, ReadLatest, Forget
<1>14. CASE Acquire
  <2>1. request' = request + 1 /\ UNCHANGED <<envelope, goals, runs, abandoned>>
    BY <1>14 DEF Acquire
  <2>2. \A g \in Requests : <<"command", g>> \in calls' <=> <<"command", g>> \in calls
    BY <1>14 DEF Acquire
  <2>4. envelope <= request' /\ \A g \in Requests : runs[g] <= request'
    BY <1>0, <2>1, RuntimeBounds DEF Requests
  <2> QED
    BY <2>1, <2>2, <2>4
<1>15. CASE RefreshSet
  BY <1>0, <1>15 DEF RefreshSet
<1>16. CASE RefreshError
  BY <1>0, <1>16 DEF RefreshError
<1>17. CASE Refreshed
  BY <1>0, <1>17 DEF Refreshed, ReadLatest
<1>18. CASE RefreshTimeout
  BY <1>0, <1>18 DEF RefreshTimeout, ReadLatest
<1>19. CASE Stop
  BY <1>0, <1>19 DEF Stop, MayCall
<1>20. CASE Stopped
  BY <1>0, <1>20 DEF Stopped
<1>21. CASE ReceiveState
  BY <1>0, <1>21 DEF ReceiveState, Receive
<1>22. CASE HandleCommand
  <2> PICK r \in Requests : NextParameter("command", r) /\ envelope' = r
    BY <1>22 DEF HandleCommand
  <2>1. /\ UNCHANGED <<goals, runs, request, abandoned>> /\ <<"command", r>> \in calls
        /\ calls' = calls \ {<<"command", r>>}
        /\ \A g \in Requests : <<"command", g>> \in calls => r <= g
    BY <1>0, <1>22 DEF HandleCommand, NextParameter
  <2>2. ASSUME NEW g \in Requests, goals[g] = "accepted", g \notin abandoned
        PROVE  FALSE
    <3>1. g = request /\ Following
      BY <2>2 DEF InStep, Running
    <3> QED
      BY <2>1, <3>1 DEF InStep
  <2>3. envelope < r /\ r <= request
    <3>1. envelope < r
      BY <2>1
    <3>2. ~(r > request)
      BY <2>1 DEF InStep
    <3> QED
      BY <1>0, <3>1, <3>2
  <2>4. \A g \in Requests : <<"command", g>> \in calls' => r < g
    BY <1>0, <2>1
  <2>5. \A g \in Requests : goals[g] = "accepted" => g \in abandoned /\ g < r
    BY <1>0, <2>2, <2>3
  <2>6. envelope' = r
    BY <1>22
  <2> QED
    BY <2>1, <2>3, <2>4, <2>5, <2>6
<1>23. CASE HandleRefresh
  BY <1>0, <1>23 DEF HandleRefresh, NextParameter, Schedule, PublishWith, NoPublish
<1>24. CASE HandleGoal
  BY <1>0, <1>24 DEF HandleGoal
<1>25. CASE HandleCancel
  BY <1>0, <1>25 DEF HandleCancel
<1>26. CASE HandleStop
  BY <1>0, <1>26 DEF HandleStop, Publish, PublishWith
<1>27. CASE TimerPublish
  BY <1>0, <1>27 DEF TimerPublish, Publish, PublishWith
<1>28. ASSUME NEW g \in Requests, Begin(g) PROVE OwnEnvelope'
  BY <1>0, <1>28 DEF Begin, Goes
<1>29. ASSUME NEW g \in Requests, CancelSeen(g) PROVE OwnEnvelope'
  BY <1>0, <1>29 DEF CancelSeen, Finish, Publish, PublishWith
<1>30. ASSUME NEW g \in Requests, StallAbort(g) PROVE OwnEnvelope'
  BY <1>0, <1>30 DEF StallAbort, Finish
<1>31. ASSUME NEW g \in Requests, Abort(g) PROVE OwnEnvelope'
  BY <1>0, <1>31 DEF Abort, Finish, Publish, PublishWith
<1>32. ASSUME NEW g \in Requests, Move(g) PROVE OwnEnvelope'
  BY <1>0, <1>32 DEF Move, Goes
<1>33. ASSUME NEW g \in Requests, Report(g) PROVE OwnEnvelope'
  BY <1>0, <1>33 DEF Report, Finish, Schedule, PublishWith, NoPublish
<1>34. CASE UNCHANGED vars
  BY <1>34 DEF vars
<1> QED
  BY <1>1, <1>2, <1>3, <1>4, <1>5, <1>6, <1>7, <1>8, <1>9, <1>10, <1>11, <1>12, <1>13,
    <1>14, <1>15, <1>16, <1>17, <1>18, <1>19, <1>20, <1>21, <1>22, <1>23, <1>24, <1>25,
    <1>26, <1>27, <1>28, <1>29, <1>30, <1>31, <1>32, <1>33, <1>34
    DEF Next, Client, Awaiting, Serve, Execute

(***************************************************************************)
(* What a receipt reports.                                                 *)
(***************************************************************************)
\* Initially there is no receipt.
LEMMA ReportStart == Init => Reported
BY DEF Init, Reported, Awaited, Following, Ended

\* The receipt follows its goal: accepted, then what the goal ended with.
LEMMA ReportStep == TypeInv /\ InStep /\ Reported /\ [Next]_vars => Reported'
<1> SUFFICES ASSUME TypeInv, InStep, Reported, [Next]_vars PROVE Reported'
  OBVIOUS
<1>0. /\ goals \in [Requests -> GoalStates] /\ receipt \in Receipt
      /\ request \in Nat /\ receipt.request \in Nat /\ world \subseteq Moves
      /\ runs \in [Requests -> Requests \cup {0}]
      /\ Awaited => request \in Requests
  BY RuntimeBounds DEF TypeInv, TypeOK, WaitsForRequest, Requests, Receipt
<1> USE DEF Reported, Awaited, Following, Moves, Receipt, Ended, robot, network, client, history
<1>1. CASE Call
  BY <1>0, <1>1 DEF Call, MayCall
<1>2. CASE ParameterSet
  BY <1>0, <1>2 DEF ParameterSet
<1>3. CASE GoalAccepted
  BY <1>0, <1>3 DEF GoalAccepted
<1>4. CASE GoalRejected
  BY <1>0, <1>4 DEF GoalRejected, Refuse, Forget
<1>5. CASE Result
  BY <1>0, <1>5 DEF Result, Conclude
<1>6. CASE ActionTimeout
  BY <1>0, <1>6 DEF ActionTimeout
<1>7. CASE CancelAnswered
  BY <1>0, <1>7 DEF CancelAnswered
<1>8. CASE CanceledResult
  BY <1>0, <1>8 DEF CanceledResult, Conclude
<1>9. CASE TransportError
  BY <1>0, <1>9 DEF TransportError, Refuse, Forget
<1>10. CASE ExternalCancel
  BY <1>0, <1>10 DEF ExternalCancel
<1>11. CASE Observe
  BY <1>0, <1>11 DEF Observe, ReadLatest
<1>12. CASE ObservationArrived
  BY <1>0, <1>12 DEF ObservationArrived, BarrierPassed, LiftBarrier, ReadLatest, Forget
<1>13. CASE ObservationTimeout
  BY <1>0, <1>13 DEF ObservationTimeout, BarrierLapsed, LiftBarrier, ReadLatest, Forget
<1>14. CASE Acquire
  BY <1>0, <1>14 DEF Acquire, MayCall
<1>15. CASE RefreshSet
  BY <1>0, <1>15 DEF RefreshSet
<1>16. CASE RefreshError
  BY <1>0, <1>16 DEF RefreshError
<1>17. CASE Refreshed
  BY <1>0, <1>17 DEF Refreshed, ReadLatest
<1>18. CASE RefreshTimeout
  BY <1>0, <1>18 DEF RefreshTimeout, ReadLatest
<1>19. CASE Stop
  BY <1>0, <1>19 DEF Stop, MayCall
<1>20. CASE Stopped
  BY <1>0, <1>20 DEF Stopped
<1>21. CASE ReceiveState
  BY <1>0, <1>21 DEF ReceiveState, Receive
<1>22. CASE HandleCommand
  BY <1>0, <1>22 DEF HandleCommand, NextParameter
<1>23. CASE HandleRefresh
  BY <1>0, <1>23 DEF HandleRefresh, NextParameter, Schedule, PublishWith, NoPublish
<1>24. CASE HandleGoal
  <2> PICK g \in Requests : /\ <<"goal", g>> \in calls
                            /\ goals' \in {[goals EXCEPT ![g] = "rejected"],
                                           [goals EXCEPT ![g] = "accepted"]}
    BY <1>24 DEF HandleGoal
  <2>1. goals[g] = "none"
    BY DEF InStep
  <2> QED
    BY <1>0, <1>24, <2>1 DEF HandleGoal
<1>25. CASE HandleCancel
  BY <1>0, <1>25 DEF HandleCancel
<1>26. CASE HandleStop
  BY <1>0, <1>26 DEF HandleStop, Publish, PublishWith
<1>27. CASE TimerPublish
  BY <1>0, <1>27 DEF TimerPublish, Publish, PublishWith
<1>28. ASSUME NEW g \in Requests, Begin(g) PROVE Reported'
  BY <1>0, <1>28 DEF Begin, Goes
<1>29. ASSUME NEW g \in Requests, CancelSeen(g) PROVE Reported'
  BY <1>0, <1>29 DEF CancelSeen, Finish, Publish, PublishWith
<1>30. ASSUME NEW g \in Requests, StallAbort(g) PROVE Reported'
  BY <1>0, <1>30 DEF StallAbort, Finish
<1>31. ASSUME NEW g \in Requests, Abort(g) PROVE Reported'
  BY <1>0, <1>31 DEF Abort, Finish, Publish, PublishWith
<1>32. ASSUME NEW g \in Requests, Move(g) PROVE Reported'
  BY <1>0, <1>32 DEF Move, Goes
<1>33. ASSUME NEW g \in Requests, Report(g) PROVE Reported'
  <2>1. goals[g] \in {"executing", "moved"} /\ goals' = [goals EXCEPT ![g] = "succeeded"]
    BY <1>33 DEF Report, Transitioned, Finish
  <2> QED
    BY <1>0, <1>33, <2>1 DEF Report
<1>34. CASE UNCHANGED vars
  BY <1>34 DEF vars
<1> QED
   BY <1>1, <1>2, <1>3, <1>4, <1>5, <1>6, <1>7, <1>8, <1>9, <1>10, <1>11, <1>12, <1>13,
    <1>14, <1>15, <1>16, <1>17, <1>18, <1>19, <1>20, <1>21, <1>22, <1>23, <1>24, <1>25,
    <1>26, <1>27, <1>28, <1>29, <1>30, <1>31, <1>32, <1>33, <1>34
    DEF Next, Client, Awaiting, Serve, Execute

(***************************************************************************)
(* Samples are ordered like the worlds they show.                          *)
(***************************************************************************)
\* Initially the only sample is the one that shows the initial world.
LEMMA OrderedStart == Init => Ordered
BY DEF Init, Ordered, Seen, Earlier

\* A new sample is the last one, and shows all there is.
LEMMA PublishOrdered ==
    ASSUME TypeInv, Ordered, NEW marks \in BOOLEAN, PublishWith(marks),
           clear' = marks, clear => marks, UNCHANGED <<world, latest, read>>
    PROVE  Ordered'
<1> DEFINE new == [seq |-> sequence', world |-> world, clear |-> marks]
<1>1. /\ sequence \in Nat /\ sequence' = sequence + 1
      /\ Seen \subseteq Sample /\ Seen' = Seen \cup {new}
  BY DEF TypeInv, TypeOK, PublishWith, Seen
<1>2. \A a \in Seen : a.seq \in Nat /\ a.seq < new.seq /\ Earlier(a, new)
  BY <1>1 DEF Ordered, Earlier, Sample
<1>3. \A a \in Seen : ~(new.seq <= a.seq)
  BY <1>1, <1>2
<1>4. \A a, b \in Seen' : Earlier(a, b)
  BY <1>1, <1>2, <1>3 DEF Ordered, Earlier
<1>5. \A a \in Seen' : a.seq <= sequence' /\ a.world \subseteq world /\ (a.clear => marks)
  BY <1>1, <1>2 DEF Ordered
<1> QED
  BY <1>4, <1>5 DEF Ordered, Earlier

\* Reading takes the latest sample.
LEMMA ReadOrdered ==
    ASSUME TypeInv, Ordered, read' \in {read, latest},
           UNCHANGED <<sequence, world, clear, topic, latest>>
    PROVE  Ordered'
<1>1. Seen' \subseteq Seen /\ read.seq <= latest.seq /\ latest.seq <= latest.seq
  BY DEF TypeInv, TypeOK, Sample, Seen, Ordered
<1> QED
  BY <1>1 DEF Ordered, Earlier

\* A world only grows, and a sample shows it whole at the time it is built.
LEMMA OrderedStep == TypeInv /\ Ordered /\ [Next]_vars => Ordered'
<1> SUFFICES ASSUME TypeInv, Ordered, [Next]_vars PROVE Ordered'
  OBVIOUS
<1>0. latest \in Sample /\ read \in Sample /\ topic \subseteq Sample /\ sequence \in Nat
  BY DEF TypeInv, TypeOK
<1> USE DEF Ordered, Earlier, Seen, robot, network, client, history
<1>1. CASE Call
  BY <1>0, <1>1 DEF Call, MayCall
<1>2. CASE ParameterSet
  BY <1>0, <1>2 DEF ParameterSet
<1>3. CASE GoalAccepted
  BY <1>0, <1>3 DEF GoalAccepted
<1>4. CASE GoalRejected
  BY <1>0, <1>4 DEF GoalRejected, Refuse, Forget
<1>5. CASE Result
  BY <1>0, <1>5 DEF Result, Conclude
<1>6. CASE ActionTimeout
  BY <1>0, <1>6 DEF ActionTimeout
<1>7. CASE CancelAnswered
  BY <1>0, <1>7 DEF CancelAnswered
<1>8. CASE CanceledResult
  BY <1>0, <1>8 DEF CanceledResult, Conclude
<1>9. CASE TransportError
  BY <1>0, <1>9 DEF TransportError, Refuse, Forget
<1>10. CASE ExternalCancel
  BY <1>0, <1>10 DEF ExternalCancel
<1>11. CASE Observe
  BY <1>11, ReadOrdered DEF Observe, ReadLatest
<1>12. CASE ObservationArrived
  BY <1>12, ReadOrdered DEF ObservationArrived, BarrierPassed, LiftBarrier, ReadLatest, Forget
<1>13. CASE ObservationTimeout
  BY <1>13, ReadOrdered DEF ObservationTimeout, BarrierLapsed, LiftBarrier, ReadLatest, Forget
<1>14. CASE Acquire
  BY <1>0, <1>14 DEF Acquire, MayCall
<1>15. CASE RefreshSet
  BY <1>0, <1>15 DEF RefreshSet
<1>16. CASE RefreshError
  BY <1>0, <1>16 DEF RefreshError
<1>17. CASE Refreshed
  BY <1>17, ReadOrdered DEF Refreshed, ReadLatest
<1>18. CASE RefreshTimeout
  BY <1>18, ReadOrdered DEF RefreshTimeout, ReadLatest
<1>19. CASE Stop
  BY <1>0, <1>19 DEF Stop, MayCall
<1>20. CASE Stopped
  BY <1>0, <1>20 DEF Stopped
<1>21. CASE ReceiveState
  <2>1. PICK sample \in topic : Receive(sample) /\ topic' = topic \ {sample}
    BY <1>21 DEF ReceiveState
  <2>2. Seen' \subseteq Seen /\ UNCHANGED <<sequence, world, clear, read>>
    BY <1>21, <2>1 DEF ReceiveState, Receive
  <2>3. latest.seq <= latest'.seq
    BY <1>0, <2>1 DEF Receive, Sample
  <2> QED
    BY <1>0, <2>2, <2>3 DEF Sample
<1>22. CASE HandleCommand
  BY <1>0, <1>22 DEF HandleCommand, NextParameter
<1>23. CASE HandleRefresh
  <2>1. /\ clear' \in BOOLEAN /\ (clear => clear')
        /\ UNCHANGED <<world, latest, read>> /\ Schedule(clear')
    BY <1>23 DEF HandleRefresh, TypeInv, TypeOK
  <2>2. CASE PublishWith(clear')
    BY <2>1, <2>2, PublishOrdered
  <2>3. CASE NoPublish
    BY <2>1, <2>3 DEF NoPublish
  <2> QED
    BY <2>1, <2>2, <2>3 DEF Schedule
<1>24. CASE HandleGoal
  BY <1>0, <1>24 DEF HandleGoal
<1>25. CASE HandleCancel
  BY <1>0, <1>25 DEF HandleCancel
<1>26. CASE HandleStop
  <2>1. PublishWith(clear) /\ clear \in BOOLEAN /\ UNCHANGED <<world, clear, latest, read>>
    BY <1>26 DEF HandleStop, Publish, TypeInv, TypeOK
  <2> QED
    BY <2>1, PublishOrdered
<1>27. CASE TimerPublish
  <2>1. PublishWith(clear) /\ clear \in BOOLEAN /\ UNCHANGED <<world, clear, latest, read>>
    BY <1>27 DEF TimerPublish, Publish, TypeInv, TypeOK
  <2> QED
    BY <2>1, PublishOrdered
<1>28. ASSUME NEW g \in Requests, Begin(g) PROVE Ordered'
  BY <1>0, <1>28 DEF Begin, Goes
<1>29. ASSUME NEW g \in Requests, CancelSeen(g) PROVE Ordered'
  <2>1. PublishWith(clear) /\ clear \in BOOLEAN /\ UNCHANGED <<world, clear, latest, read>>
    BY <1>29 DEF CancelSeen, Publish, TypeInv, TypeOK
  <2> QED
    BY <2>1, PublishOrdered
<1>30. ASSUME NEW g \in Requests, StallAbort(g) PROVE Ordered'
  BY <1>0, <1>30 DEF StallAbort, Finish
<1>31. ASSUME NEW g \in Requests, Abort(g) PROVE Ordered'
  <2>1. PublishWith(clear) /\ clear \in BOOLEAN /\ UNCHANGED <<world, clear, latest, read>>
    BY <1>31 DEF Abort, Publish, TypeInv, TypeOK
  <2> QED
    BY <2>1, PublishOrdered
<1>32. ASSUME NEW g \in Requests, Move(g) PROVE Ordered'
  BY <1>0, <1>32 DEF Move, Goes
<1>33. ASSUME NEW g \in Requests, Report(g) PROVE Ordered'
  <2>1. clear \in BOOLEAN /\ UNCHANGED <<world, clear, latest, read>>
    BY <1>33 DEF Report, TypeInv, TypeOK
  <2>2. CASE PublishWith(clear)
    BY <2>1, <2>2, PublishOrdered
  <2>3. CASE NoPublish
    BY <2>1, <2>3 DEF NoPublish
  <2> QED
    BY <1>33, <2>2, <2>3 DEF Report, Schedule
<1>34. CASE UNCHANGED vars
  BY <1>34 DEF vars
<1> QED
   BY <1>1, <1>2, <1>3, <1>4, <1>5, <1>6, <1>7, <1>8, <1>9, <1>10, <1>11, <1>12, <1>13,
    <1>14, <1>15, <1>16, <1>17, <1>18, <1>19, <1>20, <1>21, <1>22, <1>23, <1>24, <1>25,
    <1>26, <1>27, <1>28, <1>29, <1>30, <1>31, <1>32, <1>33, <1>34
    DEF Next, Client, Awaiting, Serve, Execute

(***************************************************************************)
(* The barrier.                                                            *)
(***************************************************************************)
\* Initially nothing has been admitted.
LEMMA GuardedStart == Init => Guarded
BY DEF Init, Guarded, Awaited, Following, NoBarrier

\* The barrier is set from a sample not older than the one admitted.
LEMMA GuardedStep == TypeInv /\ Reported /\ Ordered /\ Guarded /\ [Next]_vars => Guarded'
<1> SUFFICES ASSUME TypeInv, Reported, Ordered, Guarded, [Next]_vars PROVE Guarded'
  OBVIOUS
<1>0. /\ receipt \in Receipt /\ read.seq <= latest.seq
      /\ receipt.status = "awaited" <=> Awaited
  BY DEF TypeInv, TypeOK, Reported, Ordered
<1> USE DEF Guarded, Awaited, Following, Receipt, Ended, NoBarrier, robot, network, client, history
<1>1. CASE Call
  BY <1>0, <1>1 DEF Call, MayCall
<1>2. CASE ParameterSet
  BY <1>0, <1>2 DEF ParameterSet
<1>3. CASE GoalAccepted
  BY <1>0, <1>3 DEF GoalAccepted
<1>4. CASE GoalRejected
  BY <1>0, <1>4 DEF GoalRejected, Refuse, Forget
<1>5. CASE Result
  BY <1>0, <1>5 DEF Result, Conclude
<1>6. CASE ActionTimeout
  BY <1>0, <1>6 DEF ActionTimeout
<1>7. CASE CancelAnswered
  BY <1>0, <1>7 DEF CancelAnswered
<1>8. CASE CanceledResult
  BY <1>0, <1>8 DEF CanceledResult, Conclude
<1>9. CASE TransportError
  BY <1>0, <1>9 DEF TransportError, Refuse, Forget
<1>10. CASE ExternalCancel
  BY <1>0, <1>10 DEF ExternalCancel
<1>11. CASE Observe
  BY <1>0, <1>11 DEF Observe, ReadLatest
<1>12. CASE ObservationArrived
  BY <1>0, <1>12 DEF ObservationArrived, BarrierPassed, LiftBarrier, ReadLatest, Forget
<1>13. CASE ObservationTimeout
  BY <1>0, <1>13 DEF ObservationTimeout, BarrierLapsed, LiftBarrier, ReadLatest, Forget
<1>14. CASE Acquire
  BY <1>0, <1>14 DEF Acquire, MayCall
<1>15. CASE RefreshSet
  BY <1>0, <1>15 DEF RefreshSet
<1>16. CASE RefreshError
  BY <1>0, <1>16 DEF RefreshError
<1>17. CASE Refreshed
  BY <1>0, <1>17 DEF Refreshed, ReadLatest
<1>18. CASE RefreshTimeout
  BY <1>0, <1>18 DEF RefreshTimeout, ReadLatest
<1>19. CASE Stop
  BY <1>0, <1>19 DEF Stop, MayCall
<1>20. CASE Stopped
  BY <1>0, <1>20 DEF Stopped
<1>21. CASE ReceiveState
  BY <1>0, <1>21 DEF ReceiveState, Receive
<1>22. CASE HandleCommand
  BY <1>0, <1>22 DEF HandleCommand, NextParameter
<1>23. CASE HandleRefresh
  BY <1>0, <1>23 DEF HandleRefresh, NextParameter, Schedule, PublishWith, NoPublish
<1>24. CASE HandleGoal
  BY <1>0, <1>24 DEF HandleGoal
<1>25. CASE HandleCancel
  BY <1>0, <1>25 DEF HandleCancel
<1>26. CASE HandleStop
  BY <1>0, <1>26 DEF HandleStop, Publish, PublishWith
<1>27. CASE TimerPublish
  BY <1>0, <1>27 DEF TimerPublish, Publish, PublishWith
<1>28. ASSUME NEW g \in Requests, Begin(g) PROVE Guarded'
  BY <1>0, <1>28 DEF Begin, Goes
<1>29. ASSUME NEW g \in Requests, CancelSeen(g) PROVE Guarded'
  BY <1>0, <1>29 DEF CancelSeen, Finish, Publish, PublishWith
<1>30. ASSUME NEW g \in Requests, StallAbort(g) PROVE Guarded'
  BY <1>0, <1>30 DEF StallAbort, Finish
<1>31. ASSUME NEW g \in Requests, Abort(g) PROVE Guarded'
  BY <1>0, <1>31 DEF Abort, Finish, Publish, PublishWith
<1>32. ASSUME NEW g \in Requests, Move(g) PROVE Guarded'
  BY <1>0, <1>32 DEF Move, Goes
<1>33. ASSUME NEW g \in Requests, Report(g) PROVE Guarded'
  BY <1>0, <1>33 DEF Report, Finish, Schedule, PublishWith, NoPublish
<1>34. CASE UNCHANGED vars
  BY <1>34 DEF vars
<1> QED
   BY <1>1, <1>2, <1>3, <1>4, <1>5, <1>6, <1>7, <1>8, <1>9, <1>10, <1>11, <1>12, <1>13,
    <1>14, <1>15, <1>16, <1>17, <1>18, <1>19, <1>20, <1>21, <1>22, <1>23, <1>24, <1>25,
    <1>26, <1>27, <1>28, <1>29, <1>30, <1>31, <1>32, <1>33, <1>34
    DEF Next, Client, Awaiting, Serve, Execute

\* The six invariants together.
LEMMA Invariance == Spec => []IInv
<1>1. Init => IInv
  BY TypeStart, InStepStart, EnvelopeStart, ReportStart, OrderedStart, GuardedStart DEF IInv
<1>2. IInv /\ [Next]_vars => IInv'
  BY TypeStep, InStepStep, EnvelopeStep, ReportStep, OrderedStep, GuardedStep DEF IInv
<1> QED
  BY <1>1, <1>2, PTL DEF Spec

(***************************************************************************)
(* Nothing is lost.  Either an observation is still to be made of what the *)
(* robot did, or a sample that shows it is in flight or received.          *)
(***************************************************************************)
\* A sample that is published shows everything.
LEMMA PublishShows ==
    ASSUME NEW marks \in BOOLEAN, PublishWith(marks), world' = world, clear' => marks
    PROVE  NothingLost'
<1> DEFINE s == [seq |-> sequence', world |-> world, clear |-> marks]
<1>1. s \in topic' /\ s.world = world /\ s.clear = marks
  BY DEF PublishWith
<1> HIDE DEF s
<1> QED
  BY <1>1 DEF NothingLost

\* One that is scheduled will.
LEMMA ScheduleShows ==
    ASSUME timers \in Nat, NEW marks \in BOOLEAN, Schedule(marks), world' = world, clear' => marks
    PROVE  NothingLost'
<1>1. CASE PublishWith(marks)
  BY <1>1, PublishShows
<1>2. CASE timers' = timers + 1
  BY <1>2 DEF NothingLost
<1> QED
  BY <1>1, <1>2 DEF Schedule

\* A step that takes no sample away and reports no goal.
LEMMA KeepsUnderWay ==
    ASSUME NothingLost, UNCHANGED <<world, clear, timers, latest, topic>>,
           \A m \in world : goals[m[1]] = "moved" => goals'[m[1]] = "moved"
    PROVE  NothingLost'
BY DEF NothingLost

\* A goal that has moved the robot is one of a request, and not new.
LEMMA UnreportedStays ==
    ASSUME TypeInv, NEW g \in Requests, goals[g] # "moved", NEW to, goals' = [goals EXCEPT ![g] = to]
    PROVE  \A m \in world : goals[m[1]] = "moved" => goals'[m[1]] = "moved"
BY DEF TypeInv, TypeOK, Moves

\* What is taken off the topic is received, or shows no more than what was.
LEMMA NothingLostStep ==
    TypeInv /\ InStep /\ Ordered /\ NothingLost /\ [Next]_vars => NothingLost'
<1> SUFFICES ASSUME TypeInv, InStep, Ordered, NothingLost, [Next]_vars PROVE NothingLost'
  OBVIOUS
<1>0. timers \in Nat /\ clear \in BOOLEAN /\ latest \in Sample /\ topic \subseteq Sample
  BY DEF TypeInv, TypeOK
<1> USE DEF robot, network, client, history
<1>1. CASE \/ Call \/ ParameterSet \/ GoalAccepted \/ GoalRejected \/ Result \/ ActionTimeout
           \/ CancelAnswered \/ CanceledResult \/ TransportError \/ ExternalCancel
  BY <1>1, KeepsUnderWay DEF Call, ParameterSet, GoalAccepted, GoalRejected, Result, ActionTimeout,
                             CancelAnswered, CanceledResult, Conclude, TransportError, Refuse,
                             ExternalCancel
<1>2. CASE \/ Observe \/ ObservationArrived \/ ObservationTimeout \/ Acquire \/ RefreshSet
           \/ RefreshError \/ Refreshed \/ RefreshTimeout \/ Stop \/ Stopped
  BY <1>2, KeepsUnderWay DEF Observe, ObservationArrived, ObservationTimeout, LiftBarrier, Acquire,
                             RefreshSet, RefreshError, Refreshed, RefreshTimeout, Stop, Stopped
<1>3. CASE ReceiveState
  <2>1. PICK sample \in topic : Receive(sample) /\ topic' = topic \ {sample}
    BY <1>3 DEF ReceiveState
  <2>2. UNCHANGED <<world, clear, timers, goals>>
    BY <1>3 DEF ReceiveState
  <2>3. Earlier(sample, latest) /\ Earlier(latest, sample)
    BY <2>1 DEF Ordered, Seen
  <2>4. latest' \in {sample, latest} /\ Earlier(sample, latest') /\ Earlier(latest, latest')
        /\ sample.seq <= latest'.seq /\ latest.seq <= latest'.seq
    BY <1>0, <2>1, <2>3 DEF Receive, Earlier, Sample
  <2>5. /\ sample.world \subseteq latest'.world /\ latest.world \subseteq latest'.world
        /\ sample.clear => latest'.clear
        /\ latest.clear => latest'.clear
    BY <2>4 DEF Earlier
  <2>6. \A s \in topic \cup {latest} : \E t \in topic' \cup {latest'} :
           s.world \subseteq t.world /\ (s.clear => t.clear)
    <3> SUFFICES ASSUME NEW s \in topic \cup {latest}
                 PROVE  \E t \in topic' \cup {latest'} :
                           s.world \subseteq t.world /\ (s.clear => t.clear)
      OBVIOUS
    <3>1. CASE s \in {sample, latest}
      BY <2>5, <3>1
    <3>2. CASE s \in topic \ {sample}
      BY <2>1, <3>2
    <3> QED
      BY <3>1, <3>2
  <2> QED
    BY <2>2, <2>6 DEF NothingLost
<1>4. CASE HandleCommand \/ HandleCancel
  BY <1>4, KeepsUnderWay DEF HandleCommand, HandleCancel
<1>5. CASE HandleGoal
  <2>1. PICK g \in Requests : /\ <<"goal", g>> \in calls
                              /\ \E to : goals' = [goals EXCEPT ![g] = to]
    BY <1>5 DEF HandleGoal
  <2>2. goals[g] # "moved"
    BY <2>1 DEF InStep
  <2> QED
    BY <1>5, <2>1, <2>2, UnreportedStays, KeepsUnderWay DEF HandleGoal
<1>6. CASE HandleRefresh
  <2>1. clear' \in BOOLEAN /\ Schedule(clear') /\ world' = world
    BY <1>6 DEF HandleRefresh, TypeInv, TypeOK
  <2> QED
    BY <1>0, <2>1, ScheduleShows
<1>7. CASE HandleStop \/ TimerPublish
  BY <1>0, <1>7, PublishShows DEF HandleStop, TimerPublish, Publish
<1>8. ASSUME NEW g \in Requests, CancelSeen(g) \/ Abort(g) PROVE NothingLost'
  BY <1>0, <1>8, PublishShows DEF CancelSeen, Abort, Publish
<1>9. ASSUME NEW g \in Requests, Begin(g) PROVE NothingLost'
  BY <1>9, UnreportedStays, KeepsUnderWay DEF Begin, Goes
<1>10. ASSUME NEW g \in Requests, StallAbort(g) PROVE NothingLost'
  BY <1>10, UnreportedStays, KeepsUnderWay DEF StallAbort, Finish
<1>11. ASSUME NEW g \in Requests, Move(g) PROVE NothingLost'
  <2>1. /\ goals[g] # "moved" /\ goals' = [goals EXCEPT ![g] = "moved"]
        /\ world' = world \cup {<<g, runs[g]>>} /\ UNCHANGED <<clear, timers, latest, topic>>
    BY <1>11 DEF Move, Goes
  <2>2. goals'[g] = "moved" /\ \A m \in world : goals[m[1]] = "moved" => goals'[m[1]] = "moved"
    BY <2>1, UnreportedStays DEF TypeInv, TypeOK
  <2> QED
    BY <2>1, <2>2 DEF NothingLost
<1>12. ASSUME NEW g \in Requests, Report(g) PROVE NothingLost'
  BY <1>0, <1>12, ScheduleShows DEF Report
<1>13. CASE UNCHANGED vars
  BY <1>13, KeepsUnderWay DEF vars
<1> QED
  BY <1>1, <1>2, <1>3, <1>4, <1>5, <1>6, <1>7, <1>8, <1>9, <1>10, <1>11, <1>12, <1>13
     DEF Next, Client, Awaiting, Serve, Execute

(***************************************************************************)
(* Theorems.                                                               *)
(***************************************************************************)
\* Every variable keeps its type.
THEOREM TypeCorrect == Spec => []TypeOK
<1>1. IInv => TypeOK
  BY DEF IInv, TypeInv
<1> QED
  BY <1>1, Invariance, PTL

\* Only a goal whose call ended in a transport error can execute an envelope
\* that is not its own.
THEOREM GoalsRunTheirOwn == Spec => []OwnCommand
<1>1. IInv => OwnCommand
  BY DEF IInv, OwnEnvelope
<1> QED
  BY <1>1, Invariance, PTL

\* A canceled or aborted receipt means that the goal of the request did not
\* move the robot, and no other goal did with the request's envelope, unless
\* the call of that other goal ended in a transport error.
THEOREM CanceledMeansUnmoved == Spec => []NoMotionAfterCancel
<1>1. IInv => NoMotionAfterCancel
  <2> SUFFICES ASSUME IInv, receipt.status \in {"canceled", "aborted"}, NEW m \in world,
                      receipt.request \in {m[1], m[2]}
               PROVE  m[1] \in abandoned \ {receipt.request}
    BY DEF NoMotionAfterCancel
  <2>1. receipt.request \in Requests /\ goals[receipt.request] \in {"canceled", "aborted"}
    BY DEF IInv, Reported, Ended
  <2>2. /\ m[1] \in Requests /\ goals[m[1]] \in {"moved", "succeeded"}
        /\ runs[m[1]] = m[2]
    BY DEF IInv, TypeInv, TypeOK, Moves, Reported
  <2>3. m[1] # receipt.request /\ runs[m[1]] = receipt.request
    BY <2>1, <2>2
  <2>4. receipt.request # 0
    BY <2>1, RuntimeBounds DEF Requests
  <2> QED
    BY <2>2, <2>3, <2>4 DEF IInv, OwnEnvelope, OwnCommand
<1> QED
  BY <1>1, Invariance, PTL

\* What the robot did is never lost on the way to the client.
THEOREM EffectsAreKept == Spec => []NothingLost
<1>1. Init => NothingLost
  BY DEF Init, NothingLost
<1>2. IInv /\ NothingLost /\ [Next]_vars => NothingLost'
  BY NothingLostStep DEF IInv
<1> QED
  BY <1>1, <1>2, Invariance, PTL DEF Spec

\* What passes the barrier is newer than what the command was admitted on.
THEOREM BarrierIsNewer == Spec => NewerThanAdmitted
<1>1. IInv /\ [Next]_vars =>
        [BarrierLifted /\ receipt.status \in Ended => read'.seq > admitted]_vars
  <2> SUFFICES ASSUME IInv, Next, BarrierLifted, receipt.status \in Ended
               PROVE  read'.seq > admitted
    OBVIOUS
  <2>1. CASE ObservationArrived
    <3>1. latest.seq > required /\ read' = latest
      BY <2>1 DEF ObservationArrived, BarrierPassed, Newer, LiftBarrier, ReadLatest
    <3>2. admitted <= required
      BY DEF IInv, Guarded, BarrierLifted
    <3>3. latest.seq \in Nat /\ required \in Nat /\ admitted \in Nat
      BY DEF IInv, TypeInv, TypeOK, Sample
    <3> QED
      BY <3>1, <3>2, <3>3
  <2>2. CASE ObservationTimeout
    BY <2>2 DEF ObservationTimeout, BarrierLifted
  <2>3. CASE Result \/ CanceledResult
    <3>1. receipt.status = "awaited"
      BY <2>3 DEF IInv, Reported, Awaited, Following, Result, CanceledResult
    <3> QED
      BY <3>1 DEF Ended
  <2>4. ASSUME required' = required PROVE FALSE
    BY <2>4 DEF BarrierLifted
  <2> QED
    BY <2>1, <2>2, <2>3, <2>4
       DEF Next, Client, Awaiting, Serve, Execute, Call, ParameterSet, GoalAccepted, GoalRejected,
           ActionTimeout, CancelAnswered, TransportError, ExternalCancel, Observe, Acquire,
           RefreshSet, RefreshError, Refreshed, RefreshTimeout, Stop, Stopped, ReceiveState,
           HandleCommand, HandleRefresh, HandleGoal, HandleCancel, HandleStop, TimerPublish,
           Begin, CancelSeen, StallAbort, Abort, Move, Report, client
<1> QED
  BY <1>1, Invariance, PTL DEF Spec, NewerThanAdmitted

(***************************************************************************)
(* Ros2Runtime implements RemoteBackend.                                   *)
(***************************************************************************)
\* Initial states map to initial states.
LEMMA InitMaps == Init => Remote!Init
<1> SUFFICES ASSUME Init PROVE Remote!Init
  OBVIOUS
<1>1. request = 0 /\ Answer = "none"
  BY DEF Init, Answer, Ended
<1>2. Open = {}
  BY DEF Init, Open, CarriedOutLater, Running
<1>3. [moved |-> world, clear |-> clear] \in [moved : {{}}, clear : BOOLEAN]
  BY DEF Init
<1>4. Shown(read) = [moved |-> world, clear |-> clear]
  BY DEF Init, Shown
<1> QED
  BY <1>1, <1>2, <1>3, <1>4 DEF Remote!Init

\* A step that moves neither goals nor the goal calls maps to a stutter.
LEMMA SameOpen ==
    ASSUME UNCHANGED <<request, receipt>>,
           \A r \in Requests : CarriedOutLater(r)' <=> CarriedOutLater(r)
    PROVE  Open' = Open /\ Answer' = Answer
BY DEF Open, Answer

\* The client reads the latest sample.
LEMMA ReadMaps ==
    ASSUME IInv, IInv', read' \in {read, latest}, ~Awaited,
           UNCHANGED <<request, receipt, calls, goals, world, clear>>
    PROVE  Remote!Next
<1>1. Open' = Open /\ Answer' = Answer
  BY SameOpen DEF CarriedOutLater
<1>2. Answer # "awaited"
  BY DEF IInv, Reported, Answer, Ended
<1>3. read.world \subseteq read'.world /\ (read.clear => read'.clear)
  BY DEF IInv, Ordered, Earlier, Seen
<1>4. read'.world \subseteq world /\ (read'.clear => clear) /\ read'.clear \in BOOLEAN
  BY DEF IInv, Ordered, Seen, TypeInv, TypeOK, Sample
<1> QED
  BY <1>1, <1>2, <1>3, <1>4 DEF Remote!Next, Remote!Read, Remote!Precedes, Shown

\* The goal has ended, and so nothing is left to be carried out.
LEMMA ConcludeMaps ==
    ASSUME IInv, Awaited, Conclude
    PROVE  Remote!Next
<1>1. /\ UNCHANGED <<request, calls, goals, world, clear, read>>
      /\ request \in Requests /\ goals[request] \in Ended
      /\ receipt.status = "awaited" /\ receipt'.status \in Ended
  BY DEF Conclude, network, robot, IInv, Reported, TypeInv, TypeOK, WaitsForRequest, Receipt
<1>2. ~CarriedOutLater(request)
  BY <1>1 DEF CarriedOutLater, IInv, InStep, Ended, Running
<1>3. Open' = Open \ {request}
  BY <1>1, <1>2 DEF Open, CarriedOutLater, Ended
<1>4. Answer = "awaited" /\ Answer' = "accepted"
  BY <1>1 DEF Answer, Ended
<1> QED
  BY <1>1, <1>3, <1>4 DEF Remote!Next, Remote!Accept

\* A refused receipt says nothing about what may still be carried out.
LEMMA RefuseMaps ==
    ASSUME IInv, Awaited, receipt' = [receipt EXCEPT !.status = "refused"],
           UNCHANGED <<request, calls, goals, world, clear, read>>
    PROVE  Remote!Next
<1>1. receipt.status = "awaited" /\ receipt'.status = "refused"
  BY DEF IInv, Reported, TypeInv, TypeOK, Receipt
<1>2. Open' \in {Open, Open \ {request}}
  BY <1>1 DEF Open, CarriedOutLater
<1>3. Answer = "awaited" /\ Answer' = "refused"
  BY <1>1 DEF Answer, Ended
<1> QED
  BY <1>2, <1>3 DEF Remote!Next, Remote!Refuse

\* Setting the clear field of a world (clear_all_faults) leaves its other field.
LEMMA ClearField ==
    \A m, b, c : [[moved |-> m, clear |-> b] EXCEPT !.clear = c] = [moved |-> m, clear |-> c]
  OBVIOUS

\* The robot is done with a goal, or still at it.
LEMMA DoneMaps ==
    ASSUME NEW g \in Requests, CarriedOutLater(g),
           UNCHANGED <<request, receipt, world, clear, read>>,
           \A r \in Requests \ {g} : CarriedOutLater(r)' <=> CarriedOutLater(r)
    PROVE  [Remote!Next]_(Remote!vars)
<1>1. Answer' = Answer
  BY DEF Answer
<1>2. Open' \in {Open, Open \ {g}} /\ g \in Open
  BY DEF Open
<1>3. CASE Open' = Open
  BY <1>1, <1>3 DEF Remote!vars
<1>4. CASE Open' = Open \ {g} /\ Open' # Open
  <2>1. Answer # "awaited" \/ g # request
    BY <1>4 DEF Open, Answer, Ended
  <2> QED
    BY <1>1, <1>2, <1>4, <2>1 DEF Remote!Next, Remote!Expire, Remote!GivenUp
<1> QED
  BY <1>2, <1>3, <1>4

LEMMA StepMaps == IInv /\ IInv' /\ [Next]_vars => [Remote!Next]_(Remote!vars)
<1> SUFFICES ASSUME IInv, IInv', [Next]_vars PROVE [Remote!Next]_(Remote!vars)
  OBVIOUS
<1> USE DEF robot, network
<1>1. CASE Call
  <2>1. /\ pc = "idle" /\ request' = request + 1 /\ request' \in Requests
        /\ calls' = calls \cup {<<"command", request'>>}
        /\ receipt' = [request |-> request', status |-> "awaited"]
        /\ UNCHANGED <<goals, world, clear, read>>
    BY <1>1, RuntimeBounds DEF Call, MayCall, IInv, TypeInv, TypeOK, Requests
  <2>2. receipt.status # "awaited"
    BY <2>1 DEF IInv, Reported, Awaited, Following
  <2>3. \A r \in Requests : CarriedOutLater(r)' <=> CarriedOutLater(r)
    BY <2>1 DEF CarriedOutLater
  <2>4. Open' = Open \cup {request'}
    BY <2>1, <2>2, <2>3 DEF Open
  <2>5. Answer # "awaited" /\ Answer' = "awaited"
    BY <2>1, <2>2 DEF Answer, Ended
  <2> QED
    BY <2>1, <2>4, <2>5 DEF Remote!Next, Remote!Send
<1>2. CASE ParameterSet
  <2>1. /\ UNCHANGED <<request, receipt, goals, world, clear, read>>
        /\ calls' = calls \cup {<<"goal", request>>} /\ Awaited
    BY <1>2 DEF ParameterSet, Awaited
  <2>2. receipt.status = "awaited"
    BY <2>1 DEF IInv, Reported
  <2>3. \A r \in Requests : CarriedOutLater(r)' <=> CarriedOutLater(r) \/ r = request
    BY <2>1 DEF CarriedOutLater, IInv, TypeInv, WaitsForRequest
  <2>4. Open' = Open
    BY <2>1, <2>2, <2>3 DEF Open
  <2> QED
    BY <2>1, <2>4 DEF Remote!vars, Answer
<1>3. CASE GoalAccepted
  <2>1. UNCHANGED <<request, receipt, goals, world, clear, read>>
    BY <1>3 DEF GoalAccepted
  <2>2. \A r \in Requests : (<<"goal", r>> \in calls') <=> (<<"goal", r>> \in calls)
    BY <1>3 DEF GoalAccepted
  <2> QED
    BY <2>1, <2>2, SameOpen DEF CarriedOutLater, Remote!vars
<1>4. CASE GoalRejected
  <2>1. /\ Awaited /\ receipt' = [receipt EXCEPT !.status = "refused"]
        /\ UNCHANGED <<request, calls, goals, world, clear, read>>
    BY <1>4 DEF GoalRejected, Refuse, Awaited, Following
  <2> QED
    BY <2>1, RefuseMaps
<1>5. CASE Result
  BY <1>5, ConcludeMaps DEF Result, Awaited, Following
<1>6. CASE ActionTimeout
  <2>1. UNCHANGED <<request, receipt, goals, world, clear, read>>
    BY <1>6 DEF ActionTimeout
  <2>2. \A r \in Requests : (<<"goal", r>> \in calls') <=> (<<"goal", r>> \in calls)
    BY <1>6 DEF ActionTimeout
  <2> QED
    BY <2>1, <2>2, SameOpen DEF CarriedOutLater, Remote!vars
<1>7. CASE CancelAnswered
  <2>1. UNCHANGED <<request, receipt, goals, world, clear, read>>
    BY <1>7 DEF CancelAnswered
  <2>2. \A r \in Requests : (<<"goal", r>> \in calls') <=> (<<"goal", r>> \in calls)
    BY <1>7 DEF CancelAnswered
  <2> QED
    BY <2>1, <2>2, SameOpen DEF CarriedOutLater, Remote!vars
<1>8. CASE CanceledResult
  BY <1>8, ConcludeMaps DEF CanceledResult, Awaited, Following
<1>9. CASE TransportError
  <2>1. /\ Awaited /\ receipt' = [receipt EXCEPT !.status = "refused"]
        /\ UNCHANGED <<request, calls, goals, world, clear, read>>
    BY <1>9 DEF TransportError, Refuse, Awaited, Following
  <2> QED
    BY <2>1, RefuseMaps
<1>10. CASE ExternalCancel
  <2>1. UNCHANGED <<request, receipt, goals, world, clear, read>>
    BY <1>10 DEF ExternalCancel, client
  <2>2. \A r \in Requests : (<<"goal", r>> \in calls') <=> (<<"goal", r>> \in calls)
    BY <1>10 DEF ExternalCancel, client
  <2> QED
    BY <2>1, <2>2, SameOpen DEF CarriedOutLater, Remote!vars
<1>11. CASE Observe
  <2>1. /\ read' \in {read, latest} /\ ~Awaited
        /\ UNCHANGED <<request, receipt, calls, goals, world, clear>>
    BY <1>11 DEF Observe, ReadLatest, Awaited, Following
  <2> QED
    BY <2>1, ReadMaps
<1>12. CASE ObservationArrived
  <2>1. /\ read' \in {read, latest} /\ ~Awaited
        /\ UNCHANGED <<request, receipt, calls, goals, world, clear>>
    BY <1>12 DEF ObservationArrived, BarrierPassed, LiftBarrier, ReadLatest, Forget, Awaited, Following
  <2> QED
    BY <2>1, ReadMaps
<1>13. CASE ObservationTimeout
  <2>1. /\ read' \in {read, latest} /\ ~Awaited
        /\ UNCHANGED <<request, receipt, calls, goals, world, clear>>
    BY <1>13 DEF ObservationTimeout, BarrierLapsed, LiftBarrier, ReadLatest, Forget, Awaited, Following
  <2> QED
    BY <2>1, ReadMaps
<1>14. CASE Acquire
  <2>1. /\ pc = "idle" /\ request' = request + 1 /\ request' \in Requests
        /\ calls' = calls \cup {<<"refresh", request'>>}
        /\ UNCHANGED <<receipt, goals, world, clear, read>>
    BY <1>14, RuntimeBounds DEF Acquire, MayCall, IInv, TypeInv, TypeOK, Requests
  <2>2. receipt.status # "awaited"
    BY <2>1 DEF IInv, Reported, Awaited, Following
  <2>3. \A r \in Requests : CarriedOutLater(r)' <=> CarriedOutLater(r)
    BY <2>1 DEF CarriedOutLater
  <2>4. Open' = Open
    BY <2>1, <2>2, <2>3 DEF Open
  <2>5. Answer # "awaited" /\ Answer' = Answer
    BY <2>1, <2>2 DEF Answer, Ended
  <2> QED
    BY <2>1, <2>4, <2>5 DEF Remote!Next, Remote!Sense
<1>15. CASE RefreshSet
  <2>1. UNCHANGED <<request, receipt, goals, world, clear, read>>
    BY <1>15 DEF RefreshSet
  <2>2. \A r \in Requests : (<<"goal", r>> \in calls') <=> (<<"goal", r>> \in calls)
    BY <1>15 DEF RefreshSet
  <2> QED
    BY <2>1, <2>2, SameOpen DEF CarriedOutLater, Remote!vars
<1>16. CASE RefreshError
  <2>1. UNCHANGED <<request, receipt, goals, world, clear, read>>
    BY <1>16 DEF RefreshError
  <2>2. \A r \in Requests : (<<"goal", r>> \in calls') <=> (<<"goal", r>> \in calls)
    BY <1>16 DEF RefreshError
  <2> QED
    BY <2>1, <2>2, SameOpen DEF CarriedOutLater, Remote!vars
<1>17. CASE Refreshed
  <2>1. /\ read' \in {read, latest} /\ ~Awaited
        /\ UNCHANGED <<request, receipt, calls, goals, world, clear>>
    BY <1>17 DEF Refreshed, ReadLatest, Awaited, Following
  <2> QED
    BY <2>1, ReadMaps
<1>18. CASE RefreshTimeout
  <2>1. /\ read' \in {read, latest} /\ ~Awaited
        /\ UNCHANGED <<request, receipt, calls, goals, world, clear>>
    BY <1>18 DEF RefreshTimeout, ReadLatest, Awaited, Following
  <2> QED
    BY <2>1, ReadMaps
<1>19. CASE Stop
  <2>1. UNCHANGED <<request, receipt, goals, world, clear, read>>
    BY <1>19 DEF Stop
  <2>2. \A r \in Requests : (<<"goal", r>> \in calls') <=> (<<"goal", r>> \in calls)
    BY <1>19 DEF Stop
  <2> QED
    BY <2>1, <2>2, SameOpen DEF CarriedOutLater, Remote!vars
<1>20. CASE Stopped
  <2>1. UNCHANGED <<request, receipt, goals, world, clear, read>>
    BY <1>20 DEF Stopped
  <2>2. \A r \in Requests : (<<"goal", r>> \in calls') <=> (<<"goal", r>> \in calls)
    BY <1>20 DEF Stopped
  <2> QED
    BY <2>1, <2>2, SameOpen DEF CarriedOutLater, Remote!vars
<1>21. CASE ReceiveState
  <2>1. UNCHANGED <<request, receipt, goals, world, clear, read>>
    BY <1>21 DEF ReceiveState
  <2>2. \A r \in Requests : (<<"goal", r>> \in calls') <=> (<<"goal", r>> \in calls)
    BY <1>21 DEF ReceiveState
  <2> QED
    BY <2>1, <2>2, SameOpen DEF CarriedOutLater, Remote!vars
<1>22. CASE HandleCommand
  <2>1. UNCHANGED <<request, receipt, goals, world, clear, read>>
    BY <1>22 DEF HandleCommand, NextParameter, client
  <2>2. \A r \in Requests : (<<"goal", r>> \in calls') <=> (<<"goal", r>> \in calls)
    BY <1>22 DEF HandleCommand, NextParameter, client
  <2> QED
    BY <2>1, <2>2, SameOpen DEF CarriedOutLater, Remote!vars
<1>23. CASE HandleRefresh
  <2>1. /\ UNCHANGED <<request, receipt, goals, world, read>>
        /\ clear' \in {clear, TRUE}
    BY <1>23, RefreshAssumption DEF HandleRefresh, client, IInv, TypeInv, TypeOK
  <2>2. \A r \in Requests : (<<"goal", r>> \in calls') <=> (<<"goal", r>> \in calls)
    BY <1>23 DEF HandleRefresh, NextParameter
  <2>3. Open' = Open /\ Answer' = Answer
    BY <2>1, <2>2, SameOpen DEF CarriedOutLater
  <2>4. CASE clear' = clear
    BY <2>1, <2>3, <2>4 DEF Remote!vars
  <2>5. CASE clear' = TRUE
    <3> DEFINE w == [moved |-> world, clear |-> clear]
    <3>1. [moved |-> world, clear |-> TRUE] = [w EXCEPT !.clear = TRUE]
      BY ClearField, Zenon
    <3>2. w' = [moved |-> world, clear |-> TRUE]
      BY <2>1, <2>5, Zenon
    <3>3. Shown(read)' = Shown(read)
      BY <2>1
    <3> QED
      BY <2>1, <2>3, <3>1, <3>2, <3>3 DEF Remote!Next, Remote!Clear
  <2> QED
    BY <2>1, <2>4, <2>5
<1>24. CASE HandleGoal
  <2>1. PICK g \in Requests :
          /\ <<"goal", g>> \in calls /\ calls' = calls \ {<<"goal", g>>}
          /\ goals' \in {[goals EXCEPT ![g] = "rejected"], [goals EXCEPT ![g] = "accepted"]}
    BY <1>24 DEF HandleGoal
  <2>2. UNCHANGED <<request, receipt, world, clear, read>>
    BY <1>24 DEF HandleGoal, client
  <2>3. \A r \in Requests \ {g} : CarriedOutLater(r)' <=> CarriedOutLater(r)
    BY <2>1 DEF CarriedOutLater, IInv, TypeInv, TypeOK
  <2>4. CarriedOutLater(g)
    BY <2>1 DEF CarriedOutLater
  <2> QED
    BY <2>2, <2>3, <2>4, DoneMaps
<1>25. CASE HandleCancel
  <2>1. UNCHANGED <<request, receipt, goals, world, clear, read>>
    BY <1>25 DEF HandleCancel, client
  <2>2. \A r \in Requests : (<<"goal", r>> \in calls') <=> (<<"goal", r>> \in calls)
    BY <1>25 DEF HandleCancel, client
  <2> QED
    BY <2>1, <2>2, SameOpen DEF CarriedOutLater, Remote!vars
<1>26. CASE HandleStop
  <2>1. UNCHANGED <<request, receipt, goals, world, clear, read>>
    BY <1>26 DEF HandleStop, client, StopPending
  <2>2. \A r \in Requests : (<<"goal", r>> \in calls') <=> (<<"goal", r>> \in calls)
    BY <1>26 DEF HandleStop, client, StopPending
  <2> QED
    BY <2>1, <2>2, SameOpen DEF CarriedOutLater, Remote!vars
<1>27. CASE TimerPublish
  <2>1. UNCHANGED <<request, receipt, goals, world, clear, read>>
    BY <1>27 DEF TimerPublish, client
  <2>2. \A r \in Requests : (<<"goal", r>> \in calls') <=> (<<"goal", r>> \in calls)
    BY <1>27 DEF TimerPublish, client
  <2> QED
    BY <2>1, <2>2, SameOpen DEF CarriedOutLater, Remote!vars
<1>28. ASSUME NEW g \in Requests, Begin(g) PROVE [Remote!Next]_(Remote!vars)
  <2>1. /\ UNCHANGED <<request, receipt, calls, world, clear, read>>
        /\ goals[g] = "accepted" /\ goals' = [goals EXCEPT ![g] = "executing"]
    BY <1>28 DEF Begin, Goes, client, network
  <2>2. \A r \in Requests : CarriedOutLater(r)' <=> CarriedOutLater(r)
    BY <2>1 DEF CarriedOutLater, Running, IInv, TypeInv, TypeOK
  <2> QED
    BY <2>1, <2>2, SameOpen DEF Remote!vars
<1>29. ASSUME NEW g \in Requests, CancelSeen(g) PROVE [Remote!Next]_(Remote!vars)
  <2>1. /\ UNCHANGED <<request, receipt, calls, world, clear, read>>
        /\ goals[g] \in Running /\ \E status \in Ended : goals' = [goals EXCEPT ![g] = status]
    BY <1>29 DEF CancelSeen, Finish, client, network, Running, Ended
  <2>2. \A r \in Requests \ {g} : CarriedOutLater(r)' <=> CarriedOutLater(r)
    BY <2>1 DEF CarriedOutLater, IInv, TypeInv, TypeOK
  <2>3. CarriedOutLater(g)
    BY <2>1 DEF CarriedOutLater
  <2> QED
    BY <2>1, <2>2, <2>3, DoneMaps
<1>30. ASSUME NEW g \in Requests, StallAbort(g) PROVE [Remote!Next]_(Remote!vars)
  <2>1. /\ UNCHANGED <<request, receipt, calls, world, clear, read>>
        /\ goals[g] \in Running /\ \E status \in Ended : goals' = [goals EXCEPT ![g] = status]
    BY <1>30 DEF StallAbort, Finish, client, network, Running, Ended
  <2>2. \A r \in Requests \ {g} : CarriedOutLater(r)' <=> CarriedOutLater(r)
    BY <2>1 DEF CarriedOutLater, IInv, TypeInv, TypeOK
  <2>3. CarriedOutLater(g)
    BY <2>1 DEF CarriedOutLater
  <2> QED
    BY <2>1, <2>2, <2>3, DoneMaps
<1>31. ASSUME NEW g \in Requests, Abort(g) PROVE [Remote!Next]_(Remote!vars)
  <2>1. /\ UNCHANGED <<request, receipt, calls, world, clear, read>>
        /\ goals[g] \in Running /\ \E status \in Ended : goals' = [goals EXCEPT ![g] = status]
    BY <1>31 DEF Abort, Finish, client, network, Running, Ended
  <2>2. \A r \in Requests \ {g} : CarriedOutLater(r)' <=> CarriedOutLater(r)
    BY <2>1 DEF CarriedOutLater, IInv, TypeInv, TypeOK
  <2>3. CarriedOutLater(g)
    BY <2>1 DEF CarriedOutLater
  <2> QED
    BY <2>1, <2>2, <2>3, DoneMaps
<1>32. ASSUME NEW g \in Requests, Move(g) PROVE [Remote!Next]_(Remote!vars)
  <2>1. /\ UNCHANGED <<request, receipt, calls, clear, read>>
        /\ world' = world \cup {<<g, runs[g]>>}
        /\ goals[g] = "executing" /\ goals' = [goals EXCEPT ![g] = "moved"]
    BY <1>32 DEF Move, Goes, client, network
  <2>2. \A r \in Requests : CarriedOutLater(r)' <=> CarriedOutLater(r)
    BY <2>1 DEF CarriedOutLater, Running, IInv, TypeInv, TypeOK
  <2>3. Open' = Open /\ Answer' = Answer
    BY <2>1, <2>2, SameOpen
  <2> DEFINE w == [moved |-> world, clear |-> clear]
  <2>4. g \in Open /\ \A m \in w.moved : m[1] # g
    BY <2>1 DEF Open, CarriedOutLater, Running, IInv, Reported
  <2>5. w' = [w EXCEPT !.moved = @ \cup {<<g, runs[g]>>}]
    BY <2>1
  <2>6. Shown(read)' = Shown(read)
    BY <2>1
  <2>7. Remote!CarryOut(g, runs[g])
    BY <2>1, <2>3, <2>4, <2>5, <2>6 DEF Remote!CarryOut
  <2>8. CASE runs[g] = g
    BY <2>4, <2>7, <2>8 DEF Remote!Next, Remote!Move
  <2>9. CASE runs[g] # g
    <3>1. g \in abandoned /\ g < runs[g] /\ runs[g] <= request
      BY <2>1, <2>9 DEF IInv, OwnEnvelope
    <3>2. Answer # "awaited" \/ g # request
      BY <3>1 DEF Answer, Ended, IInv, Reported, InStep
    <3>3. runs[g] \in g + 1 .. request
      BY <3>1, RuntimeBounds DEF IInv, TypeInv, TypeOK, Requests
    <3> QED
      BY <2>4, <2>7, <3>2, <3>3 DEF Remote!Next, Remote!MoveOvertaken, Remote!GivenUp
  <2> QED
    BY <2>8, <2>9
<1>33. ASSUME NEW g \in Requests, Report(g) PROVE [Remote!Next]_(Remote!vars)
  <2>1. /\ UNCHANGED <<request, receipt, calls, world, clear, read>>
        /\ goals' = [goals EXCEPT ![g] = "succeeded"]
    BY <1>33 DEF Report, Finish, client
  <2>2. goals[g] \in Running
    BY <1>33 DEF Report, Transitioned, Running
  <2>3. \A r \in Requests \ {g} : CarriedOutLater(r)' <=> CarriedOutLater(r)
    BY <2>1 DEF CarriedOutLater, IInv, TypeInv, TypeOK
  <2>4. CarriedOutLater(g)
    BY <2>2 DEF CarriedOutLater
  <2> QED
    BY <2>1, <2>3, <2>4, DoneMaps
<1>34. CASE UNCHANGED vars
  BY <1>34, SameOpen DEF vars, client, CarriedOutLater, Remote!vars
<1> QED
   BY <1>1, <1>2, <1>3, <1>4, <1>5, <1>6, <1>7, <1>8, <1>9, <1>10, <1>11, <1>12, <1>13,
    <1>14, <1>15, <1>16, <1>17, <1>18, <1>19, <1>20, <1>21, <1>22, <1>23, <1>24, <1>25,
    <1>26, <1>27, <1>28, <1>29, <1>30, <1>31, <1>32, <1>33, <1>34
    DEF Next, Client, Awaiting, Serve, Execute

\* The client, the network and the robot implement the abstract backend, of
\* which each request moves the robot at most once and never after its accepted
\* receipt, and with the command of another only once it was given up on.
THEOREM Refinement == Spec => ImplementsRemoteBackend
<1> QED
  BY InitMaps, StepMaps, Invariance, PTL DEF Spec, ImplementsRemoteBackend, Remote!Spec
============================================================================
