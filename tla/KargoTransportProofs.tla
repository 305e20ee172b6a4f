------------------------ MODULE KargoTransportProofs ------------------------
(***************************************************************************)
(* What is proved of KargoTransport for every number of requests and       *)
(* messages, every set of deployments and every pattern of discovery.      *)
(***************************************************************************)
EXTENDS KargoTransport, TLAPS

(***************************************************************************)
(* The invariants.                                                         *)
(***************************************************************************)
Todos == {<<>>, <<"axis">>, <<"arm">>, <<"nav">>, <<"yaw">>, <<"pitch">>, <<"yaw", "pitch">>}

\* What is still to be sent fits the bound on requests, and an answer is
\* awaited exactly while the outcome of the last request is open.
Room ==
    /\ pc \in {"admit", "locate", "send", "call"} =>
          todo # <<>> /\ request + Len(todo) <= MaxRequests
    /\ pc = "await" =>
          todo # <<>> /\ request \in Requests /\ request + Len(todo) <= MaxRequests + 1
    /\ outcome = "awaited" <=> pc = "await"
    /\ pc \in {"locate", "call"} => todo = <<"nav">>

TypeInv == TypeOK /\ Room

\* Both components of a pair of sequence numbers are above those of another, or not below.
Above(s, t)    == s[1] > t[1] /\ s[2] > t[2]
NotBelow(s, t) == s[1] >= t[1] /\ s[2] >= t[2]

Received == <<odomSeq, motionSeq>>

\* What a barrier, and its absence, say about the last accepted navigation and
\* about the observation its target was computed from.
BarrierInv ==
    /\ motion # None => motionSeq > 0
    /\ pc \in {"locate", "send", "call", "await"} => barrier = NoBarrier /\ Above(admitted, navigated)
    /\ barrier = NoBarrier => navigated = <<0, 0>> \/ Above(Received, navigated)
    /\ barrier # NoBarrier =>
          /\ barrier = <<navigated[1] + 1, navigated[2] + 1>>
          /\ NotBelow(navigated, grounded)
    /\ todo = <<"nav">> /\ pc = "send" => NotBelow(Received, grounded)
    /\ todo = <<"nav">> /\ pc \in {"call", "await"} => NotBelow(dispatched, grounded)

\* A command goes on only if the stop was clear when it was called, or news came.
HeedInv ==
    /\ called <= motionSeq
    /\ pc \in {"locate", "send", "call", "await"} /\ motionSeq = called => motion = "clear"

\* The last receipt was refused, with no remark.
Plain == ~receipt.accepted /\ ~receipt.partial /\ ~receipt.timedOut /\ ~receipt.error

\* Which requests of the present or last command may be moving the robot.
RefusalInv ==
    /\ own \subseteq 1 .. request /\ running \subseteq 1 .. request
    /\ moved \subseteq 1 .. request
    /\ running \cap moved = {} /\ measured \subseteq moved
    /\ pc \in {"admit", "locate", "call", "stop"} => own = {}
    /\ pc = "send" => own = {} \/ todo = <<"pitch">>
    /\ pc = "await" =>
          /\ request \in own
          /\ own = {request} \/ todo = <<"pitch">>
          /\ request \in running <=> answer = None
          /\ request \in moved => answer = "yes"
    /\ pc \in {"idle", "look"} /\ Plain => own \cap (moved \cup running) = {}

(***************************************************************************)
(* Lemmas on plans.                                                        *)
(***************************************************************************)
\* The commands to be sent are one of seven sequences.
LEMMA PlansAreTodos == {<<>>} \cup UNION {Plans(skill) : skill \in Skills} = Todos
  BY DEF Plans, Skills, Todos

\* Only the head's two axes leave something to be sent after a request.
LEMMA TodoFacts ==
  ASSUME NEW t \in Todos
  PROVE  /\ Len(t) \in Nat
         /\ t # <<>> => Len(t) > 0 /\ Tail(t) \in Todos /\ Len(Tail(t)) = Len(t) - 1
         /\ t # <<>> /\ Tail(t) # <<>> => t = <<"yaw", "pitch">> /\ Tail(t) = <<"pitch">>
<1>1. CASE t = <<>>
  BY <1>1
<1>2. CASE \E p \in {"axis", "arm", "nav", "yaw", "pitch"} : t = <<p>>
  <2>1. PICK p \in {"axis", "arm", "nav", "yaw", "pitch"} : t = <<p>>
    BY <1>2
  <2>2. Len(t) = 1 /\ Tail(t) = <<>>
    BY <2>1
  <2> QED  BY <2>2 DEF Todos
<1>3. CASE t = <<"yaw", "pitch">>
  <2>1. Len(t) = 2 /\ Len(Tail(t)) = 1
    BY <1>3
  <2>2. Tail(t) = <<"pitch">>
    BY <1>3
  <2> QED  BY <1>3, <2>1, <2>2 DEF Todos
<1> QED  BY <1>1, <1>2, <1>3 DEF Todos

\* Every plan is one of them and has something to send.
LEMMA PlanTypes ==
  ASSUME NEW skill \in Skills, NEW plan \in Plans(skill)
  PROVE  plan \in Todos \ {<<>>}
  BY DEF Plans, Skills, Todos

\* TypeOK, one variable at a time.
Typed ==
    /\ config \in Configs /\ condition \in Conditions
    /\ running \subseteq Requests /\ moved \subseteq Requests /\ navs \subseteq Requests
    /\ answer \in {None, "yes", "no"}
    /\ tick \in 0 .. MaxTicks /\ odoms \in Nat
    /\ motions \subseteq (1 .. MaxTicks) \X Conditions
    /\ odomSeq \in Nat /\ motionSeq \in Nat /\ motion \in Conditions \cup {None}
    /\ pc \in {"idle", "look", "admit", "locate", "send", "call", "await", "stop"}
    /\ todo \in Todos /\ request \in Requests \cup {0}
    /\ outcome \in {None, "awaited", "accepted", "refused"}
    /\ receipt \in Receipt
    /\ measured \subseteq Requests /\ own \subseteq Requests /\ called \in Nat
    /\ barrier \in Revisions /\ dispatched \in Revisions /\ admitted \in Revisions
    /\ grounded \in Revisions /\ navigated \in Revisions

LEMMA TypedIsTypeOK == TypeOK <=> Typed
  BY PlansAreTodos DEF TypeOK, Typed

\* A call that is over leaves no locals, and a refusal a receipt.
LEMMA RefusedTypes ==
  ASSUME NEW flags, Refuse(flags)
  PROVE  /\ receipt' \in Receipt /\ todo' \in Todos /\ dispatched' \in Revisions
         /\ pc' = "idle" /\ called' = 0
  BY DEF Refuse, Return, Receipt, Todos, Revisions

LEMMA ReturnTypes ==
  ASSUME Return
  PROVE  todo' \in Todos /\ dispatched' \in Revisions /\ pc' = "idle" /\ called' = 0
  BY DEF Return, Todos, Revisions

\* Pairs of sequence numbers.
LEMMA PairTypes ==
  ASSUME NEW a \in Nat, NEW b \in Nat
  PROVE  <<a, b>> \in Revisions
  BY DEF Revisions

LEMMA NoBarrierType == NoBarrier \in Revisions
  BY DEF Revisions, NoBarrier

LEMMA ComponentTypes ==
  ASSUME NEW a \in Revisions
  PROVE  a[1] \in Nat /\ a[2] \in Nat
  BY DEF Revisions

(***************************************************************************)
(* Type correctness.                                                       *)
(***************************************************************************)
LEMMA InitTypes == Init => TypeInv
<1> SUFFICES ASSUME Init PROVE TypeInv
  OBVIOUS
<1>1. Typed
  BY TransportBounds, PairTypes, NoBarrierType DEF Init, Typed, Receipt, Todos, NoBarrier
<1>2. Room
  BY DEF Init, Room, None
<1> QED  BY <1>1, <1>2, TypedIsTypeOK DEF TypeInv

LEMMA StepTypes == TypeInv /\ [Next]_vars => TypeInv'
<1> SUFFICES ASSUME TypeInv, [Next]_vars PROVE TypeInv'
  OBVIOUS
<1>a. Typed /\ Room
  BY TypedIsTypeOK DEF TypeInv
<1>b. ASSUME Typed', Room' PROVE TypeInv'
  BY <1>b, TypedIsTypeOK, PTL DEF TypeInv
<1> USE <1>a, TransportBounds DEF robot, topics, inbox, evidence, history, client
<1>1. CASE Look
  <2>1. Typed'
    BY <1>1 DEF Typed, Look, Measure
  <2>2. Room'
    BY <1>1 DEF Room, Look, Measure
  <2> QED  BY <2>1, <2>2, <1>b
<1>2. CASE Unsupported
  <2>1. Typed'
    BY <1>2, RefusedTypes DEF Typed, Unsupported
  <2>2. Room'
    BY <1>2, RefusedTypes DEF Room, Unsupported
  <2> QED  BY <2>1, <2>2, <1>b
<1>3. CASE Command
  <2>1. todo' \in Todos \ {<<>>} /\ request + Len(todo') <= MaxRequests
    <3>1. PICK skill \in Skills :
             \E plan \in Plans(skill) : request + Len(plan) <= MaxRequests /\ todo' = plan
      BY <1>3 DEF Command, Supported
    <3>2. PICK plan \in Plans(skill) :
             request + Len(plan) <= MaxRequests /\ todo' = plan
      BY <3>1
    <3> QED  BY <3>1, <3>2, PlanTypes
  <2>2. Typed'
    BY <1>3, <2>1 DEF Typed, Command, Measure
  <2>3. Room'
    BY <1>3, <2>1 DEF Room, Command
  <2> QED  BY <2>2, <2>3, <1>b
<1>4. CASE Looked
  <2>1. Typed'
    BY <1>4, ReturnTypes, NoBarrierType DEF Typed, Looked, Observed
  <2>2. Room'
    BY <1>4, ReturnTypes DEF Room, Looked, Observed
  <2> QED  BY <2>1, <2>2, <1>b
<1>5. CASE Admit
  <2>1. Typed'
    BY <1>5, PairTypes, NoBarrierType DEF Typed, Admit, Observed, Measure
  <2>2. Room'
    BY <1>5 DEF Room, Admit, Observed, Measure
  <2> QED  BY <2>1, <2>2, <1>b
<1>6. CASE NotAdmitted
  <2>1. Typed'
    BY <1>6, RefusedTypes, NoBarrierType DEF Typed, NotAdmitted, Observed
  <2>2. Room'
    BY <1>6, RefusedTypes DEF Room, NotAdmitted, Observed
  <2> QED  BY <2>1, <2>2, <1>b
<1>7. CASE Locate
  <2>1. Typed'
    BY <1>7, PairTypes, NoBarrierType DEF Typed, Locate, Observed
  <2>2. Room'
    BY <1>7 DEF Room, Locate, Observed
  <2> QED  BY <2>1, <2>2, <1>b
<1>8. CASE NotLocated
  <2>1. Typed'
    BY <1>8, RefusedTypes, NoBarrierType DEF Typed, NotLocated, Observed
  <2>2. Room'
    BY <1>8, RefusedTypes DEF Room, NotLocated, Observed
  <2> QED  BY <2>1, <2>2, <1>b
<1>9. CASE QueryTimeout
  <2>1. Typed'
    BY <1>9, RefusedTypes, ReturnTypes DEF Typed, QueryTimeout
  <2>2. Room'
    BY <1>9, RefusedTypes, ReturnTypes DEF Room, QueryTimeout, Observing
  <2> QED  BY <2>1, <2>2, <1>b
<1>10. CASE Send
  <2>0. todo # <<>> /\ request + Len(todo) <= MaxRequests
    BY <1>10 DEF Room, Send, Calling
  <2>1. Len(todo) \in Nat /\ Len(todo) > 0
    BY <2>0, TodoFacts DEF Typed
  <2>2. request' \in Requests /\ request' + Len(todo) <= MaxRequests + 1
    <3>1. request \in Nat /\ request' = request + 1
      BY <1>10 DEF Typed, Send, Requests
    <3>2. \A n \in Nat : n > 0 /\ request + n <= MaxRequests =>
             request + 1 \in 1 .. MaxRequests /\ request + 1 + n <= MaxRequests + 1
      BY <3>1, TransportBounds
    <3>3. /\ request + 1 \in 1 .. MaxRequests
          /\ request + 1 + Len(todo) <= MaxRequests + 1
      BY <2>0, <2>1, <3>2, Zenon
    <3> QED  BY <3>1, <3>3 DEF Requests
  <2>3. Typed'
    BY <1>10, <2>2 DEF Typed, Send
  <2>4. Room'
    <3>1. pc' = "await" /\ outcome' = "awaited" /\ todo' = todo
      BY <1>10 DEF Send
    <3> QED  BY <2>0, <2>2, <3>1 DEF Room
  <2> QED  BY <2>3, <2>4, <1>b
<1>25. CASE Note
  <2>1. Typed'
    BY <1>25, PairTypes DEF Typed, Note
  <2>2. Room'
    BY <1>25 DEF Room, Note
  <2> QED  BY <2>1, <2>2, <1>b
<1>11. CASE Accepted
  <2>1. /\ Len(todo) \in Nat /\ Tail(todo) \in Todos
        /\ Len(Tail(todo)) = Len(todo) - 1
    BY <1>11, TodoFacts DEF Typed, Room, Accepted
  <2>2. barrier' \in Revisions /\ navigated' \in Revisions
    <3>1. dispatched[1] + 1 \in Nat /\ dispatched[2] + 1 \in Nat
      BY ComponentTypes DEF Typed
    <3> QED  BY <1>11, <3>1, PairTypes DEF Typed, Accepted
  <2>3. CASE Tail(todo) = <<>>
    <3>1. Return /\ receipt' \in Receipt
      <4>1. /\ Return
            /\ receipt' = [accepted |-> TRUE, partial |-> FALSE, timedOut |-> FALSE,
                           error |-> FALSE]
        BY <1>11, <2>3, Zenon DEF Accepted
      <4> QED  BY <4>1 DEF Receipt
    <3>2. Typed'
      BY <1>11, <2>2, <3>1, ReturnTypes DEF Typed, Accepted
    <3>3. Room'
      BY <1>11, <3>1, ReturnTypes DEF Room, Accepted
    <3> QED  BY <3>2, <3>3, <1>b
  <2>4. CASE Tail(todo) # <<>>
    <3>1. pc' = "send" /\ todo' = Tail(todo) /\ UNCHANGED <<receipt, dispatched, called>>
      BY <1>11, <2>4 DEF Accepted
    <3>2. Typed'
      BY <1>11, <2>1, <2>2, <3>1 DEF Typed, Accepted
    <3>3. Room'
      BY <1>11, <2>1, <2>4, <3>1 DEF Typed, Room, Accepted, Requests
    <3> QED  BY <3>2, <3>3, <1>b
  <2> QED  BY <2>3, <2>4
<1>12. CASE Rejected
  <2>1. Typed'
    BY <1>12, RefusedTypes DEF Typed, Rejected
  <2>2. Room'
    BY <1>12, RefusedTypes DEF Room, Rejected
  <2> QED  BY <2>1, <2>2, <1>b
<1>13. CASE CallTimeout
  <2>1. Typed'
    BY <1>13, RefusedTypes DEF Typed, CallTimeout
  <2>2. Room'
    BY <1>13, RefusedTypes DEF Room, CallTimeout
  <2> QED  BY <2>1, <2>2, <1>b
<1>14. CASE CallFails
  <2>1. Typed'
    BY <1>14, RefusedTypes DEF Typed, CallFails
  <2>2. Room'
    BY <1>14, RefusedTypes DEF Room, CallFails
  <2> QED  BY <2>1, <2>2, <1>b
<1>15. CASE Stop
  <2>1. Typed'
    BY <1>15 DEF Typed, Stop
  <2>2. Room'
    BY <1>15 DEF Room, Stop
  <2> QED  BY <2>1, <2>2, <1>b
<1>16. CASE Stopped
  <2>1. Typed'
    BY <1>16, RefusedTypes DEF Typed, Stopped
  <2>2. Room'
    BY <1>16, RefusedTypes DEF Room, Stopped
  <2> QED  BY <2>1, <2>2, <1>b
<1>17. CASE ReceiveOdom
  <2>1. Typed'
    BY <1>17 DEF Typed, ReceiveOdom
  <2>2. Room'
    BY <1>17 DEF Room, ReceiveOdom
  <2> QED  BY <2>1, <2>2, <1>b
<1>18. CASE ReceiveMotion
  <2>1. Typed'
    BY <1>18 DEF Typed, ReceiveMotion
  <2>2. Room'
    BY <1>18 DEF Room, ReceiveMotion
  <2> QED  BY <2>1, <2>2, <1>b
<1>19. ASSUME NEW r \in Requests, CarryOut(r) PROVE TypeInv'
  <2>1. Typed'
    BY <1>19 DEF Typed, CarryOut, Answer
  <2>2. Room'
    BY <1>19 DEF Room, CarryOut, Answer
  <2> QED  BY <2>1, <2>2, <1>b
<1>20. ASSUME NEW r \in Requests, Pretend(r) PROVE TypeInv'
  <2>1. Typed'
    BY <1>20 DEF Typed, Pretend, Answer
  <2>2. Room'
    BY <1>20 DEF Room, Pretend, Answer
  <2> QED  BY <2>1, <2>2, <1>b
<1>21. ASSUME NEW r \in Requests, Reject(r) PROVE TypeInv'
  <2>1. Typed'
    BY <1>21 DEF Typed, Reject, Answer
  <2>2. Room'
    BY <1>21 DEF Room, Reject, Answer
  <2> QED  BY <2>1, <2>2, <1>b
<1>22. CASE PublishState
  <2>1. Typed'
    BY <1>22 DEF Typed, PublishState
  <2>2. Room'
    BY <1>22 DEF Room, PublishState
  <2> QED  BY <2>1, <2>2, <1>b
<1>23. CASE Disturb
  <2>1. Typed'
    BY <1>23 DEF Typed, Disturb
  <2>2. Room'
    BY <1>23 DEF Room, Disturb
  <2> QED  BY <2>1, <2>2, <1>b
<1>24. CASE UNCHANGED vars
  <2>1. Typed'
    BY <1>24 DEF Typed, vars
  <2>2. Room'
    BY <1>24 DEF Room, vars
  <2> QED  BY <2>1, <2>2, <1>b
<1> QED
  BY <1>1, <1>2, <1>3, <1>4, <1>5, <1>6, <1>7, <1>8, <1>9, <1>10, <1>11, <1>12, <1>13,
     <1>14, <1>15, <1>16, <1>17, <1>18, <1>19, <1>20, <1>21, <1>22, <1>23, <1>24, <1>25
  DEF Next, Adapter, Awaiting, Robot

\* Every variable keeps its type: no command sends more requests than it was
\* admitted for, whatever answers, timeouts and messages come (command).
THEOREM TypeCorrect == Spec => []TypeOK
<1>1. Init => TypeInv
  BY InitTypes
<1>2. TypeInv /\ [Next]_vars => TypeInv'
  BY StepTypes
<1>3. TypeInv => TypeOK
  BY DEF TypeInv
<1> QED  BY <1>1, <1>2, <1>3, PTL DEF Spec

(***************************************************************************)
(* The barrier.                                                            *)
(***************************************************************************)
LEMMA InitBarrier == Init => BarrierInv /\ HeedInv
  BY DEF Init, BarrierInv, HeedInv, NoBarrier, None

\* Both topics have delivered what the barrier asks for.
LEMMA FreshIsAbove ==
  ASSUME Typed, BarrierInv, Fresh
  PROVE  /\ Above(Received, navigated)
         /\ barrier # NoBarrier => Above(Received, grounded)
  BY ComponentTypes
  DEF Typed, BarrierInv, Fresh, Above, NotBelow, Received, NoBarrier, None, Revisions

LEMMA StepBarrier == TypeInv /\ BarrierInv /\ [Next]_vars => BarrierInv'
<1> SUFFICES ASSUME TypeInv, BarrierInv, [Next]_vars PROVE BarrierInv'
  OBVIOUS
<1>a. Typed /\ Room
  BY TypedIsTypeOK DEF TypeInv
<1> USE <1>a DEF robot, topics, inbox, evidence, history, client
<1>1. CASE Look
  BY <1>1 DEF BarrierInv, Look, Above, NotBelow, Received
<1>2. CASE Unsupported
  BY <1>2, RefusedTypes DEF BarrierInv, Unsupported, Above, NotBelow, Received
<1>3. CASE Command
  BY <1>3 DEF BarrierInv, Command, Above, NotBelow, Received
<1>4. CASE Looked
  <2>1. Above(Received, navigated) /\ barrier' = NoBarrier
    BY <1>4, FreshIsAbove DEF Looked, Observed
  <2> QED
    BY <1>4, <2>1, ReturnTypes
    DEF Typed, BarrierInv, Looked, Above, NotBelow, Received
<1>5. CASE Admit
  <2>1. Above(Received, navigated) /\ barrier' = NoBarrier
    BY <1>5, FreshIsAbove DEF Admit, Observed
  <2> QED  BY <1>5, <2>1 DEF Typed, BarrierInv, Admit, Above, NotBelow, Received
<1>6. CASE NotAdmitted
  <2>1. Above(Received, navigated) /\ barrier' = NoBarrier
    BY <1>6, FreshIsAbove DEF NotAdmitted, Observed
  <2> QED
    BY <1>6, <2>1, RefusedTypes
    DEF Typed, BarrierInv, NotAdmitted, Above, NotBelow, Received
<1>7. CASE Locate
  <2>1. Above(Received, navigated) /\ barrier' = NoBarrier
    BY <1>7, FreshIsAbove DEF Locate, Observed
  <2> QED  BY <1>7, <2>1 DEF Typed, BarrierInv, Locate, Above, NotBelow, Received
<1>8. CASE NotLocated
  <2>1. Above(Received, navigated) /\ barrier' = NoBarrier
    BY <1>8, FreshIsAbove DEF NotLocated, Observed
  <2> QED
    BY <1>8, <2>1, RefusedTypes
    DEF Typed, BarrierInv, NotLocated, Above, NotBelow, Received
<1>9. CASE QueryTimeout
  BY <1>9, RefusedTypes, ReturnTypes DEF BarrierInv, QueryTimeout, Above, NotBelow, Received
<1>10. CASE Send
  BY <1>10 DEF BarrierInv, Send, Calling, Above, NotBelow, Received
<1>25. CASE Note
  BY <1>25 DEF BarrierInv, Note, Above, NotBelow, Received
<1>11. CASE Accepted
  <2>1. CASE todo = <<"nav">>
    <3>1. Tail(todo) = <<>>
      BY <2>1
    <3>2. Return
      BY <1>11, <3>1 DEF Accepted
    <3>3. /\ navigated' = dispatched
          /\ barrier' = <<dispatched[1] + 1, dispatched[2] + 1>>
      BY <1>11, <2>1 DEF Accepted
    <3>4. dispatched[1] \in Nat /\ dispatched[2] \in Nat
      BY ComponentTypes DEF Typed
    <3>5. NotBelow(dispatched, grounded)
      BY <1>11, <2>1 DEF BarrierInv, Accepted
    <3>6. barrier' # NoBarrier
      BY <3>3, <3>4 DEF NoBarrier
    <3> QED
    BY <1>11, <3>2, <3>3, <3>5, <3>6, ReturnTypes
    DEF BarrierInv, Accepted, NotBelow
  <2>2. CASE todo # <<"nav">>
    <3>1. UNCHANGED <<barrier, navigated, admitted, grounded, odomSeq, motion, motionSeq>>
      BY <1>11, <2>2 DEF Accepted
    <3>2. CASE Tail(todo) = <<>>
      <4>1. Return
        BY <1>11, <3>2 DEF Accepted
      <4> QED  BY <3>1, <4>1, ReturnTypes DEF BarrierInv, Above, NotBelow, Received
    <3>3. CASE Tail(todo) # <<>>
      <4>1. pc = "await" /\ pc' = "send" /\ todo' = Tail(todo)
        BY <1>11, <3>3 DEF Accepted
      <4>2. todo' # <<"nav">>
        BY <1>11, <3>3, <4>1, TodoFacts DEF Typed
      <4> QED  BY <3>1, <4>1, <4>2 DEF BarrierInv, Above, NotBelow, Received
    <3> QED  BY <3>2, <3>3
  <2> QED  BY <2>1, <2>2
<1>12. CASE Rejected
  BY <1>12, RefusedTypes DEF BarrierInv, Rejected, Above, NotBelow, Received
<1>13. CASE CallTimeout
  BY <1>13, RefusedTypes DEF BarrierInv, CallTimeout, Above, NotBelow, Received
<1>14. CASE CallFails
  BY <1>14, RefusedTypes DEF BarrierInv, CallFails, Above, NotBelow, Received
<1>15. CASE Stop
  BY <1>15 DEF BarrierInv, Stop, Above, NotBelow, Received
<1>16. CASE Stopped
  BY <1>16, RefusedTypes DEF BarrierInv, Stopped, Above, NotBelow, Received
<1>17. CASE ReceiveOdom
  <2>1. /\ navigated[1] \in Nat /\ navigated[2] \in Nat
        /\ grounded[1] \in Nat /\ grounded[2] \in Nat
    BY ComponentTypes DEF Typed
  <2> QED  BY <1>17, <2>1 DEF Typed, BarrierInv, ReceiveOdom, Above, NotBelow, Received
<1>18. CASE ReceiveMotion
  <2>1. /\ navigated[1] \in Nat /\ navigated[2] \in Nat
        /\ grounded[1] \in Nat /\ grounded[2] \in Nat
    BY ComponentTypes DEF Typed
  <2> QED  BY <1>18, <2>1 DEF Typed, BarrierInv, ReceiveMotion, Above, NotBelow, Received
<1>19. ASSUME NEW r \in Requests, CarryOut(r) PROVE BarrierInv'
  BY <1>19 DEF BarrierInv, CarryOut, Answer, Above, NotBelow, Received
<1>20. ASSUME NEW r \in Requests, Pretend(r) PROVE BarrierInv'
  BY <1>20 DEF BarrierInv, Pretend, Answer, Above, NotBelow, Received
<1>21. ASSUME NEW r \in Requests, Reject(r) PROVE BarrierInv'
  BY <1>21 DEF BarrierInv, Reject, Answer, Above, NotBelow, Received
<1>22. CASE PublishState
  BY <1>22 DEF BarrierInv, PublishState, Above, NotBelow, Received
<1>23. CASE Disturb
  BY <1>23 DEF BarrierInv, Disturb, Above, NotBelow, Received
<1>24. CASE UNCHANGED vars
  BY <1>24 DEF BarrierInv, vars, Above, NotBelow, Received
<1> QED
  BY <1>1, <1>2, <1>3, <1>4, <1>5, <1>6, <1>7, <1>8, <1>9, <1>10, <1>11, <1>12, <1>13,
     <1>14, <1>15, <1>16, <1>17, <1>18, <1>19, <1>20, <1>21, <1>22, <1>23, <1>24, <1>25
  DEF Next, Adapter, Awaiting, Robot

LEMMA StepHeed == TypeInv /\ HeedInv /\ [Next]_vars => HeedInv'
<1> SUFFICES ASSUME TypeInv, HeedInv, [Next]_vars PROVE HeedInv'
  OBVIOUS
<1>a. Typed /\ Room
  BY TypedIsTypeOK DEF TypeInv
<1> USE <1>a DEF robot, topics, inbox, evidence, history, client
<1>1. CASE Look
  BY <1>1 DEF Typed, HeedInv, Look
<1>2. CASE Unsupported
  BY <1>2, RefusedTypes DEF Typed, HeedInv, Unsupported
<1>3. CASE Command
  BY <1>3 DEF Typed, HeedInv, Command
<1>4. CASE Looked
  BY <1>4, ReturnTypes DEF Typed, HeedInv, Looked
<1>5. CASE Admit
  BY <1>5 DEF Typed, HeedInv, Admit
<1>6. CASE NotAdmitted
  BY <1>6, RefusedTypes DEF Typed, HeedInv, NotAdmitted
<1>7. CASE Locate
  BY <1>7 DEF Typed, HeedInv, Locate
<1>8. CASE NotLocated
  BY <1>8, RefusedTypes DEF Typed, HeedInv, NotLocated
<1>9. CASE QueryTimeout
  BY <1>9, RefusedTypes, ReturnTypes DEF Typed, HeedInv, QueryTimeout
<1>10. CASE Send
  BY <1>10 DEF Typed, HeedInv, Send, Calling
<1>25. CASE Note
  BY <1>25 DEF Typed, HeedInv, Note
<1>11. CASE Accepted
  BY <1>11, ReturnTypes DEF Typed, HeedInv, Accepted
<1>12. CASE Rejected
  BY <1>12, RefusedTypes DEF Typed, HeedInv, Rejected
<1>13. CASE CallTimeout
  BY <1>13, RefusedTypes DEF Typed, HeedInv, CallTimeout
<1>14. CASE CallFails
  BY <1>14, RefusedTypes DEF Typed, HeedInv, CallFails
<1>15. CASE Stop
  BY <1>15 DEF Typed, HeedInv, Stop
<1>16. CASE Stopped
  BY <1>16, RefusedTypes DEF Typed, HeedInv, Stopped
<1>17. CASE ReceiveOdom
  BY <1>17 DEF Typed, HeedInv, ReceiveOdom
<1>18. CASE ReceiveMotion
  BY <1>18 DEF Typed, HeedInv, ReceiveMotion
<1>19. ASSUME NEW r \in Requests, CarryOut(r) PROVE HeedInv'
  BY <1>19 DEF Typed, HeedInv, CarryOut, Answer
<1>20. ASSUME NEW r \in Requests, Pretend(r) PROVE HeedInv'
  BY <1>20 DEF Typed, HeedInv, Pretend, Answer
<1>21. ASSUME NEW r \in Requests, Reject(r) PROVE HeedInv'
  BY <1>21 DEF Typed, HeedInv, Reject, Answer
<1>22. CASE PublishState
  BY <1>22 DEF Typed, HeedInv, PublishState
<1>23. CASE Disturb
  BY <1>23 DEF Typed, HeedInv, Disturb
<1>24. CASE UNCHANGED vars
  BY <1>24 DEF HeedInv, vars
<1> QED
  BY <1>1, <1>2, <1>3, <1>4, <1>5, <1>6, <1>7, <1>8, <1>9, <1>10, <1>11, <1>12, <1>13,
     <1>14, <1>15, <1>16, <1>17, <1>18, <1>19, <1>20, <1>21, <1>22, <1>23, <1>24, <1>25
  DEF Next, Adapter, Awaiting, Robot

\* The inductive invariant behind the three theorems on what a command is sent on.
LEMMA BarrierInvariant == Spec => [](TypeInv /\ BarrierInv /\ HeedInv)
<1>1. Init => TypeInv /\ BarrierInv /\ HeedInv
  BY InitTypes, InitBarrier
<1>2. TypeInv /\ BarrierInv /\ HeedInv /\ [Next]_vars => TypeInv' /\ BarrierInv' /\ HeedInv'
  BY StepTypes, StepBarrier, StepHeed
<1> QED  BY <1>1, <1>2, PTL DEF Spec

\* Only an observation lifts a barrier.
LEMMA LiftedIsFresh ==
  ASSUME TypeInv, BarrierInv, [Next]_vars, Lifted
  PROVE  Fresh
<1>a. Typed
  BY TypedIsTypeOK DEF TypeInv
<1>b. barrier # barrier'
  BY DEF Lifted
<1>1. CASE Looked \/ Admit \/ NotAdmitted \/ Locate \/ NotLocated
  BY <1>1 DEF Looked, Admit, NotAdmitted, Locate, NotLocated, Observed
<1>2. CASE Accepted
  <2>1. barrier' = <<dispatched[1] + 1, dispatched[2] + 1>>
    BY <1>2, <1>b DEF Accepted
  <2>2. dispatched[1] \in Nat
    BY <1>a, ComponentTypes DEF Typed
  <2> QED  BY <2>1, <2>2 DEF Lifted, NoBarrier
<1>3. CASE Look \/ Unsupported \/ Command \/ Stop \/ QueryTimeout \/ Note \/ Send
  BY <1>3, <1>b DEF Look, Unsupported, Command, Stop, QueryTimeout, Note, Send
<1>4. CASE Rejected \/ CallTimeout \/ CallFails \/ Stopped
  BY <1>4, <1>b DEF Rejected, CallTimeout, CallFails, Stopped
<1>5. CASE ReceiveOdom \/ ReceiveMotion
  BY <1>5, <1>b DEF ReceiveOdom, ReceiveMotion
<1>6. CASE Robot
  BY <1>6, <1>b DEF Robot, CarryOut, Pretend, Reject, Answer, PublishState, Disturb, client
<1>7. CASE UNCHANGED vars
  BY <1>7, <1>b DEF vars
<1> QED  BY <1>1, <1>2, <1>3, <1>4, <1>5, <1>6, <1>7 DEF Next, Adapter, Awaiting

\* Only Send sends.
LEMMA OnlySendSends ==
  ASSUME [Next]_vars, request' # request
  PROVE  Send
<1>1. CASE Looked \/ Admit \/ NotAdmitted \/ Locate \/ NotLocated
  BY <1>1 DEF Looked, Admit, NotAdmitted, Locate, NotLocated
<1>2. CASE Look \/ Unsupported \/ Command \/ Stop \/ QueryTimeout \/ Note \/ Accepted
  BY <1>2 DEF Look, Unsupported, Command, Stop, QueryTimeout, Note, Accepted
<1>3. CASE Rejected \/ CallTimeout \/ CallFails \/ Stopped
  BY <1>3 DEF Rejected, CallTimeout, CallFails, Stopped
<1>4. CASE ReceiveOdom \/ ReceiveMotion
  BY <1>4 DEF ReceiveOdom, ReceiveMotion
<1>5. CASE Robot
  BY <1>5 DEF Robot, CarryOut, Pretend, Reject, Answer, PublishState, Disturb, client
<1>6. CASE UNCHANGED vars
  BY <1>6 DEF vars
<1> QED  BY <1>1, <1>2, <1>3, <1>4, <1>5, <1>6 DEF Next, Adapter, Awaiting

\* The observation that lifts the barrier of a navigation is newer, on both
\* topics, than the one its target was computed from (query_agv).
THEOREM BarrierIsNewer == Spec => NewerThanGrounding
<1>1. TypeInv /\ BarrierInv /\ [Next]_vars
        => [Lifted => odomSeq > grounded[1] /\ motionSeq > grounded[2]]_vars
  <2> SUFFICES ASSUME TypeInv, BarrierInv, [Next]_vars, Lifted
               PROVE  odomSeq > grounded[1] /\ motionSeq > grounded[2]
    OBVIOUS
  <2>1. Typed
    BY TypedIsTypeOK DEF TypeInv
  <2>2. Above(Received, grounded)
    BY <2>1, LiftedIsFresh, FreshIsAbove DEF Lifted
  <2> QED  BY <2>2 DEF Above, Received
<1> QED  BY <1>1, BarrierInvariant, PTL DEF Spec, NewerThanGrounding

\* Every request is sent on an admission that has, on both topics, a message
\* later than all the last accepted navigation had noted (_admission_failure,
\* navigate_agv_x).
THEOREM AdmissionIsNewer == Spec => AdmittedOnLaterEvidence
<1>1. BarrierInv /\ [Next]_vars
        => [request' # request =>
              admitted[1] > navigated[1] /\ admitted[2] > navigated[2]]_vars
  BY OnlySendSends DEF BarrierInv, Send, Calling, Above
<1> QED  BY <1>1, BarrierInvariant, PTL DEF Spec, AdmittedOnLaterEvidence

\* A stop known as a command is called holds it back until news comes
\* (_admission_failure).
THEOREM KnownStopIsHeeded == Spec => StopIsHeeded
<1>1. HeedInv /\ [Next]_vars
        => [request' # request /\ motionSeq = called => motion = "clear"]_vars
  BY OnlySendSends DEF HeedInv, Send, Calling
<1> QED  BY <1>1, BarrierInvariant, PTL DEF Spec, StopIsHeeded

(***************************************************************************)
(* What a refusal means.                                                   *)
(***************************************************************************)
LEMMA InitRefusal == Init => RefusalInv
  BY DEF Init, RefusalInv, Plain

\* A remark is in the receipt.
LEMMA RemarkIsNotPlain ==
  ASSUME NEW flags, Refuse(flags)
  PROVE  "partial" \in flags \/ "timedOut" \in flags \/ "error" \in flags => ~Plain'
  BY Zenon DEF Refuse, Plain

LEMMA StepRefusal == TypeInv /\ RefusalInv /\ [Next]_vars => RefusalInv'
<1> SUFFICES ASSUME TypeInv, RefusalInv, [Next]_vars PROVE RefusalInv'
  OBVIOUS
<1>a. Typed /\ Room
  BY TypedIsTypeOK DEF TypeInv
<1>b. receipt' = receipt => (Plain <=> Plain')
  BY DEF Plain
<1> USE <1>a, <1>b DEF robot, topics, inbox, evidence, history, client
<1>1. CASE Look
  BY <1>1 DEF RefusalInv, Look, Measure
<1>2. CASE Unsupported
  BY <1>2, RefusedTypes, RemarkIsNotPlain DEF RefusalInv, Unsupported
<1>3. CASE Command
  BY <1>3 DEF RefusalInv, Command, Measure
<1>4. CASE Looked
  BY <1>4, ReturnTypes DEF RefusalInv, Looked
<1>5. CASE Admit
  BY <1>5 DEF RefusalInv, Admit, Measure
<1>6. CASE NotAdmitted
  BY <1>6, RefusedTypes, RemarkIsNotPlain DEF RefusalInv, NotAdmitted
<1>7. CASE Locate
  BY <1>7 DEF RefusalInv, Locate
<1>8. CASE NotLocated
  BY <1>8, RefusedTypes, RemarkIsNotPlain DEF RefusalInv, NotLocated
<1>9. CASE QueryTimeout
  <2>1. CASE pc = "look"
    BY <1>9, <2>1, ReturnTypes DEF RefusalInv, QueryTimeout
  <2>2. CASE pc # "look"
    <3>1. own = {} /\ own' = {}
      BY <1>9, <2>2 DEF RefusalInv, QueryTimeout, Observing
    <3>2. pc' = "idle"
      BY <1>9, <2>2, RefusedTypes DEF QueryTimeout
    <3> QED  BY <1>9, <3>1, <3>2 DEF RefusalInv, QueryTimeout
  <2> QED  BY <2>1, <2>2
<1>10. CASE Send
  <2>1. /\ request \in Nat /\ request' = request + 1
        /\ request' \notin own \cup running \cup moved
    BY <1>10 DEF Typed, RefusalInv, Send, Requests
  <2>2. /\ own' \subseteq 1 .. request' /\ running' \subseteq 1 .. request'
        /\ moved' \subseteq 1 .. request'
    BY <1>10, <2>1 DEF RefusalInv, Send
  <2>3. running' \cap moved' = {} /\ measured' \subseteq moved'
    BY <1>10, <2>1 DEF RefusalInv, Send
  <2>4. /\ request' \in own' /\ (own' = {request'} \/ todo' = <<"pitch">>)
        /\ request' \in running' /\ answer' = None /\ request' \notin moved'
    BY <1>10, <2>1 DEF RefusalInv, Send, Calling
  <2>5. pc' = "await"
    BY <1>10 DEF Send
  <2> QED  BY <2>2, <2>3, <2>4, <2>5 DEF RefusalInv
<1>25. CASE Note
  BY <1>25 DEF RefusalInv, Note
<1>11. CASE Accepted
  <2>1. UNCHANGED <<own, running, moved, measured, request>>
    BY <1>11 DEF Accepted
  <2>2. CASE Tail(todo) = <<>>
    <3>1. pc' = "idle"
      BY <1>11, <2>2, ReturnTypes DEF Accepted
    <3>2. receipt'.accepted
      <4>1. receipt' = [accepted |-> TRUE, partial |-> FALSE, timedOut |-> FALSE,
                        error |-> FALSE]
        BY <1>11, <2>2, Zenon DEF Accepted
      <4> QED  BY <4>1
    <3>3. ~Plain'
      BY <3>2 DEF Plain
    <3> QED  BY <2>1, <3>1, <3>3 DEF RefusalInv
  <2>3. CASE Tail(todo) # <<>>
    <3>1. todo # <<>>
      BY <1>11 DEF Room, Accepted
    <3>2. pc' = "send" /\ todo' = <<"pitch">>
      BY <1>11, <2>3, <3>1, TodoFacts DEF Typed, Accepted
    <3> QED  BY <2>1, <3>2 DEF RefusalInv
  <2> QED  BY <2>2, <2>3
<1>12. CASE Rejected
  <2>1. pc' = "idle" /\ UNCHANGED <<own, running, moved, measured, request>>
    BY <1>12, RefusedTypes DEF Rejected
  <2>2. request \notin moved \cup running
    BY <1>12 DEF RefusalInv, Rejected, None
  <2>3. CASE PartDone = {}
    <3>1. own = {request}
      BY <1>12, <2>3 DEF RefusalInv, Rejected, PartDone
    <3> QED  BY <2>1, <2>2, <3>1 DEF RefusalInv
  <2>4. CASE PartDone # {}
    <3>1. ~Plain'
      BY <1>12, <2>4, RemarkIsNotPlain DEF Rejected, PartDone
    <3> QED  BY <2>1, <3>1 DEF RefusalInv
  <2> QED  BY <2>3, <2>4
<1>13. CASE CallTimeout
  BY <1>13, RefusedTypes, RemarkIsNotPlain DEF RefusalInv, CallTimeout
<1>14. CASE CallFails
  BY <1>14, RefusedTypes, RemarkIsNotPlain DEF RefusalInv, CallFails
<1>15. CASE Stop
  BY <1>15 DEF RefusalInv, Stop
<1>16. CASE Stopped
  BY <1>16, RefusedTypes, RemarkIsNotPlain DEF RefusalInv, Stopped
<1>17. CASE ReceiveOdom
  BY <1>17 DEF RefusalInv, ReceiveOdom
<1>18. CASE ReceiveMotion
  BY <1>18 DEF RefusalInv, ReceiveMotion
<1>19. ASSUME NEW r \in Requests, CarryOut(r) PROVE RefusalInv'
  <2>1. /\ r \in running /\ running' = running \ {r}
        /\ answer' = IF r = request /\ outcome = "awaited" THEN "yes" ELSE answer
        /\ UNCHANGED <<own, measured, request, pc, todo, receipt>>
    BY <1>19 DEF CarryOut, Answer
  <2>2. moved' = moved \cup {r}
    BY <1>19 DEF CarryOut
  <2>3. CASE pc = "await"
    BY <2>1, <2>2, <2>3 DEF RefusalInv, Room, None
  <2>4. CASE pc # "await"
    BY <2>1, <2>2, <2>4 DEF RefusalInv
  <2> QED  BY <2>3, <2>4
<1>20. ASSUME NEW r \in Requests, Pretend(r) PROVE RefusalInv'
  <2>1. /\ r \in running /\ running' = running \ {r}
        /\ answer' = IF r = request /\ outcome = "awaited" THEN "yes" ELSE answer
        /\ UNCHANGED <<own, measured, request, pc, todo, receipt>>
    BY <1>20 DEF Pretend, Answer
  <2>2. moved' = moved
    BY <1>20 DEF Pretend
  <2>3. CASE pc = "await"
    BY <2>1, <2>2, <2>3 DEF RefusalInv, Room, None
  <2>4. CASE pc # "await"
    BY <2>1, <2>2, <2>4 DEF RefusalInv
  <2> QED  BY <2>3, <2>4
<1>21. ASSUME NEW r \in Requests, Reject(r) PROVE RefusalInv'
  <2>1. /\ r \in running /\ running' = running \ {r}
        /\ answer' = IF r = request /\ outcome = "awaited" THEN "no" ELSE answer
        /\ UNCHANGED <<own, measured, request, pc, todo, receipt>>
    BY <1>21 DEF Reject, Answer
  <2>2. moved' = moved
    BY <1>21 DEF Reject
  <2>3. CASE pc = "await"
    BY <2>1, <2>2, <2>3 DEF RefusalInv, Room, None
  <2>4. CASE pc # "await"
    BY <2>1, <2>2, <2>4 DEF RefusalInv
  <2> QED  BY <2>3, <2>4
<1>22. CASE PublishState
  BY <1>22 DEF RefusalInv, PublishState
<1>23. CASE Disturb
  BY <1>23 DEF RefusalInv, Disturb
<1>24. CASE UNCHANGED vars
  BY <1>24 DEF RefusalInv, vars
<1> QED
  BY <1>1, <1>2, <1>3, <1>4, <1>5, <1>6, <1>7, <1>8, <1>9, <1>10, <1>11, <1>12, <1>13,
     <1>14, <1>15, <1>16, <1>17, <1>18, <1>19, <1>20, <1>21, <1>22, <1>23, <1>24, <1>25
  DEF Next, Adapter, Awaiting, Robot

\* The inductive invariant behind what a refusal means, and the refinement.
LEMMA RefusalInvariant == Spec => [](TypeInv /\ RefusalInv)
<1>1. Init => TypeInv /\ RefusalInv
  BY InitTypes, InitRefusal
<1>2. TypeInv /\ RefusalInv /\ [Next]_vars => TypeInv' /\ RefusalInv'
  BY StepTypes, StepRefusal
<1> QED  BY <1>1, <1>2, PTL DEF Spec

\* A receipt that was refused with no remark means that nothing of the command
\* has moved the robot or will (command).
THEOREM RefusalIsHarmless == Spec => []PlainRefusalIsHarmless
<1>1. RefusalInv => PlainRefusalIsHarmless
  BY DEF RefusalInv, PlainRefusalIsHarmless, Plain
<1> QED  BY <1>1, RefusalInvariant, PTL

(***************************************************************************)
(* Axes and arms are a remote backend.                                     *)
(***************************************************************************)
LEMMA InitMaps == Init => Remote!Init
  BY DEF Init, Remote!Init, Open, World, None

\* The adapter measures what the robot did.
LEMMA ReadMaps ==
  ASSUME outcome # "awaited", measured \subseteq measured', measured' \subseteq moved,
         UNCHANGED <<request, outcome, running, moved>>
  PROVE  Remote!Next
  BY DEF Remote!Next, Remote!Read, Remote!Precedes, Open, World

\* A refused request may be running still, or have been answered.
LEMMA RefuseMaps ==
  ASSUME outcome = "awaited", outcome' = "refused",
         UNCHANGED <<request, running, moved, measured>>
  PROVE  Remote!Next
<1>1. Open' = running /\ Open = running \cup {request}
  BY DEF Open
<1>2. Open' \in {Open, Open \ {request}}
  BY <1>1
<1> QED  BY <1>2 DEF Remote!Next, Remote!Refuse, World

LEMMA StutterMaps ==
  ASSUME UNCHANGED <<request, outcome, running, moved, measured>>
  PROVE  UNCHANGED Remote!vars
  BY DEF Remote!vars, Open, World

\* Adding to the requests carried out leaves the other field of a world.
LEMMA MovedField ==
  \A m, b, c : [[moved |-> m, clear |-> b] EXCEPT !.moved = c] = [moved |-> c, clear |-> b]
  OBVIOUS

\* A service is done with a request that only the adapter may still wait for.
LEMMA DoneOpen ==
  ASSUME NEW r \in running, running' = running \ {r}, UNCHANGED <<request, outcome>>
  PROVE  /\ r \in Open /\ Open' \in {Open, Open \ {r}}
         /\ Open' # Open => outcome # "awaited" \/ r # request
  BY DEF Open

LEMMA StepMaps ==
  TypeInv /\ RefusalInv /\ RefusalInv' /\ [Next]_vars => [Remote!Next]_(Remote!vars)
<1> SUFFICES ASSUME TypeInv, RefusalInv, RefusalInv', [Next]_vars
             PROVE  [Remote!Next]_(Remote!vars)
  OBVIOUS
<1>a. Room /\ Typed
  BY TypedIsTypeOK DEF TypeInv
<1> USE <1>a DEF robot, topics, inbox, evidence, history, client
<1>1. CASE Look
  <2>1. /\ outcome # "awaited" /\ measured \subseteq measured' /\ measured' \subseteq moved
        /\ UNCHANGED <<request, outcome, running, moved>>
    BY <1>1 DEF Look, Measure, Room, RefusalInv
  <2> QED  BY <2>1, ReadMaps
<1>2. CASE Command
  <2>1. /\ outcome # "awaited" /\ measured \subseteq measured' /\ measured' \subseteq moved
        /\ UNCHANGED <<request, outcome, running, moved>>
    BY <1>2 DEF Command, Measure, Room, RefusalInv
  <2> QED  BY <2>1, ReadMaps
<1>3. CASE Admit
  <2>1. /\ outcome # "awaited" /\ measured \subseteq measured' /\ measured' \subseteq moved
        /\ UNCHANGED <<request, outcome, running, moved>>
    BY <1>3 DEF Admit, Measure, Room, RefusalInv
  <2> QED  BY <2>1, ReadMaps
<1>4. CASE Send
  <2>1. /\ outcome # "awaited" /\ outcome' = "awaited"
        /\ request' = request + 1 /\ running' = running \cup {request'}
        /\ UNCHANGED <<moved, measured>>
    BY <1>4 DEF Send, Calling, Room
  <2>2. request + 1 \in Requests
    <3>0. todo # <<>> /\ request + Len(todo) <= MaxRequests
      BY <1>4 DEF Room, Send, Calling
    <3>1. Len(todo) \in Nat /\ Len(todo) > 0 /\ request + Len(todo) <= MaxRequests
      BY <3>0, TodoFacts DEF Typed
    <3> QED  BY <3>1, TransportBounds DEF Typed, Requests
  <2>3. Open' = Open \cup {request'}
    BY <2>1 DEF Open
  <2> QED  BY <2>1, <2>2, <2>3 DEF Remote!Next, Remote!Send, World
<1>5. CASE Accepted
  <2>1. /\ outcome = "awaited" /\ outcome' = "accepted" /\ request \notin running
        /\ UNCHANGED <<request, running, moved, measured>>
    BY <1>5 DEF Accepted, Room, RefusalInv, None
  <2>2. Open' = Open \ {request}
    BY <2>1 DEF Open
  <2> QED  BY <2>1, <2>2 DEF Remote!Next, Remote!Accept, World
<1>6. CASE Rejected
  BY <1>6, RefuseMaps DEF Rejected, Room
<1>7. CASE CallTimeout
  BY <1>7, RefuseMaps DEF CallTimeout, Room
<1>8. CASE CallFails
  <2>1. CASE pc = "await"
    BY <1>8, <2>1, RefuseMaps DEF CallFails, Room
  <2>2. CASE pc # "await"
    BY <1>8, <2>2, StutterMaps DEF CallFails
  <2> QED  BY <2>1, <2>2
<1>9. ASSUME NEW r \in Requests, CarryOut(r) PROVE [Remote!Next]_(Remote!vars)
  <2>1. /\ r \in running \ moved /\ running' = running \ {r}
        /\ moved' = moved \cup {r}
        /\ UNCHANGED <<request, outcome, measured>>
    BY <1>9 DEF CarryOut, Answer, RefusalInv
  <2>2. r \in Open /\ Open' \in {Open, Open \ {r}}
    BY <2>1, DoneOpen
  <2>3. World(moved)' = [World(moved) EXCEPT !.moved = @ \cup {<<r, r>>}]
    <3>1. World(moved)' = World(moved \cup {r})
      BY <2>1 DEF World
    <3>2. World(moved \cup {r}).moved = World(moved).moved \cup {<<r, r>>}
      BY DEF World
    <3>3. [World(moved) EXCEPT !.moved = World(moved).moved \cup {<<r, r>>}]
             = World(moved \cup {r})
      BY <3>2, MovedField, Zenon DEF World
    <3> QED  BY <3>1, <3>3
  <2>4. \A m \in World(moved).moved : m[1] # r
    BY <2>1 DEF World
  <2>5. World(measured)' = World(measured)
    BY <2>1 DEF World
  <2>6. Remote!CarryOut(r, r)
    BY <2>1, <2>2, <2>3, <2>4, <2>5 DEF Remote!CarryOut
  <2> QED  BY <2>2, <2>6 DEF Remote!Next, Remote!Move
<1>10. ASSUME NEW r \in Requests, Pretend(r) PROVE [Remote!Next]_(Remote!vars)
  <2>1. /\ r \in running /\ running' = running \ {r}
        /\ UNCHANGED <<request, outcome, moved, measured>>
    BY <1>10 DEF Pretend, Answer
  <2>2. CASE Open' = Open
    BY <2>1, <2>2 DEF Remote!vars, World
  <2>3. CASE Open' # Open
    BY <2>1, <2>3, DoneOpen DEF Remote!Next, Remote!Expire, Remote!GivenUp, World
  <2> QED  BY <2>2, <2>3
<1>11. ASSUME NEW r \in Requests, Reject(r) PROVE [Remote!Next]_(Remote!vars)
  <2>1. /\ r \in running /\ running' = running \ {r}
        /\ UNCHANGED <<request, outcome, moved, measured>>
    BY <1>11 DEF Reject, Answer
  <2>2. CASE Open' = Open
    BY <2>1, <2>2 DEF Remote!vars, World
  <2>3. CASE Open' # Open
    BY <2>1, <2>3, DoneOpen DEF Remote!Next, Remote!Expire, Remote!GivenUp, World
  <2> QED  BY <2>2, <2>3
<1>12. CASE \/ Unsupported \/ Looked \/ NotAdmitted \/ Locate \/ NotLocated
            \/ QueryTimeout \/ Note
  BY <1>12, StutterMaps
  DEF Note, Unsupported, Looked, NotAdmitted, Locate, NotLocated, QueryTimeout
<1>13. CASE Stop \/ Stopped \/ ReceiveOdom \/ ReceiveMotion \/ PublishState \/ Disturb
  BY <1>13, StutterMaps DEF Stop, Stopped, ReceiveOdom, ReceiveMotion, PublishState, Disturb
<1>14. CASE UNCHANGED vars
  BY <1>14, StutterMaps DEF vars
<1> QED
  BY <1>1, <1>2, <1>3, <1>4, <1>5, <1>6, <1>7, <1>8, <1>9, <1>10, <1>11, <1>12, <1>13, <1>14
  DEF Next, Adapter, Awaiting, Robot

\* Requests on axes and arms are carried out at most once and never after they were
\* accepted, and what is measured is never ahead of the robot
\* (move_external_axis, move_arm_joints, observe).
THEOREM Refinement == Spec => ImplementsRemoteBackend
<1>1. TypeInv /\ RefusalInv /\ RefusalInv' /\ [Next]_vars => [Remote!Next]_(Remote!vars)
  BY StepMaps
<1> QED
  BY <1>1, InitMaps, RefusalInvariant, PTL DEF Spec, ImplementsRemoteBackend, Remote!Spec
=============================================================================
