--------------------------- MODULE RemoteBackend ---------------------------
(***************************************************************************)
(* What a backend on the other side of a network promises to its caller.   *)
(*                                                                         *)
(* A command may be answered late or not at all, and then the robot may    *)
(* still carry it out at any time; but each request moves the robot at     *)
(* most once, and never after the caller was told that it has ended, and   *)
(* what the caller is shown is never ahead of the robot nor behind what it *)
(* was shown before.  A robot that keeps one command for all requests may  *)
(* take that of a later request for one that was given up on: the later    *)
(* command is then carried out by both, at any time.                       *)
(***************************************************************************)
EXTENDS Integers

CONSTANTS
    Requests,
    Shared     \* whether the robot keeps one command for all requests

VARIABLES
    last,     \* the number of the last request
    receipt,  \* none | awaited | accepted | refused: the answer to the last command
    open,     \* the requests the robot may still carry out
    world,    \* [moved: <<r, c>> if request r carried out c's command, clear: are all
              \* sensors clear]
    shown     \* the world as the caller knows it

vars == <<last, receipt, open, world, shown>>

\* a is the same world as b, or an earlier one.
Precedes(a, b) == a.moved \subseteq b.moved /\ (a.clear => b.clear)

Init ==
    /\ last = 0
    /\ receipt = "none"
    /\ open = {}
    /\ world \in [moved : {{}}, clear : BOOLEAN]
    /\ shown = world

Send ==
    /\ receipt # "awaited"
    /\ last + 1 \in Requests
    /\ last' = last + 1
    /\ receipt' = "awaited"
    /\ open' = open \cup {last'}
    /\ UNCHANGED <<world, shown>>

\* An accepted receipt closes the request, a refused one may leave it open.
Accept ==
    /\ receipt = "awaited"
    /\ receipt' = "accepted"
    /\ open' = open \ {last}
    /\ UNCHANGED <<last, world, shown>>

Refuse ==
    /\ receipt = "awaited"
    /\ receipt' = "refused"
    /\ open' \in {open, open \ {last}}
    /\ UNCHANGED <<last, world, shown>>

\* Nobody waits for the request any more.
GivenUp(r) == receipt # "awaited" \/ r # last

\* An open request moves the robot, in its own time, and may be done with it.
CarryOut(r, command) ==
    /\ r \in open
    /\ \A move \in world.moved : move[1] # r
    /\ world' = [world EXCEPT !.moved = @ \cup {<<r, command>>}]
    /\ open' \in {open, open \ {r}}
    /\ UNCHANGED <<last, receipt, shown>>

Move == \E r \in open : CarryOut(r, r)

\* By the time a request that was given up on is begun, the robot has the
\* command of a later one.
MoveOvertaken ==
    /\ Shared
    /\ \E r \in open : GivenUp(r) /\ \E later \in r + 1 .. last : CarryOut(r, later)

Expire ==
    /\ \E r \in open : GivenUp(r) /\ open' = open \ {r}
    /\ UNCHANGED <<last, receipt, world, shown>>

\* Active sensing takes a number and may clear the robot's sensors.
Sense ==
    /\ receipt # "awaited"
    /\ last + 1 \in Requests
    /\ last' = last + 1
    /\ UNCHANGED <<receipt, open, world, shown>>

Clear ==
    /\ world' = [world EXCEPT !.clear = TRUE]
    /\ UNCHANGED <<last, receipt, open, shown>>

Read ==
    /\ receipt # "awaited"
    /\ shown' \in [moved : SUBSET world.moved, clear : BOOLEAN]
    /\ Precedes(shown, shown')
    /\ Precedes(shown', world)
    /\ UNCHANGED <<last, receipt, open, world>>

Next ==
    \/ Send \/ Accept \/ Refuse
    \/ Move \/ MoveOvertaken \/ Expire
    \/ Sense \/ Clear \/ Read

Spec == Init /\ [][Next]_vars
============================================================================
