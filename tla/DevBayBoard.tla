----------------------------- MODULE DevBayBoard -----------------------------
(***************************************************************************)
(* The gate board of the 3D office (client/src/views/office3d): a note per  *)
(* task of the Dev Bay in the column of its next gate.  When a gate          *)
(* resolves the note waits for the task's own robot to walk to the board     *)
(* (officeDevBay.ts, stepBoard; officeDevBayView.tsx, useFrame), and the      *)
(* robots (OfficeCharacterView.tsx) answer over four sets of messages.       *)
(***************************************************************************)
EXTENDS Integers, Sequences, FiniteSets

CONSTANTS
    Tasks,
    Gates,          \* a task has Gates gates; its state is how many have resolved
    Grace, Longest, \* CLAIM_GRACE_MS, HOLD_MAX_MS, in ticks
    MaxChanges      \* bound on the changes of the gates and of the room

VARIABLES
    gates,     \* resolved gates of each task
    inBay,     \* the tasks of the room
    seen,      \* resolved gates of each task at the last step, -1: not seen
    hold,      \* the note that waits: the gates it keeps, how long, claimed or not
    shown,     \* the gates the board draws, -1: no note
    requests, claimed, arrived, rejected,      \* the bus: tasks
    robot,     \* none, idle, away (another walk), walking (to the board), atBoard, home
    pending,   \* boardPending
    changes

vars == <<gates, inBay, seen, hold, shown, requests, claimed, arrived, rejected, robot, pending, changes>>
bus == <<requests, claimed, arrived, rejected>>

NoHold == [gates |-> -1, age |-> 0, claimed |-> FALSE]
Holding(t) == hold[t] # NoHold

Init ==
    /\ gates = [t \in Tasks |-> 0]
    /\ inBay = Tasks
    /\ seen = [t \in Tasks |-> -1]
    /\ hold = [t \in Tasks |-> NoHold]
    /\ shown = [t \in Tasks |-> -1]
    /\ requests = {} /\ claimed = {} /\ arrived = {} /\ rejected = {}
    /\ robot \in [Tasks -> {"none", "idle"}]
    /\ pending = {} /\ changes = 0

-----------------------------------------------------------------------------
(* The board (stepBoard) *)

\* Slip: a claimed note waits until its robot is there.
OverUnlessClaimed(t, now) ==
    \/ t \in arrived \cup rejected
    \/ ~now.claimed /\ now.age > Grace

Over(t, now) ==
    \/ t \in arrived \cup rejected
    \/ ~now.claimed /\ now.age > Grace
    \/ now.age > Longest

Kept(t, snap) ==
    LET now == [hold[t] EXCEPT !.claimed = @ \/ t \in claimed]
    IN  IF ~Holding(t) \/ snap \/ t \notin inBay \/ Over(t, now) THEN NoHold ELSE now

\* A gate resolved since the last step: a note that waits, or waited until now, does not start again.
Waits(t, snap) ==
    /\ ~snap /\ t \in inBay /\ ~Holding(t)
    /\ seen[t] # -1 /\ gates[t] > seen[t]

Step(snap) ==
    /\ hold' = [t \in Tasks |->
          IF Waits(t, snap) THEN [gates |-> seen[t], age |-> 0, claimed |-> FALSE] ELSE Kept(t, snap)]
    /\ shown' = [t \in Tasks |->
          IF t \notin inBay THEN -1 ELSE IF hold'[t] # NoHold THEN hold'[t].gates ELSE gates[t]]
    /\ seen' = [t \in Tasks |-> IF t \in inBay THEN gates[t] ELSE -1]

BoardFrame(snap) ==
    /\ Step(snap)
    /\ requests' = requests \cup {t \in Tasks : Waits(t, snap)}
    /\ claimed' = {} /\ arrived' = {} /\ rejected' = {}
    /\ UNCHANGED <<gates, inBay, robot, pending, changes>>

\* useLayoutEffect: nothing animates, and the messages stay where they are.
Jump ==
    /\ Step(TRUE)
    /\ UNCHANGED <<gates, inBay, bus, robot, pending, changes>>

-----------------------------------------------------------------------------
(* The robots (serveBoardRequests, advance, holdBoard) *)

Goes(t, snap) == t \in requests /\ robot[t] = "idle" /\ t \in inBay /\ ~snap

\* How a robot goes on.  A walk it is given meanwhile clears boardPending and answers nothing.
Moved(t) ==
    CASE robot[t] = "walking" -> {"walking", "atBoard"}
      [] robot[t] = "atBoard" -> {"atBoard", "home"}
      [] robot[t] \in {"home", "away"} -> {robot[t], "idle"}
      [] OTHER -> {robot[t]}

RobotFrame(snap, next) ==
    LET going == {t \in Tasks : Goes(t, snap)}
        after == [t \in Tasks |-> IF t \in going THEN "walking" ELSE next[t]]
        there == {t \in pending : robot[t] = "walking" /\ next[t] = "atBoard"}
        lost == {t \in pending : robot[t] \notin {"walking", "atBoard"}}
    IN  /\ robot' = after
        /\ requests' = {}
        /\ claimed' = claimed \cup going
        /\ rejected' = rejected \cup (requests \ going) \cup lost
        /\ arrived' = arrived \cup there
        /\ pending' = (pending \ (lost \cup there)) \cup going
        /\ UNCHANGED <<gates, inBay, seen, hold, shown, changes>>

Frame(snap) == \E next \in [Tasks -> {"none", "idle", "away", "walking", "atBoard", "home"}] :
    /\ \A t \in Tasks : next[t] \in Moved(t)
    /\ RobotFrame(snap, next)

\* begin: the robot is sent somewhere else, or is gone.
Leaves(t, to) ==
    /\ changes < MaxChanges /\ robot[t] # to
    /\ robot' = [robot EXCEPT ![t] = to]
    /\ pending' = pending \ {t}
    /\ changes' = changes + 1
    /\ UNCHANGED <<gates, inBay, seen, hold, shown, bus>>

-----------------------------------------------------------------------------

\* A load brings other gates; a gate may be opened again.
GatesChange(t, n) ==
    /\ changes < MaxChanges /\ n # gates[t]
    /\ gates' = [gates EXCEPT ![t] = n]
    /\ changes' = changes + 1
    /\ UNCHANGED <<inBay, seen, hold, shown, bus, robot, pending>>

RoomChanges(t) ==
    /\ changes < MaxChanges
    /\ inBay' = (inBay \cup {t}) \ (inBay \cap {t})
    /\ changes' = changes + 1
    /\ UNCHANGED <<gates, seen, hold, shown, bus, robot, pending>>

Ages == [t \in Tasks |->
    IF Holding(t) /\ hold[t].age <= Longest THEN [hold[t] EXCEPT !.age = @ + 1] ELSE hold[t]]

Tick ==
    /\ hold' = Ages /\ hold' # hold
    /\ UNCHANGED <<gates, inBay, seen, shown, bus, robot, pending, changes>>

Next ==
    \/ \E snap \in BOOLEAN : BoardFrame(snap) \/ Frame(snap)
    \/ Jump \/ Tick
    \/ \E t \in Tasks, to \in {"none", "idle", "away"} : Leaves(t, to)
    \/ \E t \in Tasks, n \in 0..Gates : GatesChange(t, n)
    \/ \E t \in Tasks : RoomChanges(t)

Spec == Init /\ [][Next]_vars

\* The page is visible: the board and the robots get frames, and time passes.
FairSpec == Spec /\ WF_vars(BoardFrame(FALSE)) /\ WF_vars(Tick)

-----------------------------------------------------------------------------

\* Whatever becomes of the robots, each note comes to show its task's gates (and a task that
\* left the room has none): no robot that never comes keeps a note back.
UpToDate == \A t \in Tasks : shown[t] = IF t \in inBay THEN gates[t] ELSE -1

BoardSettles == []<>UpToDate
=============================================================================
