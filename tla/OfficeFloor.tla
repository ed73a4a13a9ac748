----------------------------- MODULE OfficeFloor -----------------------------
(***************************************************************************)
(* The robots of the 3D office (client/src/views/office3d): officeMove.ts    *)
(* plans a walk when a task's place changes, OfficeCharacterView.tsx         *)
(* carries it out frame by frame and officeLook.ts keeps the desks of a room *)
(* still while a robot is up.  A place is a room and a desk in it; how the   *)
(* desks of a row are spread is DeskRow's, the ways between rooms are not    *)
(* modelled.                                                               *)
(***************************************************************************)
EXTENDS Integers, Sequences, FiniteSets

CONSTANTS
    Tasks,                 \* 1..n, in the order the list of tasks has
    Rooms,                 \* rooms with desks; "done", "aborted" and "none" are not
    DeskLimit,             \* SCENE_DESK_LIMIT
    Lounge, Drops, Counter,      \* how many sofa seats, drop spots and pickup spots there are
    MaxActors,             \* MAX_ACTORS
    Reopens,               \* may a task be in a room again while its robot is on its way out
    MaxChanges             \* bound on the changes of a task's phase

VARIABLES
    phase,     \* where each task is; "none": not in the list
    rows,      \* the desks shown in each room
    prev,      \* prevPlaces: each task's place at the last frame
    actor,     \* the robot of each task
    booted,    \* there was a frame before
    changes

vars == <<phase, rows, prev, actor, booted, changes>>

Terminal == {"done", "aborted"}
Nowhere == [zone |-> "none", drawn |-> FALSE]
Nobody == [at |-> "nobody", key |-> <<"none", "">>, where |-> "aisle", target |-> "", holds |-> <<>>, end |-> "rest",
           seat |-> 0, drop |-> 0, spot |-> 0, delivering |-> FALSE, left |-> FALSE, origin |-> ""]

Init ==
    /\ phase \in [Tasks -> Rooms \cup {"none"}]
    /\ rows = [z \in Rooms |-> {}]
    /\ prev = [t \in Tasks |-> Nowhere]
    /\ actor = [t \in Tasks |-> Nobody]
    /\ booted = FALSE /\ changes = 0

Up(a) == a.at \in {"celebrate", "walk", "pickup", "throw", "shrink"}     \* moving
Alive(a) == a.at \notin {"nobody", "dead"}

First(n, some) == {t \in some : Cardinality({u \in some : u < t}) < n}

-----------------------------------------------------------------------------
(* The desks of a room (deskHoldForRoom, commitRoomDesks) *)

Desired(z) == First(DeskLimit, {t \in Tasks : phase[t] = z})

\* A desk stays until its robot has gone, or left the room on the way to the lounge.
Retained(z, all) ==
    {t \in rows[z] \ Desired(z) :
        /\ Alive(all[t])
        /\ ~(all[t].delivering /\ all[t].left)
        /\ Up(all[t]) \/ prev[t].zone = z}

\* A full row takes a newcomer only once a leaving desk is released.
RowOf(z, all) ==
    LET kept == Desired(z) \cup Retained(z, all)
        old == kept \cap rows[z]
    IN  IF Cardinality(kept) <= DeskLimit \/ rows[z] = {} THEN kept
        ELSE old \cup First(DeskLimit - Cardinality(old), kept \ old)

Place(t, shown) ==
    [zone |-> phase[t],
     drawn |-> phase[t] \in Rooms /\ t \in Desired(phase[t]) /\ t \in shown[phase[t]]]

KeyOf(p) ==
    <<IF p.zone \in Terminal \cup {"none"} THEN "out" ELSE IF p.drawn THEN "seat" ELSE "overflow", p.zone>>

-----------------------------------------------------------------------------
(* Plans (planMoveRoute) *)

Move(p, q, snap) ==
    IF snap \/ ~booted THEN (IF ~booted /\ ~q.drawn THEN "skip" ELSE "place")
    ELSE IF p.zone = "none"
         THEN IF q.drawn THEN "enter"
              ELSE IF q.zone \in Terminal THEN "skip"
              ELSE IF q.zone = "inbox" THEN "place" ELSE "overflow"
    ELSE IF q.zone \in Terminal
         THEN IF ~p.drawn THEN "vanish" ELSE IF q.zone = "done" THEN "deliver" ELSE "throw"
    ELSE IF p.drawn /\ q.drawn THEN (IF p.zone = q.zone THEN "place" ELSE "walk")
    ELSE IF p.drawn /\ q.zone # "none" THEN "overflow"
    ELSE IF q.drawn THEN (IF p.zone \in Terminal THEN "place" ELSE "enter")
    ELSE "vanish"

\* needsReceptionPickup: who comes in by the reception takes an envelope there.
Collects(p, q, move) ==
    \/ p.zone = "none" /\ move \in {"enter", "overflow"}
    \/ q.zone = "inbox" /\ move = "enter"

LowestFree(n, taken) ==
    LET free == 1..n \ taken
    IN  IF free = {} THEN 0 ELSE CHOOSE s \in free : \A u \in free : s <= u

\* begin: leftOrigin is the one field it does not start over.
Fresh(a, q) ==
    [Nobody EXCEPT !.key = KeyOf(q), !.where = a.where, !.left = a.left, !.origin = a.origin, !.target = q.zone]

Started(a, p, q, move, spot, drop, seat, joins) ==
    LET fresh == Fresh(a, q)
        \* resumeMove: one who is up joins the route where it is nearest, past its stops or not
        stops(s) == IF Up(a) /\ joins THEN <<>> ELSE s
        from == IF Up(a) THEN a.where ELSE p.zone
    IN  IF move = "place" THEN
             IF q.drawn THEN [fresh EXCEPT !.at = "rest", !.where = q.zone]
             ELSE [fresh EXCEPT !.at = "dead"]
        ELSE IF move = "vanish" THEN [fresh EXCEPT !.at = "shrink"]
        ELSE IF move \in {"enter", "overflow"} THEN
             [fresh EXCEPT !.at = "walk", !.end = IF move = "enter" THEN "rest" ELSE "shrink",
                 !.where = IF Up(a) THEN a.where ELSE IF move = "overflow" /\ p.drawn THEN p.zone ELSE "aisle",
                 !.holds = IF spot = 0 THEN <<>> ELSE stops(<<"pickup">>),
                 !.spot = IF spot = 0 \/ stops(<<"pickup">>) = <<>> THEN 0 ELSE spot]
        ELSE IF move = "walk" THEN [fresh EXCEPT !.at = "walk", !.where = from]
        ELSE IF move = "throw" THEN
             [fresh EXCEPT !.at = "walk", !.end = "shrink", !.where = from, !.origin = p.zone,
                 !.delivering = TRUE, !.drop = drop,
                 !.holds = IF drop = 0 THEN <<>> ELSE stops(<<"throw">>)]
        ELSE \* deliver: celebrate first
             [fresh EXCEPT !.at = "celebrate", !.where = from, !.origin = p.zone,
                 !.delivering = TRUE, !.seat = seat, !.end = IF seat = 0 THEN "shrink" ELSE "sit"]

-----------------------------------------------------------------------------
(* One frame (syncActors, advance) *)

Marked(a) == IF a.delivering /\ a.where # a.origin THEN [a EXCEPT !.left = TRUE] ELSE a

\* Slip: only a robot that sits holds its seat of the sofa.
TakenSeatsBySitters(all, t) == {all[u].seat : u \in {v \in Tasks \ {t} : all[v].at = "sit"}}

TakenSeats(all, t) == {all[u].seat : u \in {v \in Tasks \ {t} : Alive(all[v])}}

TakenDrops(all) == {all[u].drop : u \in {v \in Tasks : Alive(all[v])}}

\* A walker holds its spot while its envelope is on the counter.
TakenSpots(all) == {all[u].spot : u \in {v \in Tasks : Alive(all[v])}}

Was(a) == IF a.at = "dead" THEN Nobody ELSE a

\* A robot keeps to its plan as long as its place has the same key; no robot is made when
\* there are too many, or for a plan that ends at once.
Stays(all, t, q, snap) ==
    LET a == Was(all[t])
        move == Move(prev[t], q, snap)
    IN  \/ a # Nobody /\ a.key = KeyOf(q) /\ ~(snap /\ (Up(a) \/ a.at = "sit") /\ q.zone # "none")
        \/ q.zone = "none" /\ (a = Nobody \/ ~booted)
        \/ /\ a = Nobody
           /\ \/ Cardinality({u \in Tasks : all[u].at # "nobody"}) >= MaxActors
              \/ move = "vanish"
              \/ move = "place" /\ ~q.drawn
        \/ move = "skip"

Synced(all, t, q, snap, joins) ==
    LET move == Move(prev[t], q, snap)
        spot == IF Collects(prev[t], q, move) /\ ~snap THEN LowestFree(Counter, TakenSpots(all)) ELSE 0
        drop == IF move = "throw" THEN LowestFree(Drops, TakenDrops(all)) ELSE 0
        seat == LowestFree(Lounge, TakenSeats(all, t))
    IN  [all EXCEPT ![t] = IF Stays(all, t, q, snap) THEN Was(all[t])
                           ELSE Started(Was(all[t]), prev[t], q, move, spot, drop, seat, joins)]

\* One stage further; how long each takes is not modelled.
Advanced(a) ==
    IF a.at = "celebrate" THEN [a EXCEPT !.at = "walk"]
    ELSE IF a.at = "walk" THEN
         IF a.where # "aisle" THEN [a EXCEPT !.where = "aisle"]
         ELSE IF a.holds # <<>> THEN [a EXCEPT !.at = Head(a.holds), !.holds = <<>>]
         ELSE IF a.end = "rest" THEN [a EXCEPT !.at = "rest", !.where = a.target]
         ELSE [a EXCEPT !.at = a.end]
    ELSE IF a.at = "pickup" THEN [a EXCEPT !.at = "walk", !.spot = 0]
    ELSE IF a.at = "throw" THEN [a EXCEPT !.at = "walk", !.drop = 0]
    ELSE IF a.at = "sit" THEN [a EXCEPT !.at = "shrink"]
    ELSE IF a.at = "shrink" THEN Nobody
    ELSE a

\* The tasks in the list have their turns in its order, then those that left it.
Tasked(i) == IF i <= Cardinality(Tasks) THEN i ELSE i - Cardinality(Tasks)

Turn(all, i, place, snap, joins) ==
    LET t == Tasked(i)
    IN  IF (phase[t] # "none") = (i <= Cardinality(Tasks)) THEN Synced(all, t, place[t], snap, joins[t]) ELSE all

AllSynced(marked, place, snap, joins) ==
    LET n == 2 * Cardinality(Tasks)
        synced[i \in 0..n] == IF i = 0 THEN marked ELSE Turn(synced[i - 1], i, place, snap, joins)
    IN  synced[n]

\* A robot that is up joins its new route before its stops or past them.
Frame(snap, choices, go) ==
    \E marked \in {[t \in Tasks |-> Marked(actor[t])]} :
    \E shown \in {[z \in Rooms |-> RowOf(z, marked)]} :
    \E place \in {[t \in Tasks |-> Place(t, shown)]} :
    \E joins \in [Tasks -> choices] :
    \E synced \in {AllSynced(marked, place, snap, joins)} :
        /\ rows' = shown
        /\ prev' = place
        /\ actor' = [t \in Tasks |->
              IF synced[t].at = "dead" THEN Nobody
              ELSE IF t \in go THEN Advanced(synced[t]) ELSE synced[t]]
        /\ booted' = TRUE
        /\ UNCHANGED <<phase, changes>>

\* A load of the lists brings another phase.
Changes(t, p) ==
    /\ changes < MaxChanges /\ p # phase[t]
    /\ p \in Rooms /\ (actor[t].delivering \/ actor[t].left) => Reopens
    /\ phase' = [phase EXCEPT ![t] = p]
    /\ changes' = changes + 1
    /\ UNCHANGED <<rows, prev, actor, booted>>

Next ==
    \/ \E t \in Tasks, p \in Rooms \cup Terminal \cup {"none"} : Changes(t, p)
    \/ \E snap \in BOOLEAN, go \in SUBSET Tasks : (snap => go = {}) /\ Frame(snap, BOOLEAN, go)

Spec == Init /\ [][Next]_vars

\* Frames come while the page is visible, and a walk ends.
FairSpec == Spec /\ WF_vars(Frame(FALSE, {FALSE}, Tasks))

-----------------------------------------------------------------------------

\* No two robots are given one seat of the sofa, drop spot or pickup spot.
SpotsApart ==
    \A t, u \in Tasks : t # u =>
        /\ actor[t].seat # 0 => actor[t].seat # actor[u].seat
        /\ actor[t].drop # 0 => actor[t].drop # actor[u].drop
        /\ actor[t].spot # 0 => actor[t].spot # actor[u].spot

\* officeLook.ts 76-80: the desk of a robot that is in the room is in the row, so that no
\* desk jumps under one that celebrates or walks out; and a row never grows past its limit.
\* (A robot on its way from one room to another whose task is finished meanwhile counts
\* as one of the room it was going to.)
DeskUnderRobot ==
    \A z \in Rooms :
        /\ Cardinality(rows[z]) <= DeskLimit
        /\ \A t \in Tasks : 
              /\ Alive(actor[t]) /\ actor[t].where = z
              /\ actor[t].delivering \/ actor[t].left => actor[t].origin = z
              => t \in rows[z]

\* Whatever happened on the way, in the end the robots of the tasks with a desk sit at
\* theirs, and there are no others.
Settled ==
    \A t \in Tasks :
        LET p == Place(t, rows)
        IN  IF phase[t] \in Rooms /\ t \in Desired(phase[t])
            THEN p.drawn /\ actor[t].at = "rest" /\ actor[t].where = phase[t]
            ELSE actor[t] = Nobody

RobotsSettle == []<>Settled
=============================================================================
