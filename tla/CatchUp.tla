------------------------------- MODULE CatchUp -------------------------------
(***************************************************************************)
(* The latch that makes the 3D office place what it missed instead of        *)
(* walking it (client/src/views/office3d/officeCatchUp.ts): each room view    *)
(* keeps one, fed by the stream's phases and by the page's visibility;        *)
(* Office3DView.tsx loads the tasks again when the stream comes back and       *)
(* tells the views when that load has arrived.                              *)
(***************************************************************************)
EXTENDS Integers

CONSTANTS MaxWorld      \* bound on the changes of the tasks

VARIABLES
    world,        \* the state of the tasks on the server: a counter
    missed,       \* the changes made while the stream was closed again
    open, sawOpen, closedAfterOpen,      \* the stream, as Office3DView follows it
    awaiting,     \* awaitingReload
    load,         \* a load on its way: unread, or what it has read; -1: none
    data,         \* the tasks the page has
    armed,        \* the view's latch
    animate,      \* the page is visible
    placed        \* what the robots show

vars == <<world, missed, open, sawOpen, closedAfterOpen, awaiting, load, data, armed, animate, placed>>
phase == <<open, sawOpen, closedAfterOpen>>

None == -1
Unread == -2

Init ==
    /\ world = 0 /\ missed = {}
    /\ open \in BOOLEAN /\ sawOpen = open /\ closedAfterOpen = FALSE
    /\ awaiting = FALSE /\ load = None /\ data = 0
    /\ armed = FALSE /\ animate = TRUE /\ placed = 0

\* onStreamPhase, in Office3DView and in each view's effect.
StreamOpens ==
    LET reload == sawOpen /\ closedAfterOpen
    IN  /\ ~open
        /\ open' = TRUE /\ sawOpen' = TRUE /\ closedAfterOpen' = FALSE
        /\ armed' = (armed \/ reload)
        /\ awaiting' = (awaiting \/ reload)
        /\ load' = IF reload THEN Unread ELSE load      \* dashboard:refresh
        /\ UNCHANGED <<world, missed, data, animate, placed>>

StreamCloses ==
    /\ open
    /\ open' = FALSE /\ closedAfterOpen' = (sawOpen \/ closedAfterOpen)
    /\ armed' = (armed \/ sawOpen)
    /\ UNCHANGED <<world, missed, sawOpen, awaiting, load, data, animate, placed>>

Change ==
    /\ world < MaxWorld
    /\ world' = world + 1
    /\ missed' = IF open \/ ~sawOpen THEN missed ELSE missed \cup {world'}
    /\ UNCHANGED <<phase, awaiting, load, data, armed, animate, placed>>

\* A new load gives up the one on its way.  The stream asks for it, or the user does.
Load == 
    /\ load' = Unread
    /\ UNCHANGED <<world, missed, phase, awaiting, data, armed, animate, placed>>

Reads ==
    /\ load = Unread /\ load' = world
    /\ UNCHANGED <<world, missed, phase, awaiting, data, armed, animate, placed>>

Arrives ==
    /\ load >= 0
    /\ data' = load /\ load' = None /\ awaiting' = FALSE
    /\ UNCHANGED <<world, missed, phase, armed, animate, placed>>

Fails ==
    /\ load # None /\ load' = None
    /\ UNCHANGED <<world, missed, phase, awaiting, data, armed, animate, placed>>

Visible(now) ==
    /\ animate # now /\ animate' = now
    /\ armed' = (armed \/ ~now)
    /\ UNCHANGED <<world, missed, phase, awaiting, load, data, placed>>

Clears == animate /\ open /\ ~awaiting

Snaps == armed \/ ~animate \/ awaiting

Frame ==
    /\ placed' = data
    /\ armed' = ((armed \/ ~animate) /\ ~Clears)
    /\ UNCHANGED <<world, missed, phase, awaiting, load, data, animate>>

Next ==
    \/ StreamOpens \/ StreamCloses \/ Change \/ Load \/ Reads \/ Arrives \/ Fails \/ Frame
    \/ \E now \in BOOLEAN : Visible(now)

Spec == Init /\ [][Next]_vars

-----------------------------------------------------------------------------

\* No robot is made to walk for a change that was made in a gap of the stream: when the data
\* has such a change and the robots do not show it yet, the next frame places them.
GapsArePlaced ==
    \A v \in missed : placed < v /\ v <= data => Snaps
=============================================================================
