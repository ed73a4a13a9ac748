----------------------------- MODULE CommandMap -----------------------------
(***************************************************************************)
(* The live map of Command, Operations (client/src/views/CommandView.tsx): the  *)
(* zone each task is in, the line that runs from the old zone to the new one    *)
(* for a few seconds when a load shows that a task moved, the live log of the   *)
(* files the watcher reported, and the queue the view remembers while it is     *)
(* closed. A load asks for everything at once; a newer one gives it up.         *)
(***************************************************************************)
EXTENDS Integers, Sequences, FiniteSets, SequencesExt

CONSTANTS
    Tasks, Zones,
    NoZone,       \* a phase the map has no zone for
    MaxMoves, MaxVisits,
    Bursts        \* whether a second update may come while a load is under way

VARIABLES
    world,      \* the zone of each task on the server
    told,       \* updates of the watcher on their way: the tasks whose files changed
    load,       \* the load under way: the update it answers, and what the server read
    shown,      \* the queue on the screen
    prevZone,   \* the zones of the last load since the view was opened
    flows,      \* the lines on the map
    logs,       \* the tasks of the live log, newest first
    cache,      \* commandCache
    error,      \* whether the screen says that the last load failed
    visits, moves

vars == <<world, told, load, shown, prevZone, flows, logs, cache, error, visits, moves>>

AllZones == Zones \cup {NoZone}
Unknown == [t \in Tasks |-> NoZone]
NotLoading == [on |-> FALSE, detail |-> {}, read |-> Unknown, done |-> FALSE]
Loading(detail) == [on |-> TRUE, detail |-> detail, read |-> Unknown, done |-> FALSE]

Open == visits % 2 = 1
Flow(t, from, to) == [task |-> t, from |-> from, to |-> to]

TypeOK ==
    /\ world \in [Tasks -> AllZones] /\ shown \in [Tasks -> AllZones] /\ prevZone \in [Tasks -> AllZones]
    /\ flows \subseteq {Flow(t, a, b) : t \in Tasks, a \in Zones, b \in Zones}
    /\ load.read \in [Tasks -> AllZones] /\ Range(logs) \subseteq Tasks

Init ==
    /\ world \in [Tasks -> Zones]
    /\ told = <<>> /\ load = Loading({}) /\ shown = Unknown /\ prevZone = Unknown
    /\ flows = {} /\ logs = <<>> /\ cache = Unknown /\ error = FALSE /\ visits = 1 /\ moves = 0

\* A task moves to another phase: the watcher will report its files.
Moves(t, z) ==
    /\ moves < MaxMoves /\ world[t] # z
    /\ world' = [world EXCEPT ![t] = z] /\ moves' = moves + 1 /\ told' = Append(told, {t})
    /\ UNCHANGED <<load, shown, prevZone, flows, logs, cache, error, visits>>

\* onRefresh: the load under way is given up, and its update with it.
Hears ==
    /\ told # <<>> /\ (Bursts \/ ~load.on)
    /\ told' = Tail(told)
    /\ load' = IF Open THEN Loading(Head(told)) ELSE load
    /\ UNCHANGED <<world, shown, prevZone, flows, logs, cache, error, visits, moves>>

\* The server reads the reviews and the runs.
Reads ==
    /\ load.on /\ ~load.done
    /\ load' = [load EXCEPT !.read = world, !.done = TRUE]
    /\ UNCHANGED <<world, told, shown, prevZone, flows, logs, cache, error, visits, moves>>

\* nextZone: the zones of this load are compared with the next one's.
NextZone(read) == read

\* newFlows: the tasks that were in another zone at the load before.
NewFlows(read) ==
    {Flow(t, prevZone[t], read[t]) : t \in {u \in Tasks : prevZone[u] # NoZone /\ read[u] # NoZone /\ prevZone[u] # read[u]}}

\* Live logs: the files of the update, else a list to begin with.
NewLogs(detail, read) ==
    IF detail # {} THEN SetToSeq(detail) \o logs
    ELSE IF logs # <<>> THEN logs ELSE SetToSeq({t \in Tasks : read[t] # NoZone})

\* load: everything of one load is put on the screen at once.
Lands ==
    /\ load.on /\ load.done
    /\ flows' = flows \cup NewFlows(load.read)
    /\ prevZone' = NextZone(load.read)
    /\ logs' = NewLogs(load.detail, load.read)
    /\ shown' = load.read /\ cache' = load.read /\ error' = FALSE
    /\ load' = NotLoading
    /\ UNCHANGED <<world, told, visits, moves>>

\* A request of the load fails: what was shown stays.
Fails ==
    /\ load.on
    /\ load' = NotLoading /\ error' = TRUE
    /\ UNCHANGED <<world, told, shown, prevZone, flows, logs, cache, visits, moves>>

\* setTimeout: the line ends.
LineEnds(f) ==
    /\ flows' = flows \ {f}
    /\ UNCHANGED <<world, told, load, shown, prevZone, logs, cache, error, visits, moves>>

\* The tab is changed: the view is unmounted and forgets all but the cache.
Leaves ==
    /\ Open /\ visits < 2 * MaxVisits - 1
    /\ visits' = visits + 1
    /\ load' = NotLoading /\ shown' = Unknown /\ prevZone' = Unknown /\ flows' = {} /\ logs' = <<>> /\ error' = FALSE
    /\ UNCHANGED <<world, told, cache, moves>>

\* It is opened again, painted from the cache, and loads.
Returns ==
    /\ ~Open
    /\ visits' = visits + 1
    /\ shown' = cache /\ load' = Loading({})
    /\ UNCHANGED <<world, told, prevZone, flows, logs, cache, error, moves>>

Next ==
    \/ \E t \in Tasks, z \in AllZones : Moves(t, z)
    \/ Hears \/ Reads \/ Lands \/ Fails \/ Leaves \/ Returns
    \/ \E f \in flows : LineEnds(f)

Spec == Init /\ [][Next]_vars
FairSpec == Spec /\ WF_vars(Hears) /\ WF_vars(Reads) /\ WF_vars(Lands)

-----------------------------------------------------------------------------
(* Properties. *)

\* A line is drawn exactly when the screen sees a task change zones, from the zone it was shown
\* in to the one it is shown in now: never for the first load of a visit, which has nothing to
\* compare with, and never twice for one move.
DrawsMoves ==
    \A t \in Tasks : (Open /\ shown' # shown /\ prevZone # Unknown /\ visits' = visits) =>
          LET drawn == {f \in flows' \ flows : f.task = t}
          IN  /\ drawn \subseteq {Flow(t, shown[t], shown'[t])}
              /\ (shown[t] # shown'[t] /\ NoZone \notin {shown[t], shown'[t]}) =>
                    Flow(t, shown[t], shown'[t]) \in flows'
LinesAreMoves == [][DrawsMoves]_vars

\* An open map comes to show where the tasks are, or says that it could not load them.
Settled == Open => (shown = world \/ error)
MapSettles == []<>Settled
=============================================================================
