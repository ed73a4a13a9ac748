----------------------------- MODULE OfficeRooms -----------------------------
(***************************************************************************)
(* Who stands where in the rooms of the 3D office, and what the lists beside *)
(* it say (client/src/views/office3d): the queue of what waits on Earth       *)
(* (officeBlocked.ts), the seats of the waiting room, the help desk and the   *)
(* inspection line (officeEscalation.ts, officeReview.ts, officeCharacters.ts),*)
(* the order of Debug Lab and DevOps, and the keyboard (officeSelection.ts).   *)
(* All of it is computed from the tasks of a load; a task is a number, its     *)
(* date at a number or 0.                                                   *)
(***************************************************************************)
EXTENDS Integers, Sequences, FiniteSets, SequencesExt, FiniteSetsExt

CONSTANTS Chairs, Bench, HelpBench, Stand, Line, Spots    \* how many places there are of each kind

\* ordered, byWait: the longest wait first, those without a date last.
Before(at, t, u) ==
    \/ at[t] # 0 /\ (at[u] = 0 \/ at[t] < at[u])
    \/ at[t] = at[u] /\ t < u

ByWait(at, some) == SetToSortSeq(some, LAMBDA t, u : Before(at, t, u))
First(list, n) == SubSeq(list, 1, Min({n, Len(list)}))

-----------------------------------------------------------------------------
(* The wait queue (buildWaitQueue): a task has a room, the sides its waits are on, a grant to  *)
(* wait for or not, the tasks its waits name (0: none), and a date. *)

\* classify: whatever waits on Earth is Earth's.
Side(task) ==
    CASE task.grant \/ "earth" \in task.waits -> "earth"
      [] "others" \in task.waits -> "others"
      [] OTHER -> "none"

EarthQueue(tasks) == {t \in DOMAIN tasks : tasks[t].room # "finished" /\ Side(tasks[t]) = "earth"}
OthersQueue(tasks) == {t \in DOMAIN tasks : tasks[t].room = "blocked" /\ Side(tasks[t]) # "earth"}

Dates(tasks) == [t \in DOMAIN tasks |-> tasks[t].at]

\* soleRef: the one listed task it waits on and nothing else, or 0.
SoleRef(tasks, group, t) ==
    IF /\ ~tasks[t].grant /\ Cardinality(tasks[t].refs) = 1
       /\ tasks[t].refs \subseteq group \ {t}
    THEN CHOOSE u \in tasks[t].refs : TRUE ELSE 0

Parents(tasks, group) == [t \in group |-> SoleRef(tasks, group, t)]

\* The tasks that wait on each other in a ring which t leads to.
Loop(parent, t) ==
    LET n == Cardinality(DOMAIN parent)
        on[k \in 0..(2 * n)] == IF k = 0 THEN t ELSE IF on[k - 1] = 0 THEN 0 ELSE parent[on[k - 1]]
    IN  {on[k] : k \in n..(2 * n)} \ {0}

\* breakCycles: the oldest of each ring is listed on its own.
BreakLoops(parent, at) ==
    FoldLeft(LAMBDA p, t : IF Loop(p, t) = {} THEN p ELSE [p EXCEPT ![ByWait(at, Loop(p, t))[1]] = 0],
             parent, SetToSortSeq(DOMAIN parent, <))

\* layoutGroup: each task with its depth, right under the one it waits on.
Lines(tasks, group) ==
    LET at == Dates(tasks)
        parent == BreakLoops(Parents(tasks, group), at)
        under[t \in group \cup {0}, depth \in 0..Cardinality(group)] ==
            FlattenSeq([i \in 1..Cardinality({u \in group : parent[u] = t}) |->
                LET u == ByWait(at, {w \in group : parent[w] = t})[i]
                IN  <<[task |-> u, parent |-> t, depth |-> depth]>> \o under[u, depth + 1]])
    IN  under[0, 0]

LineOf(lines, t) == CHOOSE i \in DOMAIN lines : lines[i].task = t

\* Each task of the queue is listed exactly once, whoever waits on whom; under another one
\* only when it waits on that one alone, and then inside its block; and of each ring one task
\* is a line of its own.
QueueIsComplete(tasks, group) ==
    LET lines == Lines(tasks, group)
        parent == Parents(tasks, group)
    IN  /\ Len(lines) = Cardinality(group)
        /\ \A t \in group : \E i \in DOMAIN lines : lines[i].task = t
        /\ \A t \in group :
              LET i == LineOf(lines, t)
              IN  IF lines[i].parent = 0 THEN lines[i].depth = 0
                  ELSE LET j == LineOf(lines, lines[i].parent)
                       IN  /\ lines[i].parent = parent[t]
                           /\ j < i /\ lines[i].depth = lines[j].depth + 1
                           /\ \A k \in (j + 1)..i : lines[k].depth > lines[j].depth
        /\ \A t \in group : Loop(parent, t) # {} =>
              Cardinality({u \in Loop(parent, t) : lines[LineOf(lines, u)].parent = 0}) = 1

-----------------------------------------------------------------------------
(* Seats: a place of a room per task, the rest are only listed. *)

\* blockedSeating
WaitingRoom(tasks) ==
    LET in(queue) == {t \in queue : tasks[t].room = "blocked"}
    IN  [chair |-> First(ByWait(Dates(tasks), in(EarthQueue(tasks))), Chairs),
         bench |-> First(ByWait(Dates(tasks), in(OthersQueue(tasks))), Bench)]

\* escalationSeating: escalated tasks at the desk and on the bench, hand-offs stand.
HelpDesk(tasks) ==
    LET open == ByWait(Dates(tasks), {t \in DOMAIN tasks : tasks[t].phase = "open"})
        handoff == ByWait(Dates(tasks), {t \in DOMAIN tasks : tasks[t].phase = "handoff"})
    IN  [desk |-> First(open, 1),
         bench |-> SubSeq(open, 2, Min({1 + HelpBench, Len(open)})),
         stand |-> First(handoff, Stand)]

\* reviewKindOf: a decided task until the decision is carried out, a waiting one until it is decided.
ReviewKind(task) ==
    CASE task.pending /\ task.decision # "none" -> "decided"
      [] task.needsReview /\ ~task.pending -> "waiting"
      [] OTHER -> "other"

\* reviewBoard: a place at the line, two at the place of each decision, two at the side.
Inspection(tasks) ==
    LET kind(k) == {t \in DOMAIN tasks : ReviewKind(tasks[t]) = k}
        decided == SetToSortSeq(kind("decided"), LAMBDA t, u :
            tasks[t].decidedAt < tasks[u].decidedAt \/ (tasks[t].decidedAt = tasks[u].decidedAt /\ t < u))
        for(d) == SelectSeq(decided, LAMBDA t : tasks[t].decision = d)
    IN  [line |-> First(ByWait(Dates(tasks), kind("waiting")), Line),
         approve |-> First(for("approve"), Spots), changes |-> First(for("request_changes"), Spots),
         shelf |-> First(for("escalate"), Spots), bin |-> First(for("reject"), Spots),
         side |-> First(SetToSortSeq(kind("other"), <), Spots)]

\* No task has two places, no place two tasks; and a place is never given past someone of the
\* same kind who waits longer.
SeatsAreFair(room, at, kinds) ==
    LET seated(k) == Range(room[k])
        all == UNION {seated(k) : k \in DOMAIN room}
    IN  /\ \A k \in DOMAIN room : IsInjective(room[k])
        /\ \A k, l \in DOMAIN room : k # l => seated(k) \cap seated(l) = {}
        /\ \A kind \in kinds : \A t \in kind, u \in kind \cap all : Before(at, t, u) => t \in all

-----------------------------------------------------------------------------
(* Where a task came from (originOf): the last transition, when it is the one into the phase  *)
(* the task has; a transition has a from, a to, who made it, and when. *)

RoomOf == [open |-> "help", handoff |-> "help", work |-> "devops", dev |-> "dev"]

\* escalatedByEarth: a decision that is carried out and is no later than the row it caused.
ByEarth(task) ==
    /\ task.move.agent = "orchestrator" /\ task.decided.action = "escalate"
    /\ ~task.pending /\ task.decided.at <= task.move.at

Origin(task) ==
    CASE task.move.to # task.phase -> "unknown"
      [] RoomOf[task.move.from] = RoomOf[task.phase] -> "latest note"
      [] ByEarth(task) -> "earth"
      [] OTHER -> "reason"

\* A reason is never one of an older visit, and Earth is only named for a decision that was
\* made before the task moved.
OriginIsTold(task) ==
    /\ Origin(task) # "unknown" => task.move.to = task.phase
    /\ Origin(task) = "earth" => task.decided.at <= task.move.at /\ ~task.pending

-----------------------------------------------------------------------------
(* The keyboard (moveOfficeSelection, followTaskSelection): the desks of a room are a list;   *)
(* a selection is a desk's task, or 0 for the room. *)

Index(desks, task) == IF task \in Range(desks) THEN CHOOSE i \in DOMAIN desks : desks[i] = task ELSE 0

\* In an empty row a key throws when the selection is a task that has left it.
Throws == -1

Right(desks, at) ==
    CASE desks # <<>> -> desks[IF at = 0 THEN 1 ELSE Min({Index(desks, at) + 1, Len(desks)})]
      [] at = 0 -> 0
      [] OTHER -> Throws

Left(desks, at) == IF Index(desks, at) > 1 THEN desks[Index(desks, at) - 1] ELSE 0

\* Every desk is reached from the room to the right, the way back ends at the room, and a
\* selection whose task has left the row gets back into it with one key.
KeyboardReaches(desks, lost) ==
    LET on[k \in 0..Len(desks)] == IF k = 0 THEN 0 ELSE Right(desks, on[k - 1])
        back[k \in 0..Len(desks)] == IF k = 0 THEN on[Len(desks)] ELSE Left(desks, back[k - 1])
    IN  /\ {on[k] : k \in 1..Len(desks)} = Range(desks)
        /\ back[Len(desks)] = 0
        /\ desks # <<>> => Right(desks, lost) \in Range(desks) /\ Left(desks, lost) \in Range(desks) \cup {0}
=============================================================================
