------------------------------ MODULE RunQueue ------------------------------
(***************************************************************************)
(* dashboard/server/src/services/runQueue.ts, the one file-backed queue that *)
(* starts every Run, with what it starts: the launches of officeLauncher.ts  *)
(* and, coarsely, the step records of stepGovernance.ts (a record without a  *)
(* result keeps its task busy; StepGovernance looks inside).                 *)
(*                                                                         *)
(* Items are numbered in the order they were queued.  An item's launch id is *)
(* assigned once, when it is picked, so the item, its launch and its step    *)
(* record share the number.  Each change of the queue file is one            *)
(* synchronous read-modify-write; a start awaits in between, and the process *)
(* may stop at any of those points.                                          *)
(***************************************************************************)
EXTENDS Integers, Sequences, FiniteSets, Functions

CONSTANTS
    Tasks,          \* task ids
    Knowledge,      \* the key of the knowledge re-check: no step record
    Cap,            \* DASHBOARD_RUN_CONCURRENCY
    KeepEnded,      \* KEEP_ENDED of the queue file
    KeepPerKey,     \* KEEP_PER_KEY of the launch directory
    MaxItems,       \* bound: items ever queued
    MaxCrashes      \* bound: restarts of the dashboard or of the machine

ASSUME QueueAssumption ==
    /\ Knowledge \notin Tasks
    /\ {Cap, KeepEnded, KeepPerKey} \subseteq Nat \ {0}
    /\ {MaxItems, MaxCrashes} \subseteq Nat

VARIABLES
    keys,       \* keys[i]: the task (or Knowledge) item i is for
    items,      \* the queue file: the items on record
    launches,   \* the launch directory: running (or stopping), or ended in any way
    steps,      \* its step records: verifying until there is a result
    server,     \* where the dashboard's tick is
    current,    \* the item being started, 0 when none
    foreign,    \* the other server's one Run
    clock,      \* orders enqueuedAt and endedAt
    crashes

vars == <<keys, items, launches, steps, server, current, foreign, clock, crashes>>

Keys == Tasks \cup {Knowledge}
Ids == 1..MaxItems
Open == {"waiting", "starting"}
Unstarted == {"failed", "cancelled", "skipped"}

\* What an after trigger waits on: a queued item, a launch, or the launch that
\* follows launch `id`.
Reference == [kind : {"item", "launch", "since"}, id : 0..MaxItems]
Nothing == [kind |-> "launch", id |-> 0]

\* when: a time trigger is `at` until its time, `due` from then on, `late` once
\* AT_MISSED_GRACE_MS has passed, `seen` once a tick gave it a dueSince.
Item == [state : Open \cup Unstarted \cup {"started"},
         when : {"now", "at", "due", "late", "seen", "after"},
         task : Keys, after : Reference, enqueuedAt : Nat, endedAt : Nat]

TypeOK ==
    /\ keys \in Seq(Keys) /\ Len(keys) <= MaxItems
    /\ DOMAIN items \subseteq 1..Len(keys)
    /\ \A i \in DOMAIN items : items[i] \in Item
    /\ DOMAIN launches \subseteq 1..Len(keys)
    /\ \A i \in DOMAIN launches :
          launches[i] \in {"running", "ended"}
    /\ DOMAIN steps \subseteq 1..Len(keys)
    /\ \A i \in DOMAIN steps : steps[i] \in {"verifying", "done"}
    /\ server \in {"idle", "picking", "starting", "begun", "aborting", "spawned"}
    /\ current \in 0..Len(keys)
    /\ foreign \in {"idle", "starting", "running"}
    /\ clock \in Nat
    /\ crashes \in 0..MaxCrashes

Init ==
    /\ keys = <<>>
    /\ items = <<>> /\ launches = <<>> /\ steps = <<>>
    /\ server = "idle" /\ current = 0
    /\ foreign = "idle"
    /\ clock = 1
    /\ crashes = 0

-----------------------------------------------------------------------------
(* The queue file *)

EndedIn(q) == {i \in DOMAIN q : q[i].state \notin Open}

\* endedAt ?? enqueuedAt: a started item has no endedAt.
Stamp(item) == IF item.endedAt # 0 THEN item.endedAt ELSE item.enqueuedAt

\* write: of the ended items the KeepEnded newest stay, by stamp.
Kept(q) ==
    LET Newer(i) == {j \in EndedIn(q) : \/ Stamp(q[j]) > Stamp(q[i])
                                        \/ Stamp(q[j]) = Stamp(q[i]) /\ j < i}
    IN  Restrict(q, {i \in DOMAIN q :
                        i \in EndedIn(q) => Cardinality(Newer(i)) < KeepEnded})

\* pending(k)
HasOpen(k) == \E i \in DOMAIN items : keys[i] = k /\ items[i].state \in Open

\* Save the queue with item i ended in the given state.
EndItem(i, state) ==
    /\ items' = Kept([items EXCEPT ![i].state = state, ![i].endedAt = clock])
    /\ clock' = clock + 1

-----------------------------------------------------------------------------
(* The launch directory *)

Active == {i \in DOMAIN launches : launches[i] = "running"}

IsRunning(i) == i \in Active

Verifying(i) == i \in DOMAIN steps /\ steps[i] = "verifying"

LaunchesOf(k) == {i \in DOMAIN launches : keys[i] = k}

\* latest(key), 0 when there is none.
Latest(k) ==
    IF LaunchesOf(k) = {} THEN 0
    ELSE CHOOSE i \in LaunchesOf(k) : \A j \in LaunchesOf(k) : j <= i

\* Slip: a step that ended leaves its task free before it is verified.
BusyWhileRunning(k) == IsRunning(Latest(k))

\* stepInFlight: a launch of the task runs, or a step of it has no result.
Busy(k) ==
    \/ IsRunning(Latest(k))
    \/ \E i \in DOMAIN steps : keys[i] = k /\ Verifying(i)

\* Slip: only task steps count.
RunningSteps(q) ==
    Cardinality({i \in Active : keys[i] # Knowledge}) + (IF foreign = "running" THEN 1 ELSE 0)

\* running: every running launch plus the items being started whose launch is
\* not visible.  The other server's starts are not in this queue.
RunningNow(q) ==
    Cardinality(Active) + (IF foreign = "running" THEN 1 ELSE 0)
        + Cardinality({i \in DOMAIN q : q[i].state = "starting" /\ ~IsRunning(i)})

-----------------------------------------------------------------------------
(* After triggers *)

\* resolveAfter
ResolveAfter(k) ==
    LET queued == {i \in DOMAIN items : keys[i] = k /\ items[i].state \in Open}
        last == Latest(k)
    IN  IF queued # {} THEN [kind |-> "item", id |-> CHOOSE i \in queued : TRUE]
        ELSE IF last # 0 /\ (IsRunning(last) \/ Verifying(last))
             THEN [kind |-> "launch", id |-> last]
             ELSE [kind |-> "since", id |-> last]

\* The launch an after item waits on, 0 while that is not known.
Awaited(q, i) ==
    LET ref == q[i].after IN
    CASE ref.kind = "launch" -> ref.id
      [] ref.kind = "item" ->
            IF ref.id \in DOMAIN q /\ q[ref.id].state = "started" THEN ref.id ELSE 0
      [] ref.kind = "since" ->
            IF Latest(q[i].task) > ref.id THEN Latest(q[i].task) ELSE 0

\* Slip: the awaited step need not be verified.
OverOnceEnded(i) == ~IsRunning(i)

\* The awaited step is over: any ending, and verified; or no longer on record.
Over(i) == ~IsRunning(i) /\ ~Verifying(i)

\* triggerState(i).fired
Fired(q, i) ==
    CASE q[i].when \in {"now", "seen"} -> TRUE
      [] q[i].when = "after" -> Awaited(q, i) # 0 /\ Over(Awaited(q, i))
      [] OTHER -> FALSE

\* Waiting items whose awaited item will never run, those included whose
\* awaited item is found dead by the same pass.
Dead(q) ==
    LET Queued == {i \in DOMAIN q : q[i].state = "waiting" /\ q[i].when = "after"
                                                       /\ q[i].after.kind = "item"}
        Closed(D) == \A i \in Queued :
            LET j == q[i].after.id IN
            (j \notin DOMAIN q \/ q[j].state \in Unstarted \/ j \in D) => i \in D
    IN  {i \in Queued : \A D \in SUBSET Queued : Closed(D) => i \in D}

-----------------------------------------------------------------------------
(* Requests *)

\* enqueue: one open item per key.  The routes that queue a Run (a single Run,
\* a role chain, the knowledge re-check, New task) differ in what they refuse
\* before this; a chain's next step is refused nothing more.
Enqueue(k, when, task) ==
    /\ Len(keys) < MaxItems
    /\ ~HasOpen(k)
    /\ keys' = Append(keys, k)
    /\ items' = Kept([i \in DOMAIN items \cup {Len(keys) + 1} |->
                         IF i \in DOMAIN items THEN items[i]
                         ELSE [state |-> "waiting", when |-> when, task |-> task,
                               after |-> IF when = "after" THEN ResolveAfter(task)
                                                           ELSE Nothing,
                               enqueuedAt |-> clock, endedAt |-> 0]])
    /\ clock' = clock + 1
    /\ UNCHANGED <<launches, steps, server, current, foreign, crashes>>

Cancel(i) ==
    /\ i \in DOMAIN items /\ items[i].state = "waiting"
    /\ EndItem(i, "cancelled")
    /\ UNCHANGED <<keys, launches, steps, server, current, foreign, crashes>>

-----------------------------------------------------------------------------
(* A tick: one pass over the file, then one start after the other *)

\* Slip: a start found interrupted has failed, whatever it got to.
LeftBehindFails(item, i) == [item EXCEPT !.state = "failed", !.endedAt = clock]

\* An item left starting by a dashboard that stopped.
LeftBehind(item, i) ==
    IF i \in DOMAIN launches THEN [item EXCEPT !.state = "started"]
                             ELSE [item EXCEPT !.state = "failed", !.endedAt = clock]

\* A waiting item's time is seen due, or was missed.
Due(item) ==
    CASE item.when = "due"  -> [item EXCEPT !.when = "seen"]
      [] item.when = "late" -> [item EXCEPT !.state = "failed", !.endedAt = clock]
      [] OTHER -> item

\* The after triggers of q: dead ones fail, resolved ones keep the launch.
Resolved(q) ==
    [i \in DOMAIN q |->
        IF q[i].state # "waiting" \/ q[i].when # "after" THEN q[i]
        ELSE IF i \in Dead(q) THEN [q[i] EXCEPT !.state = "failed", !.endedAt = clock]
        ELSE IF Awaited(q, i) = 0 THEN q[i]
        ELSE [q[i] EXCEPT !.after = [kind |-> "launch", id |-> Awaited(q, i)]]]

\* doTick's pass.  Between ticks nothing is being started, so a starting item
\* is a left-behind one; an awaited item was queued before the one awaiting it.
TickBegins ==
    /\ server = "idle"
    /\ LET first == [i \in DOMAIN items |->
                        CASE items[i].state = "starting" -> LeftBehind(items[i], i)
                          [] items[i].state = "waiting"  -> Due(items[i])
                          [] OTHER -> items[i]]
           passed == Resolved(first)
       IN  /\ items' = Kept(passed)
           /\ clock' = IF \E i \in DOMAIN items : passed[i].endedAt = clock
                       THEN clock + 1 ELSE clock
    /\ server' = "picking"
    /\ UNCHANGED <<keys, launches, steps, current, foreign, crashes>>

Ready(i) ==
    /\ items[i].state = "waiting"
    /\ \A j \in DOMAIN items : items[j].state = "starting" => keys[j] # keys[i]
    /\ Fired(items, i)
    /\ ~Busy(keys[i])

\* The oldest ready item gets its launch id.
Pick(i) ==
    /\ server = "picking"
    /\ RunningNow(items) < Cap
    /\ i \in DOMAIN items /\ Ready(i)
    /\ \A j \in DOMAIN items : Ready(j) => i <= j
    /\ items' = Kept([items EXCEPT ![i].state = "starting"])
    /\ server' = "starting" /\ current' = i
    /\ UNCHANGED <<keys, launches, steps, foreign, clock, crashes>>

TickEnds ==
    /\ server = "picking"
    /\ RunningNow(items) >= Cap \/ \A i \in DOMAIN items : ~Ready(i)
    /\ server' = "idle"
    /\ UNCHANGED <<keys, items, launches, steps, current, foreign, clock, crashes>>

\* The start returns to the loop with the item ended in this state.
StartOver(state) ==
    /\ EndItem(current, state)
    /\ server' = "picking" /\ current' = 0
    /\ UNCHANGED <<keys, launches, foreign, crashes>>

\* The task is gone, the CLI unusable, or its lease is held by another.
Refuse ==
    /\ server = "starting"
    /\ StartOver("failed")
    /\ UNCHANGED steps

\* A knowledge round with nothing in scope.
Skip ==
    /\ server = "starting" /\ keys[current] = Knowledge
    /\ StartOver("skipped")
    /\ UNCHANGED steps

\* governance.begin has the lease and saves the step record.
Begin ==
    /\ server = "starting" /\ keys[current] # Knowledge
    /\ steps' = [i \in DOMAIN steps \cup {current} |->
                    IF i = current THEN "verifying" ELSE steps[i]]
    /\ server' = "begun"
    /\ UNCHANGED <<keys, items, launches, current, foreign, clock, crashes>>

\* The launches of a key that prune keeps when another one starts.
KeptLaunches(k) ==
    {i \in DOMAIN launches :
        keys[i] = k => Cardinality({j \in LaunchesOf(k) : j > i}) < KeepPerKey - 1}

\* OfficeLauncher.start: refused while the key runs; prunes; spawns; records.
Spawn ==
    /\ \/ server = "begun"
       \/ server = "starting" /\ keys[current] = Knowledge
    /\ ~IsRunning(Latest(keys[current]))
    /\ LET kept == KeptLaunches(keys[current]) IN
       /\ launches' = [i \in kept \cup {current} |->
                          IF i = current THEN "running" ELSE launches[i]]
       /\ steps' = Restrict(steps, DOMAIN steps \ (DOMAIN launches \ kept))
    /\ server' = "spawned"
    /\ UNCHANGED <<keys, items, current, foreign, clock, crashes>>

\* The starter's outcome is saved; started items get no endedAt.
Report ==
    /\ server = "spawned"
    /\ items' = Kept([items EXCEPT ![current].state = "started"])
    /\ server' = "picking" /\ current' = 0
    /\ UNCHANGED <<keys, launches, steps, foreign, clock, crashes>>

\* Worktrees refused or the CLI did not spawn: abort gives the step a result,
\* and while it does so the step is no longer kept from governance.tick.
Abort ==
    /\ server = "begun"
    /\ server' = "aborting"
    /\ UNCHANGED <<keys, items, launches, steps, current, foreign, clock, crashes>>

Aborted ==
    /\ server = "aborting"
    /\ steps' = [steps EXCEPT ![current] = "done"]
    /\ StartOver("failed")

\* A knowledge round whose CLI did not spawn ends here too.
StartStep == Refuse \/ Skip \/ Begin \/ Spawn \/ Report \/ Abort \/ Aborted

-----------------------------------------------------------------------------
(* What the queue waits for *)

\* The CLI ends, or is stopped by the operator, the time limit or a kill.
LaunchEnds(i) ==
    /\ IsRunning(i)
    /\ launches' = [launches EXCEPT ![i] = "ended"]
    /\ UNCHANGED <<keys, items, steps, server, current, foreign, clock, crashes>>

\* Slip: a step that has no launch is not looked at.
VerifyLaunched(i) ==
    /\ Verifying(i) /\ ~IsRunning(i)
    /\ i \in DOMAIN launches
    /\ steps' = [steps EXCEPT ![i] = "done"]
    /\ UNCHANGED <<keys, items, launches, server, current, foreign, clock, crashes>>

\* governance.tick: an ended step gets its result; one without a launch was
\* lost, unless this server is between its begin and its spawn.
Verify(i) ==
    /\ Verifying(i) /\ ~IsRunning(i)
    /\ ~(i = current /\ server = "begun")
    /\ steps' = [steps EXCEPT ![i] = "done"]
    /\ UNCHANGED <<keys, items, launches, server, current, foreign, clock, crashes>>

TimePasses(i) ==
    /\ i \in DOMAIN items /\ items[i].when \in {"at", "due"} /\ items[i].state = "waiting"
    /\ items' = [items EXCEPT ![i].when = IF @ = "at" THEN "due" ELSE "late"]
    /\ UNCHANGED <<keys, launches, steps, server, current, foreign, clock, crashes>>

\* The dashboard stops and comes back: what it kept in memory is gone.  When
\* the machine restarted, every launch is gone too.
Crash ==
    /\ crashes < MaxCrashes
    /\ crashes' = crashes + 1
    /\ server' = "idle" /\ current' = 0
    /\ \/ UNCHANGED <<launches, foreign>>
       \/ /\ launches' = [i \in DOMAIN launches |-> "ended"]
          /\ foreign' = "idle"
    /\ UNCHANGED <<keys, items, steps, clock>>

\* Another office's dashboard: its own queue, the same launch directory.
ForeignPick ==
    /\ foreign = "idle"
    /\ Cardinality(Active) < Cap
    /\ foreign' = "starting"
    /\ UNCHANGED <<keys, items, launches, steps, server, current, clock, crashes>>

ForeignStep ==
    /\ foreign # "idle"
    /\ foreign' = IF foreign = "starting" THEN "running" ELSE "idle"
    /\ UNCHANGED <<keys, items, launches, steps, server, current, clock, crashes>>

-----------------------------------------------------------------------------

Next ==
    \/ \E k \in Keys : \/ \E when \in {"now", "at"} : Enqueue(k, when, k)
                       \/ \E t \in Tasks : k # Knowledge /\ Enqueue(k, "after", t)
    \/ \E i \in Ids : Cancel(i) \/ Pick(i) \/ LaunchEnds(i)
                        \/ Verify(i) \/ TimePasses(i)
    \/ TickBegins \/ TickEnds \/ StartStep
    \/ Crash

NextBeside == Next \/ ForeignPick \/ ForeignStep

\* The 5 s timers, promises that settle, the step time limit, passing time.
Fairness ==
    /\ WF_vars(TickBegins)
    /\ WF_vars(TickEnds \/ \E i \in Ids : Pick(i))
    /\ WF_vars(StartStep)
    /\ \A i \in Ids : WF_vars(LaunchEnds(i)) /\ WF_vars(Verify(i)) /\ WF_vars(TimePasses(i))

Spec == Init /\ [][Next]_vars
SharedSpec == Init /\ [][NextBeside]_vars
FairSpec == SharedSpec /\ Fairness

-----------------------------------------------------------------------------
(* What the queue promises *)

InFlight(i) == IsRunning(i) \/ Verifying(i)

\* A key has one open item, and no launch of the key is younger than it.
OneOpenItem ==
    \A i, j \in DOMAIN items :
        items[i].state \in Open /\ items[j].state \in Open /\ keys[i] = keys[j] => i = j

OpenIsNewest ==
    \A i \in DOMAIN items : \A j \in DOMAIN launches :
        items[i].state \in Open /\ keys[i] = keys[j] => j <= i

\* The four files and the tick agree on the item being started.
StartAgrees ==
    /\ IF server \in {"idle", "picking"} THEN current = 0
       ELSE current \in DOMAIN items /\ items[current].state = "starting"
    /\ server = "starting" => current \notin DOMAIN launches \cup DOMAIN steps
    /\ server = "begun" => current \notin DOMAIN launches /\ Verifying(current)
    /\ server = "aborting" => current \in DOMAIN steps \ DOMAIN launches
    /\ server = "spawned" => current \in DOMAIN launches
    /\ server # "idle" =>
          \A i \in DOMAIN items : items[i].state = "starting" => i = current

\* A waiting item has left nothing behind; one that will not start has no launch.
NotYetRun ==
    \A i \in DOMAIN items :
        /\ items[i].state = "waiting" => i \notin DOMAIN steps
        /\ items[i].state \in Unstarted \cup {"waiting"} => i \notin DOMAIN launches

\* Of the launches of a key only the newest runs.
NewestRuns ==
    \A i \in Active : \A j \in DOMAIN launches : keys[i] = keys[j] => j <= i

\* While an item is being started nothing else of its key is in flight.
StartsAlone ==
    server \notin {"idle", "picking"} =>
        \A j \in DOMAIN launches \cup DOMAIN steps :
            InFlight(j) /\ keys[j] = keys[current] => j = current

\* An after item waits for another one, and what it was found to wait for, or
\* was started after, does not start again.
AwaitsAnother(i) ==
    LET ref == items[i].after IN
    items[i].when = "after" =>
        /\ ref.id # i /\ ref.id <= Len(keys)
        /\ \/ ref.kind = "launch"
           \/ ref.kind = "item" /\ items[i].state \in {"starting", "started"}
           => ~(ref.id \in DOMAIN items /\ items[ref.id].state \in Open)

\* Why the properties below hold at every moment of a start, a crash included.
Coherent ==
    /\ TypeOK
    /\ OneOpenItem /\ OpenIsNewest
    /\ StartAgrees /\ NotYetRun
    /\ NewestRuns /\ StartsAlone
    /\ \A i \in DOMAIN items : AwaitsAnother(i)

\* README 477, D8: one step at a time per task.  A step counts until it is
\* verified, also when the dashboard stopped between its begin and its spawn.
OneStepPerTask ==
    \A i, j \in DOMAIN launches \cup DOMAIN steps :
        InFlight(i) /\ InFlight(j) /\ keys[i] = keys[j] => i = j

\* README 474: at most Cap launches run, the one being started included, task
\* steps and knowledge rounds together.  (With a second server it can be Cap + 1:
\* neither queue shows the other what it is starting.)
CapRespected ==
    Cardinality(Active \cup ({current} \ {0})) <= Cap

\* README 483: an item that failed, was cancelled or was skipped never ran, so
\* queueing it again repeats nothing -- whenever the dashboard stopped.
FailedNeverRan ==
    \A i \in DOMAIN items : items[i].state \in Unstarted => i \notin DOMAIN launches

\* README 491: a step queued after another one starts from the status that one's
\* verification synced.
AfterRanFirst ==
    \A i \in DOMAIN items :
        LET ref == items[i].after IN
        /\ items[i].when = "after" /\ items[i].state \in {"starting", "started"}
        /\ ref.kind # "since"
        => ~InFlight(ref.id) /\ ref.id # i

\* README 466: the newest 50 ended items are kept.  So an item is still on record
\* right after it ended: the chain or trigger that follows it must find it.
JustEndedIsKept ==
    [][\A i \in DOMAIN items : items[i].state \in Open => i \in DOMAIN items']_vars

\* A wait that only a new request can end: for a step nobody has queued, or for
\* an item in such a wait (items await earlier ones, so that is where it leads).
Stuck(i) ==
    /\ items[i].when = "after"
    /\ LET ref == items[i].after IN
       \/ ref.kind = "since"
       \/ ref.kind = "item" /\ ref.id \in DOMAIN items /\ items[ref.id].state \in Open

\* Once nothing more is queued, every item runs or ends with a reason and every
\* step is verified, wherever the dashboard stopped; what still waits waits for
\* a step nobody has queued.
Settled ==
    /\ \A i \in DOMAIN items : items[i].state \in Open => Stuck(i)
    /\ \A i \in DOMAIN launches \cup DOMAIN steps : ~InFlight(i)

QueueSettles == <>[]Settled
=============================================================================
