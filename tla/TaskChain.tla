------------------------------ MODULE TaskChain ------------------------------
(***************************************************************************)
(* dashboard/server/src/services/taskChain.ts: the role chains of one task,  *)
(* "Run until a human is needed", with what they use of the Run queue        *)
(* (RunQueue looks inside), and the routes of launch.ts that start and stop  *)
(* chains and single Runs.                                                  *)
(*                                                                         *)
(* A chain is advanced by the queue's timer, one chain after the other, and  *)
(* by the request that started it.  Between two awaits the code runs alone,  *)
(* so each action is one such stretch; `procs` holds where each of them is   *)
(* and the copy of the chain it works on.                                   *)
(***************************************************************************)
EXTENDS Integers, Sequences, FiniteSets, SequencesExt

CONSTANTS
    Requests,       \* requests that may be in progress at the same time
    Cap,            \* the chain's step cap
    MaxChanges,     \* MAX_CHANGE_REQUESTS
    SlowStart,      \* a start's own queue tick may outlast the step it started
    MaxChains,      \* bound: chains ever started
    MaxItems,       \* bound: items ever queued, enough for all chains
    MaxCrashes      \* bound: restarts of the dashboard

ASSUME ChainAssumption ==
    /\ Cap \in Nat \ {0} /\ MaxChanges \in Nat
    /\ SlowStart \in BOOLEAN
    /\ {MaxChains, MaxItems, MaxCrashes} \subseteq Nat
    /\ IsFiniteSet(Requests) /\ "timer" \notin Requests

VARIABLES
    items,      \* the queue's items of this task, in the order they were queued
    chains,     \* the chains file, oldest first
    procs,      \* the timer and the requests
    todo,       \* the chains the timer still has to walk over, as it read them
    watch,      \* another task's item that waits for a chain of this task
    crashes

vars == <<items, chains, procs, todo, watch, crashes>>

Procs == Requests \cup {"timer"}

\* Item: chain 0 is a single Run; step is its launch and what verified it.
Item == [chain : 0..MaxChains,
         state : {"waiting", "starting", "started", "failed", "cancelled"},
         step : {"none", "running", "stopping", "verifying", "ok", "bad"}]

\* ended: "failed" stands for failed and verification, "person" for every point
\* where the office or the chain asks for one (done, gate, authorization, blocked,
\* changes, cap, escalated, cli, pairing, no-next).
Endings == {"no", "operator", "queue", "failed", "person"}
Step == [item : 1..MaxItems, launched : BOOLEAN, changes : BOOLEAN]
Chain == [ended : Endings, steps : Seq(Step)]

\* A chain in the timer's walk, with its ending when the file was read.
Turn == [chain : 1..MaxChains, ended : Endings]

\* chain and length are the copy's.  Roles are not told apart: what the preflight
\* answers does not, and any step may be a reviewer's that asked for changes.
Proc == [at : {"idle", "single", "starting", "queueing", "advance", "deciding",
               "preflight"},
         chain : 0..MaxChains, length : 0..MaxItems]

Idle == [at |-> "idle", chain |-> 0, length |-> 0]

\* what an after-chain trigger waits on: chain `id`, or the next after the first `id`.
Watch == [state : {"none", "waiting", "started"}, since : BOOLEAN, id : 0..MaxChains]

TypeOK ==
    /\ items \in Seq(Item) /\ Len(items) <= MaxItems
    /\ chains \in Seq(Chain) /\ Len(chains) <= MaxChains
    /\ procs \in [Procs -> Proc]
    /\ todo \in Seq(Turn)
    /\ watch \in Watch
    /\ crashes \in 0..MaxCrashes

Init ==
    /\ items = <<>> /\ chains = <<>> /\ todo = <<>>
    /\ procs = [p \in Procs |-> Idle]
    /\ watch = [state |-> "none", since |-> FALSE, id |-> 0]
    /\ crashes = 0

-----------------------------------------------------------------------------
(* The queue and the launches, as the chains see them *)

Open == {"waiting", "starting"}
InFlight(i) == items[i].step \in {"running", "stopping", "verifying"}

\* Slip: an item whose step has started still counts.
HasItem == \E i \in DOMAIN items : items[i].state \in Open \cup {"started"}
HasOpen == \E i \in DOMAIN items : items[i].state \in Open

Busy == \E i \in DOMAIN items : InFlight(i)

\* enqueue: refused while the task has an open item.
Queued(c) == Append(items, [chain |-> c, state |-> "waiting", step |-> "none"])

\* Stopping a launch: nothing when it is not running.
Stopped(its, i) == IF its[i].step = "running" THEN [its EXCEPT ![i].step = "stopping"]
                                              ELSE its

Pick(i) ==
    /\ items[i].state = "waiting"
    /\ ~Busy /\ \A j \in DOMAIN items : items[j].state # "starting"
    /\ items' = [items EXCEPT ![i].state = "starting"]
    /\ UNCHANGED <<chains, procs, todo, watch, crashes>>

\* The start spawns the step's launch, fails, or reports the launch.
StartGoesOn(i) ==
    /\ items[i].state = "starting"
    /\ \/ /\ items[i].step = "none"
          /\ \/ items' = [items EXCEPT ![i].step = "running"]
             \/ items' = [items EXCEPT ![i].state = "failed"]
       \/ /\ items[i].step # "none"
          /\ items' = [items EXCEPT ![i].state = "started"]
    /\ UNCHANGED <<chains, procs, todo, watch, crashes>>

\* The agent ends by itself, at its time limit or because it was stopped.
LaunchEnds(i, how) ==
    /\ items[i].step = how
    /\ items' = [items EXCEPT ![i].step = "verifying"]
    /\ UNCHANGED <<chains, procs, todo, watch, crashes>>

\* stepOutcome: may the chain go on?  A step that lost its lease is verified only
\* when every check passed before.
StepOutcome(r) ==
    IF /\ r.protocol /\ r.verified /\ ~r.checkFailed
       /\ ~r.agentCommitted /\ ~r.commitFailed
    THEN "ok" ELSE "bad"

Results == [{"protocol", "verified", "checkFailed", "agentCommitted", "commitFailed"}
            -> BOOLEAN]

\* A start whose own tick is still going, when that cannot outlast its step.
StartersTick(i) ==
    /\ ~SlowStart
    /\ \E r \in Requests : procs[r].at \in {"queueing", "advance"}
                           /\ procs[r].chain = items[i].chain

Verified(i) ==
    /\ items[i].step = "verifying" /\ items[i].state = "started"
    /\ ~StartersTick(i)
    /\ \E o \in {StepOutcome(r) : r \in Results} :
          items' = [items EXCEPT ![i].step = o]
    /\ UNCHANGED <<chains, procs, todo, watch, crashes>>

\* The operator cancels a waiting item in the queue.
CancelItem(i) ==
    /\ items[i].state = "waiting"
    /\ items' = [items EXCEPT ![i].state = "cancelled"]
    /\ UNCHANGED <<chains, procs, todo, watch, crashes>>

-----------------------------------------------------------------------------
(* Starting *)

\* active(taskId)
ActiveChain == \E c \in DOMAIN chains : chains[c].ended = "no"

At(p, where) ==
    procs' = [procs EXCEPT ![p] = [at |-> where, chain |-> @.chain, length |-> 0]]

\* The record of the step whose item is being queued.
NewStep == [item |-> Len(items) + 1, launched |-> FALSE, changes |-> FALSE]

Reply(p) == procs' = [procs EXCEPT ![p] = Idle]

\* POST chain: refused while a chain runs; then the preflight's awaits.  A
\* start "now" is refused while a step is in flight, any other trigger is not.
StartChain(r) ==
    /\ procs[r].at = "idle" /\ ~ActiveChain
    /\ Len(chains) < MaxChains
    /\ At(r, "starting")
    /\ UNCHANGED <<items, chains, todo, watch, crashes>>

\* The preflight found a reason not to start, or the queue has an open item.
StartRefused(r) ==
    /\ procs[r].at = "starting"
    /\ Reply(r)
    /\ UNCHANGED <<items, chains, todo, watch, crashes>>

\* Step 1 is queued, the chain recorded.
ChainStarts(r) ==
    /\ procs[r].at = "starting" /\ ~HasOpen
    /\ Len(items) < MaxItems /\ Len(chains) < MaxChains
    /\ LET c == Len(chains) + 1 IN
       /\ items' = Queued(c)
       /\ chains' = Append(chains, [ended |-> "no", steps |-> <<NewStep>>])
       /\ procs' = [procs EXCEPT ![r] = [at |-> "queueing", chain |-> c, length |-> 0]]
    /\ UNCHANGED <<todo, watch, crashes>>

\* POST Run: refused while a chain runs; then the CLI is probed; a Run "now" is
\* refused while a step is in flight.
StartSingle(r) ==
    /\ procs[r].at = "idle" /\ ~ActiveChain
    /\ Len(items) < MaxItems
    /\ At(r, "single")
    /\ UNCHANGED <<items, chains, todo, watch, crashes>>

SingleQueued(r) ==
    /\ procs[r].at = "single"
    /\ \/ UNCHANGED items
       \/ ~HasOpen /\ Len(items) < MaxItems /\ items' = Queued(0)
    /\ Reply(r)
    /\ UNCHANGED <<chains, todo, watch, crashes>>

-----------------------------------------------------------------------------
(* Advancing a chain *)

\* advance returns: the request answers, the timer turns to its next chain.
Return(p) == procs' = [procs EXCEPT ![p] = Idle]

\* Slip: a step that could not start is left for the operator to see.
EndedUnlessFailed(c, kind) ==
    IF kind # "failed" /\ chains[c].ended = "no" THEN [chains EXCEPT ![c].ended = kind]
                                                ELSE chains

\* end: nothing when the chain has ended meanwhile.
Ended(c, kind) == IF chains[c].ended = "no" THEN [chains EXCEPT ![c].ended = kind]
                                            ELSE chains

\* patchStep, end: what chain c's last step became known to be, and how it ended.
Patched(c, ended, step) ==
    [chains EXCEPT ![c] = [ended |-> ended, steps |-> [@.steps EXCEPT ![Len(@.steps)] = step]]]

End(p, c, kind) ==
    /\ chains' = Ended(c, kind)
    /\ Return(p)

\* The queue's tick of this advance is over.
TickDone(p) ==
    /\ procs[p].at = "queueing"
    /\ At(p, "advance")
    /\ UNCHANGED <<items, chains, todo, watch, crashes>>

\* The steps whose reviewer asked for changes.
Changes(steps) == Cardinality({n \in DOMAIN steps : steps[n].changes})

\* Slip: a step that failed its verification is good enough.
VerifiedAnyhow(i) == items[i].step \in {"ok", "bad"}

\* The outcome lets the chain go on.
Passed(i) == items[i].step = "ok"

\* advance, up to the decision: follow the last step, judge it once verified.
Advance(p) ==
    LET c     == procs[p].chain
        steps == chains[c].steps
        n     == Len(steps)
        step  == steps[n]
        item  == items[step.item]
        Known(changes, ended) ==
            Patched(c, ended, [step EXCEPT !.launched = TRUE, !.changes = changes])
    IN
    /\ procs[p].at = "advance"
    /\ \/ /\ \/ chains[c].ended # "no"
             \/ ~step.launched /\ item.state \in Open
          /\ Return(p) /\ UNCHANGED chains
       \/ /\ chains[c].ended = "no"
          /\ \/ ~step.launched /\ item.state = "cancelled" /\ End(p, c, "operator")
             \/ ~step.launched /\ item.state = "failed" /\ End(p, c, "failed")
             \/ /\ step.launched \/ item.state = "started"
                /\ \/ /\ InFlight(step.item)
                      /\ chains' = Known(step.changes, "no") /\ Return(p)
                   \/ /\ item.step = "bad"
                      /\ chains' = Known(step.changes, "failed")
                      /\ Return(p)
                   \/ /\ Passed(step.item)
                      /\ \E changes \in BOOLEAN :
                            IF Changes(Known(changes, "no")[c].steps) > MaxChanges
                            THEN chains' = Known(changes, "person") /\ Return(p)
                            ELSE /\ chains' = Known(changes, "no")
                                 /\ procs' = [procs EXCEPT ![p] =
                                                [at |-> "deciding", chain |-> c, length |-> n]]
    /\ UNCHANGED <<items, todo, watch, crashes>>

\* The chain ran its cap: counted on the copy that advance works on.
CapReached(p) == procs[p].length >= Cap

\* decide-next-step.rb answered: no (usable) next role, done, a gate or an
\* escalation; or a next role, which the cap or a hold of the task may stop.
Decide(p) ==
    LET c == procs[p].chain IN
    /\ procs[p].at = "deciding"
    /\ \/ End(p, c, "person")
       \/ ~CapReached(p) /\ At(p, "preflight") /\ UNCHANGED chains
    /\ UNCHANGED <<items, todo, watch, crashes>>

\* get(id)?.ended once the preflight's awaits are over.
StillOn(c) == chains[c].ended = "no"

\* authorize and usable answered: stop, or queue the next step.
QueueNext(p) ==
    LET c == procs[p].chain IN
    /\ procs[p].at = "preflight"
    /\ \/ End(p, c, "person") /\ UNCHANGED items
       \/ ~StillOn(c) /\ Return(p) /\ UNCHANGED <<items, chains>>
       \/ StillOn(c) /\ HasOpen /\ End(p, c, "queue") /\ UNCHANGED items
       \/ /\ StillOn(c) /\ ~HasOpen /\ Len(items) < MaxItems
          /\ items' = Queued(c)
          /\ chains' = [chains EXCEPT ![c] =
                              [ended |-> "no", steps |-> Append(@.steps, NewStep)]]
          /\ At(p, "queueing")
    /\ UNCHANGED <<todo, watch, crashes>>

AdvanceStep(p) == TickDone(p) \/ Advance(p) \/ Decide(p) \/ QueueNext(p)

-----------------------------------------------------------------------------
(* The timer and Stop *)

\* tick reads the file and walks over its chains; queued calls follow it.
TimerBegins ==
    /\ procs["timer"].at = "idle" /\ todo = <<>> /\ chains # <<>>
    /\ todo' = [c \in DOMAIN chains |-> [chain |-> c, ended |-> chains[c].ended]]
    /\ UNCHANGED <<items, chains, procs, watch, crashes>>

\* Slip: a chain the operator stopped is not looked at any more.
NoLateStart(c) == FALSE

\* The stopped chain's last step has started meanwhile.
LateStart(c) ==
    LET step == Last(chains[c].steps) IN
    ~step.launched /\ items[step.item].state = "started"

\* The next chain of the walk: advance it, or finish a Stop (stopLateStart); one
\* that ended in another way is passed over.
TimerTurns ==
    /\ procs["timer"].at = "idle" /\ todo # <<>>
    /\ todo' = Tail(todo)
    /\ LET c == Head(todo).chain
           step == Last(chains[c].steps)
           late == Head(todo).ended = "operator" /\ LateStart(c)
       IN /\ procs' = IF Head(todo).ended = "no"
                      THEN [procs EXCEPT !["timer"] = [at |-> "advance", chain |-> c, length |-> 0]]
                      ELSE procs
          /\ chains' = IF late
                       THEN Patched(c, chains[c].ended, [step EXCEPT !.launched = TRUE])
                       ELSE chains
          /\ items' = IF late THEN Stopped(items, step.item) ELSE items
    /\ UNCHANGED <<watch, crashes>>

\* POST chain/stop: cancels the waiting step, ends the chain, stops a launch it
\* can see.
Stop(c) ==
    /\ chains[c].ended = "no"
    /\ LET step == Last(chains[c].steps)
           known == step.launched \/ items[step.item].state = "started"
       IN /\ chains' = Patched(c, "operator", [step EXCEPT !.launched = known])
          /\ items' = IF known THEN Stopped(items, step.item)
                      ELSE IF items[step.item].state = "waiting"
                      THEN [items EXCEPT ![step.item].state = "cancelled"]
                      ELSE items
    /\ UNCHANGED <<procs, todo, watch, crashes>>

\* The dashboard restarts: requests and the walk are gone, an item left starting
\* is started when it has a launch and failed otherwise.
Crash ==
    /\ crashes < MaxCrashes
    /\ crashes' = crashes + 1
    /\ procs' = [p \in Procs |-> Idle] /\ todo' = <<>>
    /\ items' = [i \in DOMAIN items |->
                    IF items[i].state # "starting" THEN items[i]
                    ELSE [items[i] EXCEPT !.state =
                             IF items[i].step = "none" THEN "failed" ELSE "started"]]
    /\ UNCHANGED <<chains, watch>>

-----------------------------------------------------------------------------
(* An item of another task that waits for a chain of this one *)

\* resolveAfterChain: the chain running now, else the next one.
QueueAfterChain ==
    /\ watch.state = "none"
    /\ LET n == Len(chains) IN
       watch' = [state |-> "waiting", id |-> n,
                 since |-> n = 0 \/ (n > 0 /\ chains[n].ended # "no")]
    /\ UNCHANGED <<items, chains, procs, todo, crashes>>

\* afterChainState: the newest chain started since is the one it waits for.
AfterChain ==
    /\ watch.state = "waiting"
    /\ \/ /\ watch.since /\ Len(chains) > watch.id
          /\ watch' = [state |-> "waiting", since |-> FALSE, id |-> Len(chains)]
       \/ /\ ~watch.since /\ chains[watch.id].ended # "no"
          /\ watch' = [state |-> "started", since |-> FALSE, id |-> 0]
    /\ UNCHANGED <<items, chains, procs, todo, crashes>>

-----------------------------------------------------------------------------

Next ==
    \/ \E i \in DOMAIN items :
          \/ Pick(i) \/ StartGoesOn(i) \/ Verified(i) \/ CancelItem(i)
          \/ LaunchEnds(i, "running") \/ LaunchEnds(i, "stopping")
    \/ \E r \in Requests : \/ StartChain(r) \/ StartRefused(r) \/ ChainStarts(r)
                           \/ StartSingle(r) \/ SingleQueued(r)
    \/ \E p \in Procs : AdvanceStep(p)
    \/ \E c \in DOMAIN chains : Stop(c)
    \/ TimerBegins \/ TimerTurns \/ Crash
    \/ QueueAfterChain \/ AfterChain

\* The 5 s timer, awaits that end, the queue's start, verification, a stopped
\* process (one item at a time is out or can be picked).  An agent that nobody stops need not end.
Fairness ==
    /\ WF_vars(TimerBegins) /\ WF_vars(TimerTurns) /\ WF_vars(AfterChain)
    /\ \A p \in Procs : WF_vars(AdvanceStep(p))
    /\ \A r \in Requests : WF_vars(StartRefused(r) \/ ChainStarts(r) \/ SingleQueued(r))
    /\ WF_vars(\E i \in DOMAIN items : \/ Pick(i) \/ StartGoesOn(i) \/ Verified(i)
                                       \/ LaunchEnds(i, "stopping"))

Spec == Init /\ [][Next]_vars
FairSpec == Spec /\ Fairness

-----------------------------------------------------------------------------

\* taskChain.ts 13-16: a chain goes on only from a step that was verified, so of
\* its steps all but the last were and only the last is out; each is another
\* item, and there are at most Cap of them.
StepsInOrder ==
    TypeOK /\ \A c \in DOMAIN chains :
        LET steps == chains[c].steps
            n     == Len(steps)
        IN  /\ n <= Cap
            /\ \A k \in 1..(n - 1) : steps[k].launched /\ items[steps[k].item].step = "ok"
            /\ \A i \in DOMAIN items :
                  items[i].chain = c /\ (InFlight(i) \/ items[i].state \in Open)
                  => i = steps[n].item

\* The chains that run; the requests that saw none running and may still add
\* one, or a single Run.
Running == {c \in DOMAIN chains : chains[c].ended = "no"}
PastCheck == {r \in Requests : procs[r].at \in {"starting", "single"}}

OverlapBounded ==
    Running # {} => Cardinality(Running) + Cardinality(PastCheck) <= Cardinality(Requests)

YieldsToOthers ==
    \A c \in DOMAIN chains :
        chains[c].ended = "queue"
        => \E i \in DOMAIN items : items[i].chain # c /\ i > Head(chains[c].steps).item

\* dashboard/README.md 396-398, 443: while a chain runs nothing else starts on the task, but for the
\* requests that saw none (taskChain.ts 240 checks before the preflight's awaits):
\* each of them adds a chain or a single Run at most.  A chain gives way to the
\* queue only where one of those got in, never because of a step of its own.
ChainsKeepApart == OverlapBounded /\ YieldsToOthers

\* A chain that has ended gets no further step, and no step of it that waits in
\* the queue is started, whatever was awaited when it ended.
NothingAfterEnd ==
    [][/\ \A c \in DOMAIN chains :
             chains[c].ended # "no" => Len(chains'[c].steps) = Len(chains[c].steps)
       /\ \A i \in DOMAIN items :
             items[i].chain # 0 /\ chains[items[i].chain].ended = "operator"
             => ~(items[i].state = "waiting" /\ items'[i].state = "starting")]_vars

StepOut(c) ==
    \E i \in DOMAIN items : /\ items[i].chain = c
                            /\ \/ items[i].step \in {"running", "stopping"}
                               \/ items[i].state \in Open

\* README 436: Stop cancels the waiting step and stops the running one, also one
\* that was being started, and although agents need not end by themselves.
StoppedChainStops ==
    NothingAfterEnd /\ []<>(\A c \in DOMAIN chains : chains[c].ended = "operator" => ~StepOut(c))

\* If agents end, every chain ends with a reason, across restarts, and what
\* waited for it starts.
ChainsSettle ==
    WF_vars(\E i \in DOMAIN items : LaunchEnds(i, "running"))
    => []<>(/\ \A c \in DOMAIN chains : chains[c].ended # "no"
            /\ watch.state = "waiting" => watch.since)
=============================================================================
