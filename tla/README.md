# AI dev office: what is modelled, checked and proved

The repository runs a small office of coding agents. Tasks are directories under
`runs/<TASK>`; a *dispatch* lets one agent work on one task, either through
`run-agent.sh` or through the dashboard server (`dashboard/server`), and scripts move the
task's status from one role to the next. The dashboard shows all of it and lets an operator
start, stop, decide and grant. The hard part is not what an agent writes but who may work on
a task and when, what may call a task done, and whether what the operator sees and sends is
true: leases that lapse, processes that are killed, a dashboard that restarts in the middle
of a start, several writers of one status, several requests for one screen.

## 1. Inventory

| Component | State it keeps | Operations | What is hard | What makes it correct |
|---|---|---|---|---|
| Ownership register (`scripts/task-ownership.rb`) with the dispatch lease (`run-agent.sh` 660-1011) | `ownership.yaml`: epoch, holder, expiry, history; the driver's epoch, its renewer | acquire, renew, release, fence; background renewal, exit handler | lapsed holders that still run, clock read before the lock, two tasks on one checkout, kill -9, orphans | one fenced owner per task, no stale overwrite, every grant in the history, a dead dispatch's lease ends |
| Run queue (`runQueue.ts`) | the queue file | enqueue, cancel, tick | a start awaits, restarts, retention, triggers on other items | one step per task, the cap, no item lost, failed items never ran |
| Step governance (`stepGovernance.ts`, `taskLease.ts`, `routes/launch.ts`) | one record per step, the task's lease | begin, attach, abort, tick, finalize | restart between any two awaits, lease lost meanwhile, two servers | lease held while the agent runs, one commit, a result for every step |
| Office launcher (`officeLauncher.ts`, `streamProgress.ts`) | one record per launch, its log | start, stop, prune, view | detached processes, lost launches, half-read lines | an ending is observed once, success is what the CLI said |
| Role chains (`taskChain.ts`) | the chains file | start, advance, stop | starts that overlap, start and timer advance concurrently, stop during a start | chains beside one another only by overlapping starts, steps in order, a stopped chain runs nothing |
| Knowledge re-check (`knowledgeChain.ts`, `knowledgeReviews.ts`, `knowledgeDecisions.ts`) | chain file, audit cache, answers | rounds, loads, briefs | restarts between awaits, files that change during a load | rounds in order, audits current, answers reach a run |
| New task (`newTask.ts`, `open-task.rb`) | records, task directories | claim, redo, confirm, discard | ids claimed elsewhere, a probe inside Redo | what was confirmed is not rewritten |
| Worktrees (`worktrees.ts`) | the registry, git worktrees | make, adopt, remove, forget | a step, a hand-off or work by hand between the checks of a removal and the removal | nothing of somebody else's, dirty or unmerged is removed |
| Decision, hand-off and answer records | append-only files per task | append | reads that fail, edits by hand | what was acknowledged stays |
| Identity and prefixes (`identity.ts`) | local and shared registry, one temporary file | claim, rename | claims side by side, a pull during a claim | a prefix keeps its owner |
| Task status (`sync-status-from-output.rb`, `reconcile-*.rb`, `force-status-route.rb`, `enforce-output-contract.rb`, `update-task-branch.rb`, guards in `run-agent.sh`) | `status.yaml` | dispatch, sync, route, decide, unblock | six writers, held decisions, counters that loop guards rely on | no `done` unearned, branches shown, no endless hand-round |
| Completion gates and authorizations (`completion-guard.rb`, `update-completion-gate.rb`, `authorization-ledger.rb`, `record-authorization.rb`) | gates in `status.yaml`, the ledger | declare, pass, waive, depend, grant, revoke | clocks that disagree, revokes, plans that add gates | resolved stays resolved, gates in order, one is always next |
| Plan revisions (`revise-task-plan.rb`) | revisions, rosters | revise | gates of a revision | as the gates |
| Event gateway (`event-gateway.rb`) | delivery ledger, reference mapping, mirrors | reserve, resolve, mint, dispatch, finalize, mirror | redelivery, kills in between, a lost ledger, minted ids without directories | an event runs once, in its reference's task |
| Action Center (`reviewModel.ts`, `gateView.ts`, `authorizationGrants.ts`) | scan cache, expiry timer | scan, grant | scans that queue, grants that expire | no task that needs a human is left out |
| Live view (`watcher.ts`, `runScanner.ts`, `App.tsx`) | listing cache, event stream | debounce, scan, refresh | updates during a refresh, dropped streams | the screen ends up current |
| Start dialog and its rules (`RunPanel.tsx`, `startTask.ts`, ...) | the form, plans, polls | edit, confirm, send | plans and state change under the open form | what is sent was confirmed; form and route agree |
| 3D office (`office3d/`) | robots, desks, notes | walks, desks, boards | robots on their way, messages of four kinds | one robot per place, notes never wait for ever |
| Production signals (`prodSignals.ts`) | cache, saved reads | read back, fold, match | one build for many requests, slow disk | answers as recent as they claim |
| Reports (`releaseLadder.ts`, `flowInsights.ts`, `CommandView.tsx`, ...) | none; the views' loads | projections | older answers after newer ones | each run once, nothing shown is taken back |
| Code index lanes (`socraticode-*.mjs`) | pipes, watchers | index, proxy, graph | timer, answers and a second session | one embedding run, calls apart |
| Execution budget, preflight, review gate, input integrity | none | pure decisions over a task's files | boundaries | limits are limits |
| Run records, evidence, knowledge capture, validation, configuration | append-only files, text | write, check | - | - |

How they interact: the dashboard's queue starts a launch under step governance, which takes
the same lease as a dispatch of `run-agent.sh`; every status writer passes the register's
fence; sync and the reconcilers ask the completion guard before `done`; chains, New task and
knowledge rounds put items in the queue and watch them; the gateway calls `run-agent.sh`;
the watcher tells the client that files changed, and the client reads them again.

`PROJECT.json` lists the components with their status, the hazards with the line where each
bites and the property that covers it, and the lines each definition stands for.

## 2. Modules

In all modules a step is what the code does without giving up control: a stretch between two
awaits, or a critical section under a file lock. Names of the source are kept where TLA+
allows it. An operator commented "Slip:" is not part of the model: it is a plausible mistake
in the definition below it, under which TLC finds a property violated. In modules that only
TLC runs a CASE is read in order, as TLC evaluates it; in modules with theorems the cases are
disjoint.

**Who may work on a task**

* `TaskOwnership`: the register and its dispatches. State: the record (`epoch`, `holder`,
  `lease`, `history`) per task, the last status write, and what each run's driver, renewer
  and pending register operation are doing. The register reads the clock before it waits for
  the lock, so an operation queues (`BeginAcquire`, `RenewerWakes`, `BeginRelease`) and later
  runs its critical section (`Grant`/`Refuse`, `Renew`, `Release`); `lag` is how old its clock
  reading is. `OwnerWrite` and `OrchestratorWrite` are the fence's two lanes; `Kill` and
  `InterruptAcquire` are kill -9 and a signal during the acquire. Time is relative:
  `lease[t]` is what is left, so no clock bounds a behaviour.
* `FencedRegister`: the abstract specification, fresh tokens and writes only under the newest
  one, without leases, clocks or processes. `TaskOwnership` implements it with
  `token <- epoch, owner <- holder, held <- credential, wrote <- status's epoch`.
* `RunQueue`: the queue with what it starts; one action per operation of the queue file and
  one per await of a start. The launches, the step records (verified or not), restarts of the
  dashboard or the machine and a second server are the environment.
* `StepGovernance`: one task's steps from the inside. Every await of `begin`, `abort` and
  `finalize` is a step, `Crash` and `MachineRestart` may come between any two,
  `DispatchAcquires` is `run-agent.sh` at the same lease, a `Stranger` another dashboard
  server on the same launch directory.
* `TaskChain` (one chain advanced by its start and by the timer, with the queue items and
  after-chain triggers it uses), `ChainPairing` (which CLI writes and which reviews, and what
  the timeline says of it), `LaunchStream` (a launch's files and what each view makes of
  them).

**What may call a task done**

* `CompletionGates`: gates and ledger of one task, one action per subcommand of the scripts,
  plans of PM outputs and revisions that add gates, clocks that may step back. `Satisfied` is
  `valid_grant?` with the snapshot of the ledger a pass was made under.
* `TaskStatus`: `status.yaml` and everything that moves it. `Dispatch` is run-agent.sh up to
  the run: dependency and decision reconcilers, then the guards; `Sync`, `NothingSynced`,
  `ContractFails`, `PlanConflicts` and `LanesEnd` are the ends of a run; `UpdateBranch`,
  `ChangeGates`, `Decide` and `UpstreamEnds` come at any time. `Project` is
  branch-projection's `apply!`, which every writer ends with. Gates appear as none, open or
  resolved: `CompletionGates` looks inside.
* `EventGateway`: deliveries handled by processes side by side, each step one locked rewrite
  of the ledger with the reads before it. `Ages` is the staleness window running out, `Kill`
  and `LoseLedger` the faults the code handles.

**Services with state of their own**

`KnowledgeChain`, `KnowledgeAudits`, `KnowledgeFindings`; `NewTask`; `Worktrees`;
`TaskRecords` (decisions, hand-offs and answers: one append discipline); `Identity`;
`Authorizations` (scans, slots, the expiry timer and its limit, the client's inbox and grant dialog);
`ProdSignals`; `IndexLanes`.

**What the operator sees and sends**

`LiveView`, `StartDialog`, `ViewLoads` and `CommandMap` run (`ViewLoads` for a view that gives
its older requests up: FlowView, ReviewView, KnowledgeReviewsView); `OfficeFloor`, `DevBayBoard` and
`CatchUp` are the moving parts of the 3D office. `ActionCenter`, `StartRequest`,
`OfficeRooms`, `ReleaseLadder`, `FlowInsights`, `RunLists` and `GoGraph` are pure functions,
compared with reference definitions on every input of small sets (`ReleaseLadder` and
`FlowInsights` also proved, for any input).

**Instances and proofs**

`MCTaskOwnership` instantiates one module; `QueueSafety`, `StepsOfOneServer`,
`StepsTwoServers`, `Chains`, `ChainStepTwice` and `HeldApproval` run `RunQueue`,
`StepGovernance`, `TaskChain` and `TaskStatus` as they are. `MCProgress`, `MCServices` and
`MCViews` put parts that share no state *side by side*: a behaviour is one of one part, chosen
by the initial state, and the shared variables `a`, `b`, ... stand for that part's own. One run
then checks an instance of each, and each property says which part it is about. `MCViews` has
two specifications: the run `Views` takes `FairSpec`, the run `Screens` `ScreensSpec`.

The theorems of a module `M` are in `MProofs` (`TaskOwnership`, `StepGovernance`, `RunQueue`,
`TaskChain`, `CompletionGates`, `EventGateway`); those of `TaskStatus`, `TaskRecords`,
`LaunchStream` and `OfficeFloor` are in `TaskProofs`, with the induction the last three need; those of `KnowledgeChain`,
`KnowledgeAudits`, `NewTask`, `StartDialog`, `Identity`, `Worktrees`, `LiveView`, `ViewLoads`,
`CommandMap`, `CatchUp`, `ProdSignals`, `ChainPairing` and `IndexLanes` are together in
`ServicesProofs`, which has an instance of each; those of `Authorizations` and
`KnowledgeFindings`, where an operator answers too, and of the reports on gates and closed work
(`ReleaseLadder`, `FlowInsights`) stand behind the gates' in `CompletionGatesProofs`.


## 3. Runs

Deadlock is not checked except in the two ownership runs: queues, chains, steps and screens
really come to an end once every item, chain, step or change the bounds allow has been tried,
and pure functions are inputs without steps.

| Run | Instance | Shows |
|---|---|---|
| `OwnershipRaces` | 1 task, 3 symmetric runs, lease 2, renewal 1, renewals may be late | `OneFencedOwner`, `NoStaleOverwrite`, `AuditTrail`, and `RegisterSpec`: the register implements `FencedRegister` |
| `OwnershipPunctual` | 2 tasks, 3 runs, one checkout, renewals on time | `LiveDispatchNotReclaimable`, `WorkingOwnerUndisturbed`, `PunctualDispatchesKeepApart` |
| `QueueSafety` | 2 tasks and the knowledge key, 3 items, cap 1, 1 launch kept per key, 2 ended items kept, 1 restart | `OneStepPerTask`, `CapRespected`, `FailedNeverRan`, `AfterRanFirst` |
| `Progress` | queue: 2 items, cap 2, 2 restarts, a second server; register: 1 task, 2 runs, lag 1; fair | `QueueSettles`, `KilledHolderLapses` |
| `StepsOfOneServer` | 2 steps, 2 restarts, `run-agent.sh` at the same lease, fair | `RunningStepHoldsLease`, `CommittedOnceAfterSync`, `LostLeaseChangesNothing`, `StepsSettle` |
| `Chains` | 2 requests that may overlap, 2 chains of up to 2 steps, 2 items, 1 restart, fair | `StepsInOrder`, `ChainsKeepApart`, `StoppedChainStops`, `ChainsSettle` |
| `Services` | ten parts side by side (below) | `KnowledgeIsInOrder`, `NothingIsDoneOver`, `DoneIsEarned`, `EndedChainIsQuiet`, `ChainEnds`, `RecordsStay`, `EachTurnCounts` |
| `Screens` | live view (2 runs, 2 writes, 1 outage), inbox and grants (2 tasks at one slot; 1 task with a request), start dialog (2 edits, 1 request, 1 outage); every input of the forms, a Run's and a chain's start against the route's refusals among them | `UpdatesReachTheScreen`, `InboxFollowsLedger`, `PromisedIsSent`, `FormsAgree`, `ShowsTheServer` |
| `Views` | 3D office (2 tasks, one place of each kind), index lanes, signals, streams, view loads, live map; every input of the read models | `RobotsKeepTheirPlaces`, `LanesKeepApart`, `SignalsAreHonest`, `StepsAreTold`, `ReadModelsAgree`, `NothingIsTakenBack`, `ViewsSettle` |

The parts of `Services`: knowledge chain (one chain of two rounds asked for twice, 1 restart),
audits (a plain and an automatic file, 2 changes, 1 restart), findings (4 of 2 notes), New task
(2 requests, 2 attempts, 1 restart), worktrees (2 repositories, one read-only, 3 changes by
hand, 1 restart), records (2 decisions, 2 hand-offs and an answer, 1 restart), identity (2
names, 3 prefixes, 2 pulls), gates (2 gates, 1 action, 2 clock readings, 2 entries), status (1
branch, each limit 1), gateway (2 processes, 2 deliveries of one reference or two, 1 kill, 1
loss of the ledger).

Why the bounds suffice. Three runs give a displaced owner, its successor and the successor's
successor, which is what a lapsed holder must be told apart from; a lease of two renewals has a
moment before the renewal, at it and past it. Three queue items let one wait for another while
a third has the key or the slot; one kept launch and two kept items make pruning and retention
happen at once. Two requests are a start and another that passes the check for a running chain before, during
or after it; two chains are the one that ends and the one that starts meanwhile, or two at once. One
restart meets every await, since it may come after any step; two are used where an interrupted
recovery matters. Two gates form the shortest order and the shortest circle; two entries are a
grant and its revoke, in either order of clock and ledger. Limits of one let a task meet each
guard once and go on after a human; the same with two branches and limits of two was checked by
hand. Two deliveries are a redelivery, an event of the same reference, or a race for one id.
The views have one place of a kind, so that two robots contend for it. `OfficeFloor` runs
twice: with three changes of phase for what must never happen ("floor"), with two for what must
come to rest ("rest"). The lanes' own ids are
nine and come again when nothing under way has them; the theorems take infinitely many. All bounds are named constants of their modules (`Max...`, `Cap`,
`KeepEnded`, `Lease`, ...). Leases below `-MaxLag` have lapsed for every caller and are not
counted further down.

Three runs show the code doing other than a comment says (`findings` in `PROJECT.json` quotes
both sides):

* `StepsTwoServers`: a second server's timer takes a step between its begin and its spawn for
  lost and releases its lease; the agent then runs without one.
* `ChainStepTwice`: the start of a chain and the timer advance it from the same verified step;
  a chain goes on after a step that was cancelled.
* `HeldApproval`: an approval held by an unresolved gate completes a task that moved on and came
  back to the phase it was made in.

Each property of a passing run has a mutant in `PROJECT.json`: one definition with a plausible
slip, under which TLC refutes that property on that run's instance.

## 4. Fairness

All fairness is weak. Requests, edits, changes by hand, kills, restarts, outages and the
competing dispatch are never fair.

* Register: the kernel grants a waited-for `flock`, the renewal loop is scheduled, time passes.
  Nothing obliges a dispatch to start, write or end.
* Queue, steps, chains: the 5 s timers fire while the dashboard runs, a start's or a finalize's
  promises settle (each awaits a child process or a file operation), a running CLI ends (the
  time limit sees to it), a lease nobody renews runs out, time triggers come due.
* Knowledge chain: its timer, with the queue it watches.
* Start dialog: polls come back and its promises settle. It comes to show what the server says
  unless a read failed, because nothing polls a launch that looks ended.
* Views: frames are drawn and clocks tick (`requestAnimationFrame`, timers), answers come and
  land; the index daemon's and proxy's handlers run, its sweep fires, watchers start, a
  stopping process exits.

`MCProgress` and `MCViews` state some conditions of two parts as one: a behaviour stays in its
part, so the condition is that of the part it is in. For an action that is always fair by
itself this is the same as two conditions.

## 5. Proofs

| Module | Proves, for every value of the constants | Assumes |
|---|---|---|
| `TaskOwnershipProofs` | `TypeCorrect`; `FencingHolds`; `AuditTrail`, `OneFencedOwner`, `NoStaleOverwrite`; `Implementation` (`Spec => RegisterSpec`) | `OwnershipAssumption`: a renewal interval below the lease, as `config!` demands; null values that are no run and no checkout |
| the same | `LiveDispatchHolds`, `WorkingOwnerHolds`, `KeepApartHolds` | `LeaseOutlastsRenewal`: renewals on time, the interval and the longest wait for the lock within the lease, the interval within the fence's lease (300 s against 1800 s by default); `WorktreeExclusive` for the last |
| `RunQueueProofs` | `QueueIsCoherent`; `FailedNeverRan`, `AfterRanFirst`, `OneStepPerTask`, `CapRespected`; `RunsOnce` | nothing but `QueueAssumption` (limits are naturals); a second server included (`SharedSpec`) |
| `TaskChainProofs` | `ChainsFit`; `OverlapBounded`; `NothingAfterEnd`, the safety part of `StoppedChainStops`; `StepsInOrder`, `ChainsKeepApart` | `ChainAssumption`: limits are naturals, finitely many requests; `~SlowStart` for the last two, see `ChainStepTwice` |
| `StepGovernanceProofs` | `TypeCorrect`, `SyncClaims`, `CommittedOnce` for any number of servers; `LeaseStaysInPlace`, `LeaseProtectsRunningStep`, `LostLeaseIsInert` for one | `Strangers = {}` for the last three; `StepsTwoServers` shows why |
| `CompletionGatesProofs` | `GatesInvHolds`, `PassedInOrder`, `SomeGateIsNext`, `ResolvedStays`, `DoneIsEarned` | `~Replans` for the last |
| the same | inbox and grants: `InboxFollowsLedger` | `InboxLimits`: limits are naturals, there is a task, and a timer can be set for longer than any grant of a terminal runs (section 6) |
| the same | findings and answers: `AnswersReachARun`; `ScopeTakesThatManyRuns` | `ReviewLimits`: finitely many numbered findings, a brief takes at least one note and finding; `~Overtaking` for the first |
| the same | reports: `LadderIsHonest`; `FlowIsRight` | a finite product; windows of at least a day |
| `TaskProofs` | status: `StatusInvHolds`, `DoneIsEarned`, `BranchesShow`, `EachTurnCounts` | `Limits`: limits are naturals, as run-agent.sh validates |
| the same | records: `RecordsStay` | `RecordLimits`: a request appends to one file, a file of hand-offs keeps at least one; `~ReadsFail` |
| the same | launch streams: `ParsedAsOne`, `SuccessIsEarned`, `VerdictIsFinal` | `StreamLimits`: events are names, the page keeps some lines; `~Stragglers` for the last two, `~TornViews` for the last |
| the same | robots: `SpotsApart`; `DeskUnderRobot` | `FloorLimits`: tasks are numbered, places are naturals, a room is none of the other names; `RobotsSuffice` for the last: `~Reopens`, and no more tasks than robots |
| `EventGatewayProofs` | `TypesHold`, `TasksOfTheirOwn`, `RunsOnce` | `Limits`; `Calm` for the last: no process outlives the staleness window, no ledger is lost in mid-delivery |
| `ServicesProofs` | knowledge chain: `RoundsInvHolds`, `RoundsInOrder`, `EndedChainIsQuiet` | `Limits`: an operator asks for at least one round and no more than some number |
| the same | New task: `NewInvHolds`, `ConfirmedIsFinal`, `OutcomeKept` | `NewLimits`; `~SlowProbe` |
| the same | start dialog: `PromisedIsSent` | nothing |
| the same | prefixes: `OwnersStand` | `PrefixLimits`: candidates are not reserved, as identity.ts 61-64 filters |
| the same | worktrees: `MadeIsOnRecord`, `RemovesOnlyItsOwn` | `TreeLimits`; `~Replacing` |
| the same | audits: `AuditsAreCurrent` | `AuditLimits`: an audit has a policy source or not |
| the same | live view: `UpdatesReachTheScreen` | `LiveLimits`: no task is called as the placeholders are, timers in whole ticks |
| the same | view loads: `NeverBackwards` | `Guard = "abort"` |
| the same | command map: `LinesAreMoves`; catching up: `GapsArePlaced` | nothing |
| the same | production signals: `AnswersAreCurrent` | `~SlowDisk` |
| the same | chain pairing: `ReviewedByAnother`, `TimelineHolds` | `~ReviewsFollow` for the first |
| the same | index lanes: `OneEmbeddingRun`, `HostHearsItsOwn` | `LaneLimits`: the lane's own ids never run out and are none of the host's |

The hypotheses that name a switch (`~SlowStart`, `~SlowProbe`, `~Replacing`,
`~SlowDisk`, `~ReadsFail`, `~ReviewsFollow`, `~Overtaking`, `~Reopens`, `~Stragglers`, `~TornViews`, `Guard`, `Calm`, `~Replans`) leave out a rare event of section 6, under which TLC refutes the property; every
other bound, and how many of anything there are, is arbitrary. In `Services`, `Screens` and `Views` the
conditions of the parts are joined by part, so the theorems about such a part (`ServicesProofs`,
the gates, the inbox, the findings, the reports) state the part and not the joined condition. `OutcomeKept` is proved and in no run.

The inductive invariants, and why each is needed:

* `Fencing`: that two runs cannot both pass the fence depends on epochs never being handed out
  twice, which depends on who was granted which. Before its grant a run presents and holds
  nothing; no epoch beyond the task's is presented or recorded; the history lists epochs 1, 2,
  ... in order, one short of the current one exactly while there is a holder; and the epoch a
  run presents is recorded against that run.
* `HeldByRenewals`: a working dispatch keeps its task because its renewer runs, and because the
  lease it holds ends later than the renewer's sleep. Nobody else is granted the task then, so whoever works was working a step before or has
  just been granted it, which is when the register compares checkouts.
* `Coherent` (in `RunQueue`, checked there by hand): an item, its launch, its step record and
  what the tick holds in memory agree at every await of a start. A key has one open item, which
  is its newest; a waiting item has neither launch nor record; while an item is being started
  nothing else of its key is in flight. A step of the queue either moves items (`ItemsMove`) or
  is one await of the start, and after a crash the memory is gone and the rest still agrees.
* `ChainInv` and `OrderInv`: each step of a chain has its queue item and each such item its
  step, an item that is open is the newest of its task, what a request or the timer works on is on
  file. A request that is past the check has added no chain yet, so the running chains and those
  requests are never more than the requests, which starts that overlap may use up and nothing
  else can (`OverlapBounded`). Steps are in order because a start's own tick is over before its
  step is verified (`StartsStayBehind`), so only the timer goes on, from the last step and from a
  verified one (`GoesOnFromVerified`).
* `SyncClaimsHold`: a commit follows a step's sync only because its finalize believes the sync
  was made, from the record or from its own memory; whoever believes it is right.
* `LeaseInPlace` follows the lease through a step: a start that may still spawn holds it and no
  finalize has taken it up; a running launch holds it; a finalize past its renewal holds it.
* `GatesInv`: a gate that is passed or waived is resolved by the ledger as it is and as it may
  become (`Settled`), so resolved never goes back; gates wait on declared gates only, in no
  circle (`Acyclic`), and a passed gate on settled ones.
* `InboxInv`: nothing is asked twice, so slots and queue hold what they should (`SlotsFit`); a
  load belongs to a scan that reads or a request that checks (`LoadsFit`); what a scan that
  counts has read since the last change that is not announced yet is what the ledger says, and
  its end is watched by the timer (`ScansKept`).
* `ReviewInv`: a finding that an audit reports after its latest answer has been put to some run
  (`Heard`), because audits and answers come at times of their own (`InTime`), only answers close
  what a human must close (`HumansAnswer`), and a run is told the latest answers of the findings
  it takes along (`ToldAlong`). `LookedAt` counts: whatever comes first in a strict order with
  fewer than n before it is n at most (`FirstFew`), so each run adds at most what a brief holds.
* `StatusInv`: what a dispatch checked before its run still holds when the run ends (`MayRun`),
  although others write the status meanwhile. `EachTurnCounts` weighs the three counters by a
  rank of the phase, so that an output which clears one raises the sum all the same.
* `RecInv`: who waits for a file stands in its line once (`LineFits`, `LineHolds`), who writes is
  the first, and the entries it read are the ones the file still holds (`CopiesFit`). What a
  file's readable entries are is a function of its length; `ReadSteps` gives its steps.
* `StreamInv`: the parser is what it would be had everything up to its offset come at once
  (`CursorFits`), because a parser that stopped anywhere goes on as if it had not (`ReadOn`); after
  every third piece it knows of exactly the events so far (`WholeEvents`, by induction on them).
  `EarnedInv` adds that a log read to its end has no more to come, `FinalInv` that a verdict is what
  anybody who looks now would come to.
* `FloorTypes` and `FloorInv`: who has no robot holds no place and what a robot takes is nobody
  else's (`Crews`), at every turn of a frame; a robot that is not being taken away has the key of
  its task's place, one with a seat's key is at that seat or on its way there, and one on its way
  out has left its room for good (`Fit`), so its desk is kept exactly while it may still stand
  there (`Desked`). A frame is one turn per robot, which finds itself as the frame began
  (`TurnOnce`).
* `OnceInv`: a delivery has one process at work (`Alone`) whose row is there and young
  (`Fresh`), so that nobody reserves it again; only outcomes are mirrored (`Ended`), into
  directories that are there (`Filed`); a run is on record in its task, or its process is still
  to see to that, or was killed (`Counted`); and whoever takes up what is on record is still
  before the lookup that finds it (`Caught`). A step is one of a process at work (`Works`: the
  other processes and rows stay), of one that takes a delivery up, of time, or a loss.
* `RoundsInv`: rounds of different chains stay apart, the chain file names the newest round of
  its chain (`ChainFits`), and a start that is not answered yet has queued the one round of a
  chain that is not on file (`StartsFirst`), so nobody adds a round behind the chain's back.
* `NewInv`: claims come one after the other (`InLine`), an id belongs to the request that made
  its directory (`OwnTasks`), only the pm step a record names may be out (`RecordsFit`), and a Redo
  goes on from a task whose steps are over and that nobody confirmed (`RedoAlone`).
* `DialogInv`: a confirmation holds for the form as it is, and what is under way is what was
  promised, so any edit withdraws the one and cannot touch the other.
* `ClaimsFit`: in the text a claim is about to write its prefix was nobody's, and the temporary
  file, which all syncs of the server share, is one of a sync that has yet to rename it. So
  whatever is renamed, by whichever sync, takes an owner away only where the registry changed
  after that text was read.
* `TreesInv`: a path has one worktree; where the dashboard made one, on record or about to be
  recorded, nobody else has one (`MadeIsOurs`), which is all that holds of a removal whatever
  comes between its checks and git (`RemovalFits`); with nothing changed and nothing begun since
  it began, what the checks saw still holds too (`SinceFits`).
* `AuditsInv`: versions of a file, the contract and the policy never come back, so a signature
  names one state of the world, and a verdict stored under it is right as long as that state is
  there (`Right`), in either cache or in a load that reads one file at a time.
* `LiveInv`: when the last update found nothing under way and its refresh was not aborted
  (`calm`), and no change is still to be sent, everything read (the scan's cache, a refresh in
  progress, the list) is from after the last change (`AllFresh`), whatever updates were dropped
  before; the debounce and its cap
  bound how long one can be (`Timed`).
* `ViewInv`, `MapInv`, `CatchInv`: only the newest request of a page counts and it reads no
  earlier than what is shown; an open map compares with exactly what it shows; a catch-up latch
  that is off has no change of a gap left to place.
* `SigInv`: the read in memory is the one being saved, and is nothing or the saved one while a
  request loads that (`ReadsFit`), so memory never goes back and no answer is newer than it
  (`Ordered`).
* `PairInv`: the steps of a chain but the last were good, and as long as it runs nothing of the
  task is launched but its last step, so the writer the code looks up in the chain is the last
  one there was (`Apart`).
* `DaemonInv`, `ProxyInv`: whatever is in a pipe or being worked on has an id of its own
  (`IdsApart`), and an id the lane makes up is unused (`Unused`). The daemon's update is in one
  place, and a watcher that is on meets a stop before the next update (`StopIsFirst`); what comes
  back to the proxy is open at the host or asked by the proxy, and never both.

Each proof that a step preserves its invariant has one step per action.

Two reports are pure functions without recursion, and proved for every input. `ReleaseLadder`
(`Product`: any finite set of runs): the parts of a product are disjoint and fill it, a task's
highest rung being one of six (`EachRunCountsOnce`); the train that speaks for a rung has it open
if any of them has (`SpeakerIs`); and letting the pending trains of a group pass changes no
task's trains (`GroupWouldProveHolds`). `FlowInsights` (`Office`: any finite set of runs): a
time is in the window exactly when its day is one of the bars' and it is not to come
(`InWindowIs`). The code reads only the histories of runs updated since `windowDays` ago; a run
whose update date is so many days behind its history (`Behind`: none, or the midnights its last
dispatch ran over) is read whenever it has a row after that many first days of the window
(`WindowIsRead`). `EndedIs` and `SpanIs` say when a run ended and how
long it took.

The induction theorems of the library take a predicate as a parameter, which no installed prover
can instantiate. Where a proof needs induction it goes through a set instead: a set of naturals
with 0 and every successor is all of them (`Induction`, from the least counterexample), so the
value of a recursive function exists (`Iterates`) and is the only one with its steps
(`SameSteps`).

Only model-checked: the forms, the gate board, the other pure algorithms (`GoGraph`,
`OfficeRooms`, `RunLists`, ...: sorting, searching and folding), which TLC compares with reference
definitions, and all liveness: the prover has no rule
for fairness.

## 6. What is assumed or left out

Assumed:

* Register: a run id acquires once. The kill switch (`AI_DEV_OFFICE_OWNERSHIP=off`) voids the
  fence by design. Parallel dev lanes take no lease. Corrupt records and configurations are
  refused without a change. Files are not deleted or edited by hand unless a module says so.
* Queue: the routes' own earlier refusals are left out. Spawning a wrapper and writing its
  launch record count as one step (officeLauncher.ts 385 does them one after the other).
* Identity and worktrees: `writeLocalPrefix` is one step, so is forgetting a record whose
  worktree is gone, and one removal is under way at a time.
* Steps: the run record, evidence and texts of a result are left out; several worktrees count
  as one; a lease outlives the time between two renewals of a step somebody is working on
  (1800 s against seconds), so `Lapse` needs a step left alone.
* Status: one task; another one it waits on is done or failed. A dispatch's guards and its
  acquire are one step (run-agent.sh 2229-2748: several seconds in which another dispatch may
  pass the same guards; the register then refuses one of them).
* Gateway: normalizers, explicit task ids, dry runs and a gateway switched off are left out.
  A kill of the process ends its run too.
* Process ids are not reused, files written by rename are read whole.

Hazard switches. Where a property holds only because something rare does not happen, the rare
thing is a constant. The runs set it to FALSE (`ViewLoads.Guard` to `"abort"`, which the property names); TLC
refutes the property with TRUE (`"none"`), and `hazards` names the line. Repeat it by changing the constant
in the MC module (in the `.cfg` for `TaskChain` and `TaskStatus`):

| Constant | Refutes | What it stands for |
|---|---|---|
| `Worktrees.Replacing` | `RecordsStay` | a worktree by hand where one on record was |
| `NewTask.SlowProbe` | `NothingIsDoneOver` | a confirm while Redo probes the CLI |
| `TaskRecords.ReadsFail` | `RecordsStay` | a file that is there and cannot be read |
| `KnowledgeFindings.Overtaking` | `KnowledgeIsInOrder` | an audit that was not told of an answer |
| `ProdSignals.SlowDisk` | `SignalsAreHonest` | a build that ends while the saved read loads |
| `OfficeFloor.Reopens` | `RobotsKeepTheirPlaces` | a task back in a room while its robot is on its way out |
| `LaunchStream.TornViews`, `.Stragglers` | `NothingIsTakenBack` | a launch that ends between two looks of one view; a grandchild that writes on |
| `ViewLoads.Guard` | `NothingIsTakenBack` | ReleaseLadderView and ProdSignalsPanel, which abort nothing: the property is not about them, and no property is |
| `ChainPairing.ReviewsFollow` | `StepsAreTold` | a second reviewer right after a first (routes/launch.ts 256) |
| `TaskChain.SlowStart` | `StepsInOrder`, `ChainsKeepApart` | the run `ChainStepTwice` |
| `TaskStatus.Against` | `HeldApprovalIsCurrent` | the run `HeldApproval` |
| `CompletionGates.Replans` | `DoneIsEarned` | a PM run forced on a finished task declares gates and keeps `done` (sync-status-from-output.rb 184) |
| `EventGateway.SlowDispatch`, `.LossInFlight` | `NothingIsDoneOver` | a session longer than 900 s; the ledger lost in mid-delivery |

Limits of the code that a definition states and TLC refutes; they are in no run, to repeat one
add it to the configuration named:

* `TaskOwnership!ExclusiveCheckout` (OwnershipRaces with `t2` and `TwoTasks`, `OneCheckout`): a
  lapsed holder renews after another task was granted its checkout. `EndedHoldsNothing`
  (OwnershipRaces): SIGTERM while the driver waits for its acquire ends it without a release
  (run-agent.sh 942).
* `LiveDispatchNotReclaimable` with `Lease = 3`, `FenceLease = 2`, `RenewInterval = 2`: the
  fence renews by the default lease, not a longer configured one (task-ownership.rb 474). With
  two runs, `Lease = 4` and `MaxLag = 1` it holds; with `Lease = 2` and `MaxLag = 1` not: a
  clock read long before the lock eats a short lease.
* Two chains at once (Chains with `Cardinality(Running) <= 1` in place of `OverlapBounded`): the
  check of taskChain.ts 240 comes before the preflight's awaits, so two starts may both pass it,
  though dashboard/README.md 396-398 says that a chain is refused while one runs. The single Run
  it says is refused (443) gets in the same way.
* `LiveView!UpdatesReachTheScreen` without `calm` (Screens): an update during a refresh is
  dropped (App.tsx 245), and the screen stays behind until the next change.
* `Identity!OwnerStands` without its exception (Services): between reading office.team.yaml and
  the rename another sync's claim, or a pull, may have given prefixes to somebody; the rename
  loses them (identity.ts 149-178). The temporary file is named after the process (176), so of
  two syncs the second may rename the first's text, or find no file and fail.
* `Worktrees!RemovedIsItsOwn` with its last two lines for every removal (Services): a step may
  begin, or the branch move on, between the checks and `git worktree remove` (worktrees.ts
  448-455); git refuses only what is not committed.
* `InboxFollowsLedger` with `MaxTimer <- 1` (Screens): a timer cannot be set for longer than
  24.8 days, and the code then sets none (gateView.ts 196). A grant of the dashboard runs for 168
  hours at most; one of a terminal may run longer, and its end shows only when the ledger is
  read again.
* `FlowInsights!FlowIsRight` with a `Behind` that allows one day more (Views): the date of an
  update is the day the dispatch began (run-agent.sh 651) and the row's the time it ended
  (sync-status-from-output.rb 248, 270), though flowInsights.ts 265 takes the first for at
  least as recent. A task that ends just after the midnight of the first bar's day, and is not
  touched again, is missing from that bar.
* The form and the route disagree where `FormsAgree` says so (`Untold` in `StartRequest`): a Run
  "now" while the previous step's verification has failed and is tried again, which the button
  offers (startTask.ts 69, RunPanel.tsx 92) and the route answers with 409 (routes/launch.ts
  223, 358); a chain that the office holds back, or whose reviewer wrote the last step; a time
  beyond 7 days. Without these exceptions TLC refutes it (Screens).
* `RunQueue!JustEndedIsKept` (QueueSafety): an item that waited long is dropped from the file
  by the write that ends it.
* `StepGovernance!ResultIsFinal` (StepsOfOneServer): `abort` and the timer both complete a step
  that did not start; the later result stands.
* `KnowledgeAudits!AuditsFollowPolicy` (in MCServices): a cached contract outlives a change of
  the policy file.
* `OfficeFloor!DeskUnderRobot` with fewer robots than tasks (`MaxActors` 1): a task that got a
  desk and no robot gets one when it ends, which celebrates at a desk the row has given up.
  The code has robots for every desk and eight more (officeCharacters.ts 63).
* `TaskStatus!BlockedNamesItsWait` (in MCServices): a branch update may leave a blocked task
  that names nothing it waits on, which validate-yaml.rb 1818 refuses.

Hazards seen while modelling that are neither modelled nor checked: a finished task dispatched
again by a role other than pm (run-agent.sh 2295); a stale `output.yaml` synced a second time
(sync-status-from-output.rb 88-93); free-roam out of `validation_failed` where sync and the
guard disagree (sync 233, run-agent.sh 2236); the forced route of parallel lanes (run-agent.sh
2060); an after trigger nobody ever queues for, which waits for ever (runQueue.ts 184); a mirror
with an empty row, which every later writer fails on (event-gateway.rb 369; `torn` in the model,
and never reached while no ledger is lost in mid-delivery).

Not modelled: execution budget, preflight, review gate and input integrity (pure decisions over
one task's files); run records, evidence, knowledge capture (append-only texts); validation and
configuration scripts; the text, layout, geometry and charts of the client; the wrapper's
plumbing and the CLI probe; the index server, git and the CLIs themselves, which are outside
the repository and appear as what they may answer.

## 7. Plan

1. Safety properties for `DevBayBoard`, which has only a liveness property so far, and their proofs.
2. Execution budget, and evidence that a plan revision makes stale, beside `CompletionGates`.
3. Two tasks in `TaskStatus` that wait on each other; the guards and the acquire as two steps,
   composed with `TaskOwnership`.
