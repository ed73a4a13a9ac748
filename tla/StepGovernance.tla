--------------------------- MODULE StepGovernance ---------------------------
(***************************************************************************)
(* dashboard/server/src/services/stepGovernance.ts with the starter of       *)
(* routes/launch.ts: what the dashboard does around one task's steps -- the  *)
(* lease before, verification, sync and the commit after, the lease back --  *)
(* when it may stop at any await and its timer looks at every record.        *)
(*                                                                         *)
(* One task of one office.  The launch directory is shared by every          *)
(* dashboard server of the machine, so a Stranger, the server of another     *)
(* office root, runs governance.tick over the same records.                  *)
(*                                                                         *)
(* The lease is TaskOwnership's, seen from here: who holds it, whether it    *)
(* has lapsed, and who was granted the current epoch.                        *)
(***************************************************************************)
EXTENDS Integers, FiniteSets

CONSTANTS
    Own,            \* the server of the task's office
    Strangers,      \* servers of other office roots
    NoRun,          \* nobody holds the lease
    Dispatch,       \* run-agent.sh or another session holds it
    MaxSteps,       \* bound: steps tried
    MaxCrashes      \* bound: restarts of a server or of the machine

ASSUME StepAssumption ==
    /\ Own \notin Strangers
    /\ MaxSteps \in Nat /\ MaxCrashes \in Nat
    /\ NoRun # Dispatch /\ {NoRun, Dispatch} \cap (0..MaxSteps) = {}

VARIABLES
    holder,     \* ownership.yaml: whose lease it is
    lapsed,     \* it has run out
    grantee,    \* who was granted the current epoch
    tried,      \* the steps tried so far are 1..tried
    launch,     \* launch[x]: how step x's launch stands
    progress,   \* progress[x]: what its step record says was done
    result,     \* result[x]: its result, "none" while verifying
    synced,     \* synced[x]: the sync of step x's output passed its fence
    commits,    \* commits[x]: dashboard commits carrying its Launch-Id
    start,      \* Own's start of step `tried`: where it is
    work,       \* work[s][x]: server s's finalize of step x
    crashes

lease == <<holder, lapsed, grantee>>
record == <<progress, result>>
effects == <<synced, commits>>
vars == <<lease, tried, launch, record, effects, start, work, crashes>>

Servers == {Own} \cup Strangers
Steps == 1..MaxSteps

Done == {"begun", "checked", "synced", "committed"}
Results == {"unstarted", "unsuccessful", "lease lost", "unverified", "agent commit", "verified"}

\* A finalize under way: the stage it is in, its copy of the record's progress,
\* and the result it will save.
Idle == [stage |-> "none", done |-> "begun", verdict |-> "verified"]
Work == [stage : {"none", "renew", "check", "sync", "ran sync", "commit", "ran commit",
                  "release", "save"},
         done : Done, verdict : Results]

TypeOK ==
    /\ holder \in Steps \cup {NoRun, Dispatch}
    /\ lapsed \in BOOLEAN
    /\ grantee \in Steps \cup {NoRun, Dispatch}
    /\ tried \in 0..MaxSteps /\ (start # "idle" => tried \in Steps)
    /\ launch \in [Steps -> {"none", "running", "succeeded", "tampered", "failed"}]
    /\ progress \in [Steps -> {"none"} \cup Done]
    /\ result \in [Steps -> {"none"} \cup Results]
    /\ synced \in [Steps -> BOOLEAN]
    /\ commits \in [Steps -> Nat]
    /\ start \in {"idle", "called", "leased", "begun", "attached", "aborting", "aborted"}
    /\ work \in [Servers -> [Steps -> Work]]
    /\ crashes \in 0..MaxCrashes

Init ==
    /\ holder = NoRun /\ lapsed = FALSE /\ grantee = NoRun
    /\ tried = 0
    /\ launch = [x \in Steps |-> "none"]
    /\ progress = [x \in Steps |-> "none"]
    /\ result = [x \in Steps |-> "none"]
    /\ synced = [x \in Steps |-> FALSE]
    /\ commits = [x \in Steps |-> 0]
    /\ start = "idle"
    /\ work = [s \in Servers |-> [x \in Steps |-> Idle]]
    /\ crashes = 0

-----------------------------------------------------------------------------

OnRecord(x) == progress[x] # "none"

\* stepInFlight: a launch runs, or a record has no result.
InFlight(x) == launch[x] = "running" \/ (OnRecord(x) /\ result[x] = "none")

\* release by x's run, holder-only.
ReleasedBy(x) ==
    /\ holder' = IF holder = x THEN NoRun ELSE holder
    /\ lapsed' = (lapsed /\ holder # x)
    /\ UNCHANGED grantee

\* The step record is written as a whole from somebody's copy of it.
Save(x, done, outcome) ==
    /\ progress' = [progress EXCEPT ![x] = done]
    /\ result' = [result EXCEPT ![x] = outcome]

-----------------------------------------------------------------------------
(* Own starts a step *)

\* The queue picks the next step of a task that is free.
Call ==
    /\ start = "idle" /\ tried < MaxSteps
    /\ \A x \in Steps : ~InFlight(x)
    /\ tried' = tried + 1
    /\ start' = "called"
    /\ UNCHANGED <<lease, launch, record, effects, work, crashes>>

\* begin: the CLI unusable, the run not recorded, or the lease is held.
CallRefused ==
    /\ start = "called"
    /\ start' = "idle"
    /\ UNCHANGED <<lease, tried, launch, record, effects, work, crashes>>

Acquire ==
    /\ start = "called"
    /\ holder = NoRun \/ lapsed
    /\ holder' = tried /\ lapsed' = FALSE /\ grantee' = tried
    /\ start' = "leased"
    /\ UNCHANGED <<tried, launch, record, effects, work, crashes>>

SnapshotFails ==
    /\ start = "leased"
    /\ ReleasedBy(tried)
    /\ start' = "idle"
    /\ UNCHANGED <<tried, launch, record, effects, work, crashes>>

\* The snapshot is taken; the record is saved and the step noted as starting.
SaveRecord ==
    /\ start = "leased"
    /\ Save(tried, "begun", "none")
    /\ start' = "begun"
    /\ UNCHANGED <<lease, tried, launch, effects, work, crashes>>

\* attachWorktrees saves the starter's copy again.
Attach ==
    /\ start = "begun"
    /\ Save(tried, "begun", "none")
    /\ start' = "attached"
    /\ UNCHANGED <<lease, tried, launch, effects, work, crashes>>

Spawn ==
    /\ start = "attached"
    /\ launch' = [launch EXCEPT ![tried] = "running"]
    /\ start' = "idle"
    /\ UNCHANGED <<lease, tried, record, effects, work, crashes>>

\* A worktree refused, or the CLI did not spawn.
Abort ==
    /\ start \in {"begun", "attached"}
    /\ start' = "aborting"
    /\ UNCHANGED <<lease, tried, launch, record, effects, work, crashes>>

AbortReleases ==
    /\ start = "aborting"
    /\ ReleasedBy(tried)
    /\ start' = "aborted"
    /\ UNCHANGED <<tried, launch, record, effects, work, crashes>>

AbortSaves ==
    /\ start = "aborted"
    /\ Save(tried, "begun", "unstarted")
    /\ start' = "idle"
    /\ UNCHANGED <<lease, tried, launch, effects, work, crashes>>

StartStep ==
    \/ CallRefused \/ Acquire \/ SnapshotFails \/ SaveRecord \/ Attach \/ Spawn
    \/ Abort \/ AbortReleases \/ AbortSaves

-----------------------------------------------------------------------------
(* A server finalizes a step *)

\* Slip: a step between its begin and its spawn is taken for lost.
NobodyStarting(s, x) == TRUE

\* Own knows in memory which step it is starting; nobody else does.
NotStarting(s, x) == ~(s = Own /\ x = tried /\ start \in {"begun", "attached"})

\* Slip: a step without a launch is left alone.
EndedLaunch(x) == launch[x] \notin {"none", "running"}

\* tick: the launch is not running, or there is none.
Ended(x) == launch[x] # "running"

\* tick, or the task's page: the result is still missing, and this server is
\* not at it already.
Finalize(s, x) ==
    /\ OnRecord(x) /\ result[x] = "none"
    /\ Ended(x) /\ NotStarting(s, x)
    /\ work[s][x].stage = "none"
    /\ work' = [work EXCEPT ![s][x] =
          IF launch[x] \in {"succeeded", "tampered"}
          THEN [stage |-> "renew", done |-> progress[x], verdict |-> "verified"]
          ELSE [stage |-> "release", done |-> progress[x], verdict |-> "unsuccessful"]]
    /\ UNCHANGED <<lease, tried, launch, record, effects, start, crashes>>

\* At this stage of s's work on x; and on to the next one.
At(s, x, stage) == work[s][x].stage = stage

Goes(s, x, stage) == work' = [work EXCEPT ![s][x].stage = stage]

\* complete with this result: the lease is given back unless it was lost.
Completes(s, x, verdict) ==
    work' = [work EXCEPT ![s][x].stage = IF verdict = "lease lost" THEN "save" ELSE "release",
                         ![s][x].verdict = verdict]

\* The record says so already: passed before a restart.
PassedBefore(s, x, done) ==
    \/ work[s][x].done = done
    \/ work[s][x].done = "committed"
    \/ work[s][x].done = "synced" /\ done = "checked"

\* Slip: a lease that cannot be renewed is not looked at.
RenewUnchecked(s, x) ==
    /\ At(s, x, "renew")
    /\ lapsed' = (lapsed /\ holder # x)
    /\ Goes(s, x, "check")
    /\ UNCHANGED <<holder, grantee, tried, launch, record, effects, start, crashes>>

\* The lease is still ours, or nothing below runs.
Renew(s, x) ==
    /\ At(s, x, "renew")
    /\ IF holder = x THEN Goes(s, x, "check") ELSE Completes(s, x, "lease lost")
    /\ lapsed' = (lapsed /\ holder # x)
    /\ UNCHANGED <<holder, grantee, tried, launch, record, effects, start, crashes>>

\* The record saved with this progress, from a copy that has no result.
Progresses(s, x, done, stage) ==
    /\ Save(x, done, "none")
    /\ work' = [work EXCEPT ![s][x].stage = stage, ![s][x].done = done]

\* output, integrity, validate and enforce.  A Stranger looks for the output in
\* its own office root.
Check(s, x) ==
    /\ At(s, x, "check")
    /\ \/ /\ PassedBefore(s, x, "checked")
          /\ Goes(s, x, "sync")
          /\ UNCHANGED record
       \/ /\ ~PassedBefore(s, x, "checked") /\ s = Own
          /\ Progresses(s, x, "checked", "sync")
       \/ /\ ~PassedBefore(s, x, "checked")
          /\ Completes(s, x, "unverified")
          /\ UNCHANGED record
    /\ UNCHANGED <<lease, tried, launch, effects, start, crashes>>

\* sync-status-from-output.rb: fenced, and without effect when status.yaml has
\* this output already.  A phase held back for its completion gates counts too.
Sync(s, x) ==
    /\ At(s, x, "sync")
    /\ \/ /\ PassedBefore(s, x, "synced")
          /\ Goes(s, x, "commit")
          /\ UNCHANGED synced
       \/ /\ ~PassedBefore(s, x, "synced") /\ s = Own /\ grantee = x
          /\ synced' = [synced EXCEPT ![x] = TRUE]
          /\ Goes(s, x, "ran sync")
       \/ /\ ~PassedBefore(s, x, "synced")
          /\ Completes(s, x, "unverified")
          /\ UNCHANGED synced
    /\ UNCHANGED <<lease, tried, launch, record, commits, start, crashes>>

SaveSync(s, x) ==
    /\ At(s, x, "ran sync")
    /\ Progresses(s, x, "synced", "commit")
    /\ UNCHANGED <<lease, tried, launch, effects, start, crashes>>

\* Slip: only the saved progress says whether the commit was made.
Uncommitted(s, x) == ~PassedBefore(s, x, "committed")

\* Nor does HEAD carry this launch's Launch-Id.
ToCommit(s, x) == ~PassedBefore(s, x, "committed") /\ commits[x] = 0

\* No commit on top of an agent's; an empty diff, or git, may leave none.
Commit(s, x) ==
    /\ At(s, x, "commit")
    /\ IF launch[x] = "tampered"
       THEN Completes(s, x, "agent commit") /\ UNCHANGED commits
       ELSE /\ Goes(s, x, "ran commit")
            /\ \/ ToCommit(s, x) /\ commits' = [commits EXCEPT ![x] = @ + 1]
               \/ UNCHANGED commits
    /\ UNCHANGED <<lease, tried, launch, record, synced, start, crashes>>

\* A failed commit is saved as failed: after a restart it is tried again.
SaveCommit(s, x) ==
    /\ At(s, x, "ran commit")
    /\ \E saved \in {work[s][x].done, "committed"} : Save(x, saved, "none")
    /\ Completes(s, x, "verified")
    /\ UNCHANGED <<lease, tried, launch, effects, start, crashes>>

\* complete: the lease first ...
Release(s, x) ==
    /\ At(s, x, "release")
    /\ ReleasedBy(x)
    /\ Goes(s, x, "save")
    /\ UNCHANGED <<tried, launch, record, effects, start, crashes>>

\* ... then the result.
SaveResult(s, x) ==
    /\ At(s, x, "save")
    /\ Save(x, work[s][x].done, work[s][x].verdict)
    /\ work' = [work EXCEPT ![s][x] = Idle]
    /\ UNCHANGED <<lease, tried, launch, effects, start, crashes>>

FinalizeStep(s, x) ==
    \/ Renew(s, x) \/ Check(s, x)
    \/ Sync(s, x) \/ SaveSync(s, x)
    \/ Commit(s, x) \/ SaveCommit(s, x)
    \/ Release(s, x) \/ SaveResult(s, x)

-----------------------------------------------------------------------------
(* Everything else *)

\* The wrapper writes the CLI's exit code; it renewed the lease until then.
\* The agent may have committed in the step's worktree.
LaunchEnds(x) ==
    /\ launch[x] = "running"
    /\ \E how \in {"succeeded", "tampered", "failed"} : launch' = [launch EXCEPT ![x] = how]
    /\ UNCHANGED <<lease, tried, record, effects, start, work, crashes>>

\* A lease runs out lease_seconds after its last renewal.  That is longer than
\* anything here takes between two renewals, so it happens only when nobody is
\* at work on the step.
Lapse ==
    /\ holder \in Steps /\ ~lapsed
    /\ launch[holder] # "running"
    /\ ~(holder = tried /\ start # "idle")
    /\ \A s \in Servers : At(s, holder, "none")
    /\ lapsed' = TRUE
    /\ UNCHANGED <<holder, grantee, tried, launch, record, effects, start, work, crashes>>

DispatchAcquires ==
    /\ holder = NoRun \/ lapsed
    /\ holder' = Dispatch /\ lapsed' = FALSE /\ grantee' = Dispatch
    /\ UNCHANGED <<tried, launch, record, effects, start, work, crashes>>

DispatchReleases ==
    /\ holder = Dispatch
    /\ holder' = NoRun
    /\ UNCHANGED <<lapsed, grantee, tried, launch, record, effects, start, work, crashes>>

\* A server stops and comes back without what it had in memory.
Crash(s) ==
    /\ crashes < MaxCrashes
    /\ crashes' = crashes + 1
    /\ work' = [work EXCEPT ![s] = [x \in Steps |-> Idle]]
    /\ start' = IF s = Own THEN "idle" ELSE start
    /\ UNCHANGED <<lease, tried, launch, record, effects>>

\* The machine restarts: the launches are gone as well.
MachineRestart ==
    /\ crashes < MaxCrashes
    /\ crashes' = crashes + 1
    /\ work' = [s \in Servers |-> [x \in Steps |-> Idle]]
    /\ start' = "idle"
    /\ launch' = [x \in Steps |-> IF launch[x] = "running" THEN "failed" ELSE launch[x]]
    /\ UNCHANGED <<lease, tried, record, effects>>

-----------------------------------------------------------------------------

Next ==
    \/ Call \/ StartStep
    \/ \E s \in Servers, x \in Steps : Finalize(s, x) \/ FinalizeStep(s, x)
    \/ \E x \in Steps : LaunchEnds(x)
    \/ Lapse \/ DispatchAcquires \/ DispatchReleases
    \/ (\E s \in Servers : Crash(s)) \/ MachineRestart

\* Promises settle, the 5 s timer fires, the time limit ends a CLI, time passes.
Fairness ==
    /\ WF_vars(StartStep)
    /\ \A s \in Servers, x \in Steps : WF_vars(Finalize(s, x)) /\ WF_vars(FinalizeStep(s, x))
    /\ \A x \in Steps : WF_vars(LaunchEnds(x))
    /\ WF_vars(Lapse)

Spec == Init /\ [][Next]_vars
FairSpec == Spec /\ Fairness

-----------------------------------------------------------------------------
(* What the dashboard promises *)

\* taskLease.ts 9: the lease is held for the whole step -- while its agent runs
\* and until a result is on record, nobody else's dispatch can own the task.
RunningStepHoldsLease == \A x \in Steps : launch[x] = "running" => holder = x

\* stepGovernance.ts 20: a step whose lease was lost changes nothing any more,
\* although it may have been interrupted anywhere and resumed much later.
LostLeaseChangesNothing ==
    [][\A x \in Steps : synced'[x] # synced[x] \/ commits'[x] # commits[x] =>
          holder = x /\ ~lapsed]_vars

\* stepGovernance.ts 28, 35: whatever a restart interrupts, the dashboard commits
\* a step's diff at most once, and only after its output passed and was synced.
CommittedOnceAfterSync == \A x \in Steps : commits[x] <= (IF synced[x] THEN 1 ELSE 0)

\* stepGovernance.ts 35: a restart releases the step's lease or lets it lapse,
\* and every step on record gets its result, also one that never had a launch.
StepsSettle ==
    \A x \in Steps :
        /\ OnRecord(x) ~> result[x] # "none"
        /\ holder = x ~> holder # x \/ lapsed

\* Nothing is known of a step before it is tried.
UntriedUntouched ==
    \A x \in Steps : x > tried =>
        /\ launch[x] = "none" /\ progress[x] = "none"
        /\ \A s \in Servers : At(s, x, "none")

\* A launch runs only while its run holds the lease, renewed in time.
RunningHolds == \A x \in Steps : launch[x] = "running" => holder = x /\ ~lapsed

\* A start that may still spawn holds the lease, and its step has no launch yet.
StartHolds ==
    /\ start # "idle" => launch[tried] = "none"
    /\ start \in {"called", "leased"} => progress[tried] = "none"
    /\ start \in {"leased", "begun", "attached"} => holder = tried /\ ~lapsed

\* No step is finalized while it runs or may still be spawned.
FinalizedAfterEnd ==
    \A s \in Servers, x \in Steps : ~At(s, x, "none") =>
        /\ launch[x] # "running"
        /\ ~(x = tried /\ start \in {"called", "leased", "begun", "attached"})

\* The stages a finalize reaches only with the lease, and those after the sync.
Working == {"check", "sync", "ran sync", "commit", "ran commit"}
AfterSync == {"ran sync", "commit", "ran commit"}

\* A finalize past its renewal holds the lease.
WorkHolds ==
    \A s \in Servers, x \in Steps :
        /\ work[s][x].stage \in Working \cup {"renew"} => launch[x] \in {"succeeded", "tampered"}
        /\ work[s][x].stage \in Working => holder = x /\ ~lapsed

\* Why one server keeps the lease where it belongs.
LeaseInPlace ==
    TypeOK /\ UntriedUntouched /\ RunningHolds /\ StartHolds /\ FinalizedAfterEnd /\ WorkHolds

\* Why a commit follows the sync of the same output: whatever claims the sync, on
\* disk or in a server's memory, is right.
SyncClaimsHold ==
    /\ TypeOK
    /\ \A x \in Steps : progress[x] \in {"synced", "committed"} => synced[x]
    /\ \A s \in Servers, x \in Steps :
          work[s][x].done \in {"synced", "committed"} \/ work[s][x].stage \in AfterSync
          => synced[x]
    /\ CommittedOnceAfterSync

\* stepGovernance.ts 257: a step's result is reached once; later calls return it.
ResultIsFinal ==
    [][\A x \in Steps : result[x] # "none" => result'[x] = result[x]]_vars
=============================================================================
