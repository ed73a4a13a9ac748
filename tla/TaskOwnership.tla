---------------------------- MODULE TaskOwnership ----------------------------
(***************************************************************************)
(* scripts/task-ownership.rb, the task-scoped lease register fenced by a    *)
(* monotonic epoch, together with the part of run-agent.sh that acquires,   *)
(* renews in the background and releases it around one dispatch.            *)
(*                                                                          *)
(* Every operation reads the clock BEFORE it waits for the task's flock     *)
(* (`at = now`), then does its read-modify-write atomically under it.  An   *)
(* operation is therefore two steps: one that starts it, and the critical   *)
(* section; `lag` is how long ago the pending operation read the clock.     *)
(*                                                                          *)
(* Time is relative, so nothing bounds how long a behaviour runs: `lease`   *)
(* is lease_expires_at minus the present, one unit being whatever           *)
(* granularity makes RenewInterval and Lease small numbers.                 *)
(***************************************************************************)
EXTENDS Integers, Sequences, FiniteSets

CONSTANTS
    Tasks,              \* task directories, one ownership.yaml each
    Runs,               \* dispatches, each with its own run_id
    Checkouts,          \* git worktrees a dispatch may name
    NoRun,              \* holder: null
    NoCheckout,         \* worktree: null
    TaskOf,             \* the task each run dispatches
    CheckoutOf,         \* the worktree each run supplies
    SharedMode,         \* the runs that acquire with mode=shared
    WorktreeExclusive,  \* ownership.worktree_exclusive
    Lease,              \* ownership.lease_seconds
    FenceLease,         \* DEFAULT_LEASE_SECONDS, what fence! renews by
    RenewInterval,      \* ownership.renew_interval_seconds
    Punctual,           \* renewals are on time (see Tick)
    MaxLag,             \* bound: the longest wait for a lock
    MaxWrites           \* bound: status writes of one dispatch

\* config! refuses a lease that a renewal cannot outrun (task-ownership.rb 528).
ASSUME OwnershipAssumption ==
    /\ TaskOf \in [Runs -> Tasks]
    /\ CheckoutOf \in [Runs -> Checkouts \cup {NoCheckout}]
    /\ NoRun \notin Runs /\ NoCheckout \notin Checkouts
    /\ SharedMode \subseteq Runs
    /\ {WorktreeExclusive, Punctual} \subseteq BOOLEAN
    /\ {Lease, FenceLease, RenewInterval} \subseteq Nat \ {0}
    /\ RenewInterval < Lease
    /\ {MaxLag, MaxWrites} \subseteq Nat

VARIABLES
    \* ownership.yaml
    epoch,      \* epoch[t]: 0 while t has no record
    holder,     \* holder[t]: holder.run_id, or NoRun
    lease,      \* lease[t]: time left to holder.lease_expires_at
    history,    \* history[t]: the displaced and released holders
    \* status.yaml, reduced to who wrote it last and on which authority
    status,
    \* run-agent.sh, one process per run
    driver,     \* driver[r]: what the dispatch is doing
    credential, \* credential[r]: AI_DEV_OFFICE_OWNERSHIP_EPOCH, 0 when unset
    writes,     \* writes[r]: status writes made
    renewer,    \* renewer[r]: the background renewal loop is running
    wake,       \* wake[r]: time until its sleep ends
    op,         \* op[r]: the operation waiting for the task lock
    lag         \* lag[r]: time since that operation read the clock

record   == <<epoch, holder, lease, history>>
process  == <<driver, credential, writes, renewer, wake>>
pending  == <<op, lag>>
vars     == <<record, status, process, pending>>

EndReasons == {"released", "reclaimed", "superseded"}
Operations == {"none", "acquire", "renew", "release"}
Phases     == {"idle", "acquiring", "working", "exiting", "ended", "killed"}

HistoryRow == [epoch : Nat, run : Runs, ended_by : EndReasons]
StatusRow  == [by : Runs \cup {NoRun}, epoch : Nat]

TypeOK ==
    /\ epoch \in [Tasks -> Nat]
    /\ holder \in [Tasks -> Runs \cup {NoRun}]
    /\ lease \in [Tasks -> Int]
    /\ history \in [Tasks -> Seq(HistoryRow)]
    /\ status \in [Tasks -> StatusRow]
    /\ driver \in [Runs -> Phases]
    /\ credential \in [Runs -> Nat]
    /\ writes \in [Runs -> 0..MaxWrites]
    /\ renewer \in [Runs -> BOOLEAN]
    /\ wake \in [Runs -> 0..RenewInterval]
    /\ op \in [Runs -> Operations]
    /\ lag \in [Runs -> 0..MaxLag]

Init ==
    /\ epoch = [t \in Tasks |-> 0]
    /\ holder = [t \in Tasks |-> NoRun]
    /\ lease = [t \in Tasks |-> 0]
    /\ history = [t \in Tasks |-> <<>>]
    /\ status = [t \in Tasks |-> [by |-> NoRun, epoch |-> 0]]
    /\ driver = [r \in Runs |-> "idle"]
    /\ credential = [r \in Runs |-> 0]
    /\ writes = [r \in Runs |-> 0]
    /\ renewer = [r \in Runs |-> FALSE]
    /\ wake = [r \in Runs |-> 0]
    /\ op = [r \in Runs |-> "none"]
    /\ lag = [r \in Runs |-> 0]

-----------------------------------------------------------------------------
(* The record *)

\* live_holder(record, at) of a caller that read the clock `ago` earlier.
LiveAt(t, ago) == holder[t] # NoRun /\ lease[t] + ago > 0

\* Slip: the last unit of a lease no longer counts.
LiveShort(t) == LiveAt(t, -1)

Live(t) == LiveAt(t, 0)

\* Slip: the scan is skipped when the grant is a reclaim.
CheckoutClashUnlessReclaim(r) ==
    /\ WorktreeExclusive /\ r \notin SharedMode
    /\ holder[TaskOf[r]] = NoRun
    /\ \E s \in Tasks \ {TaskOf[r]} : LiveAt(s, lag[r]) /\ CheckoutOf[holder[s]] = CheckoutOf[r]

\* worktree_conflict: another task's live exclusive holder names my worktree.
CheckoutClash(r) ==
    /\ WorktreeExclusive /\ r \notin SharedMode
    /\ CheckoutOf[r] # NoCheckout
    /\ \E s \in Tasks \ {TaskOf[r]} :
          /\ LiveAt(s, lag[r])
          /\ holder[s] \notin SharedMode
          /\ CheckoutOf[holder[s]] = CheckoutOf[r]

\* acquire answers no.
Refused(r) ==
    \/ LiveAt(TaskOf[r], lag[r]) /\ holder[TaskOf[r]] # r
    \/ CheckoutClash(r)

\* archive: the holder of the current epoch joins the history.
Archived(t, why) ==
    [history EXCEPT ![t] =
        Append(@, [epoch |-> epoch[t], run |-> holder[t], ended_by |-> why])]

\* Slip: a reclaim overwrites the lapsed holder.
HistoryForgotten(r) == history

\* The history after a grant: a lapsed holder that is not the new one is archived.
HistoryAfterGrant(r) ==
    IF holder[TaskOf[r]] \in {NoRun, r} THEN history
                                        ELSE Archived(TaskOf[r], "reclaimed")

\* Slip: only a task that was free gets a new epoch.
NextEpochIfFree(t) == IF holder[t] = NoRun THEN epoch[t] + 1 ELSE epoch[t]

\* The epoch of the next grant.
NextEpoch(t) == epoch[t] + 1

\* lease_expires_at = at + lease_seconds, of an operation that read the clock
\* `lag` ago.  Slip: the next renewal's delay is taken off it.
ExpiryShort(r) == Lease - RenewInterval - lag[r]

Expiry(r) == Lease - lag[r]

\* Slip: the run is compared with a holder that a release clears.
FenceByHolder(r) == holder[TaskOf[r]] \in {NoRun, r}

\* fence, owner lane: this run may write the task's status.
FenceAllows(r) ==
    LET t == TaskOf[r] IN
    /\ credential[r] = epoch[t]
    /\ holder[t] \in {NoRun, r}

\* A driver on its way out that waited for its last operation has ended.
Left(phase) == IF phase = "exiting" THEN "ended" ELSE phase

\* A pending operation leaves the lock.
Finish(r) ==
    /\ op' = [op EXCEPT ![r] = "none"]
    /\ lag' = [lag EXCEPT ![r] = 0]

\* An operation reads the clock and queues for the lock.
Queue(r, operation) ==
    /\ op[r] = "none"
    /\ op' = [op EXCEPT ![r] = operation]
    /\ UNCHANGED lag

-----------------------------------------------------------------------------
(* A dispatch acquires *)

BeginAcquire(r) ==
    /\ driver[r] = "idle"
    /\ Queue(r, "acquire")
    /\ driver' = [driver EXCEPT ![r] = "acquiring"]
    /\ UNCHANGED <<record, status, credential, writes, renewer, wake>>

\* The driver exports the epoch it was told and starts the renewer -- unless a
\* signal reached it while it waited for the answer: then the exit handler finds
\* no epoch and returns without a release.
Grant(r) ==
    LET t == TaskOf[r]
        told == driver[r] = "acquiring"
    IN
    /\ op[r] = "acquire"
    /\ ~Refused(r)
    /\ history' = HistoryAfterGrant(r)
    /\ epoch' = [epoch EXCEPT ![t] = NextEpoch(t)]
    /\ holder' = [holder EXCEPT ![t] = r]
    /\ lease' = [lease EXCEPT ![t] = Expiry(r)]
    /\ driver' = [driver EXCEPT ![r] = IF told THEN "working" ELSE Left(@)]
    /\ credential' = [credential EXCEPT ![r] = IF told THEN NextEpoch(t) ELSE @]
    /\ renewer' = [renewer EXCEPT ![r] = told]
    /\ wake' = [wake EXCEPT ![r] = IF told THEN RenewInterval ELSE @]
    /\ Finish(r)
    /\ UNCHANGED <<status, writes>>

\* `acquire ... || exit $?`: the dispatch ends with the task untouched.
Refuse(r) ==
    /\ op[r] = "acquire"
    /\ Refused(r)
    /\ driver' = [driver EXCEPT ![r] = IF @ = "acquiring" THEN "ended" ELSE Left(@)]
    /\ Finish(r)
    /\ UNCHANGED <<record, status, credential, writes, renewer, wake>>

-----------------------------------------------------------------------------
(* The background renewer *)

\* Slip: the renewer does not watch its driver.
RenewerWakesForever(r) ==
    /\ renewer[r] /\ wake[r] = 0 /\ op[r] = "none"
    /\ Queue(r, "renew")
    /\ UNCHANGED <<record, status, process, lag>>

\* `kill -0 $driver_pid || break`, and only then is renew started.
RenewerWakes(r) ==
    /\ renewer[r] /\ wake[r] = 0 /\ op[r] = "none"
    /\ driver[r] # "killed"
    /\ Queue(r, "renew")
    /\ UNCHANGED <<record, status, process, lag>>

RenewerQuits(r) ==
    /\ renewer[r] /\ wake[r] = 0 /\ op[r] = "none"
    /\ driver[r] = "killed"
    /\ renewer' = [renewer EXCEPT ![r] = FALSE]
    /\ UNCHANGED <<record, status, driver, credential, writes, wake, pending>>

\* `renew ... || break`: a refusal ends the loop.
Renew(r) ==
    LET t == TaskOf[r]
        mine == holder[t] = r
    IN
    /\ op[r] = "renew"
    /\ lease' = [lease EXCEPT ![t] = IF mine THEN Expiry(r) ELSE @]
    /\ renewer' = [renewer EXCEPT ![r] = mine]
    /\ wake' = [wake EXCEPT ![r] = IF mine THEN RenewInterval ELSE 0]
    /\ Finish(r)
    /\ UNCHANGED <<epoch, holder, history, status, driver, credential, writes>>

-----------------------------------------------------------------------------
(* Status writers: each holds the task lock across the fence and its write *)

\* sync, enforce-output-contract, force-status-route and the other writers a
\* dispatch spawns.  They inherit the epoch through the environment, so those
\* of a killed driver (its agent is still running) present it as well.
OwnerWrite(r) ==
    LET t == TaskOf[r] IN
    /\ driver[r] \in {"working", "killed"} /\ op[r] # "release"
    /\ credential[r] # 0
    /\ writes[r] < MaxWrites
    /\ FenceAllows(r)
    /\ lease' = [lease EXCEPT ![t] = IF holder[t] = r THEN FenceLease ELSE @]
    /\ status' = [status EXCEPT ![t] = [by |-> r, epoch |-> credential[r]]]
    /\ writes' = [writes EXCEPT ![r] = @ + 1]
    /\ UNCHANGED <<epoch, holder, history, driver, credential, renewer, wake, pending>>

\* reconcile-blocked-status, reconcile-decision, the parent auto runner: no
\* epoch to present, refused while anybody's lease is live.
OrchestratorWrite(t) ==
    /\ ~Live(t)
    /\ status' = [status EXCEPT ![t] = [by |-> NoRun, epoch |-> epoch[t]]]
    /\ UNCHANGED <<record, process, pending>>

-----------------------------------------------------------------------------
(* A dispatch ends *)

\* The end of the work, a failed runner, or INT/TERM: ownership_release first
\* stops the renewer and waits for a renewal in flight.
BeginRelease(r) ==
    /\ driver[r] = "working"
    /\ Queue(r, "release")
    /\ driver' = [driver EXCEPT ![r] = "exiting"]
    /\ renewer' = [renewer EXCEPT ![r] = FALSE]
    /\ wake' = [wake EXCEPT ![r] = 0]
    /\ UNCHANGED <<record, status, credential, writes>>

\* A release that is refused is ignored (`|| true`); the epoch is unset anyway.
Release(r) ==
    LET t == TaskOf[r]
        mine == holder[t] = r
    IN
    /\ op[r] = "release"
    /\ history' = IF mine THEN Archived(t, "released") ELSE history
    /\ holder' = [holder EXCEPT ![t] = IF mine THEN NoRun ELSE @]
    /\ lease' = [lease EXCEPT ![t] = IF mine THEN 0 ELSE @]
    /\ credential' = [credential EXCEPT ![r] = 0]
    /\ driver' = [driver EXCEPT ![r] = Left(@)]
    /\ Finish(r)
    /\ UNCHANGED <<epoch, status, writes, renewer, wake>>

\* INT or TERM while bash waits for `line="$(... acquire ...)"`: the trap runs
\* when the substitution returns, before the epoch is exported.  ^C reaches the acquire itself as well.
InterruptAcquire(r) ==
    /\ driver[r] = "acquiring"
    /\ \/ driver' = [driver EXCEPT ![r] = "exiting"] /\ UNCHANGED pending
       \/ driver' = [driver EXCEPT ![r] = "ended"] /\ Finish(r)
    /\ UNCHANGED <<record, status, credential, writes, renewer, wake>>

\* kill -9 or the OOM killer.  An operation already queued may still complete.
Kill(r) ==
    /\ driver[r] \in {"acquiring", "working", "exiting"}
    /\ driver' = [driver EXCEPT ![r] = "killed"]
    /\ UNCHANGED pending \/ Finish(r)
    /\ UNCHANGED <<record, status, credential, writes, renewer, wake>>

\* release force=true, by an operator who is not the holder.
ForceRelease(t) ==
    /\ holder[t] # NoRun
    /\ history' = Archived(t, "superseded")
    /\ holder' = [holder EXCEPT ![t] = NoRun]
    /\ lease' = [lease EXCEPT ![t] = 0]
    /\ UNCHANGED <<epoch, status, process, pending>>

-----------------------------------------------------------------------------
(* Time *)

Decrease(n, floor) == IF n > floor THEN n - 1 ELSE floor

\* A due renewal that has not gone through yet.
Overdue(r) == driver[r] = "working" /\ renewer[r] /\ wake[r] = 0

\* Nothing holds a process to its schedule (a suspended machine stops them
\* all), except where Punctual asks what the lease is worth when renewals are
\* on time.  Below -MaxLag a lease has lapsed for every possible caller.
Tick ==
    /\ \A r \in Runs : op[r] # "none" => lag[r] < MaxLag
    /\ Punctual => \A r \in Runs : ~Overdue(r)
    /\ lease' = [t \in Tasks |-> Decrease(lease[t], -MaxLag)]
    /\ wake' = [r \in Runs |-> Decrease(wake[r], 0)]
    /\ lag' = [r \in Runs |-> IF op[r] = "none" THEN 0 ELSE lag[r] + 1]
    /\ UNCHANGED <<epoch, holder, history, status, driver, credential, writes, renewer, op>>

-----------------------------------------------------------------------------

RunStep(r) ==
    \/ BeginAcquire(r) \/ Grant(r) \/ Refuse(r)
    \/ RenewerWakes(r) \/ RenewerQuits(r) \/ Renew(r)
    \/ OwnerWrite(r)
    \/ BeginRelease(r) \/ Release(r)
    \/ InterruptAcquire(r) \/ Kill(r)

Next ==
    \/ \E r \in Runs : RunStep(r)
    \/ \E t \in Tasks : OrchestratorWrite(t) \/ ForceRelease(t)
    \/ Tick

\* The kernel grants the flock, the renewal loop is scheduled, time passes.
Fairness ==
    /\ \A r \in Runs : /\ WF_vars(Grant(r) \/ Refuse(r))
                       /\ WF_vars(Renew(r) \/ Release(r))
                       /\ WF_vars(RenewerWakes(r) \/ RenewerQuits(r))
    /\ WF_vars(Tick)

Spec == Init /\ [][Next]_vars
FairSpec == Spec /\ Fairness

-----------------------------------------------------------------------------
(* What the register promises *)

MayWrite(r) == credential[r] # 0 /\ FenceAllows(r)

\* The fence lets at most one run of a task through, however many believe they
\* own it: a lapsed run, its successor, and the agent of a killed driver.
OneFencedOwner ==
    \A r1, r2 \in Runs :
        TaskOf[r1] = TaskOf[r2] /\ MayWrite(r1) /\ MayWrite(r2) => r1 = r2

\* docs/task-ownership.md 200: a stale owner cannot overwrite a newer owner.
\* Nor can it later, once the newer owner has released the task again.
NoStaleOverwrite ==
    [][\A t \in Tasks : status'[t].epoch >= status[t].epoch]_vars

\* The history lists each past epoch exactly once and in order.
Ordered(t) ==
    /\ Len(history[t]) = epoch[t] - (IF holder[t] = NoRun THEN 0 ELSE 1)
    /\ \A i \in 1..Len(history[t]) : history[t][i].epoch = i

\* The epoch r presents is recorded against r.
Recorded(r) ==
    LET t == TaskOf[r] IN
    \/ credential[r] = 0
    \/ credential[r] <= Len(history[t]) /\ history[t][credential[r]].run = r
    \/ credential[r] > Len(history[t]) /\ holder[t] = r

\* Every grant is accounted for, and a run that still presents an epoch is the
\* one it was granted to, displaced or not (docs/task-ownership.md 125: an
\* abandoned run is auditable rather than merely gone).
AuditTrail ==
    /\ \A t \in Tasks : Ordered(t)
    /\ \A r \in Runs : Recorded(r)

\* Before its grant a run presents and holds nothing.
Ungranted(r) == driver[r] \in {"idle", "acquiring"} \/ op[r] = "acquire"

\* Before its start it has nothing running either.
Quiet(r) == driver[r] = "idle" => op[r] = "none" /\ ~renewer[r]

\* Why the properties above hold at every moment: nothing presents or records
\* an epoch that was not granted, and the history tells whose every epoch is.
Fencing ==
    /\ TypeOK
    /\ \A r \in Runs : Quiet(r)
    /\ \A r \in Runs : Ungranted(r) => credential[r] = 0 /\ holder[TaskOf[r]] # r
    /\ \A r \in Runs : credential[r] <= epoch[TaskOf[r]]
    /\ \A t \in Tasks : status[t].epoch <= epoch[t]
    /\ AuditTrail

\* task-ownership.rb 50, docs/task-ownership.md 330: while its renewals are on
\* time a dispatch is never reclaimed, and no orchestrator writes under it; only
\* an operator ends its lease.
WorkingOwnerUndisturbed ==
    [][\A r \in Runs :
          LET t == TaskOf[r] IN
          driver[r] = "working" /\ holder[t] = r =>
              /\ holder'[t] \in {r, NoRun}
              /\ status'[t] \in {status[t], [by |-> r, epoch |-> credential[r]]}]_vars

\* task-ownership.rb 50: a live dispatch is never reclaimable while it runs.
LiveDispatchNotReclaimable ==
    \A r \in Runs : driver[r] = "working" /\ holder[TaskOf[r]] = r => Live(TaskOf[r])

\* Two holders of exclusive leases on one checkout.
Clash(r1, r2) ==
    /\ r1 # r2 /\ r1 \notin SharedMode /\ r2 \notin SharedMode
    /\ CheckoutOf[r1] = CheckoutOf[r2] /\ CheckoutOf[r1] # NoCheckout
    /\ holder[TaskOf[r1]] = r1 /\ holder[TaskOf[r2]] = r2

\* With worktree_exclusive on, two dispatches whose renewals are on time never
\* work in one checkout, though nothing but the scan at grant time relates
\* their two tasks.
PunctualDispatchesKeepApart ==
    \A r1, r2 \in Runs :
        driver[r1] = "working" /\ driver[r2] = "working" => ~Clash(r1, r2)

\* task-ownership.rb 193: the scan stops TASK-A and TASK-B from holding the same
\* checkout at once.
ExclusiveCheckout ==
    \A r1, r2 \in Runs :
        Live(TaskOf[r1]) /\ Live(TaskOf[r2]) => ~Clash(r1, r2)

\* docs/task-ownership.md 126 and 358: a dispatch that ends by itself, by ^C or
\* by SIGTERM has released its task.
EndedHoldsNothing ==
    \A r \in Runs : driver[r] = "ended" => holder[TaskOf[r]] # r

\* docs/task-ownership.md 362: after kill -9 the lease lapses and stays lapsed,
\* although a renewal may be in flight and the orphaned agent still writes.
\* (A killed driver stays killed.)
KilledHaveLapsed ==
    \A r \in Runs : driver[r] = "killed" /\ holder[TaskOf[r]] = r => ~Live(TaskOf[r])

KilledHolderLapses == <>[]KilledHaveLapsed

\* The register is a fenced register.
Register == INSTANCE FencedRegister WITH
    token <- epoch, owner <- holder, held <- credential,
    wrote <- [t \in Tasks |-> status[t].epoch]

RegisterSpec == Register!Spec
=============================================================================
