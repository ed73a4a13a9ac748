------------------------------ MODULE Worktrees ------------------------------
(***************************************************************************)
(* dashboard/server/src/services/worktrees.ts with its callers in launch.ts:  *)
(* the git worktrees of one task, planned, made, recorded, used by steps and  *)
(* removed, while somebody else works in the same repositories.  A plan and   *)
(* the git command that carries it out are one step: git refuses what the     *)
(* plan did not see.  Recording what was made is a step of its own, and so     *)
(* are the checks of a removal and the removal; forgetting a record is one.    *)
(***************************************************************************)
EXTENDS Integers, Sequences, FiniteSets

CONSTANTS
    Repos,          \* repositories under the workspace root
    ReadOnly,       \* READ_ONLY_REPOS
    Replacing,      \* whether somebody may put a worktree of theirs where one the
                    \* dashboard has on record was
    MaxOutside,     \* bound: changes made outside the dashboard
    MaxSteps, MaxRestarts

VARIABLES
    branches,   \* task branches of each repository
    base,       \* task branches whose commits are in their base
    pushed,     \* task branches whose commits are on origin
    linked,     \* linked worktrees of each repository
    main,       \* the branch of each main checkout
    registry,   \* the dashboard's record for the task in each repository
    closed,     \* the task is done or aborted
    flow,       \* the Run being started or running, the Open being handed over
    removal,    \* the removal under way
    outside, steps, restarts

vars == <<branches, base, pushed, linked, main, registry, closed, flow,
          removal, outside, steps, restarts>>

\* task/<TASK>, one task/<TASK>-<slug>, and anything else (with a detached HEAD).
Branches == {"task", "slug"}
Paths == {"ours", "elsewhere"}      \* worktreePath, or any other

\* maker and occupant are not in git: who made it, and whether it replaced another.
Worktree == [path : Paths, branch : Branches \cup {"other"}, dirty : BOOLEAN,
             maker : {"dashboard", "somebody"}]

NoRecord == [path |-> "none", branch |-> "other", origin |-> "none", made |-> FALSE]
Record == [path : Paths, branch : Branches, origin : {"created", "adopted"},
           made : BOOLEAN] \cup {NoRecord}      \* made is branchCreated

\* Targets still to be made are left; made is what is in git and not on record yet.
Flow == [at : {"idle", "planned", "making", "working"}, adopt : BOOLEAN, targets : SUBSET Repos,
         left : SUBSET Repos, made : SUBSET [repo : Repos, branch : Branches, fresh : BOOLEAN]]
NoFlow == [at |-> "idle", adopt |-> FALSE, targets |-> {}, left |-> {}, made |-> {}]

\* What removeWorktree took from the record, whether to delete the branch, how far it is.
\* Since is not in the code: how much had happened when it began.
Removal == [repo : Repos, path : Paths, branch : Branches, delete : BOOLEAN,
            checked : BOOLEAN, since : Nat]
NoRemoval == [repo |-> "none", path |-> "none", branch |-> "other", delete |-> FALSE,
              checked |-> FALSE, since |-> 0]

TypeOK ==
    /\ branches \in [Repos -> SUBSET Branches]
    /\ base \in [Repos -> SUBSET Branches] /\ pushed \in [Repos -> SUBSET Branches]
    /\ linked \in [Repos -> SUBSET Worktree]
    /\ main \in [Repos -> Branches \cup {"other"}]
    /\ registry \in [Repos -> Record]
    /\ closed \in BOOLEAN /\ flow \in [{"run", "open"} -> Flow]
    /\ removal \in {NoRemoval} \cup Removal

Init ==
    /\ branches = [r \in Repos |-> {}] /\ base = branches /\ pushed = branches
    /\ linked = [r \in Repos |-> {}] /\ main = [r \in Repos |-> "other"]
    /\ registry = [r \in Repos |-> NoRecord]
    /\ closed = FALSE /\ flow = [k \in {"run", "open"} |-> NoFlow] /\ removal = NoRemoval
    /\ outside = 0 /\ steps = 0 /\ restarts = 0

-----------------------------------------------------------------------------
(* The plan for one repository *)

At(r, p) == {w \in linked[r] : w.path = p}
CheckedOut(r) == {w.branch : w \in linked[r]} \cup {main[r]}
Found(r) == CHOOSE w \in At(r, registry[r].path) : TRUE

\* What planWorktree decides: the action with the path and branch it would use.
Plan(r, adopt) ==
    LET own == At(r, "ours")
        theirs == {w \in linked[r] : w.branch \in Branches}
        Say(action, path, branch) == [action |-> action, path |-> path, branch |-> branch]
        Refuse == Say("refuse", "none", "other")
        Take(w) == Say(IF adopt THEN "adopt" ELSE "refuse", w.path, w.branch)
    IN  CASE r \in ReadOnly -> Refuse
          [] r \notin ReadOnly /\ registry[r] # NoRecord /\ At(r, registry[r].path) # {}
             /\ Found(r).branch = registry[r].branch ->
                Say("reuse", registry[r].path, registry[r].branch)
          [] OTHER ->
                IF own # {} THEN LET w == CHOOSE w \in own : TRUE
                                 IN  IF w.branch \in Branches THEN Take(w) ELSE Refuse
                ELSE IF main[r] \in Branches THEN Refuse
                ELSE IF theirs # {} THEN Take(CHOOSE w \in theirs : TRUE)
                ELSE IF branches[r] = {} THEN Say("create", "ours", "task")
                ELSE Say("add", "ours", IF "task" \in branches[r] THEN "task" ELSE "slug")

Same == <<pushed, main, closed, removal, outside, restarts>>

\* The record of an adopted worktree; ensureWorktree writes it at once.
Adopted(plan) ==
    [path |-> plan.path, branch |-> plan.branch, origin |-> "adopted", made |-> FALSE]

\* ensureWorktree up to its git command; a new branch has no commits of its own.
MakeFor(r, plan) ==
    /\ branches' = [branches EXCEPT ![r] = @ \cup {plan.branch}]
    /\ base' = [base EXCEPT ![r] = IF plan.action = "create" THEN @ \cup {plan.branch} ELSE @]
    /\ linked' = [linked EXCEPT ![r] =
          IF plan.action \in {"add", "create"}
          THEN @ \cup {[path |-> "ours", branch |-> plan.branch, dirty |-> FALSE, maker |-> "dashboard"]}
          ELSE @]
    /\ registry' = [registry EXCEPT ![r] = IF plan.action = "adopt" THEN Adopted(plan) ELSE @]

-----------------------------------------------------------------------------
(* Steps and hand-offs *)

\* cleanupDeps.running: from governance.begin on until the step is finalized.
Running == flow["run"].at # "idle"

Begin(k, targets, adopt) ==
    /\ flow[k] = NoFlow /\ ~Running /\ steps < MaxSteps
    /\ steps' = steps + 1
    /\ flow' = [flow EXCEPT ![k] = [NoFlow EXCEPT !.at = "planned", !.adopt = adopt,
                                                  !.targets = targets, !.left = targets]]
    /\ UNCHANGED <<branches, base, linked, registry, Same>>

\* ensureWorktrees: every target is planned before any is made.
PlanAll(k) ==
    /\ flow[k].at = "planned"
    /\ flow' = [flow EXCEPT ![k] =
          IF \E r \in flow[k].targets : Plan(r, flow[k].adopt).action = "refuse"
          THEN NoFlow ELSE [@ EXCEPT !.at = "making"]]
    /\ UNCHANGED <<branches, base, linked, registry, steps, Same>>

MakeOne(k, r) ==
    /\ flow[k].at = "making" /\ flow[k].made = {} /\ r \in flow[k].left
    /\ LET plan == Plan(r, flow[k].adopt)
       IN  /\ plan.action # "refuse"
           /\ MakeFor(r, plan)
           /\ flow' = [flow EXCEPT ![k].left = @ \ {r},
                                    ![k].made = IF plan.action \notin {"add", "create"} THEN {}
                                        ELSE {[repo |-> r, branch |-> plan.branch,
                                               fresh |-> plan.action = "create"]}]
    /\ UNCHANGED <<steps, Same>>

RecordOne(k) ==
    /\ \E m \in flow[k].made :
          registry' = [registry EXCEPT ![m.repo] =
                          [path |-> "ours", branch |-> m.branch, origin |-> "created", made |-> m.fresh]]
    /\ flow' = [flow EXCEPT ![k].made = {}]
    /\ UNCHANGED <<branches, base, linked, steps, Same>>

\* The step runs, or the session is handed over and no longer known here.
GoesToWork(k) ==
    /\ flow[k].at = "making" /\ flow[k].left = {} /\ flow[k].made = {}
    /\ flow' = [flow EXCEPT ![k] = IF k = "run" THEN [@ EXCEPT !.at = "working"] ELSE NoFlow]
    /\ UNCHANGED <<branches, base, linked, registry, steps, Same>>

\* A plan is refused now, git or the CLI fails, or the running step ends.
Ends(k) ==
    /\ flow[k].at \in {"making", "working"} /\ flow[k].made = {}
    /\ flow' = [flow EXCEPT ![k] = NoFlow]
    /\ UNCHANGED <<branches, base, linked, registry, steps, Same>>

StepWrites(r) ==
    /\ flow["run"].at = "working" /\ r \in flow["run"].targets
    /\ \E w \in At(r, registry[r].path), d \in BOOLEAN :
          linked' = [linked EXCEPT ![r] = (@ \ {w}) \cup {[w EXCEPT !.dirty = d]}]
    /\ base' = [base EXCEPT ![r] = @ \ {registry[r].branch}]
    /\ pushed' = [pushed EXCEPT ![r] = @ \ {registry[r].branch}]
    /\ UNCHANGED <<branches, main, registry, closed, flow, removal, outside, steps, restarts>>

-----------------------------------------------------------------------------
(* Cleanup *)

\* merged into its base or pushed to origin.
Safe(r, branch) == branch \in base[r] \cup pushed[r]

Forget(r) ==
    /\ registry[r].origin = "created" /\ At(r, registry[r].path) = {}
    /\ registry' = [registry EXCEPT ![r] = NoRecord]
    /\ UNCHANGED <<branches, base, linked, flow, steps, Same>>

\* removeWorktree: the record, whether git has its worktree, the task's phase and steps.
BeginRemoval(r, deleteBranch) ==
    /\ removal = NoRemoval
    /\ registry[r].origin = "created" /\ At(r, registry[r].path) # {}
    /\ closed /\ ~Running
    /\ deleteBranch => registry[r].made
    /\ removal' = [repo |-> r, path |-> registry[r].path, branch |-> registry[r].branch,
                   delete |-> deleteBranch, checked |-> FALSE, since |-> outside + steps]
    /\ UNCHANGED <<branches, base, pushed, linked, main, registry, closed, flow, outside, steps, restarts>>

Removable(r) ==
    /\ Safe(r, removal.branch)
    /\ removal.delete => removal.branch \in base[r]
    /\ At(r, removal.path) # {} /\ \A w \in At(r, removal.path) : ~w.dirty

\* The branch and the worktree, asked of git after the task's phase was read.
CheckRemoval(r) ==
    /\ removal.repo = r /\ ~removal.checked
    /\ removal' = IF Removable(r) THEN [removal EXCEPT !.checked = TRUE] ELSE NoRemoval
    /\ UNCHANGED <<branches, base, pushed, linked, main, registry, closed, flow, outside, steps, restarts>>

RecordAfter(r, gone) == IF gone THEN NoRecord ELSE registry[r]

\* git worktree remove refuses a dirty worktree, and may fail; the branch is checked again,
\* and git deletes none that is checked out.
Remove(r) ==
    /\ removal.repo = r /\ removal.checked
    /\ removal' = NoRemoval
    /\ \E gone \in BOOLEAN :
       LET left == IF gone THEN linked[r] \ At(r, removal.path) ELSE linked[r]
       IN /\ gone => At(r, removal.path) # {} /\ \A w \in At(r, removal.path) : ~w.dirty
          /\ linked' = [linked EXCEPT ![r] = left]
          /\ registry' = [registry EXCEPT ![r] = RecordAfter(r, gone)]
          /\ branches' = [branches EXCEPT ![r] =
                IF /\ gone /\ removal.delete /\ removal.branch \in base[r]
                   /\ removal.branch \notin {w.branch : w \in left} \cup {main[r]}
                THEN @ \ {removal.branch} ELSE @]
    /\ UNCHANGED <<base, pushed, main, closed, flow, outside, steps, restarts>>

-----------------------------------------------------------------------------
(* Everything else that happens in the repositories *)

Unrecorded(r) == \E k \in DOMAIN flow : \E m \in flow[k].made : m.repo = r

AddElsewhere(r) ==
    \E b \in Branches \ CheckedOut(r), p \in Paths :
       /\ At(r, p) = {}
       /\ p = registry[r].path \/ (removal.repo = r /\ p = removal.path) \/ Unrecorded(r) => Replacing
       /\ linked' = [linked EXCEPT ![r] = @ \cup
             {[path |-> p, branch |-> b, dirty |-> FALSE, maker |-> "somebody"]}]
       /\ branches' = [branches EXCEPT ![r] = @ \cup {b}]
       /\ UNCHANGED <<base, pushed, main>>

RemoveElsewhere(r) ==
    \E w \in linked[r] :
       /\ linked' = [linked EXCEPT ![r] = @ \ {w}]
       /\ UNCHANGED <<branches, base, pushed, main>>

Switch(r) ==
    /\ \/ \E w \in linked[r], b \in {"other", "slug"} \ CheckedOut(r) :
             /\ linked' = [linked EXCEPT ![r] = (@ \ {w}) \cup {[w EXCEPT !.branch = b]}]
             /\ branches' = [branches EXCEPT ![r] = @ \cup ({b} \cap Branches)]
             /\ UNCHANGED main
       \/ /\ \E b \in {"other"} \cup (branches[r] \ CheckedOut(r)) : main' = [main EXCEPT ![r] = b]
          /\ UNCHANGED <<branches, linked>>
    /\ UNCHANGED <<base, pushed>>

Deliver(r) ==
    /\ \E b \in branches[r] :
          \/ base' = [base EXCEPT ![r] = @ \cup {b}] /\ UNCHANGED pushed
          \/ pushed' = [pushed EXCEPT ![r] = @ \cup {b}] /\ UNCHANGED base
    /\ UNCHANGED <<branches, linked, main>>

Elsewhere ==
    /\ outside < MaxOutside
    /\ outside' = outside + 1
    /\ \/ /\ \E r \in Repos \ ReadOnly : AddElsewhere(r) \/ RemoveElsewhere(r) \/ Switch(r) \/ Deliver(r)
          /\ UNCHANGED closed
       \/ /\ closed' = ~closed
          /\ UNCHANGED <<branches, base, pushed, linked, main>>
    /\ UNCHANGED <<registry, flow, removal, steps, restarts>>

\* Requests are lost; a step that runs goes on.
Restart ==
    /\ restarts < MaxRestarts
    /\ restarts' = restarts + 1
    /\ flow' = [k \in {"run", "open"} |-> IF flow[k].at = "working" THEN flow[k] ELSE NoFlow]
    /\ removal' = NoRemoval
    /\ UNCHANGED <<branches, base, pushed, linked, main, registry, closed, outside, steps>>

Next ==
    \/ \E k \in {"run", "open"} :
          \/ PlanAll(k) \/ RecordOne(k) \/ GoesToWork(k) \/ Ends(k)
          \/ \E targets \in (SUBSET Repos) \ {{}}, adopt \in BOOLEAN : Begin(k, targets, adopt)
          \/ \E r \in Repos : MakeOne(k, r)
    \/ \E r \in Repos : \/ StepWrites(r) \/ Forget(r) \/ CheckRemoval(r) \/ Remove(r)
                        \/ \E d \in BOOLEAN : BeginRemoval(r, d)
    \/ Elsewhere \/ Restart

Spec == Init /\ [][Next]_vars

-----------------------------------------------------------------------------

\* worktrees.ts 26-29, 436-468: whatever comes between the checks of a removal and the
\* removal, it takes only a clean worktree that the dashboard made and only a branch that is
\* merged; and unless somebody changed something or a step or a hand-off was begun in
\* between, of a closed task that nobody runs, with its branch merged or pushed.
RemovedIsItsOwn ==
    \A r \in Repos : removal.repo = r /\ removal' = NoRemoval =>
        /\ branches[r] \ branches'[r] \subseteq base[r]
        /\ \A w \in linked[r] \ linked'[r] :
              /\ w.maker = "dashboard" /\ ~w.dirty
              /\ removal.since = outside + steps =>
                    closed /\ ~Running /\ Safe(r, removal.branch)

RemovesOnlyItsOwn == [][RemovedIsItsOwn]_vars

\* What the dashboard made and git still has is on record (so cleanup will offer it),
\* unless it is just being recorded or the operator had it adopted; a restart may lose it.
MadeIsOnRecord ==
    TypeOK /\ \A r \in Repos : \A w \in linked[r] :
        w.maker = "dashboard" /\ restarts = 0 =>
            registry[r].path = w.path \/ Unrecorded(r)
=============================================================================
