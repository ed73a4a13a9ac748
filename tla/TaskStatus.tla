------------------------------ MODULE TaskStatus ------------------------------
(***************************************************************************)
(* The status of one task (status.yaml) and everything that moves it: the      *)
(* dispatches of run-agent.sh with the guards before a run and the sync after  *)
(* it, the reconcilers of dependencies and human decisions, forced routes and  *)
(* branch updates.  Every writer holds the task's lock, so each is one step;   *)
(* the lease keeps dispatches apart (TaskOwnership).  A counter stays at its   *)
(* limit, since nothing asks for more, and dev stands for dev-2 as well.       *)
(***************************************************************************)
EXTENDS Integers

CONSTANTS
    Branches,       \* names of the branches a task may declare
    LoopLimit,      \* loop_guard.max_iterations
    RoamLimit,      \* loop_guard.free_roam_max_entries
    RetryLimit,     \* loop_guard.validation_failed_retry_limit
    Parallel,       \* whether a plan may be parallel
    Decisions,      \* the decisions the operator takes, of Kinds
    Against,        \* whether a decision carries against_phase
    FirstPhases     \* phases the task may start with, of "pending", "assigned" and "blocked"

VARIABLES
    st,             \* status.yaml; dep is blocked_on, waits the global waiting_for
    gates,          \* completion_gates: none declared, some unresolved, all resolved
    upstream,       \* the task blocked_on names
    decision,       \* the latest human decision, "none" once applied
    run,            \* the role that runs, or "none"
    lanes           \* whether the lanes of a parallel plan are out

vars == <<st, gates, upstream, decision, run, lanes>>

Work == {"dev", "reviewer", "debugger", "devops"}
Roles == Work \cup {"pm", "free-roam"}

Phases ==
    {"pending", "assigned", "assigned_parallel", "in_review", "debugging", "debugging_complete",
     "devops_needed", "devops_complete", "free_roam_complete", "blocked", "escalated",
     "validation_failed", "aborted", "done"}

\* BranchProjection::OVERRIDE_PHASES
Override == {"done", "aborted", "escalated", "validation_failed"}
Finished == {"done", "aborted"}

Kinds == {"approve", "request_changes", "escalate", "reject"}

Agents == Roles \cup {"done", "none"}

Status ==
    [phase : Phases, agent : Agents, iter : 0..LoopLimit,
     roams : 0..RoamLimit, retries : 0..RetryLimit, dep : BOOLEAN, waits : BOOLEAN,
     branches : [Branches -> {"none", "ready", "blocked", "done", "na"}]]

\* of an approve: against is its phase, if it carries one, and moved that the phase has
\* changed since it was made.
Decision ==
    [what : Kinds \cup {"none"}, against : Phases \cup {"none"}, held : BOOLEAN, moved : BOOLEAN]

NoDecision == [what |-> "none", against |-> "none", held |-> FALSE, moved |-> FALSE]

TypeOK ==
    /\ st \in Status
    /\ gates \in {"none", "open", "resolved"}
    /\ upstream \in {"open", "done", "failed"}
    /\ decision \in Decision
    /\ run \in Roles \cup {"none"}
    /\ lanes \in BOOLEAN

\* A task is opened with its gates, and blocked by whoever splits the work.
Init ==
    /\ \E phase \in FirstPhases, agent \in Roles, dep \in BOOLEAN :
          /\ phase = "pending" <=> agent = "pm"
          /\ dep => phase = "blocked"
          /\ st = [phase |-> phase, agent |-> agent,
                   iter |-> 0, roams |-> 0, retries |-> 0, dep |-> dep,
                   waits |-> phase = "blocked" /\ ~dep, branches |-> [b \in Branches |-> "none"]]
    /\ gates \in {"none", "open"} /\ upstream = "open" /\ decision = NoDecision
    /\ run = "none" /\ lanes = FALSE

-----------------------------------------------------------------------------
(* branch-projection.rb *)

Declared(s) == \E b \in Branches : s.branches[b] # "none"

OnlyBlocked(s) ==
    /\ \E b \in Branches : s.branches[b] = "blocked"
    /\ \A b \in Branches : s.branches[b] # "ready"

\* apply!; the primary assignee is dev.
Project(s) ==
    IF ~Declared(s) \/ s.phase \in Override THEN s
    ELSE IF OnlyBlocked(s) THEN [s EXCEPT !.phase = "blocked"]
    ELSE IF s.phase = "blocked" /\ ~s.waits /\ ~s.dep
         THEN [s EXCEPT !.phase = "assigned", !.agent = "dev"]
    ELSE s

\* Slip: a writer that leaves the branches out.
RoutedOnly(s, phase, agent) == [s EXCEPT !.phase = phase, !.agent = agent]

Routed(s, phase, agent) == Project([s EXCEPT !.phase = phase, !.agent = agent])

\* The guard of completion-guard.rb (CompletionGates has the gates themselves).
MayFinish(s) ==
    /\ gates # "open"
    /\ \A b \in Branches : s.branches[b] \in {"none", "done", "na"}

\* The decision as it stands after the status became s.
Aged(s) == [decision EXCEPT !.moved = @ \/ (decision.against # "none" /\ s.phase # st.phase)]

-----------------------------------------------------------------------------
(* A dispatch: reconcilers, guards, then the run or not *)

\* reconcile-blocked-status.rb
Unblocked(s) ==
    IF s.phase # "blocked" \/ ~s.dep \/ upstream = "open" THEN s
    ELSE IF upstream = "failed"
         THEN Routed([s EXCEPT !.waits = FALSE], "escalated", "free-roam")
    ELSE Routed([s EXCEPT !.waits = FALSE, !.dep = ~Declared(s)], "assigned", "dev")

\* reconcile-decision.rb: what becomes of the latest decision on status s.
Verdict(s) ==
    IF decision.what # "approve" THEN decision.what
    ELSE IF ~MayFinish(s) THEN "held"
    ELSE IF gates # "none" /\ decision.against \notin {"none", s.phase} THEN "stale"
    ELSE "approve"

\* DECISION_MAP
Decided(s, verdict) ==
    CASE verdict = "approve" -> Routed(s, "done", "done")
      [] verdict = "request_changes" -> Routed(s, "debugging", "debugger")
      [] verdict = "escalate" -> Routed(s, "escalated", "free-roam")
      [] verdict = "reject" -> Routed(s, "aborted", "none")
      [] OTHER -> s

\* The guards that end a dispatch of a role without a run.
Refused(role, s) ==
    \/ /\ role # "pm" /\ s.phase = "validation_failed"
       /\ s.retries >= RetryLimit \/ role # "free-roam"
    \/ role = "pm" /\ s.phase \in Finished
    \/ role \in Work /\ (s.phase = "blocked" \/ s.agent \notin {role, "done", "none"})
    \/ role = "free-roam" /\ s.roams >= RoamLimit

\* spent: the execution budget is exhausted.
Dispatch(a, spent) ==
    /\ run = "none"
    /\ LET reconciled == IF a = "pm" THEN st ELSE Unblocked(st)
           verdict == IF a = "pm" THEN "none" ELSE Verdict(reconciled)
           s == Decided(reconciled, verdict)
           role == IF verdict \in {"request_changes", "escalate"} THEN s.agent ELSE a
           stops == verdict \in {"approve", "reject"} \/ Refused(role, s)
           escalates == role \in Work /\ (s.iter >= LoopLimit \/ spent)
       IN  /\ st' = IF ~stops /\ escalates THEN Routed(s, "escalated", "free-roam") ELSE s
           /\ run' = IF stops \/ escalates THEN "none" ELSE role
           /\ decision' = CASE verdict = "none" -> Aged(st')
                            [] verdict = "held" -> [Aged(st') EXCEPT !.held = TRUE]
                            [] OTHER -> NoDecision
    /\ UNCHANGED <<gates, upstream, lanes>>

-----------------------------------------------------------------------------
(* The end of a run *)

\* The agents a role may hand over to (validate-yaml.rb).
NextOf(role) ==
    CASE role = "pm" -> {"dev", "free-roam"}
      [] role = "dev" -> {"reviewer", "dev", "free-roam"}
      [] role = "reviewer" -> {"done", "debugger", "devops", "free-roam"}
      [] role = "debugger" -> {"dev", "reviewer", "free-roam"}
      [] role = "devops" -> {"reviewer", "done", "free-roam"}
      [] role = "free-roam" -> Work \cup {"pm", "done"}
      [] role = "none" -> {}

\* The phases a role's hand-over leads to; what the table does not name keeps the phase.
PhasesAfter(role, next) ==
    CASE next = "free-roam" -> {"escalated"}
      [] role = "pm" /\ next = "dev" -> {"assigned"} \cup IF Parallel THEN {"assigned_parallel"} ELSE {}
      [] role \in {"dev", "debugger", "devops"} /\ next = "reviewer" -> {"in_review"}
      [] role = "debugger" /\ next = "dev" -> {"debugging_complete"}
      [] role = "reviewer" /\ next = "done" -> {"done"}
      [] role = "reviewer" /\ next = "debugger" -> {"debugging"}
      [] role = "reviewer" /\ next = "devops" -> {"devops_needed"}
      [] role = "free-roam" /\ next = "dev" -> {"free_roam_complete"}
      [] role = "free-roam" /\ next = "pm" -> {"pending"}
      [] role = "free-roam" /\ next = "done" -> {"aborted"}
      [] OTHER -> {st.phase}

\* Slip: the counter a hand-over to free-roam used to clear (M3 in sync-status-from-output.rb).
CountedAnew(s, role, next) ==
    [s EXCEPT !.roams = IF role = "free-roam" /\ @ < RoamLimit THEN @ + 1 ELSE @,
              !.iter = IF role = "free-roam" THEN 0
                       ELSE IF next \in Work /\ @ < LoopLimit THEN @ + 1 ELSE @]

Counted(s, role, next) ==
    [s EXCEPT !.roams = IF role = "free-roam" /\ @ < RoamLimit THEN @ + 1 ELSE @,
              !.iter = IF next \in Work /\ @ < LoopLimit THEN @ + 1 ELSE @]

\* sync-status-from-output.rb; a PM output may declare gates as well.
Sync(next, phase) ==
    /\ next = "done" /\ run # "free-roam" => MayFinish(st)
    /\ st' = Routed(Counted([st EXCEPT !.waits = @ /\ Declared(st)], run, next), phase, next)
    /\ gates' \in {gates} \cup IF run = "pm" THEN {"open"} ELSE {}
    /\ lanes' \in {lanes, lanes \/ phase = "assigned_parallel"}
    /\ run' = "none" /\ decision' = Aged(st')
    /\ UNCHANGED upstream

\* The runner fails, leaves no output, or reports a completion the guard refuses.
NothingSynced ==
    /\ run # "none" /\ run' = "none"
    /\ UNCHANGED <<st, gates, upstream, decision, lanes>>

\* enforce-output-contract.rb
ContractFails ==
    /\ run # "none" /\ run' = "none"
    /\ st' = [st EXCEPT !.phase = "validation_failed", !.agent = "free-roam",
                        !.retries = IF @ < RetryLimit THEN @ + 1 ELSE @]
    /\ decision' = Aged(st')
    /\ UNCHANGED <<gates, upstream, lanes>>

\* A gate plan that conflicts with the gates on file or with itself (an order that is a cycle).
PlanConflicts ==
    /\ run = "pm" /\ run' = "none"
    /\ st' = Routed(st, "validation_failed", "free-roam")
    /\ decision' = Aged(st')
    /\ UNCHANGED <<gates, upstream, lanes>>

\* mark_parallel_dev_complete: the lanes hold no lease and are refused under one.
LanesEnd(completed) ==
    /\ lanes /\ lanes' = FALSE
    /\ st' = IF completed /\ run = "none" THEN Routed(st, "in_review", "reviewer") ELSE st
    /\ decision' = Aged(st')
    /\ UNCHANGED <<gates, upstream, run>>

-----------------------------------------------------------------------------
(* The operator, other writers and other tasks *)

\* update-task-branch.rb
UpdateBranch(b, to) ==
    /\ st.phase \notin Finished
    /\ to \in CASE st.branches[b] = "none" -> {"ready", "blocked"}
                 [] st.branches[b] = "ready" -> {"blocked", "done", "na"}
                 [] st.branches[b] = "blocked" -> {"ready", "na"}
                 [] OTHER -> {}
    /\ st' = Project([st EXCEPT !.branches[b] = to])
    /\ decision' = Aged(st')
    /\ UNCHANGED <<gates, upstream, run, lanes>>

\* update-completion-gate.rb, record-authorization.rb
ChangeGates(to) ==
    /\ st.phase \notin Finished /\ to # "none" /\ (gates = "none" => to = "open")
    /\ gates' = to
    /\ UNCHANGED <<st, upstream, decision, run, lanes>>

\* The dashboard writes decision.yaml at any time, with the phase it shows.
Decide(what) ==
    /\ decision' = [NoDecision EXCEPT !.what = what,
                                      !.against = IF Against /\ what = "approve" THEN st.phase ELSE @]
    /\ UNCHANGED <<st, gates, upstream, run, lanes>>

UpstreamEnds(how) ==
    /\ upstream = "open" /\ upstream' = how
    /\ UNCHANGED <<st, gates, decision, run, lanes>>

Next ==
    \/ \E a \in Roles, spent \in BOOLEAN : Dispatch(a, spent)
    \/ \E next \in NextOf(run) : \E phase \in PhasesAfter(run, next) : Sync(next, phase)
    \/ NothingSynced \/ ContractFails \/ PlanConflicts
    \/ \E completed \in BOOLEAN : LanesEnd(completed)
    \/ \E b \in Branches, to \in {"ready", "blocked", "done", "na"} : UpdateBranch(b, to)
    \/ \E to \in {"open", "resolved"} : ChangeGates(to)
    \/ \E what \in Decisions : Decide(what)
    \/ \E how \in {"done", "failed"} : UpstreamEnds(how)

Spec == Init /\ [][Next]_vars

-----------------------------------------------------------------------------

\* completion-guard.rb 26-27: however a task came to `done` and whatever was written since,
\* no gate it declares is unresolved and no branch is left ready or blocked.
DoneIsEarned == st.phase = "done" => MayFinish(st)

\* branch-projection.rb 46-63, after whichever writer: a task whose branches are all held up
\* is blocked, and one that is blocked on none of them waits on something else.
BranchesShow ==
    Declared(st) =>
        /\ OnlyBlocked(st) /\ st.phase \notin Override => st.phase = "blocked"
        /\ st.phase = "blocked" => OnlyBlocked(st) \/ st.waits \/ st.dep

\* sync-status-from-output.rb 234-243, run-agent.sh 2248-2328: every output that moves the
\* task brings it nearer to the guards' limits, unless a PM run comes in between; so agents
\* that hand a task to one another cannot go on for ever.
Used ==
    5 * (st.iter + st.roams + st.retries)
    + IF st.phase = "validation_failed" THEN 4
      ELSE IF st.agent = "free-roam" THEN 3
      ELSE IF st.agent = "done" THEN IF st.phase = "done" THEN 2 ELSE 1
      ELSE 0

TurnCounts ==
    (/\ run' = "none" /\ run \in Work \cup {"free-roam"}
     /\ [st' EXCEPT !.waits = FALSE] # [st EXCEPT !.waits = FALSE])
    => Used' > Used

EachTurnCounts == [][TurnCounts]_vars

\* reconcile-decision.rb 119-124: on a task with gates, an approval that was held completes no
\* work that moved on since it was made.
HeldApprovalIsCurrent ==
    [][/\ decision.what = "approve" /\ decision.held /\ gates # "none"
       /\ decision'.what = "none" /\ st'.phase = "done"
       => ~decision.moved]_vars

\* validate-yaml.rb 1809-1822: a blocked task names what it waits on.
BlockedNamesItsWait ==
    st.phase = "blocked" =>
        st.dep \/ st.waits \/ \E b \in Branches : st.branches[b] = "blocked"
=============================================================================
