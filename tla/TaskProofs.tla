--------------------------- MODULE TaskProofs ---------------------------
(***************************************************************************)
(* What holds of a task's status, of its records, of the output of its        *)
(* launches and of the robot that shows it, for any branches, requests,       *)
(* entries, pieces and tasks.                                                 *)
(***************************************************************************)
EXTENDS TaskStatus, FiniteSetTheorems, SequenceTheorems, WellFoundedInduction, TLAPS

-----------------------------------------------------------------------------
(* The status of a task: done only with every gate and branch resolved, a phase that shows *)
(* what the branches hold up, and outputs that each use up one of the limits.               *)

\* What the configuration gives (run-agent.sh 1280-1284).
Limits ==
    /\ LoopLimit \in Nat /\ RoamLimit \in Nat /\ RetryLimit \in Nat
    /\ FirstPhases \subseteq {"pending", "assigned", "blocked"}
    /\ Decisions \subseteq Kinds

\* The counters and branches of r are those of s.
SameCounts(r, s) ==
    /\ r.iter = s.iter /\ r.roams = s.roams /\ r.retries = s.retries
    /\ r.branches = s.branches

\* BranchesShow of a status.
Shown(s) ==
    Declared(s) =>
        /\ OnlyBlocked(s) /\ s.phase \notin Override => s.phase = "blocked"
        /\ s.phase = "blocked" => OnlyBlocked(s) \/ s.waits \/ s.dep

\* What a dispatch makes sure of before a run, and nothing takes back during it: the guards
\* of run-agent.sh 2248-2328 have seen the status the run is counted on.
MayRun ==
    /\ run \in Work =>
          /\ st.iter < LoopLimit /\ st.phase # "validation_failed" /\ st.agent # "free-roam"
    /\ run = "free-roam" =>
          /\ st.roams < RoamLimit
          /\ st.phase = "validation_failed" => st.retries < RetryLimit

StatusInv == TypeOK /\ DoneIsEarned /\ BranchesShow /\ MayRun

-----------------------------------------------------------------------------
(* The operators on a status *)

\* branch-projection.rb 46-63: apply! keeps counters and branches and may only block the
\* task or take it up again.
LEMMA ProjectFacts ==
    ASSUME Limits, NEW s \in Status
    PROVE  /\ Project(s) \in Status /\ SameCounts(Project(s), s) /\ Shown(Project(s))
           /\ Project(s).waits = s.waits /\ Project(s).dep = s.dep
           /\ s.phase \in Override => Project(s) = s
           /\ Project(s) = s \/ Project(s).phase = "blocked"
              \/ (Project(s).phase = "assigned" /\ Project(s).agent = "dev")
           /\ Project(s).agent \in {s.agent, "dev"}
<1>1. CASE ~Declared(s) \/ s.phase \in Override
  <2>1. Project(s) = s BY <1>1 DEF Project
  <2>2. SameCounts(s, s) BY DEF SameCounts
  <2>3. Shown(s) BY <1>1 DEF Shown, Override
  <2> QED BY <2>1, <2>2, <2>3
<1>2. CASE Declared(s) /\ s.phase \notin Override /\ OnlyBlocked(s)
  <2> DEFINE r == [s EXCEPT !.phase = "blocked"]
  <2>1. Project(s) = r BY <1>2 DEF Project
  <2>2. /\ r \in Status /\ SameCounts(r, s) /\ r.phase = "blocked" /\ r.agent = s.agent
        /\ r.waits = s.waits /\ r.dep = s.dep
        BY DEF Status, SameCounts, Phases
  <2>3. OnlyBlocked(r) BY <1>2, <2>2 DEF OnlyBlocked, SameCounts
  <2>4. Shown(r) BY <2>2, <2>3 DEF Shown
  <2> QED BY <1>2, <2>1, <2>2, <2>4
<1>3. CASE Declared(s) /\ s.phase \notin Override /\ ~OnlyBlocked(s)
           /\ s.phase = "blocked" /\ ~s.waits /\ ~s.dep
  <2> DEFINE r == [s EXCEPT !.phase = "assigned", !.agent = "dev"]
  <2>1. Project(s) = r BY <1>3 DEF Project
  <2>2. /\ r \in Status /\ SameCounts(r, s) /\ r.phase = "assigned" /\ r.agent = "dev"
        /\ r.waits = s.waits /\ r.dep = s.dep
        BY DEF Status, SameCounts, Phases, Agents, Roles, Work
  <2>3. ~OnlyBlocked(r) BY <1>3, <2>2 DEF OnlyBlocked, SameCounts
  <2>4. Shown(r) BY <2>2, <2>3 DEF Shown
  <2> QED BY <1>3, <2>1, <2>2, <2>4
<1>4. CASE Declared(s) /\ s.phase \notin Override /\ ~OnlyBlocked(s)
           /\ ~(s.phase = "blocked" /\ ~s.waits /\ ~s.dep)
  <2>1. Project(s) = s BY <1>4 DEF Project
  <2>2. SameCounts(s, s) BY DEF SameCounts
  <2>3. Shown(s) BY <1>4 DEF Shown
  <2> QED BY <2>1, <2>2, <2>3
<1> QED BY <1>1, <1>2, <1>3, <1>4

\* A route to any phase and agent, with the branches projected on it.
LEMMA RoutedFacts ==
    ASSUME Limits, NEW s \in Status, NEW phase \in Phases, NEW agent \in Agents
    PROVE  /\ Routed(s, phase, agent) \in Status /\ SameCounts(Routed(s, phase, agent), s)
           /\ Shown(Routed(s, phase, agent))
           /\ phase \in Override =>
                 /\ Routed(s, phase, agent).phase = phase
                 /\ Routed(s, phase, agent).agent = agent
           /\ Routed(s, phase, agent).phase \in {phase, "blocked", "assigned"}
           /\ Routed(s, phase, agent).agent \in {agent, "dev"}
           /\ Routed(s, phase, agent).waits = s.waits /\ Routed(s, phase, agent).dep = s.dep
           /\ \/ Routed(s, phase, agent).phase = phase /\ Routed(s, phase, agent).agent = agent
              \/ Routed(s, phase, agent).phase = "blocked"
              \/ Routed(s, phase, agent).phase = "assigned" /\ Routed(s, phase, agent).agent = "dev"
<1> DEFINE r == [s EXCEPT !.phase = phase, !.agent = agent]
<1>1. /\ r \in Status /\ SameCounts(r, s) /\ r.phase = phase /\ r.agent = agent
      /\ r.waits = s.waits /\ r.dep = s.dep
      BY DEF Status, SameCounts
<1>2. Routed(s, phase, agent) = Project(r) BY DEF Routed
<1> HIDE DEF r
<1>3. SameCounts(Project(r), s) BY <1>1, ProjectFacts DEF SameCounts
<1> QED BY <1>1, <1>2, <1>3, ProjectFacts

\* reconcile-blocked-status.rb: the dependencies neither finish a task nor touch its branches.
LEMMA UnblockedFacts ==
    ASSUME Limits, NEW s \in Status, Shown(s)
    PROVE  /\ Unblocked(s) \in Status /\ SameCounts(Unblocked(s), s) /\ Shown(Unblocked(s))
           /\ Unblocked(s).phase = "done" => s.phase = "done"
<1>1. CASE s.phase # "blocked" \/ ~s.dep \/ upstream = "open"
  <2>1. Unblocked(s) = s BY <1>1 DEF Unblocked
  <2> QED BY <2>1 DEF SameCounts
<1>2. CASE s.phase = "blocked" /\ s.dep /\ upstream # "open" /\ upstream = "failed"
  <2> DEFINE r == [s EXCEPT !.waits = FALSE]
  <2>1. r \in Status /\ SameCounts(r, s) BY DEF Status, SameCounts
  <2>2. Unblocked(s) = Routed(r, "escalated", "free-roam") BY <1>2 DEF Unblocked
  <2> HIDE DEF r
  <2>3. "escalated" \in Phases /\ "free-roam" \in Agents BY DEF Phases, Agents, Roles
  <2>4. SameCounts(Unblocked(s), s) BY <2>1, <2>2, <2>3, RoutedFacts DEF SameCounts
  <2> QED BY <2>1, <2>2, <2>3, <2>4, RoutedFacts
<1>3. CASE s.phase = "blocked" /\ s.dep /\ upstream # "open" /\ upstream # "failed"
  <2> DEFINE r == [s EXCEPT !.waits = FALSE, !.dep = ~Declared(s)]
  <2>1. (~Declared(s)) \in BOOLEAN BY DEF Declared
  <2>2. r \in Status /\ SameCounts(r, s) BY <2>1 DEF Status, SameCounts
  <2>3. Unblocked(s) = Routed(r, "assigned", "dev") BY <1>3 DEF Unblocked
  <2> HIDE DEF r
  <2>4. "assigned" \in Phases /\ "dev" \in Agents BY DEF Phases, Agents, Roles, Work
  <2>5. SameCounts(Unblocked(s), s) BY <2>2, <2>3, <2>4, RoutedFacts DEF SameCounts
  <2> QED BY <2>2, <2>3, <2>4, <2>5, RoutedFacts
<1> QED BY <1>1, <1>2, <1>3

\* reconcile-decision.rb: a decision finishes a task by an approve alone.
LEMMA DecidedFacts ==
    ASSUME Limits, NEW s \in Status, Shown(s), NEW v \in Kinds \cup {"none", "held", "stale"}
    PROVE  /\ Decided(s, v) \in Status /\ SameCounts(Decided(s, v), s) /\ Shown(Decided(s, v))
           /\ Decided(s, v).phase = "done" => v = "approve" \/ s.phase = "done"
           /\ v \in {"request_changes", "escalate"} => Decided(s, v).agent \in Roles
<1>2. CASE v = "approve"
  <2> DEFINE r == Routed(s, "done", "done")
  <2>1. "done" \in Phases /\ "done" \in Agents BY DEF Phases, Agents, Roles, Work
  <2>2. /\ r \in Status /\ SameCounts(r, s) /\ Shown(r)
        /\ r.phase \in {"done", "blocked", "assigned"} /\ r.agent \in {"done", "dev"}
        BY <2>1, RoutedFacts
  <2>3. Decided(s, v) = r BY <1>2 DEF Decided
  <2> HIDE DEF r
  <2> QED BY <1>2, <2>2, <2>3 DEF Roles, Work
<1>3. CASE v = "request_changes"
  <2> DEFINE r == Routed(s, "debugging", "debugger")
  <2>1. "debugging" \in Phases /\ "debugger" \in Agents BY DEF Phases, Agents, Roles, Work
  <2>2. /\ r \in Status /\ SameCounts(r, s) /\ Shown(r)
        /\ r.phase \in {"debugging", "blocked", "assigned"} /\ r.agent \in {"debugger", "dev"}
        BY <2>1, RoutedFacts
  <2>3. Decided(s, v) = r BY <1>3 DEF Decided
  <2> HIDE DEF r
  <2> QED BY <1>3, <2>2, <2>3 DEF Roles, Work
<1>4. CASE v = "escalate"
  <2> DEFINE r == Routed(s, "escalated", "free-roam")
  <2>1. "escalated" \in Phases /\ "free-roam" \in Agents BY DEF Phases, Agents, Roles, Work
  <2>2. /\ r \in Status /\ SameCounts(r, s) /\ Shown(r)
        /\ r.phase \in {"escalated", "blocked", "assigned"} /\ r.agent \in {"free-roam", "dev"}
        BY <2>1, RoutedFacts
  <2>3. Decided(s, v) = r BY <1>4 DEF Decided
  <2> HIDE DEF r
  <2> QED BY <1>4, <2>2, <2>3 DEF Roles, Work
<1>5. CASE v = "reject"
  <2> DEFINE r == Routed(s, "aborted", "none")
  <2>1. "aborted" \in Phases /\ "none" \in Agents BY DEF Phases, Agents, Roles, Work
  <2>2. /\ r \in Status /\ SameCounts(r, s) /\ Shown(r)
        /\ r.phase \in {"aborted", "blocked", "assigned"} /\ r.agent \in {"none", "dev"}
        BY <2>1, RoutedFacts
  <2>3. Decided(s, v) = r BY <1>5 DEF Decided
  <2> HIDE DEF r
  <2> QED BY <1>5, <2>2, <2>3 DEF Roles, Work
<1>6. CASE v \in {"none", "held", "stale"}
  <2>1. Decided(s, v) = s BY <1>6 DEF Decided
  <2> QED BY <1>6, <2>1 DEF SameCounts
<1> QED BY <1>2, <1>3, <1>4, <1>5, <1>6 DEF Kinds

LEMMA AgedType ==
    ASSUME TypeOK, NEW s PROVE Aged(s) \in Decision
<1>1. decision \in Decision BY DEF TypeOK
<1> QED BY <1>1 DEF Aged, Decision

-----------------------------------------------------------------------------
(* The steps *)

\* A step that keeps the branches, and the gates of a task that ends up done.
LEMMA StatusStep ==
    ASSUME StatusInv, st' \in Status, Shown(st'), upstream' = upstream,
           gates' \in {"none", "open", "resolved"}, gates' = gates \/ st'.phase # "done",
           lanes' \in BOOLEAN, decision' \in Decision, run' \in Roles \cup {"none"}, MayRun',
           st'.branches = st.branches,
           st'.phase = "done" => st.phase = "done" \/ MayFinish(st)
    PROVE  StatusInv'
<1>1. TypeOK' BY DEF StatusInv, TypeOK
<1>2. BranchesShow' BY DEF BranchesShow, Shown, Declared, OnlyBlocked
<1>3. DoneIsEarned' BY DEF StatusInv, DoneIsEarned, MayFinish
<1> QED BY <1>1, <1>2, <1>3 DEF StatusInv

\* run-agent.sh 2188-2369: what a dispatch that runs a role has seen.
LEMMA GuardsPass ==
    ASSUME Limits, NEW s \in Status, NEW role \in Roles, ~Refused(role, s),
           ~(role \in Work /\ s.iter >= LoopLimit)
    PROVE  /\ role \in Work =>
                 /\ s.iter < LoopLimit /\ s.phase # "validation_failed" /\ s.agent # "free-roam"
           /\ role = "free-roam" =>
                 /\ s.roams < RoamLimit
                 /\ s.phase = "validation_failed" => s.retries < RetryLimit
<1>1. /\ LoopLimit \in Nat /\ RoamLimit \in Nat /\ RetryLimit \in Nat
      /\ s.iter \in 0..LoopLimit /\ s.roams \in 0..RoamLimit /\ s.retries \in 0..RetryLimit
      BY DEF Limits, Status
<1>2. ASSUME role \in Work
      PROVE  s.iter < LoopLimit /\ s.phase # "validation_failed" /\ s.agent # "free-roam"
  <2>1. s.iter < LoopLimit BY <1>1, <1>2
  <2>2. s.phase # "validation_failed" BY <1>2 DEF Refused, Work
  <2>3. s.agent # "free-roam" BY <1>2 DEF Refused, Work
  <2> QED BY <2>1, <2>2, <2>3
<1>3. ASSUME role = "free-roam"
      PROVE  s.roams < RoamLimit /\ (s.phase = "validation_failed" => s.retries < RetryLimit)
  <2>1. ~(s.roams >= RoamLimit) BY <1>3 DEF Refused
  <2>2. s.phase = "validation_failed" => ~(s.retries >= RetryLimit) BY <1>3 DEF Refused
  <2> QED BY <1>1, <2>1, <2>2
<1> QED BY <1>2, <1>3

LEMMA DispatchInv ==
    ASSUME Limits, StatusInv, NEW a \in Roles, NEW spent \in BOOLEAN, Dispatch(a, spent)
    PROVE  StatusInv'
<1> DEFINE reconciled == IF a = "pm" THEN st ELSE Unblocked(st)
           verdict == IF a = "pm" THEN "none" ELSE Verdict(reconciled)
           s == Decided(reconciled, verdict)
           role == IF verdict \in {"request_changes", "escalate"} THEN s.agent ELSE a
           stops == verdict \in {"approve", "reject"} \/ Refused(role, s)
           escalates == role \in Work /\ (s.iter >= LoopLimit \/ spent)
<1>1. /\ st \in Status /\ Shown(st) /\ decision \in Decision
      /\ st.phase = "done" => MayFinish(st)
      BY DEF StatusInv, TypeOK, BranchesShow, Shown, DoneIsEarned
<1>2. /\ reconciled \in Status /\ SameCounts(reconciled, st) /\ Shown(reconciled)
      /\ reconciled.phase = "done" => st.phase = "done"
      BY <1>1, UnblockedFacts DEF SameCounts
<1>3. verdict \in Kinds \cup {"none", "held", "stale"}
      BY <1>1 DEF Verdict, Decision, Kinds
<1>4. verdict = "approve" => MayFinish(reconciled)
      BY DEF Verdict
<1>5. /\ st' = IF ~stops /\ escalates THEN Routed(s, "escalated", "free-roam") ELSE s
      /\ run' = IF stops \/ escalates THEN "none" ELSE role
      /\ gates' = gates /\ upstream' = upstream /\ lanes' = lanes
      BY DEF Dispatch
<1>6. decision' \in Decision
  <2>1. Aged(st') \in Decision BY AgedType DEF StatusInv
  <2>2. NoDecision \in Decision BY DEF NoDecision, Decision
  <2>3. [Aged(st') EXCEPT !.held = TRUE] \in Decision BY <2>1 DEF Decision
  <2> QED BY <2>1, <2>2, <2>3 DEF Dispatch
<1> HIDE DEF reconciled, verdict
<1>7. /\ s \in Status /\ SameCounts(s, reconciled) /\ Shown(s)
      /\ s.phase = "done" => verdict = "approve" \/ reconciled.phase = "done"
      /\ verdict \in {"request_changes", "escalate"} => s.agent \in Roles
      BY <1>2, <1>3, DecidedFacts
<1> HIDE DEF s
<1>8. s.branches = st.branches BY <1>2, <1>7 DEF SameCounts
<1>9. s.phase = "done" => MayFinish(st)
  <2>1. reconciled.branches = st.branches BY <1>2 DEF SameCounts
  <2>2. MayFinish(reconciled) => MayFinish(st) BY <2>1 DEF MayFinish
  <2> QED BY <1>1, <1>2, <1>4, <1>7, <2>2
<1>10. role \in Roles BY <1>7
<1> HIDE DEF role
<1>11. CASE ~stops /\ escalates
  <2>1. "escalated" \in Phases /\ "free-roam" \in Agents /\ "escalated" \in Override
        BY DEF Phases, Agents, Roles, Override
  <2> DEFINE r == Routed(s, "escalated", "free-roam")
  <2>2. st' = r /\ run' = "none" BY <1>5, <1>11
  <2>3. r \in Status /\ Shown(r) /\ r.branches = st.branches /\ r.phase = "escalated"
        BY <1>7, <1>8, <2>1, RoutedFacts DEF SameCounts
  <2> HIDE DEF r
  <2>4. MayRun' BY <2>2 DEF MayRun, Work
  <2> QED BY <1>5, <1>6, <2>2, <2>3, <2>4, StatusStep DEF StatusInv, TypeOK
<1>12. CASE stops
  <2>1. st' = s /\ run' = "none" BY <1>5, <1>12
  <2>2. MayRun' BY <2>1 DEF MayRun, Work
  <2> QED BY <1>5, <1>6, <1>7, <1>8, <1>9, <2>1, <2>2, StatusStep DEF StatusInv, TypeOK
<1>13. CASE ~stops /\ ~escalates
  <2>1. st' = s /\ run' = role BY <1>5, <1>13
  <2>2. ~Refused(role, s) /\ ~(role \in Work /\ s.iter >= LoopLimit) BY <1>13
  <2>3. MayRun' BY <1>7, <1>10, <2>1, <2>2, GuardsPass DEF MayRun
  <2> QED BY <1>5, <1>6, <1>7, <1>8, <1>9, <1>10, <2>1, <2>3, StatusStep DEF StatusInv, TypeOK
<1> QED BY <1>11, <1>12, <1>13

\* sync-status-from-output.rb
LEMMA SyncInv ==
    ASSUME Limits, StatusInv, NEW next \in NextOf(run), NEW phase \in PhasesAfter(run, next),
           Sync(next, phase)
    PROVE  StatusInv'
<1>1. /\ st \in Status /\ decision \in Decision /\ run \in Roles \cup {"none"}
      /\ st.phase = "done" => MayFinish(st)
      BY DEF StatusInv, TypeOK, DoneIsEarned
<1>2. run \in Roles /\ next \in Agents /\ (next = "done" => run # "pm")
      BY <1>1 DEF NextOf, Roles, Work, Agents
<1>3. phase \in Phases
  <2>1. st.phase \in Phases BY <1>1 DEF Status
  <2> QED BY <2>1 DEF PhasesAfter, Phases
<1>4. run = "pm" => phase # "done"
  <2>1. run = "pm" => next \in {"dev", "free-roam"} BY DEF NextOf
  <2> QED BY <2>1 DEF PhasesAfter
<1>5. phase = "done" => MayFinish(st)
  <2>1. phase = "done" => phase = st.phase \/ (run = "reviewer" /\ next = "done")
        BY DEF PhasesAfter
  <2>2. next = "done" /\ run # "free-roam" => MayFinish(st) BY DEF Sync
  <2> QED BY <1>1, <2>1, <2>2
<1> DEFINE s == [st EXCEPT !.waits = @ /\ Declared(st)]
           c == Counted(s, run, next)
           r == Routed(c, phase, next)
<1>6. s \in Status /\ s.branches = st.branches
  <2>1. (st.waits /\ Declared(st)) \in BOOLEAN BY DEF Declared
  <2> QED BY <1>1, <2>1 DEF Status
<1>7. st' = r /\ gates' \in {gates} \cup (IF run = "pm" THEN {"open"} ELSE {})
      /\ lanes' \in {lanes, lanes \/ phase = "assigned_parallel"}
      /\ run' = "none" /\ decision' = Aged(st') /\ upstream' = upstream
      BY DEF Sync
<1> HIDE DEF s
<1>8. c \in Status /\ c.branches = s.branches
  <2> DEFINE roams == IF run = "free-roam" /\ s.roams < RoamLimit THEN s.roams + 1 ELSE s.roams
             iter == IF next \in Work /\ s.iter < LoopLimit THEN s.iter + 1 ELSE s.iter
  <2>1. /\ LoopLimit \in Nat /\ RoamLimit \in Nat
        /\ s.iter \in 0..LoopLimit /\ s.roams \in 0..RoamLimit
        BY <1>6 DEF Limits, Status
  <2>2. roams \in 0..RoamLimit BY <2>1
  <2>3. iter \in 0..LoopLimit BY <2>1
  <2>4. c = [s EXCEPT !.roams = roams, !.iter = iter] BY DEF Counted
  <2> HIDE DEF roams, iter, c
  <2> QED BY <1>6, <2>2, <2>3, <2>4 DEF Status
<1> HIDE DEF c
<1>9. /\ r \in Status /\ Shown(r) /\ r.branches = st.branches
      /\ r.phase \in {phase, "blocked", "assigned"}
      BY <1>2, <1>3, <1>6, <1>8, RoutedFacts DEF SameCounts
<1> HIDE DEF r
<1>10. decision' \in Decision BY <1>7, AgedType DEF StatusInv
<1>11. MayRun' BY <1>7 DEF MayRun, Work
<1>12. lanes' \in BOOLEAN BY <1>7 DEF StatusInv, TypeOK
<1>13. gates' \in {"none", "open", "resolved"} /\ (gates' = gates \/ st'.phase # "done")
       BY <1>4, <1>7, <1>9 DEF StatusInv, TypeOK
<1>14. st'.phase = "done" => MayFinish(st) BY <1>5, <1>7, <1>9
<1> QED BY <1>7, <1>9, <1>10, <1>11, <1>12, <1>13, <1>14, StatusStep

\* enforce-output-contract.rb
LEMMA ContractFailsInv ==
    ASSUME Limits, StatusInv, ContractFails PROVE StatusInv'
<1> DEFINE n == IF st.retries < RetryLimit THEN st.retries + 1 ELSE st.retries
           r == [st EXCEPT !.phase = "validation_failed", !.agent = "free-roam", !.retries = n]
<1>1. st \in Status /\ RetryLimit \in Nat BY DEF StatusInv, TypeOK, Limits
<1>2. n \in 0..RetryLimit
  <2>1. st.retries \in 0..RetryLimit BY <1>1 DEF Status
  <2> QED BY <1>1, <2>1
<1>3. st' = r BY DEF ContractFails
<1> HIDE DEF n
<1>4. /\ r \in Status /\ r.branches = st.branches /\ r.phase = "validation_failed"
      BY <1>1, <1>2 DEF Status, Phases, Agents, Roles
<1> HIDE DEF r
<1>5. Shown(st') BY <1>3, <1>4 DEF Shown, Override
<1>6. decision' \in Decision BY AgedType DEF StatusInv, ContractFails
<1>7. MayRun' BY DEF ContractFails, MayRun, Work
<1> QED BY <1>3, <1>4, <1>5, <1>6, <1>7, StatusStep DEF ContractFails, StatusInv, TypeOK

LEMMA PlanConflictsInv ==
    ASSUME Limits, StatusInv, PlanConflicts PROVE StatusInv'
<1> DEFINE r == Routed(st, "validation_failed", "free-roam")
<1>1. st \in Status BY DEF StatusInv, TypeOK
<1>2. "validation_failed" \in Phases /\ "free-roam" \in Agents /\ "validation_failed" \in Override
      BY DEF Phases, Agents, Roles, Override
<1>3. r \in Status /\ Shown(r) /\ r.branches = st.branches /\ r.phase = "validation_failed"
      BY <1>1, <1>2, RoutedFacts DEF SameCounts
<1>4. st' = r BY DEF PlanConflicts
<1> HIDE DEF r
<1>5. decision' \in Decision BY AgedType DEF StatusInv, PlanConflicts
<1>6. MayRun' BY DEF PlanConflicts, MayRun, Work
<1> QED BY <1>3, <1>4, <1>5, <1>6, StatusStep DEF PlanConflicts, StatusInv, TypeOK

\* force-status-route.rb, of the lanes of a parallel plan
LEMMA LanesEndInv ==
    ASSUME Limits, StatusInv, NEW completed \in BOOLEAN, LanesEnd(completed) PROVE StatusInv'
<1> DEFINE r == Routed(st, "in_review", "reviewer")
<1>1. st \in Status /\ Shown(st) BY DEF StatusInv, TypeOK, BranchesShow, Shown
<1>2. "in_review" \in Phases /\ "reviewer" \in Agents BY DEF Phases, Agents, Roles, Work
<1>3. /\ r \in Status /\ Shown(r) /\ r.branches = st.branches
      /\ r.phase \in {"in_review", "blocked", "assigned"}
      BY <1>1, <1>2, RoutedFacts DEF SameCounts
<1>4. (st' = r /\ run = "none") \/ st' = st BY DEF LanesEnd
<1> HIDE DEF r
<1>5. decision' \in Decision BY AgedType DEF StatusInv, LanesEnd
<1>6. MayRun' BY <1>4 DEF LanesEnd, MayRun, StatusInv, Work
<1>7. lanes' \in BOOLEAN BY DEF LanesEnd
<1> QED BY <1>1, <1>3, <1>4, <1>5, <1>6, <1>7, StatusStep DEF LanesEnd, StatusInv, TypeOK

\* update-task-branch.rb
LEMMA UpdateBranchInv ==
    ASSUME Limits, StatusInv, NEW b \in Branches, NEW to \in {"ready", "blocked", "done", "na"},
           UpdateBranch(b, to)
    PROVE  StatusInv'
<1> DEFINE s == [st EXCEPT !.branches[b] = to]
<1>1. st \in Status BY DEF StatusInv, TypeOK
<1>2. /\ s \in Status /\ s.phase = st.phase /\ s.agent = st.agent
      /\ s.iter = st.iter /\ s.roams = st.roams /\ s.retries = st.retries
      BY <1>1 DEF Status
<1>3. st' = Project(s) /\ st.phase \notin Finished BY DEF UpdateBranch
<1> HIDE DEF s
<1>4. /\ st' \in Status /\ SameCounts(st', s) /\ Shown(st')
      /\ st'.phase \in {st.phase, "blocked", "assigned"} /\ st'.agent \in {st.agent, "dev"}
      BY <1>2, <1>3, ProjectFacts
<1>5. st'.phase # "done" BY <1>3, <1>4 DEF Finished
<1>6. decision' \in Decision BY AgedType DEF StatusInv, UpdateBranch
<1>7. TypeOK' BY <1>4, <1>6 DEF UpdateBranch, StatusInv, TypeOK
<1>8. MayRun' BY <1>2, <1>4 DEF UpdateBranch, MayRun, StatusInv, SameCounts
<1>9. BranchesShow' BY <1>4 DEF BranchesShow, Shown, Declared, OnlyBlocked
<1>10. DoneIsEarned' BY <1>5 DEF DoneIsEarned
<1> QED BY <1>7, <1>8, <1>9, <1>10 DEF StatusInv

LEMMA InitInv == ASSUME Limits, Init PROVE StatusInv
<1> PICK phase \in FirstPhases, agent \in Roles, dep \in BOOLEAN :
       st = [phase |-> phase, agent |-> agent,
             iter |-> 0, roams |-> 0, retries |-> 0, dep |-> dep,
             waits |-> phase = "blocked" /\ ~dep, branches |-> [b \in Branches |-> "none"]]
    BY DEF Init
<1>1. phase \in {"pending", "assigned", "blocked"} BY DEF Limits
<1>2. 0 \in 0..LoopLimit /\ 0 \in 0..RoamLimit /\ 0 \in 0..RetryLimit BY DEF Limits
<1>3. (phase = "blocked" /\ ~dep) \in BOOLEAN OBVIOUS
<1>4. agent \in Agents BY DEF Agents, Roles, Work
<1>5. st \in Status BY <1>1, <1>2, <1>3, <1>4 DEF Status, Phases
<1>6. NoDecision \in Decision BY DEF NoDecision, Decision
<1>7. TypeOK BY <1>5, <1>6 DEF Init, TypeOK
<1>8. DoneIsEarned BY <1>1 DEF DoneIsEarned
<1>9. BranchesShow BY DEF BranchesShow, Declared
<1>10. MayRun BY DEF Init, MayRun, Work
<1> QED BY <1>7, <1>8, <1>9, <1>10 DEF StatusInv

LEMMA NextInv == ASSUME Limits, StatusInv, [Next]_vars PROVE StatusInv'
<1> USE DEF StatusInv, TypeOK
<1>1. ASSUME NEW a \in Roles, NEW spent \in BOOLEAN, Dispatch(a, spent) PROVE StatusInv'
      BY <1>1, DispatchInv
<1>2. ASSUME NEW next \in NextOf(run), NEW phase \in PhasesAfter(run, next), Sync(next, phase)
      PROVE  StatusInv'
      BY <1>2, SyncInv
<1>3. CASE NothingSynced BY <1>3 DEF NothingSynced, MayRun, Work, DoneIsEarned, MayFinish,
                            BranchesShow, Declared, OnlyBlocked
<1>4. CASE ContractFails BY <1>4, ContractFailsInv
<1>5. CASE PlanConflicts BY <1>5, PlanConflictsInv
<1>6. ASSUME NEW completed \in BOOLEAN, LanesEnd(completed) PROVE StatusInv'
      BY <1>6, LanesEndInv
<1>7. ASSUME NEW b \in Branches, NEW to \in {"ready", "blocked", "done", "na"}, UpdateBranch(b, to)
      PROVE  StatusInv'
      BY <1>7, UpdateBranchInv
<1>8. ASSUME NEW to \in {"open", "resolved"}, ChangeGates(to) PROVE StatusInv'
      BY <1>8 DEF ChangeGates, MayRun, DoneIsEarned, BranchesShow, Declared, OnlyBlocked, Finished
<1>9. ASSUME NEW what \in Decisions, Decide(what) PROVE StatusInv'
  <2>1. what \in Kinds /\ st.phase \in Phases BY DEF Limits, Status
  <2>2. decision' \in Decision BY <1>9, <2>1 DEF Decide, NoDecision, Decision
  <2> QED BY <1>9, <2>2 DEF Decide, MayRun, DoneIsEarned, MayFinish, BranchesShow, Declared,
             OnlyBlocked
<1>10. ASSUME NEW how \in {"done", "failed"}, UpstreamEnds(how) PROVE StatusInv'
       BY <1>10 DEF UpstreamEnds, MayRun, DoneIsEarned, MayFinish, BranchesShow, Declared, OnlyBlocked
<1>11. CASE UNCHANGED vars
       BY <1>11 DEF vars, MayRun, DoneIsEarned, MayFinish, BranchesShow, Declared, OnlyBlocked
<1> QED BY <1>1, <1>2, <1>3, <1>4, <1>5, <1>6, <1>7, <1>8, <1>9, <1>10, <1>11 DEF Next

\* The type of every variable, with what a run in progress may rely on (MayRun).
THEOREM StatusInvHolds == ASSUME Limits PROVE Spec => []StatusInv
<1>1. Init => StatusInv BY InitInv
<1>2. StatusInv /\ [Next]_vars => StatusInv' BY NextInv
<1> QED BY <1>1, <1>2, PTL DEF Spec

\* completion-guard.rb 26-27: a task is done only with every gate and branch resolved.
THEOREM DoneIsEarnedHolds == ASSUME Limits PROVE Spec => []DoneIsEarned
<1>1. StatusInv => DoneIsEarned BY DEF StatusInv
<1> QED BY <1>1, StatusInvHolds, PTL

\* branch-projection.rb 46-63: the phase shows what the branches hold up.
THEOREM BranchesShowHolds == ASSUME Limits PROVE Spec => []BranchesShow
<1>1. StatusInv => BranchesShow BY DEF StatusInv
<1> QED BY <1>1, StatusInvHolds, PTL

-----------------------------------------------------------------------------
(* The limits are used up *)

Rank(s) ==
    IF s.phase = "validation_failed" THEN 4
    ELSE IF s.agent = "free-roam" THEN 3
    ELSE IF s.agent = "done" THEN IF s.phase = "done" THEN 2 ELSE 1
    ELSE 0

LEMMA RankType == ASSUME NEW s PROVE Rank(s) \in 0..4
BY DEF Rank

\* A counter that goes up outweighs any fall of the rank.
LEMMA CounterWins ==
    ASSUME Limits, NEW s \in Status, NEW r \in Status,
           r.iter >= s.iter, r.roams >= s.roams, r.retries >= s.retries,
           \/ r.iter > s.iter \/ r.roams > s.roams \/ r.retries > s.retries
           \/ Rank(r) > Rank(s)
    PROVE  5 * (r.iter + r.roams + r.retries) + Rank(r)
           > 5 * (s.iter + s.roams + s.retries) + Rank(s)
<1>1. /\ s.iter \in Nat /\ s.roams \in Nat /\ s.retries \in Nat
      /\ r.iter \in Nat /\ r.roams \in Nat /\ r.retries \in Nat
      BY DEF Status, Limits
<1>2. Rank(s) \in 0..4 /\ Rank(r) \in 0..4 BY RankType
<1> QED BY <1>1, <1>2

\* What remains of a status when its global waits are left out.
SameButWaits(r, s) == [r EXCEPT !.waits = FALSE] = [s EXCEPT !.waits = FALSE]

LEMMA SameFields ==
    ASSUME NEW s \in Status, NEW r \in Status, SameCounts(r, s),
           r.phase = s.phase, r.agent = s.agent, r.dep = s.dep
    PROVE  SameButWaits(r, s)
BY DEF Status, SameCounts, SameButWaits

\* sync-status-from-output.rb 234-243: the counters an output raises.
LEMMA CountedFacts ==
    ASSUME Limits, NEW s \in Status, NEW role, NEW next
    PROVE  /\ Counted(s, role, next) \in Status
           /\ Counted(s, role, next).branches = s.branches
           /\ Counted(s, role, next).retries = s.retries
           /\ Counted(s, role, next).phase = s.phase
           /\ Counted(s, role, next).waits = s.waits /\ Counted(s, role, next).dep = s.dep
           /\ Counted(s, role, next).iter =
                 IF next \in Work /\ s.iter < LoopLimit THEN s.iter + 1 ELSE s.iter
           /\ Counted(s, role, next).roams =
                 IF role = "free-roam" /\ s.roams < RoamLimit THEN s.roams + 1 ELSE s.roams
<1> DEFINE roams == IF role = "free-roam" /\ s.roams < RoamLimit THEN s.roams + 1 ELSE s.roams
           iter == IF next \in Work /\ s.iter < LoopLimit THEN s.iter + 1 ELSE s.iter
           c == Counted(s, role, next)
<1>1. /\ LoopLimit \in Nat /\ RoamLimit \in Nat
      /\ s.iter \in 0..LoopLimit /\ s.roams \in 0..RoamLimit
      BY DEF Limits, Status
<1>2. roams \in 0..RoamLimit /\ iter \in 0..LoopLimit BY <1>1
<1>3. c = [s EXCEPT !.roams = roams, !.iter = iter] BY DEF Counted
<1> HIDE DEF roams, iter, c
<1>4. /\ c \in Status /\ c.branches = s.branches /\ c.retries = s.retries
      /\ c.phase = s.phase /\ c.waits = s.waits /\ c.dep = s.dep
      /\ c.iter = iter /\ c.roams = roams
      BY <1>2, <1>3 DEF Status
<1> QED BY <1>4 DEF roams, iter, c

LEMMA SyncCounts ==
    ASSUME Limits, StatusInv, NEW next \in NextOf(run), NEW phase \in PhasesAfter(run, next),
           Sync(next, phase), run \in Work \cup {"free-roam"}, ~SameButWaits(st', st)
    PROVE  Used' > Used
<1> DEFINE s == [st EXCEPT !.waits = @ /\ Declared(st)]
           c == Counted(s, run, next)
<1>1. /\ st \in Status /\ st' \in Status
      /\ LoopLimit \in Nat /\ RoamLimit \in Nat
      /\ st.iter \in 0..LoopLimit /\ st.roams \in 0..RoamLimit /\ st.retries \in 0..RetryLimit
  <2>1. StatusInv' BY SyncInv
  <2> QED BY <2>1 DEF StatusInv, TypeOK, Limits, Status
<1>2. /\ s \in Status /\ s.branches = st.branches /\ s.dep = st.dep /\ s.phase = st.phase
      /\ s.iter = st.iter /\ s.roams = st.roams /\ s.retries = st.retries
      /\ s.waits = (st.waits /\ Declared(st))
  <2>1. (st.waits /\ Declared(st)) \in BOOLEAN BY DEF Declared
  <2> QED BY <1>1, <2>1 DEF Status
<1>3. st' = Routed(c, phase, next) BY DEF Sync
<1> HIDE DEF s
<1>4. /\ c \in Status /\ c.branches = st.branches /\ c.retries = st.retries
      /\ c.dep = st.dep /\ c.waits = (st.waits /\ Declared(st))
      /\ c.iter = IF next \in Work /\ st.iter < LoopLimit THEN st.iter + 1 ELSE st.iter
      /\ c.roams = IF run = "free-roam" /\ st.roams < RoamLimit THEN st.roams + 1 ELSE st.roams
      BY <1>2, CountedFacts
<1> HIDE DEF c
<1>5. phase \in Phases /\ next \in Agents
  <2>1. st.phase \in Phases BY <1>1 DEF Status
  <2>2. phase \in Phases BY <2>1 DEF PhasesAfter, Phases
  <2>3. next \in Agents BY DEF NextOf, Agents, Roles, Work
  <2> QED BY <2>2, <2>3
<1>6. /\ st'.iter = c.iter /\ st'.roams = c.roams /\ st'.retries = st.retries
      /\ st'.branches = st.branches
      /\ phase \in Override => st'.phase = phase /\ st'.agent = next
      /\ st'.dep = st.dep
      BY <1>3, <1>4, <1>5, RoutedFacts DEF SameCounts
<1>7. st'.iter >= st.iter /\ st'.roams >= st.roams /\ st'.retries >= st.retries
      BY <1>1, <1>4, <1>6
<1>8. /\ run \in Work => /\ st.iter < LoopLimit /\ st.phase # "validation_failed"
                         /\ st.agent # "free-roam"
      /\ run = "free-roam" => st.roams < RoamLimit
      BY DEF StatusInv, MayRun
<1>9. SUFFICES \/ st'.iter > st.iter \/ st'.roams > st.roams \/ Rank(st') > Rank(st)
  <2>1. 5 * (st'.iter + st'.roams + st'.retries) + Rank(st')
        > 5 * (st.iter + st.roams + st.retries) + Rank(st)
        BY <1>1, <1>7, <1>9, CounterWins
  <2> QED BY <2>1 DEF Used, Rank
<1>10. CASE run = "free-roam"
       BY <1>1, <1>4, <1>6, <1>8, <1>10
<1>11. CASE run \in Work /\ next \in Work
       BY <1>1, <1>4, <1>6, <1>8, <1>11
<1>12. CASE run \in Work /\ next = "free-roam"
  <2>1. phase = "escalated" BY <1>12 DEF PhasesAfter, Work
  <2>2. st'.phase = "escalated" /\ st'.agent = "free-roam" BY <1>6, <1>12, <2>1 DEF Override
  <2>3. Rank(st') = 3 BY <2>2 DEF Rank
  <2>4. Rank(st) \in 0..2 BY <1>8, <1>12 DEF Rank
  <2> QED BY <2>3, <2>4
<1>13. CASE run \in Work /\ next = "done"
  <2>1. phase \in {"done", st.phase} BY <1>13 DEF PhasesAfter, Work
  <2>2. MayFinish(st) BY <1>13 DEF Sync, Work
  <2>3. ~OnlyBlocked(st) BY <2>2 DEF MayFinish, OnlyBlocked
  <2> DEFINE r == [c EXCEPT !.phase = phase, !.agent = "done"]
  <2>4. /\ r \in Status /\ r.phase = phase /\ r.agent = "done" /\ r.branches = st.branches
        /\ r.waits = c.waits /\ r.dep = st.dep
        BY <1>4, <1>5, <1>13 DEF Status
  <2>5. st' = Project(r) BY <1>3, <1>13 DEF Routed
  <2> HIDE DEF r
  <2>6. ~OnlyBlocked(r) BY <2>3, <2>4 DEF OnlyBlocked
  <2>7. r.phase = "blocked" /\ Declared(r) => r.waits \/ r.dep
    <3>1. Declared(r) => Declared(st) BY <2>4 DEF Declared
    <3>2. r.phase = "blocked" => st.phase = "blocked" BY <2>1, <2>4
    <3> QED BY <1>4, <2>3, <2>4, <3>1, <3>2 DEF StatusInv, BranchesShow
  <2>8. st' = r BY <2>5, <2>6, <2>7 DEF Project
  <2>9. st'.phase = phase /\ st'.agent = "done" BY <2>4, <2>8
  <2>10. SameCounts(st', st)
    <3>1. next \notin Work /\ run # "free-roam" BY <1>13 DEF Work
    <3> QED BY <1>4, <1>6, <3>1 DEF SameCounts
  <2>11. st.agent = "done" => phase # st.phase
         BY <1>1, <1>6, <2>9, <2>10, SameFields
  <2>12. CASE st.agent = "done"
    <3>1. phase = "done" /\ st.phase # "done" BY <2>1, <2>11, <2>12
    <3>2. Rank(st') = 2 BY <2>9, <3>1 DEF Rank
    <3>3. Rank(st) = 1 BY <1>8, <1>13, <2>12, <3>1 DEF Rank
    <3> QED BY <3>2, <3>3
  <2>13. CASE st.agent # "done"
    <3>1. Rank(st) = 0 BY <1>8, <1>13, <2>13 DEF Rank
    <3>2. phase # "validation_failed" BY <1>8, <1>13, <2>1
    <3>3. Rank(st') \in 1..2 BY <2>9, <3>2 DEF Rank
    <3> QED BY <3>1, <3>3
  <2> QED BY <2>12, <2>13
<1>14. next \in Work \cup {"free-roam", "done"} \/ run = "free-roam"
       BY DEF NextOf, Work
<1> QED BY <1>10, <1>11, <1>12, <1>13, <1>14

LEMMA FailedRank ==
    ASSUME NEW s, s.phase = "validation_failed"
    PROVE  Rank(s) = 4
BY DEF Rank

LEMMA FailureCounts ==
    ASSUME Limits, StatusInv, ContractFails, run \in Work \cup {"free-roam"}
    PROVE  Used' > Used
<1>1. /\ st \in Status /\ st' \in Status
      /\ st.iter \in Nat /\ st.roams \in Nat /\ st.retries \in 0..RetryLimit /\ RetryLimit \in Nat
  <2>1. StatusInv' BY ContractFailsInv
  <2> QED BY <2>1 DEF StatusInv, TypeOK, Limits, Status
<1>2. /\ st'.phase = "validation_failed" /\ st'.iter = st.iter /\ st'.roams = st.roams
      /\ st'.retries = IF st.retries < RetryLimit THEN st.retries + 1 ELSE st.retries
      BY <1>1 DEF ContractFails, Status
<1>3. Rank(st') = 4 BY <1>2, FailedRank
<1>4. st'.retries > st.retries \/ Rank(st') > Rank(st)
  <2>1. CASE st.phase = "validation_failed"
    <3>1. run = "free-roam" /\ st.retries < RetryLimit BY <2>1 DEF StatusInv, MayRun
    <3> QED BY <1>1, <1>2, <3>1
  <2>2. CASE st.phase # "validation_failed"
    <3>1. Rank(st) \in 0..3 BY <2>2 DEF Rank
    <3> QED BY <1>3, <3>1
  <2> QED BY <2>1, <2>2
<1>5. 5 * (st'.iter + st'.roams + st'.retries) + Rank(st')
      > 5 * (st.iter + st.roams + st.retries) + Rank(st)
      BY <1>1, <1>2, <1>4, CounterWins
<1> QED BY <1>5 DEF Used, Rank

\* run-agent.sh 2248-2328: an output of any agent but pm that moves the task brings it nearer
\* to the limits, whatever the limits are: without a PM run or a human between them, only
\* finitely many can.
THEOREM EachTurnCountsHolds == ASSUME Limits PROVE Spec => EachTurnCounts
<1>1. ASSUME StatusInv, [Next]_vars PROVE TurnCounts
  <2> SUFFICES ASSUME run' = "none", run \in Work \cup {"free-roam"}, ~SameButWaits(st', st)
               PROVE  Used' > Used
      BY DEF TurnCounts, SameButWaits
  <2>1. run # "none" /\ run # "pm" BY DEF Work
  <2>2. run' # run /\ st' # st BY <2>1 DEF SameButWaits
  <2>3. ASSUME NEW next \in NextOf(run), NEW phase \in PhasesAfter(run, next), Sync(next, phase)
        PROVE  Used' > Used
        BY <1>1, <2>3, SyncCounts
  <2>4. CASE ContractFails BY <1>1, <2>4, FailureCounts
  <2>5. ~NothingSynced /\ ~PlanConflicts /\ ~UNCHANGED vars
        BY <2>1, <2>2 DEF NothingSynced, PlanConflicts, vars
  <2>6. /\ \A a \in Roles, spent \in BOOLEAN : ~Dispatch(a, spent)
        /\ \A completed \in BOOLEAN : ~LanesEnd(completed)
        /\ \A b \in Branches, to \in {"ready", "blocked", "done", "na"} : ~UpdateBranch(b, to)
        /\ \A to \in {"open", "resolved"} : ~ChangeGates(to)
        /\ \A what \in Decisions : ~Decide(what)
        /\ \A how \in {"done", "failed"} : ~UpstreamEnds(how)
        BY <2>1, <2>2 DEF Dispatch, LanesEnd, UpdateBranch, ChangeGates, Decide, UpstreamEnds
  <2> QED BY <1>1, <2>3, <2>4, <2>5, <2>6 DEF Next
<1>2. StatusInv /\ [Next]_vars => [TurnCounts]_vars BY <1>1
<1> QED BY <1>2, StatusInvHolds, PTL DEF Spec, EachTurnCounts

-----------------------------------------------------------------------------
(* Induction over what is recorded *)

LEMMA LeastNat ==
    ASSUME NEW S \in SUBSET Nat, S # {}
    PROVE  \E m \in S : \A y \in S : m <= y
<1>1. \E m \in S : \A y \in S : ~(<<y, m>> \in OpToRel(<, Nat))
  BY NatLessThanWellFounded, WFMin
<1>2. PICK m \in S : \A y \in S : ~(y < m)
  BY <1>1 DEF OpToRel
<1>3. \A y \in S : m <= y
  BY <1>2
<1> QED BY <1>3

\* Induction, with a set of naturals in the place of a predicate.
LEMMA Induction ==
    ASSUME NEW S \in SUBSET Nat, 0 \in S, \A n \in S : n + 1 \in S
    PROVE  S = Nat
<1>1. SUFFICES ASSUME Nat \ S # {} PROVE FALSE
  OBVIOUS
<1>2. PICK m \in Nat \ S : \A y \in Nat \ S : m <= y
  BY <1>1, LeastNat
<1>3. m # 0 /\ m - 1 \in Nat /\ m - 1 \notin Nat \ S
  BY <1>2
<1>4. (m - 1) + 1 \in S
  BY <1>3
<1> QED BY <1>2, <1>4

\* c is where the steps start, D[i] is what step i makes of a value, f what each step comes to.
Stepwise(N, S, c, D) == N \in Nat /\ c \in S /\ D \in [1..N -> [S -> S]]
Comes(f, N, S, c, D) == f \in [0..N -> S] /\ f[0] = c /\ \A i \in 1..N : f[i] = D[i][f[i - 1]]

\* Steps one after the other: what they come to exists.
LEMMA Iterates ==
    ASSUME NEW N, NEW S, NEW c, NEW D, Stepwise(N, S, c, D)
    PROVE  \E f : Comes(f, N, S, c, D)
<1> USE DEF Stepwise, Comes
<1> DEFINE Is(f, n) == f[0] = c /\ \A i \in 1..n : f[i] = D[i][f[i - 1]]
           G == {n \in Nat : n <= N => \E f \in [0..n -> S] : Is(f, n)}
<1>1. 0 \in G
  <2>1. [i \in 0..0 |-> c] \in [0..0 -> S] /\ Is([i \in 0..0 |-> c], 0)
    OBVIOUS
  <2> QED BY <2>1
<1>2. ASSUME NEW n \in G PROVE n + 1 \in G
  <2>1. CASE n + 1 <= N
    <3>1. n \in Nat /\ n <= N
      BY <2>1
    <3>2. PICK f \in [0..n -> S] : Is(f, n)
      BY <3>1
    <3> DEFINE g == [i \in 0..(n + 1) |-> IF i = n + 1 THEN D[n + 1][f[n]] ELSE f[i]]
    <3>3. f[n] \in S /\ n + 1 \in 1..N /\ D[n + 1] \in [S -> S]
      BY <2>1, <3>1
    <3>4. g \in [0..(n + 1) -> S]
      BY <3>1, <3>3
    <3>5. g[0] = c
      BY <3>1, <3>2
    <3>6. ASSUME NEW i \in 1..(n + 1) PROVE g[i] = D[i][g[i - 1]]
      <4>1. CASE i = n + 1
        <5>1. i - 1 = n /\ g[i] = D[n + 1][f[n]] /\ g[i - 1] = f[n]
          BY <3>1, <4>1
        <5> QED BY <4>1, <5>1
      <4>2. CASE i # n + 1
        <5>1. i \in 1..n /\ i - 1 \in 0..n /\ g[i] = f[i] /\ g[i - 1] = f[i - 1]
          BY <3>1, <4>2
        <5> QED BY <3>2, <5>1
      <4> QED BY <4>1, <4>2
    <3>7. Is(g, n + 1)
      BY <3>5, <3>6
    <3> HIDE DEF g, Is
    <3> QED BY <3>1, <3>4, <3>7
  <2>2. CASE ~(n + 1 <= N)
    BY <2>2
  <2> QED BY <2>1, <2>2
<1> HIDE DEF G
<1>3. G = Nat
  <2>1. G \subseteq Nat
    BY DEF G
  <2> QED BY <1>1, <1>2, <2>1, Induction
<1>4. N \in G
  BY <1>3
<1> QED BY <1>4 DEF G

\* Two functions with the same start and the same steps are the same.
Alike(f, g, N) ==
    /\ N \in Nat /\ f = [i \in 0..N |-> f[i]] /\ g = [i \in 0..N |-> g[i]]
    /\ g[0] = f[0] /\ \A i \in 1..N : g[i - 1] = f[i - 1] => g[i] = f[i]

LEMMA SameSteps ==
    ASSUME NEW f, NEW g, NEW N, Alike(f, g, N)
    PROVE  g = f
<1> USE DEF Alike
<1> DEFINE G == {n \in Nat : n <= N => g[n] = f[n]}
<1>1. ASSUME NEW n \in G PROVE n + 1 \in G
  <2>1. CASE n + 1 <= N
    <3>1. n + 1 \in 1..N /\ (n + 1) - 1 = n
      BY <2>1
    <3>2. g[n] = f[n]
      BY <2>1
    <3>3. g[(n + 1) - 1] = f[(n + 1) - 1] => g[n + 1] = f[n + 1]
      BY <3>1
    <3>4. g[n + 1] = f[n + 1]
      BY <3>1, <3>2, <3>3
    <3> QED BY <3>4
  <2> QED BY <2>1
<1>2. G \subseteq Nat /\ 0 \in G
  OBVIOUS
<1>3. G = Nat
  <2> HIDE DEF G
  <2> QED BY <1>1, <1>2, Induction
<1>4. \A n \in 0..N : g[n] = f[n]
  BY <1>3
<1> QED BY <1>4

LEMMA SomeMax ==
    ASSUME NEW n \in Nat, NEW S \in SUBSET (0..n), S # {}
    PROVE  \E z \in S : \A y \in S : z >= y
<1> DEFINE T == {n - x : x \in S}
<1>1. T \subseteq Nat /\ T # {}
  <2>1. \A x \in S : n - x \in Nat
    OBVIOUS
  <2>2. PICK x \in S : TRUE
    OBVIOUS
  <2>3. n - x \in T
    OBVIOUS
  <2> QED BY <2>1, <2>3
<1> HIDE DEF T
<1>3. PICK m \in T : \A y \in T : m <= y
  BY <1>1, LeastNat
<1> USE DEF T
<1>4. PICK x \in S : m = n - x
  BY <1>3
<1>5. \A y \in S : x >= y
  BY <1>3, <1>4
<1> HIDE DEF T
<1> QED BY <1>5

-----------------------------------------------------------------------------
(* The records of a task (TaskRecords) *)

CONSTANTS Requests, Kept, ReadsFail, MaxEdits, MaxRestarts
VARIABLES file, line, req, edits, restarts

Records == INSTANCE TaskRecords

\* A request appends to one file, and a file of hand-offs keeps some.
RecordLimits ==
    /\ \A s, t \in Records!Stores : s # t => Requests[s] \cap Requests[t] = {}
    /\ Kept \in Nat \ {0} /\ ~ReadsFail

InPlace(r) == req[r].at \in {"queued", "writing"}

\* Who waits for a file is in its line, once.
LineFits ==
    \A s \in Records!Stores :
        /\ \A i \in DOMAIN line[s] : Records!StoreOf(line[s][i]) = s /\ InPlace(line[s][i])
        /\ \A i, j \in DOMAIN line[s] : line[s][i] = line[s][j] => i = j
LineHolds == \A r \in Records!All : InPlace(r) => \E i \in DOMAIN line[Records!StoreOf(r)] : line[Records!StoreOf(r)][i] = r

\* Who writes is the first, and what it read is what the file still holds.
CopiesFit ==
    \A r \in Records!All : req[r].at = "writing" =>
        /\ line[Records!StoreOf(r)][1] = r
        /\ req[r].copy = Records!Readable(Records!StoreOf(r))

RecInv ==
    /\ Records!TypeOK /\ LineFits /\ LineHolds /\ CopiesFit
    /\ Len(Records!Readable("handoff")) <= Kept

\* What has been read after each entry.
LEMMA ReadSteps ==
    ASSUME NEW E, NEW s \in Seq(E)
    PROVE  \E f \in [0..Len(s) -> Seq(E)] :
              /\ f[0] = <<>>
              /\ \A i \in 1..Len(s) : f[i] = IF s[i].valid THEN Append(f[i - 1], s[i]) ELSE f[i - 1]
              /\ Records!Read(s) = f[Len(s)]
<1> DEFINE T == Seq(E)
           n == Len(s)
           D == [i \in 1..n |-> [x \in T |-> IF s[i].valid THEN Append(x, s[i]) ELSE x]]
           Body(r, i) == IF i = 0 THEN <<>> ELSE IF s[i].valid THEN Append(r[i - 1], s[i]) ELSE r[i - 1]
           R(r) == r = [i \in 0..n |-> Body(r, i)]
           g == CHOOSE r : R(r)
<1>1. D \in [1..n -> [T -> T]]
  OBVIOUS
<1>2. <<>> \in T /\ n \in Nat
  OBVIOUS
<1>3. PICK f \in [0..n -> T] : f[0] = <<>> /\ \A i \in 1..n : f[i] = D[i][f[i - 1]]
  <2>1. Stepwise(n, T, <<>>, D)
    BY <1>1, <1>2 DEF Stepwise
  <2>2. PICK f : Comes(f, n, T, <<>>, D)
    <3> HIDE DEF T, n, D
    <3> QED BY <2>1, Iterates
  <2> QED BY <2>2 DEF Comes
<1>4. /\ f[0] = <<>>
      /\ \A i \in 1..n : f[i] = IF s[i].valid THEN Append(f[i - 1], s[i]) ELSE f[i - 1]
  <2>1. ASSUME NEW i \in 1..n
        PROVE f[i] = IF s[i].valid THEN Append(f[i - 1], s[i]) ELSE f[i - 1]
    <3>1. f[i - 1] \in T
      BY <1>2, <2>1
    <3> QED BY <1>3, <3>1
  <2> QED BY <1>3, <2>1
<1>5. \A i \in 0..n : f[i] = Body(f, i)
  <2>1. \A i \in 0..n : i = 0 \/ i \in 1..n
    BY <1>2
  <2> QED BY <1>4, <2>1
<1>6. R(f)
  <2> HIDE DEF Body, n, T
  <2> QED BY <1>5
<1>7. Records!Read(s) = g[n]
  BY DEF Records!Read
<1>8. R(g)
  <2> HIDE DEF R
  <2> QED BY <1>6
<1> HIDE DEF g
<1>9. g = [i \in 0..n |-> g[i]] /\ \A i \in 0..n : g[i] = Body(g, i)
  <2> HIDE DEF Body, n
  <2> QED BY <1>8
<1>10. g[0] = f[0]
  <2>1. 0 \in 0..n /\ Body(g, 0) = <<>>
    BY <1>2
  <2> QED BY <1>4, <1>9, <2>1
<1>11. ASSUME NEW i \in 1..n, g[i - 1] = f[i - 1] PROVE g[i] = f[i]
  <2>1. i \in 0..n /\ i # 0
    BY <1>2
  <2> QED BY <1>4, <1>9, <1>11, <2>1
<1>12. g = f
  <2>1. f = [i \in 0..n |-> f[i]]
    OBVIOUS
  <2>2. Alike(f, g, n)
    <3> HIDE DEF Body, T, n, R
    <3> QED BY <1>2, <1>9, <1>10, <1>11, <2>1 DEF Alike
  <2> HIDE DEF n, T, Body, R
  <2> QED BY <2>2, SameSteps
<1> QED BY <1>4, <1>7, <1>12

\* Only readable entries are read; where all are, all are read.
LEMMA ReadsValid ==
    ASSUME NEW E, NEW s \in Seq(E)
    PROVE  /\ Records!Read(s) \in Seq(E)
           /\ \A i \in DOMAIN Records!Read(s) : Records!Read(s)[i].valid
           /\ (\A i \in DOMAIN s : s[i].valid) => Records!Read(s) = s
<1>1. PICK f \in [0..Len(s) -> Seq(E)] :
              /\ f[0] = <<>>
              /\ \A i \in 1..Len(s) : f[i] = IF s[i].valid THEN Append(f[i - 1], s[i]) ELSE f[i - 1]
              /\ Records!Read(s) = f[Len(s)]
  BY ReadSteps
<1>2. Len(s) \in Nat /\ DOMAIN s = 1..Len(s) /\ \A i \in DOMAIN s : s[i] \in E
  OBVIOUS
<1> DEFINE Valid(q) == \A i \in DOMAIN q : q[i].valid
           G == {n \in Nat : n <= Len(s) => Valid(f[n])}
<1>3. ASSUME NEW n \in Nat, n + 1 <= Len(s)
      PROVE  /\ f[n + 1] = IF s[n + 1].valid THEN Append(f[n], s[n + 1]) ELSE f[n]
             /\ f[n] \in Seq(E) /\ s[n + 1] \in E /\ n <= Len(s)
  <2>1. n + 1 \in 1..Len(s) /\ (n + 1) - 1 = n /\ n \in 0..Len(s)
    BY <1>2, <1>3
  <2> QED BY <1>1, <1>2, <2>1
<1>4. ASSUME NEW n \in G PROVE n + 1 \in G
  <2>1. CASE n + 1 <= Len(s)
    <3>1. Valid(f[n])
      BY <1>3, <2>1
    <3>2. ASSUME s[n + 1].valid PROVE Valid(f[n + 1])
      <4>1. f[n + 1] = Append(f[n], s[n + 1]) /\ f[n] \in Seq(E) /\ s[n + 1] \in E
        BY <1>3, <2>1, <3>2
      <4>2. Valid(Append(f[n], s[n + 1]))
        BY <3>1, <3>2, <4>1
      <4>3. Valid(f[n + 1])
        <5> HIDE DEF Valid
        <5> QED BY <4>1, <4>2
      <4> QED BY <4>3
    <3>3. ASSUME ~s[n + 1].valid PROVE Valid(f[n + 1])
      <4>1. f[n + 1] = f[n]
        BY <1>3, <2>1, <3>3
      <4>2. Valid(f[n + 1])
        <5> HIDE DEF Valid
        <5> QED BY <3>1, <4>1
      <4> QED BY <4>2
    <3>4. Valid(f[n + 1])
      BY <3>2, <3>3
    <3> QED BY <3>4
  <2> QED BY <2>1
<1>5. G = Nat
  <2>1. G \subseteq Nat /\ 0 \in G
    BY <1>1
  <2> HIDE DEF G
  <2> QED BY <1>4, <2>1, Induction
<1>6. Len(s) \in 0..Len(s) /\ Valid(f[Len(s)])
  BY <1>2, <1>5
<1>7. ASSUME Valid(s) PROVE f[Len(s)] = s
  <2> DEFINE H == {n \in Nat : n <= Len(s) => f[n] = SubSeq(s, 1, n)}
  <2>1. ASSUME NEW n \in H PROVE n + 1 \in H
    <3>1. CASE n + 1 <= Len(s)
      <4>1. f[n + 1] = Append(SubSeq(s, 1, n), s[n + 1])
        <5>1. f[n] = SubSeq(s, 1, n) /\ n \in Nat /\ n <= Len(s) /\ n + 1 \in DOMAIN s
          BY <1>2, <3>1
        <5>2. s[n + 1].valid
          BY <1>7, <5>1
        <5>3. f[n + 1] = Append(f[n], s[n + 1])
          BY <1>3, <3>1, <5>1, <5>2
        <5> QED BY <5>1, <5>3
      <4>2. Append(SubSeq(s, 1, n), s[n + 1]) = SubSeq(s, 1, n + 1)
        BY <1>2, <3>1
      <4> QED BY <4>1, <4>2
    <3> QED BY <3>1
  <2>2. H \subseteq Nat /\ 0 \in H
    BY <1>1
  <2>3. H = Nat
    <3> HIDE DEF H
    <3> QED BY <2>1, <2>2, Induction
  <2>4. f[Len(s)] = SubSeq(s, 1, Len(s))
    BY <1>2, <2>3
  <2> QED BY <2>4, SubSeqFull
<1> QED BY <1>1, <1>6, <1>7

\* One entry more is read if it is readable.
LEMMA ReadAppended ==
    ASSUME NEW E, NEW s \in Seq(E), NEW e \in E
    PROVE  Records!Read(Append(s, e)) = IF e.valid THEN Append(Records!Read(s), e) ELSE Records!Read(s)
<1> DEFINE t == Append(s, e)
<1>1. /\ t \in Seq(E) /\ Len(s) \in Nat /\ Len(t) = Len(s) + 1 /\ t[Len(t)] = e
      /\ \A i \in 1..Len(s) : t[i] = s[i]
  OBVIOUS
<1> HIDE DEF t
<1>2. PICK f \in [0..Len(s) -> Seq(E)] :
              /\ f[0] = <<>>
              /\ \A i \in 1..Len(s) : f[i] = IF s[i].valid THEN Append(f[i - 1], s[i]) ELSE f[i - 1]
              /\ Records!Read(s) = f[Len(s)]
  BY ReadSteps
<1>3. PICK g \in [0..Len(t) -> Seq(E)] :
              /\ g[0] = <<>>
              /\ \A i \in 1..Len(t) : g[i] = IF t[i].valid THEN Append(g[i - 1], t[i]) ELSE g[i - 1]
              /\ Records!Read(t) = g[Len(t)]
  BY <1>1, ReadSteps
<1> DEFINE h == [i \in 0..Len(s) |-> g[i]]
<1>4. h = f
  <2>1. h = [i \in 0..Len(s) |-> h[i]] /\ h[0] = f[0]
    BY <1>1, <1>2, <1>3
  <2>2. ASSUME NEW i \in 1..Len(s), h[i - 1] = f[i - 1] PROVE h[i] = f[i]
    <3>1. i \in 1..Len(t) /\ t[i] = s[i] /\ h[i] = g[i] /\ h[i - 1] = g[i - 1]
      BY <1>1
    <3> QED BY <1>2, <1>3, <2>2, <3>1
  <2> HIDE DEF h
  <2>3. Alike(f, h, Len(s))
    BY <1>1, <2>1, <2>2 DEF Alike
  <2> QED BY <2>3, SameSteps
<1>5. g[Len(s)] = f[Len(s)]
  BY <1>1, <1>4
<1>6. g[Len(t)] = IF e.valid THEN Append(g[Len(s)], e) ELSE g[Len(s)]
  <2>1. Len(t) \in 1..Len(t) /\ Len(t) - 1 = Len(s)
    BY <1>1
  <2> QED BY <1>1, <1>3, <2>1
<1> QED BY <1>2, <1>3, <1>5, <1>6 DEF t

-----------------------------------------------------------------------------

LEMMA RecParts ==
    ASSUME Records!TypeOK
    PROVE  /\ \A s \in Records!Stores : /\ file[s] \in Seq(Records!Entry) /\ line[s] \in Seq(Records!All)
                                        /\ Len(line[s]) \in Nat /\ DOMAIN line[s] = 1..Len(line[s])
                                        /\ \A i \in DOMAIN line[s] : line[s][i] \in Records!All
           /\ \A r \in Records!All : /\ req[r] \in Records!Request /\ Records!StoreOf(r) \in Records!Stores
                                     /\ req[r].copy \in Seq(Records!Entry)
           /\ \A r \in Records!All : r \in Requests[Records!StoreOf(r)]
           /\ "handoff" \in Records!Stores /\ \A s \in Records!Stores : Requests[s] \subseteq Records!All
<1>1. \A r \in Records!All : Records!StoreOf(r) \in Records!Stores /\ r \in Requests[Records!StoreOf(r)]
  BY DEF Records!StoreOf, Records!All
<1> QED BY <1>1 DEF Records!TypeOK, Records!Request, Records!Stores, Records!All

\* What follows the largest number is a number.
LEMMA NumberType ==
    ASSUME NEW c \in Seq(Records!Entry)
    PROVE  Records!NextNumber(c) \in Nat
<1> DEFINE M == {0} \cup {c[i].number : i \in DOMAIN c}
           Bounded(n) == \E b \in Nat : \A i \in 1..n : c[i].number <= b
           G == {n \in Nat : n <= Len(c) => Bounded(n)}
<1>1. Len(c) \in Nat /\ DOMAIN c = 1..Len(c) /\ \A i \in DOMAIN c : c[i].number \in Nat
  <2>1. Len(c) \in Nat /\ DOMAIN c = 1..Len(c) /\ \A i \in DOMAIN c : c[i] \in Records!Entry
    OBVIOUS
  <2> QED BY <2>1 DEF Records!Entry
<1>2. ASSUME NEW n \in G PROVE n + 1 \in G
  <2>1. CASE n + 1 <= Len(c)
    <3>1. PICK b \in Nat : \A i \in 1..n : c[i].number <= b
      <4>1. n \in Nat /\ n <= Len(c)
        BY <1>1, <2>1
      <4> QED BY <4>1
    <3>2. c[n + 1].number \in Nat /\ n \in Nat
      BY <1>1, <2>1
    <3>3. \A i \in 1..(n + 1) : c[i].number \in Nat /\ (i \in 1..n \/ i = n + 1)
      BY <1>1, <2>1, <3>2
    <3>4. \A i \in 1..(n + 1) : c[i].number <= b + c[n + 1].number
      BY <3>1, <3>2, <3>3
    <3>5. b + c[n + 1].number \in Nat
      BY <3>2
    <3>6. Bounded(n + 1)
      BY <3>4, <3>5
    <3> HIDE DEF Bounded
    <3> QED BY <3>2, <3>6
  <2> QED BY <2>1
<1>3. G = Nat
  <2>1. G \subseteq Nat /\ 0 \in G
    OBVIOUS
  <2> HIDE DEF G
  <2> QED BY <1>2, <2>1, Induction
<1>4. PICK b \in Nat : \A i \in 1..Len(c) : c[i].number <= b
  <2>1. Len(c) \in G
    <3> HIDE DEF G
    <3> QED BY <1>1, <1>3
  <2>2. Bounded(Len(c))
    <3> HIDE DEF Bounded
    <3> QED BY <1>1, <2>1
  <2> QED BY <2>2
<1>5. M \in SUBSET (0..b) /\ M # {}
  BY <1>1, <1>4
<1>6. PICK m \in M : \A y \in M : m >= y
  <2> HIDE DEF M
  <2> QED BY <1>5, SomeMax
<1>7. Records!Max(M) \in M
  <2> HIDE DEF M
  <2> QED BY <1>6 DEF Records!Max
<1>8. Records!Max(M) \in Nat
  BY <1>5, <1>7
<1> QED BY <1>8 DEF Records!NextNumber

\* The file that is written: what was read and the new entry, the oldest gone when there are more than fit.
LEMMA CutFits ==
    ASSUME RecordLimits, NEW s \in Records!Stores, NEW c \in Seq(Records!Entry), NEW e \in Records!Entry, e.valid,
           \A i \in DOMAIN c : c[i].valid, s = "handoff" => Len(c) <= Kept
    PROVE  LET a == Records!CutTo(s, Append(c, e)) IN
           /\ a \in Seq(Records!Entry) /\ \A i \in DOMAIN a : a[i].valid
           /\ Len(a) \in DOMAIN a /\ a[Len(a)] = e /\ (s = "handoff" => Len(a) <= Kept)
           /\ \E n \in 0..1 :
                 /\ n = 1 => s = "handoff" /\ Len(c) = Kept /\ Len(a) = Kept
                 /\ Records!IsPrefix(SubSeq(c, n + 1, Len(c)), a)
<1> DEFINE b == Append(c, e)
           E == Records!Entry
           Fits(a) ==
               /\ a \in Seq(E) /\ \A i \in DOMAIN a : a[i].valid
               /\ Len(a) \in DOMAIN a /\ a[Len(a)] = e /\ (s = "handoff" => Len(a) <= Kept)
               /\ \E n \in 0..1 :
                     /\ n = 1 => s = "handoff" /\ Len(c) = Kept /\ Len(a) = Kept
                     /\ Records!IsPrefix(SubSeq(c, n + 1, Len(c)), a)
<1>1. /\ Len(c) \in Nat /\ b \in Seq(E) /\ Len(b) = Len(c) + 1 /\ DOMAIN b = 1..Len(b) /\ b[Len(b)] = e
      /\ DOMAIN c = 1..Len(c) /\ \A i \in DOMAIN c : b[i] = c[i] /\ c[i] \in E
  OBVIOUS
<1>2. \A i \in DOMAIN b : b[i].valid
  <2>1. \A i \in DOMAIN b : i = Len(b) \/ i \in DOMAIN c
    BY <1>1
  <2> QED BY <1>1, <2>1
<1>3. SubSeq(c, 1, Len(c)) = c /\ SubSeq(b, 1, Len(c)) = c
  <2> HIDE DEF b
  <2>1. SubSeq(b, 1, Len(c)) = c
    BY <1>1
  <2> QED BY <1>1, <2>1, SubSeqFull
<1>4. ASSUME s = "handoff" => Len(b) <= Kept PROVE Fits(b)
  <2> HIDE DEF b
  <2>1. Len(SubSeq(c, 1, Len(c))) = Len(c)
    BY <1>3
  <2>2. Records!IsPrefix(SubSeq(c, 0 + 1, Len(c)), b)
    BY <1>1, <1>3, <2>1 DEF Records!IsPrefix
  <2>3. Len(b) \in DOMAIN b
    BY <1>1
  <2>4. \E n \in 0..1 : /\ n = 1 => s = "handoff" /\ Len(c) = Kept /\ Len(b) = Kept
                        /\ Records!IsPrefix(SubSeq(c, n + 1, Len(c)), b)
    BY <2>2
  <2> QED BY <1>1, <1>2, <1>4, <2>3, <2>4
<1>5. ASSUME s # "handoff" PROVE Fits(Records!CutTo(s, b))
  <2>1. Records!CutTo(s, b) = b
    BY <1>5 DEF Records!CutTo
  <2>2. Fits(b)
    BY <1>4, <1>5
  <2> HIDE DEF b, Fits
  <2> QED BY <2>1, <2>2
<1>6. ASSUME s = "handoff" /\ Len(c) < Kept PROVE Fits(Records!CutTo(s, b))
  <2>1. Kept \in Nat /\ Len(b) <= Kept
    BY <1>1, <1>6 DEF RecordLimits
  <2>2. Records!Max({1, Len(b) - Kept + 1}) = 1
    <3>1. Len(b) - Kept + 1 <= 1 /\ Len(b) - Kept + 1 \in Int
      BY <1>1, <2>1
    <3> HIDE DEF b
    <3> QED BY <3>1 DEF Records!Max
  <2>3. Records!CutTo(s, b) = b
    BY <1>1, <1>6, <2>2, SubSeqFull DEF Records!CutTo
  <2>4. Fits(b)
    BY <1>4, <1>6, <2>1
  <2> HIDE DEF b, Fits
  <2> QED BY <2>3, <2>4
<1>7. ASSUME s = "handoff" /\ Len(c) = Kept PROVE Fits(Records!CutTo(s, b))
  <2>1. Kept \in Nat \ {0} /\ Len(b) = Kept + 1
    BY <1>1, <1>7 DEF RecordLimits
  <2>2. Records!Max({1, Len(b) - Kept + 1}) = 2
    <3>1. Len(b) - Kept + 1 = 2
      BY <2>1
    <3> HIDE DEF b
    <3> QED BY <3>1 DEF Records!Max
  <2> DEFINE a == SubSeq(b, 2, Len(b))
  <2>3. Records!CutTo(s, b) = a
    BY <1>7, <2>2 DEF Records!CutTo
  <2> HIDE DEF b
  <2>4. /\ a \in Seq(E) /\ Len(a) = Kept /\ DOMAIN a = 1..Kept /\ \A i \in 1..Kept : a[i] = b[i + 1]
    <3>1. a \in Seq(E) /\ Len(a) = Kept /\ \A i \in 1..Kept : a[i] = b[i + 1]
      <4>1. /\ a \in Seq(E) /\ Len(a) = IF 2 <= Len(b) THEN Len(b) - 2 + 1 ELSE 0
            /\ \A i \in 1..(Len(b) - 2 + 1) : a[i] = b[2 + i - 1]
        <5>1. 2 \in 1..(Len(b) + 1) /\ Len(b) \in 0..Len(b)
          BY <2>1
        <5> HIDE DEF E
        <5> QED BY <1>1, <5>1, SubSeqProperties
      <4>2. 2 <= Len(b) /\ Len(b) - 2 + 1 = Kept /\ \A i \in 1..Kept : 2 + i - 1 = i + 1
        BY <2>1
      <4> QED BY <4>1, <4>2
    <3>2. DOMAIN a = 1..Len(a)
      BY <3>1
    <3> QED BY <3>1, <3>2
  <2>5. a[Kept] = e /\ \A i \in DOMAIN a : a[i].valid
    <3>1. Kept \in 1..Kept /\ \A i \in 1..Kept : i + 1 \in DOMAIN b
      BY <1>1, <2>1
    <3> QED BY <1>1, <1>2, <2>1, <2>4, <3>1
  <2>6. Records!IsPrefix(SubSeq(c, 1 + 1, Len(c)), a)
    <3> DEFINE d == SubSeq(c, 2, Len(c))
    <3>1. d \in Seq(E) /\ Len(d) = Kept - 1 /\ \A i \in 1..(Kept - 1) : d[i] = c[i + 1]
      BY <1>1, <1>7, <2>1
    <3>2. \A i \in 1..(Kept - 1) : a[i] = d[i]
      BY <1>1, <1>7, <2>1, <2>4, <3>1
    <3>3. SubSeq(d, 1, Len(d)) = SubSeq(a, 1, Len(d))
      <4> HIDE DEF d, a
      <4>1. /\ SubSeq(d, 1, Kept - 1) \in Seq(E) /\ SubSeq(a, 1, Kept - 1) \in Seq(E)
            /\ Len(SubSeq(d, 1, Kept - 1)) = Kept - 1 /\ Len(SubSeq(a, 1, Kept - 1)) = Kept - 1
            /\ \A i \in 1..(Kept - 1) : SubSeq(d, 1, Kept - 1)[i] = SubSeq(a, 1, Kept - 1)[i]
        <5>1. /\ SubSeq(d, 1, Kept - 1) \in Seq(E) /\ Len(SubSeq(d, 1, Kept - 1)) = Kept - 1
              /\ \A i \in 1..(Kept - 1) : SubSeq(d, 1, Kept - 1)[i] = d[i]
          <6> HIDE DEF E
          <6> QED BY <2>1, <3>1
        <5>2. /\ SubSeq(a, 1, Kept - 1) \in Seq(E) /\ Len(SubSeq(a, 1, Kept - 1)) = Kept - 1
              /\ \A i \in 1..(Kept - 1) : SubSeq(a, 1, Kept - 1)[i] = a[i]
          <6> HIDE DEF E
          <6> QED BY <2>1, <2>4
        <5> QED BY <3>2, <5>1, <5>2
      <4> QED BY <3>1, <4>1, SeqEqual
    <3>4. Len(d) <= Len(a)
      BY <2>1, <2>4, <3>1
    <3> HIDE DEF d, a
    <3>5. Records!IsPrefix(d, a)
      BY <3>3, <3>4 DEF Records!IsPrefix
    <3> QED BY <3>5 DEF d
  <2> HIDE DEF a
  <2>7. \E n \in 0..1 : /\ n = 1 => s = "handoff" /\ Len(c) = Kept /\ Len(a) = Kept
                        /\ Records!IsPrefix(SubSeq(c, n + 1, Len(c)), a)
    BY <1>7, <2>4, <2>6
  <2>8. Len(a) \in DOMAIN a /\ Len(a) <= Kept /\ a[Len(a)] = e
    BY <2>1, <2>4, <2>5
  <2>9. Fits(a)
    BY <2>4, <2>5, <2>7, <2>8
  <2> HIDE DEF Fits
  <2> QED BY <2>3, <2>9
<1>8. Len(c) \in Nat /\ (s = "handoff" => Len(c) <= Kept /\ Kept \in Nat)
  BY <1>1 DEF RecordLimits
<1>9. Fits(Records!CutTo(s, b))
  <2> HIDE DEF Fits, b
  <2> QED BY <1>5, <1>6, <1>7, <1>8
<1> QED BY <1>9

-----------------------------------------------------------------------------

LEMMA RecStart == ASSUME RecordLimits, Records!Init PROVE RecInv
<1>1. file["handoff"] = <<>> /\ "handoff" \in Records!Stores
  BY DEF Records!Init, Records!Stores
<1>2. Records!Readable("handoff") = <<>> /\ Len(Records!Readable("handoff")) = 0
  <2>1. <<>> \in Seq(Records!Entry) /\ \A i \in DOMAIN <<>> : <<>>[i].valid
    OBVIOUS
  <2>2. Records!Read(<<>>) = <<>>
    BY <2>1, ReadsValid
  <2> QED BY <1>1, <2>2 DEF Records!Readable
<1>3. Records!TypeOK
  BY DEF Records!Init, Records!TypeOK, Records!Request
<1>4. \A r \in Records!All : ~InPlace(r) /\ req[r].at # "writing"
  BY DEF Records!Init, InPlace
<1>5. LineFits
  BY DEF Records!Init, LineFits
<1> QED BY <1>2, <1>3, <1>4, <1>5 DEF RecInv, LineHolds, CopiesFit, RecordLimits

\* A step that leaves the files and the lines alone, and nobody's place.
LEMMA RecQuiet ==
    ASSUME RecInv, UNCHANGED <<file, line>>, req' \in [Records!All -> Records!Request],
           \A r \in Records!All :
               /\ InPlace(r)' <=> InPlace(r)
               /\ req'[r].at = "writing" => req'[r] = req[r]
    PROVE  RecInv'
<1>1. Records!TypeOK'
  BY DEF RecInv, Records!TypeOK
<1>2. LineFits'
  <2>1. \A s \in Records!Stores : \A i \in DOMAIN line[s] : line[s][i] \in Records!All
    BY RecParts DEF RecInv
  <2> QED BY <2>1 DEF RecInv, LineFits
<1>3. LineHolds'
  BY DEF RecInv, LineHolds
<1>4. CopiesFit'
  BY DEF RecInv, CopiesFit, Records!Readable
<1> QED BY <1>1, <1>2, <1>3, <1>4 DEF RecInv, Records!Readable

LEMMA AskedKeepsRec == ASSUME RecInv, NEW r \in Records!All, Records!Asked(r) PROVE RecInv'
<1>1. PICK next \in {"refused", "checking"} : req' = [req EXCEPT ![r].at = next]
  BY DEF Records!Asked
<1>2. req \in [Records!All -> Records!Request] /\ req[r].at = "idle" /\ UNCHANGED <<file, line>>
  BY DEF RecInv, Records!TypeOK, Records!Asked
<1>3. req' \in [Records!All -> Records!Request]
  BY <1>1, <1>2 DEF Records!Request
<1>4. req'[r].at = next /\ \A q \in Records!All : q # r => req'[q] = req[q]
  BY <1>1, <1>2 DEF Records!Request
<1>5. \A q \in Records!All : (InPlace(q)' <=> InPlace(q)) /\ (req'[q].at = "writing" => req'[q] = req[q])
  BY <1>2, <1>4 DEF InPlace
<1> QED BY <1>2, <1>3, <1>5, RecQuiet

LEMMA EnqueueKeepsRec == ASSUME RecInv, NEW r \in Records!All, Records!Enqueue(r) PROVE RecInv'
<1> DEFINE s == Records!StoreOf(r)
<1>1. req \in [Records!All -> Records!Request] /\ req[r].at = "checking" /\ UNCHANGED file
  BY DEF RecInv, Records!TypeOK, Records!Enqueue
<1>2. CASE req' = [req EXCEPT ![r].at = "refused"] /\ UNCHANGED line
  <2>1. req' \in [Records!All -> Records!Request]
    BY <1>1, <1>2 DEF Records!Request
  <2>2. req'[r].at = "refused" /\ \A q \in Records!All : q # r => req'[q] = req[q]
    BY <1>1, <1>2 DEF Records!Request
  <2>3. \A q \in Records!All : (InPlace(q)' <=> InPlace(q)) /\ (req'[q].at = "writing" => req'[q] = req[q])
    BY <1>1, <2>2 DEF InPlace
  <2> QED BY <1>1, <1>2, <2>1, <2>3, RecQuiet
<1>3. CASE req' = [req EXCEPT ![r].at = "queued"] /\ line' = [line EXCEPT ![s] = Append(line[s], r)]
  <2>1. s \in Records!Stores /\ line[s] \in Seq(Records!All) /\ Len(line[s]) \in Nat /\ DOMAIN line[s] = 1..Len(line[s])
        /\ line \in [Records!Stores -> Seq(Records!All)]
    BY RecParts DEF RecInv, Records!TypeOK
  <2>2. /\ req'[r].at = "queued" /\ InPlace(r)' /\ ~InPlace(r)
        /\ \A q \in Records!All : q # r => req'[q] = req[q] /\ (InPlace(q)' <=> InPlace(q))
    BY <1>1, <1>3 DEF Records!Request, InPlace
  <2>3. /\ line'[s] \in Seq(Records!All) /\ DOMAIN line'[s] = DOMAIN line[s] \cup {Len(line[s]) + 1}
        /\ line'[s][Len(line[s]) + 1] = r /\ \A i \in DOMAIN line[s] : line'[s][i] = line[s][i]
        /\ \A t \in Records!Stores : t # s => line'[t] = line[t]
    <3> HIDE DEF s
    <3> QED BY <1>3, <2>1
  <2>4. Records!TypeOK'
    <3>1. req' \in [Records!All -> Records!Request]
      BY <1>1, <1>3 DEF Records!Request
    <3>2. line' \in [Records!Stores -> Seq(Records!All)]
      BY <1>3, <2>1
    <3> QED BY <1>1, <3>1, <3>2 DEF RecInv, Records!TypeOK
  <2>5. LineFits'
    <3>1. \A t \in Records!Stores : \A i \in DOMAIN line[t] : line[t][i] \in Records!All /\ line[t][i] # r
      BY <2>2, RecParts DEF RecInv, LineFits
    <3>2. ASSUME NEW t \in Records!Stores, NEW i \in DOMAIN line'[t]
          PROVE  Records!StoreOf(line'[t][i]) = t /\ req'[line'[t][i]].at \in {"queued", "writing"}
      <4>1. CASE i \in DOMAIN line[t]
        <5>1. line'[t][i] = line[t][i] /\ line[t][i] \in Records!All /\ line[t][i] # r
          BY <2>3, <3>1, <4>1
        <5>2. InPlace(line[t][i]) /\ Records!StoreOf(line[t][i]) = t
          BY <4>1 DEF RecInv, LineFits
        <5>3. req'[line[t][i]].at \in {"queued", "writing"}
          BY <2>2, <5>1, <5>2 DEF InPlace
        <5> QED BY <5>1, <5>2, <5>3
      <4>2. CASE i \notin DOMAIN line[t]
        <5>1. t = s /\ line'[t][i] = r
          BY <2>3, <4>2
        <5> QED BY <2>2, <5>1 DEF InPlace
      <4> QED BY <4>1, <4>2
    <3>3. ASSUME NEW t \in Records!Stores, NEW i \in DOMAIN line'[t], NEW j \in DOMAIN line'[t], line'[t][i] = line'[t][j]
          PROVE  i = j
      <4>1. CASE i \in DOMAIN line[t] /\ j \in DOMAIN line[t]
        <5>1. line'[t][i] = line[t][i] /\ line'[t][j] = line[t][j]
          BY <2>3, <4>1
        <5> QED BY <3>3, <4>1, <5>1 DEF RecInv, LineFits
      <4>2. CASE ~(i \in DOMAIN line[t] /\ j \in DOMAIN line[t])
        BY <2>3, <3>1, <3>3, <4>2
      <4> QED BY <4>1, <4>2
    <3> QED BY <3>2, <3>3 DEF LineFits, InPlace
  <2>6. LineHolds'
    <3>1. ASSUME NEW q \in Records!All, InPlace(q)'
          PROVE  \E i \in DOMAIN line'[Records!StoreOf(q)] : line'[Records!StoreOf(q)][i] = q
      <4>1. CASE q = r
        BY <2>3, <4>1
      <4>2. CASE q # r
        <5>1. PICK i \in DOMAIN line[Records!StoreOf(q)] : line[Records!StoreOf(q)][i] = q
          BY <2>2, <3>1, <4>2 DEF RecInv, LineHolds
        <5>2. Records!StoreOf(q) \in Records!Stores
          BY RecParts DEF RecInv
        <5> QED BY <2>3, <5>1, <5>2
      <4> QED BY <4>1, <4>2
    <3> QED BY <3>1 DEF LineHolds
  <2>7. CopiesFit'
    <3>1. ASSUME NEW q \in Records!All, req'[q].at = "writing"
          PROVE  /\ line'[Records!StoreOf(q)][1] = q
                 /\ req'[q].copy = Records!Readable(Records!StoreOf(q))
      <4>1. q # r /\ req'[q] = req[q] /\ InPlace(q)
        BY <2>2, <3>1 DEF InPlace
      <4>2. line[Records!StoreOf(q)][1] = q /\ req[q].copy = Records!Readable(Records!StoreOf(q))
        BY <3>1, <4>1 DEF RecInv, CopiesFit
      <4>3. 1 \in DOMAIN line[Records!StoreOf(q)] /\ Records!StoreOf(q) \in Records!Stores
        BY <4>1, RecParts DEF RecInv, LineHolds
      <4> QED BY <2>3, <4>1, <4>2, <4>3
    <3> QED BY <1>1, <3>1 DEF CopiesFit, Records!Readable
  <2> QED BY <1>1, <2>4, <2>5, <2>6, <2>7 DEF RecInv, Records!Readable
<1> QED BY <1>2, <1>3 DEF Records!Enqueue

LEMMA ReadKeepsRec == ASSUME RecordLimits, RecInv, NEW r \in Records!All, Records!ReadFile(r) PROVE RecInv'
<1> DEFINE s == Records!StoreOf(r)
<1>1. /\ req \in [Records!All -> Records!Request] /\ req[r].at = "queued" /\ UNCHANGED <<file, line>>
      /\ Head(line[s]) = r /\ req' = [req EXCEPT ![r] = [at |-> "writing", copy |-> Records!Readable(s)]]
  BY DEF RecInv, Records!TypeOK, Records!ReadFile, Records!ItsTurn, RecordLimits
<1>2. s \in Records!Stores /\ file[s] \in Seq(Records!Entry) /\ line[s] \in Seq(Records!All)
      /\ line[s] # <<>> /\ line[s][1] = r
  <2>1. s \in Records!Stores /\ file[s] \in Seq(Records!Entry) /\ line[s] \in Seq(Records!All)
    BY RecParts DEF RecInv
  <2>2. \E i \in DOMAIN line[s] : line[s][i] = r
    BY <1>1 DEF RecInv, LineHolds, InPlace
  <2> HIDE DEF s
  <2>3. line[s] # <<>>
    BY <2>1, <2>2
  <2> QED BY <1>1, <2>1, <2>3
<1>3. Records!Readable(s) \in Seq(Records!Entry)
  BY <1>2, ReadsValid DEF Records!Readable
<1>4. req' \in [Records!All -> Records!Request]
  BY <1>1, <1>3 DEF Records!Request
<1>5. /\ req'[r].at = "writing" /\ req'[r].copy = Records!Readable(s)
      /\ \A q \in Records!All : (q # r => req'[q] = req[q]) /\ (InPlace(q)' <=> InPlace(q))
  BY <1>1 DEF InPlace
<1>6. Records!TypeOK'
  BY <1>1, <1>4 DEF RecInv, Records!TypeOK
<1>7. LineFits'
  <2>1. \A t \in Records!Stores : \A i \in DOMAIN line[t] : line[t][i] \in Records!All
    BY RecParts DEF RecInv
  <2> QED BY <1>1, <1>5, <2>1 DEF RecInv, LineFits
<1>8. LineHolds'
  BY <1>1, <1>5 DEF RecInv, LineHolds
<1>9. CopiesFit'
  BY <1>1, <1>2, <1>5 DEF RecInv, CopiesFit, Records!Readable
<1> QED BY <1>1, <1>6, <1>7, <1>8, <1>9 DEF RecInv, Records!Readable

\* Who ends its turn leaves its place to the next.
LEMMA TurnEnds ==
    ASSUME RecInv, NEW r \in Records!All, req[r].at = "writing",
           NEW outcome \in {"recorded", "refused"}, Records!Settled(r, outcome)
    PROVE  /\ req' \in [Records!All -> Records!Request] /\ line' \in [Records!Stores -> Seq(Records!All)]
           /\ LineFits' /\ LineHolds'
           /\ req'[r].at = outcome /\ \A q \in Records!All : q # r => req'[q] = req[q]
           /\ \A q \in Records!All : req'[q].at = "writing" => q # r /\ Records!StoreOf(q) # Records!StoreOf(r)
           /\ \A t \in Records!Stores : t # Records!StoreOf(r) => line'[t] = line[t]
<1> DEFINE s == Records!StoreOf(r)
           L == line[s]
<1>1. /\ req \in [Records!All -> Records!Request] /\ line \in [Records!Stores -> Seq(Records!All)]
      /\ req' = [req EXCEPT ![r] = [at |-> outcome, copy |-> <<>>]] /\ line' = [line EXCEPT ![s] = Tail(L)]
  BY DEF RecInv, Records!TypeOK, Records!Settled
<1>2. s \in Records!Stores /\ L \in Seq(Records!All) /\ L[1] = r /\ InPlace(r)
  BY RecParts DEF RecInv, CopiesFit, InPlace
<1>3. 1 \in DOMAIN L
  BY <1>2, RecParts DEF RecInv, LineHolds
<1>4. /\ Tail(L) \in Seq(Records!All) /\ Len(L) \in Nat /\ DOMAIN L = 1..Len(L) /\ DOMAIN Tail(L) = 1..(Len(L) - 1)
      /\ \A i \in DOMAIN Tail(L) : Tail(L)[i] = L[i + 1] /\ i + 1 \in DOMAIN L
  <2> HIDE DEF L
  <2> QED BY <1>2, <1>3
<1>5. line'[s] = Tail(L) /\ \A t \in Records!Stores : t # s => line'[t] = line[t]
  <2> HIDE DEF s
  <2> QED BY <1>1, <1>2
<1>6. req'[r] = [at |-> outcome, copy |-> <<>>] /\ \A q \in Records!All : q # r => req'[q] = req[q]
  BY <1>1
<1>7. req' \in [Records!All -> Records!Request] /\ line' \in [Records!Stores -> Seq(Records!All)]
  <2>1. [at |-> outcome, copy |-> <<>>] \in Records!Request
    BY DEF Records!Request
  <2> HIDE DEF s, L
  <2> QED BY <1>1, <1>2, <1>4, <2>1
<1>8. \A t \in Records!Stores : /\ \A i \in DOMAIN line[t] : /\ line[t][i] \in Records!All /\ Records!StoreOf(line[t][i]) = t
                                                           /\ req[line[t][i]].at \in {"queued", "writing"}
                                /\ \A i, j \in DOMAIN line[t] : line[t][i] = line[t][j] => i = j
  BY RecParts DEF RecInv, LineFits, InPlace
<1>9. \A i \in DOMAIN Tail(L) : L[i + 1] # r
  <2>1. \A i \in DOMAIN Tail(L) : i + 1 # 1 /\ i + 1 \in DOMAIN L
    BY <1>4
  <2> QED BY <1>2, <1>3, <1>8, <2>1
<1>10. LineFits'
  <2>1. ASSUME NEW t \in Records!Stores, NEW i \in DOMAIN line'[t]
        PROVE  Records!StoreOf(line'[t][i]) = t /\ req'[line'[t][i]].at \in {"queued", "writing"}
    <3>1. CASE t = s
      <4>1. line'[t][i] = L[i + 1] /\ L[i + 1] # r /\ i + 1 \in DOMAIN L
        BY <1>4, <1>5, <1>9, <2>1, <3>1
      <4> QED BY <1>2, <1>6, <1>8, <3>1, <4>1
    <3>2. CASE t # s
      <4>1. line'[t] = line[t] /\ line[t][i] # r
        BY <1>5, <1>8, <2>1, <3>2
      <4> QED BY <1>6, <1>8, <2>1, <4>1
    <3> QED BY <3>1, <3>2
  <2>2. ASSUME NEW t \in Records!Stores, NEW i \in DOMAIN line'[t], NEW j \in DOMAIN line'[t], line'[t][i] = line'[t][j]
        PROVE  i = j
    <3>1. CASE t = s
      <4>1. /\ L[i + 1] = L[j + 1] /\ i + 1 \in DOMAIN L /\ j + 1 \in DOMAIN L /\ i \in Int /\ j \in Int
        <5>1. i \in DOMAIN Tail(L) /\ j \in DOMAIN Tail(L) /\ Tail(L)[i] = Tail(L)[j]
          BY <1>5, <2>2, <3>1
        <5>2. i \in Int /\ j \in Int
          BY <1>4, <5>1
        <5> HIDE DEF L
        <5> QED BY <1>4, <5>1, <5>2
      <4>2. i + 1 = j + 1
        BY <1>2, <1>8, <4>1
      <4> QED BY <4>1, <4>2
    <3>2. CASE t # s
      BY <1>5, <1>8, <2>2, <3>2
    <3> QED BY <3>1, <3>2
  <2> HIDE DEF s, L
  <2> QED BY <2>1, <2>2 DEF LineFits, InPlace
<1>11. LineHolds'
  <2>1. ASSUME NEW q \in Records!All, req'[q].at \in {"queued", "writing"}
        PROVE  \E i \in DOMAIN line'[Records!StoreOf(q)] : line'[Records!StoreOf(q)][i] = q
    <3>1. q # r /\ req'[q] = req[q] /\ InPlace(q)
      BY <1>6, <2>1 DEF InPlace
    <3>2. PICK i \in DOMAIN line[Records!StoreOf(q)] : line[Records!StoreOf(q)][i] = q
      BY <3>1 DEF RecInv, LineHolds
    <3>3. Records!StoreOf(q) \in Records!Stores
      BY RecParts DEF RecInv
    <3>4. CASE Records!StoreOf(q) = s
      <4>1. i \in DOMAIN L /\ L[i] = q /\ i # 1
        BY <1>2, <3>1, <3>2, <3>4
      <4>2. i - 1 \in DOMAIN Tail(L) /\ (i - 1) + 1 = i
        BY <1>4, <4>1
      <4>3. Tail(L)[i - 1] = q
        BY <1>4, <4>1, <4>2
      <4> QED BY <1>5, <3>4, <4>2, <4>3
    <3>5. CASE Records!StoreOf(q) # s
      BY <1>5, <3>2, <3>3, <3>5
    <3> QED BY <3>4, <3>5
  <2> HIDE DEF s, L
  <2> QED BY <2>1 DEF LineHolds, InPlace
<1>12. \A q \in Records!All : req'[q].at = "writing" => q # r /\ Records!StoreOf(q) # s
  <2>1. ASSUME NEW q \in Records!All, req'[q].at = "writing" PROVE q # r /\ Records!StoreOf(q) # s
    <3>1. q # r /\ req[q].at = "writing"
      BY <1>6, <2>1
    <3>2. line[Records!StoreOf(q)][1] = q
      BY <3>1 DEF RecInv, CopiesFit
    <3> QED BY <1>2, <3>1, <3>2
  <2> QED BY <2>1
<1> QED BY <1>5, <1>6, <1>7, <1>10, <1>11, <1>12

\* What a write leaves on file, and what it does to what was there.
LEMMA Written ==
    ASSUME RecordLimits, RecInv, NEW r \in Records!All, req[r].at = "writing"
    PROVE  LET s == Records!StoreOf(r)
               new == [by |-> r, valid |-> TRUE, number |-> Records!NextNumber(req[r].copy)]
               a == Records!CutTo(s, Append(req[r].copy, new))
           IN  /\ a \in Seq(Records!Entry) /\ Records!Read(a) = a
               /\ Len(a) \in DOMAIN a /\ a[Len(a)].by = r /\ (s = "handoff" => Len(a) <= Kept)
               /\ \E n \in 0..1 :
                     /\ n = 1 => s = "handoff" /\ Len(Records!Readable(s)) = Kept /\ Len(a) = Kept
                     /\ Records!IsPrefix(SubSeq(Records!Readable(s), n + 1, Len(Records!Readable(s))), a)
<1> DEFINE s == Records!StoreOf(r)
           c == req[r].copy
           new == [by |-> r, valid |-> TRUE, number |-> Records!NextNumber(c)]
           a == Records!CutTo(s, Append(c, new))
<1>1. s \in Records!Stores /\ c \in Seq(Records!Entry) /\ file[s] \in Seq(Records!Entry) /\ c = Records!Readable(s)
  BY RecParts DEF RecInv, CopiesFit
<1>2. \A i \in DOMAIN c : c[i].valid
  BY <1>1, ReadsValid DEF Records!Readable
<1>3. s = "handoff" => Len(c) <= Kept
  BY <1>1 DEF RecInv
<1>4. new \in Records!Entry /\ new.valid /\ new.by = r
  <2>1. Records!NextNumber(c) \in Nat
    BY <1>1, NumberType
  <2> HIDE DEF c
  <2> QED BY <2>1 DEF Records!Entry
<1> HIDE DEF new, c
<1>5. /\ a \in Seq(Records!Entry) /\ \A i \in DOMAIN a : a[i].valid
      /\ Len(a) \in DOMAIN a /\ a[Len(a)] = new /\ (s = "handoff" => Len(a) <= Kept)
      /\ \E n \in 0..1 :
            /\ n = 1 => s = "handoff" /\ Len(c) = Kept /\ Len(a) = Kept
            /\ Records!IsPrefix(SubSeq(c, n + 1, Len(c)), a)
  <2> HIDE DEF s
  <2> QED BY <1>1, <1>2, <1>3, <1>4, CutFits
<1>6. Records!Read(a) = a
  <2> HIDE DEF a
  <2> QED BY <1>5, ReadsValid
<1>7. a[Len(a)].by = r
  BY <1>4, <1>5
<1>8. /\ a \in Seq(Records!Entry) /\ Records!Read(a) = a
      /\ Len(a) \in DOMAIN a /\ a[Len(a)].by = r /\ (s = "handoff" => Len(a) <= Kept)
      /\ \E n \in 0..1 :
            /\ n = 1 => s = "handoff" /\ Len(Records!Readable(s)) = Kept /\ Len(a) = Kept
            /\ Records!IsPrefix(SubSeq(Records!Readable(s), n + 1, Len(Records!Readable(s))), a)
  <2> HIDE DEF a, s
  <2> QED BY <1>1, <1>5, <1>6, <1>7
<1> QED BY <1>8 DEF new, c

LEMMA WriteKeepsRec == ASSUME RecordLimits, RecInv, NEW r \in Records!All, Records!WriteFile(r) PROVE RecInv'
<1> DEFINE s == Records!StoreOf(r)
           new == [by |-> r, valid |-> TRUE, number |-> Records!NextNumber(req[r].copy)]
           a == Records!CutTo(s, Append(req[r].copy, new))
<1>1. PICK outcome \in {"recorded", "refused"} :
          /\ req[r].at = "writing" /\ Records!Settled(r, outcome)
          /\ file' = [file EXCEPT ![s] = a] \/ UNCHANGED file
  BY DEF Records!WriteFile
<1>2. /\ req' \in [Records!All -> Records!Request] /\ line' \in [Records!Stores -> Seq(Records!All)]
      /\ LineFits' /\ LineHolds'
      /\ \A q \in Records!All : q # r => req'[q] = req[q]
      /\ \A q \in Records!All : req'[q].at = "writing" => q # r /\ Records!StoreOf(q) # s
      /\ \A t \in Records!Stores : t # s => line'[t] = line[t]
  BY <1>1, TurnEnds
<1>3. s \in Records!Stores /\ file \in [Records!Stores -> Seq(Records!Entry)] /\ "handoff" \in Records!Stores
  BY RecParts DEF RecInv, Records!TypeOK
<1>4. a \in Seq(Records!Entry) /\ Records!Read(a) = a /\ (s = "handoff" => Len(a) <= Kept)
  BY <1>1, Written
<1>5. /\ file' \in [Records!Stores -> Seq(Records!Entry)]
      /\ \A t \in Records!Stores : t # s => file'[t] = file[t]
      /\ file'[s] = a \/ file'[s] = file[s]
  <2> HIDE DEF a, s
  <2> QED BY <1>1, <1>3, <1>4
<1>6. CopiesFit'
  <2>1. ASSUME NEW q \in Records!All, req'[q].at = "writing"
        PROVE  /\ line'[Records!StoreOf(q)][1] = q
               /\ req'[q].copy = Records!Read(file'[Records!StoreOf(q)])
    <3>1. q # r /\ Records!StoreOf(q) # s /\ req'[q] = req[q] /\ Records!StoreOf(q) \in Records!Stores
      BY <1>2, <2>1, RecParts DEF RecInv
    <3>2. line[Records!StoreOf(q)][1] = q /\ req[q].copy = Records!Read(file[Records!StoreOf(q)])
      BY <2>1, <3>1 DEF RecInv, CopiesFit, Records!Readable
    <3> QED BY <1>2, <1>5, <3>1, <3>2
  <2> HIDE DEF a, s
  <2> QED BY <2>1 DEF CopiesFit, Records!Readable
<1>7. Len(Records!Read(file'["handoff"])) <= Kept
  <2>1. Len(Records!Read(file["handoff"])) <= Kept
    BY DEF RecInv, Records!Readable
  <2> HIDE DEF a, s
  <2> QED BY <1>3, <1>4, <1>5, <2>1
<1> HIDE DEF a, s
<1> QED BY <1>2, <1>5, <1>6, <1>7 DEF RecInv, Records!TypeOK, Records!Readable

LEMMA EditKeepsRec == ASSUME RecInv, NEW s \in Records!Stores, Records!HandEdit(s) PROVE RecInv'
<1> DEFINE e == [by |-> "hand", valid |-> FALSE, number |-> 0]
<1>1. /\ file \in [Records!Stores -> Seq(Records!Entry)] /\ file' = [file EXCEPT ![s] = Append(file[s], e)]
      /\ line[s] = <<>> /\ UNCHANGED <<line, req>> /\ "handoff" \in Records!Stores
  BY RecParts DEF RecInv, Records!TypeOK, Records!HandEdit
<1>2. e \in Records!Entry /\ ~e.valid /\ file[s] \in Seq(Records!Entry)
  BY <1>1 DEF Records!Entry
<1>3. /\ file' \in [Records!Stores -> Seq(Records!Entry)]
      /\ \A t \in Records!Stores : t # s => file'[t] = file[t]
      /\ file'[s] = Append(file[s], e)
  <2>1. Append(file[s], e) \in Seq(Records!Entry)
    BY <1>2
  <2> HIDE DEF e
  <2> QED BY <1>1, <2>1
<1>4. Records!Read(file'[s]) = Records!Read(file[s])
  <2> HIDE DEF e
  <2> QED BY <1>2, <1>3, ReadAppended
<1>5. \A t \in Records!Stores : Records!Read(file'[t]) = Records!Read(file[t])
  BY <1>3, <1>4
<1>6. LineFits' /\ LineHolds'
  <2>1. \A t \in Records!Stores : \A i \in DOMAIN line[t] : line[t][i] \in Records!All
    BY RecParts DEF RecInv
  <2> QED BY <1>1, <2>1 DEF RecInv, LineFits, LineHolds, InPlace
<1>7. CopiesFit'
  <2>1. \A q \in Records!All : Records!StoreOf(q) \in Records!Stores
    BY RecParts DEF RecInv
  <2> QED BY <1>1, <1>5, <2>1 DEF RecInv, CopiesFit, Records!Readable
<1> QED BY <1>1, <1>3, <1>5, <1>6, <1>7 DEF RecInv, Records!TypeOK, Records!Readable

LEMMA RestartKeepsRec == ASSUME RecInv, Records!Restart PROVE RecInv'
<1>1. /\ req \in [Records!All -> Records!Request] /\ UNCHANGED file
      /\ line' = [s \in Records!Stores |-> <<>>]
      /\ req' = [r \in Records!All |-> IF req[r].at \in {"checking", "queued", "writing"}
                                       THEN [at |-> "refused", copy |-> <<>>] ELSE req[r]]
  BY DEF RecInv, Records!TypeOK, Records!Restart
<1>2. req' \in [Records!All -> Records!Request]
  BY <1>1 DEF Records!Request
<1>3. \A r \in Records!All : req'[r].at \notin {"queued", "writing"}
  BY <1>1
<1>4. line' \in [Records!Stores -> Seq(Records!All)] /\ LineFits'
  BY <1>1 DEF LineFits
<1>5. LineHolds' /\ CopiesFit'
  BY <1>3 DEF LineHolds, CopiesFit, InPlace
<1> QED BY <1>1, <1>2, <1>4, <1>5 DEF RecInv, Records!TypeOK, Records!Readable

LEMMA RecNext == ASSUME RecordLimits, RecInv, [Records!Next]_Records!vars PROVE RecInv'
<1>1. CASE UNCHANGED Records!vars
  <2>1. req \in [Records!All -> Records!Request]
    BY DEF RecInv, Records!TypeOK
  <2> QED BY <1>1, <2>1, RecQuiet DEF Records!vars, InPlace
<1> QED BY <1>1, AskedKeepsRec, EnqueueKeepsRec, ReadKeepsRec, WriteKeepsRec, EditKeepsRec, RestartKeepsRec
     DEF Records!Next

\* What a step does not read otherwise stays on file.
LEMMA StaysOnFile ==
    ASSUME RecordLimits, RecInv, RecInv', NEW s \in Records!Stores, Records!Readable(s)' = Records!Readable(s),
           \A r \in Requests[s] : ~(req'[r].at = "recorded" /\ req[r].at # "recorded")
    PROVE  LET before == Records!Readable(s)  after == Records!Readable(s)'
               recorded == {r \in Requests[s] : req'[r].at = "recorded" /\ req[r].at # "recorded"}
           IN  /\ \A r \in recorded : after[Len(after)].by = r
               /\ \E n \in 0..1 :
                     /\ n = 1 => s = "handoff" /\ Len(before) = Kept /\ Len(after) = Kept
                     /\ Records!IsPrefix(SubSeq(before, n + 1, Len(before)), after)
<1> DEFINE before == Records!Readable(s)
<1>1. before \in Seq(Records!Entry)
  BY RecParts, ReadsValid DEF RecInv, Records!Readable
<1>2. SubSeq(before, 1, Len(before)) = before
  <2> HIDE DEF before
  <2> QED BY <1>1, SubSeqFull
<1>3. Records!IsPrefix(SubSeq(before, 0 + 1, Len(before)), before)
  <2>1. Len(before) \in Nat
    BY <1>1
  <2> HIDE DEF before
  <2> QED BY <1>2, <2>1 DEF Records!IsPrefix
<1> QED BY <1>3

\* decisionStore.ts 172-175: what was acknowledged stays on file in the order it came.
THEOREM RecordedStaysHolds ==
    ASSUME RecordLimits
    PROVE  Records!Spec => Records!RecordsStay
<1> DEFINE Kind(s) == LET before == Records!Readable(s)  after == Records!Readable(s)'
               recorded == {r \in Requests[s] : req'[r].at = "recorded" /\ req[r].at # "recorded"}
           IN  /\ \A r \in recorded : after[Len(after)].by = r
               /\ \E n \in 0..1 :
                     /\ n = 1 => s = "handoff" /\ Len(before) = Kept /\ Len(after) = Kept
                     /\ Records!IsPrefix(SubSeq(before, n + 1, Len(before)), after)
<1>1. ASSUME RecInv, RecInv', Records!Next PROVE \A s \in Records!Stores : Kind(s)
  <2>1. \A s \in Records!Stores : Requests[s] \subseteq Records!All
    BY <1>1, RecParts DEF RecInv
  <2>2. req \in [Records!All -> Records!Request]
    BY <1>1 DEF RecInv, Records!TypeOK
  <2>3. ASSUME NEW r \in Records!All, Records!WriteFile(r), NEW s \in Records!Stores PROVE Kind(s)
    <3> DEFINE p == Records!StoreOf(r)
               new == [by |-> r, valid |-> TRUE, number |-> Records!NextNumber(req[r].copy)]
               a == Records!CutTo(p, Append(req[r].copy, new))
    <3>1. /\ req[r].at = "writing" /\ p \in Records!Stores /\ file \in [Records!Stores -> Seq(Records!Entry)]
          /\ r \in Requests[p]
      BY <1>1, <2>3, RecParts DEF RecInv, Records!TypeOK, Records!WriteFile
    <3>2. \A q \in Records!All : q # r => req'[q] = req[q]
      BY <2>2, <2>3 DEF Records!WriteFile, Records!Settled
    <3>3. CASE file' = [file EXCEPT ![p] = a] /\ s = p
      <4>1. file'[p] = a
        <5> HIDE DEF a, p
        <5> QED BY <3>1, <3>3
      <4>2. /\ Records!Read(a) = a /\ Len(a) \in DOMAIN a /\ a[Len(a)].by = r
            /\ \E n \in 0..1 :
                  /\ n = 1 => p = "handoff" /\ Len(Records!Readable(p)) = Kept /\ Len(a) = Kept
                  /\ Records!IsPrefix(SubSeq(Records!Readable(p), n + 1, Len(Records!Readable(p))), a)
        BY <1>1, <3>1, Written
      <4>3. Records!Readable(p)' = a
        <5> HIDE DEF a
        <5> QED BY <4>1, <4>2 DEF Records!Readable
      <4>4. \A q \in Requests[p] : req'[q].at = "recorded" /\ req[q].at # "recorded" => q = r
        BY <2>1, <3>1, <3>2
      <4> HIDE DEF a, p
      <4> QED BY <3>3, <4>2, <4>3, <4>4
    <3>4. CASE file' = [file EXCEPT ![p] = a] /\ s # p
      <4>1. file'[s] = file[s]
        <5> HIDE DEF a, p
        <5> QED BY <3>1, <3>4
      <4>2. r \notin Requests[s]
        BY <3>1, <3>4 DEF RecordLimits
      <4>3. \A q \in Requests[s] : ~(req'[q].at = "recorded" /\ req[q].at # "recorded")
        BY <2>1, <3>2, <4>2
      <4> QED BY <1>1, <4>1, <4>3, StaysOnFile DEF Records!Readable
    <3>5. CASE UNCHANGED file /\ Records!Settled(r, "refused")
      <4>1. req'[r].at = "refused"
        BY <2>2, <3>5 DEF Records!Settled
      <4>2. \A q \in Requests[s] : ~(req'[q].at = "recorded" /\ req[q].at # "recorded")
        BY <2>1, <3>2, <4>1
      <4> QED BY <1>1, <3>5, <4>2, StaysOnFile DEF Records!Readable
    <3> HIDE DEF Kind
    <3> QED BY <2>3, <3>3, <3>4, <3>5 DEF Records!WriteFile
  <2>4. ASSUME NEW t \in Records!Stores, Records!HandEdit(t), NEW s \in Records!Stores PROVE Kind(s)
    <3> DEFINE e == [by |-> "hand", valid |-> FALSE, number |-> 0]
    <3>1. /\ file \in [Records!Stores -> Seq(Records!Entry)] /\ file' = [file EXCEPT ![t] = Append(file[t], e)]
          /\ UNCHANGED req
      BY <1>1, <2>4 DEF RecInv, Records!TypeOK, Records!HandEdit
    <3>2. e \in Records!Entry /\ ~e.valid /\ file[t] \in Seq(Records!Entry)
      BY <3>1 DEF Records!Entry
    <3>3. Records!Read(Append(file[t], e)) = Records!Read(file[t])
      <4> HIDE DEF e
      <4> QED BY <3>2, ReadAppended
    <3>4. Records!Read(file'[s]) = Records!Read(file[s])
      <4>1. file'[s] = IF s = t THEN Append(file[t], e) ELSE file[s]
        <5> HIDE DEF e
        <5> QED BY <3>1
      <4> HIDE DEF e
      <4> QED BY <3>3, <4>1
    <3> HIDE DEF e
    <3> QED BY <1>1, <3>1, <3>4, StaysOnFile DEF Records!Readable
  <2>5. ASSUME UNCHANGED file, NEW s \in Records!Stores,
               \A r \in Records!All : req'[r].at = "recorded" => req[r].at = "recorded"
        PROVE  Kind(s)
    BY <1>1, <2>1, <2>5, StaysOnFile DEF Records!Readable
  <2>6. ASSUME NEW r \in Records!All, Records!Asked(r) \/ Records!Enqueue(r) \/ Records!ReadFile(r)
        PROVE  UNCHANGED file /\ \A q \in Records!All : req'[q].at = "recorded" => req[q].at = "recorded"
    BY <2>2, <2>6 DEF Records!Asked, Records!Enqueue, Records!ReadFile, Records!Request
  <2>7. ASSUME Records!Restart
        PROVE  UNCHANGED file /\ \A q \in Records!All : req'[q].at = "recorded" => req[q].at = "recorded"
    BY <2>2, <2>7 DEF Records!Restart
  <2> HIDE DEF Kind
  <2> QED BY <1>1, <2>3, <2>4, <2>5, <2>6, <2>7 DEF Records!Next
<1>2. RecInv /\ RecInv' /\ [Records!Next]_Records!vars => [Records!RecordedStays]_Records!vars
  BY <1>1 DEF RecInv, Records!RecordedStays
<1>3. Records!Spec => []RecInv
  BY RecStart, RecNext, PTL DEF Records!Spec
<1> QED BY <1>2, <1>3, PTL DEF Records!Spec, Records!RecordsStay

-----------------------------------------------------------------------------
(* The output of a launch and what a view makes of it (LaunchStream) *)

CONSTANTS Outputs, PROGRESS_LINES, TornViews, Stragglers
VARIABLES launch, written, alive, exitFile, timeoutFile, stopRequested, cursor, looking, seen

Stream == INSTANCE LaunchStream WITH run <- launch

\* An output is whatever a CLI makes of its events; the page keeps some lines.
StreamLimits ==
    /\ PROGRESS_LINES \in Nat
    /\ Outputs \subseteq [cli : STRING, events : Seq(STRING)]

\* What run r writes, and the parser of it after its first k pieces.
Out(r) == [i \in 1..(3 * Len(r.events)) |->
              IF i % 3 = 0 THEN Stream!Newline ELSE <<r.events[(i + 2) \div 3], i % 3>>]
Been(r, k) == Stream!Pushed(Stream!Parser, r.cli, SubSeq(Out(r), 1, k))

Words == STRING \cup {"nl", "text"}
Pieces == Words \X {0, 1, 2}
Causes == {"x " \o f : f \in {"F", "G"}}
Shows == Words \cup Causes
Parsers == [partial : Seq(Pieces), lines : {l \in Seq(Shows) : Len(l) <= PROGRESS_LINES},
            failure : {"", "F", "G"}, finished : BOOLEAN]

-----------------------------------------------------------------------------

LEMMA LinesAdded ==
    ASSUME StreamLimits, NEW l \in Seq(Shows), NEW m \in Seq(Shows)
    PROVE  Stream!AddLines(l, m) \in {x \in Seq(Shows) : Len(x) <= PROGRESS_LINES}
<1> DEFINE all == l \o m
<1>1. all \in Seq(Shows) /\ PROGRESS_LINES \in Nat /\ Len(all) \in Nat
  <2> HIDE DEF Shows
  <2> QED BY DEF StreamLimits
<1>2. CASE Len(all) > PROGRESS_LINES
  <2> DEFINE b == Len(all) - PROGRESS_LINES + 1
             n == Len(all)
  <2>1. b \in 1..n + 1 /\ n \in Nat /\ n - b + 1 = PROGRESS_LINES /\ b <= n + 1
    BY <1>1, <1>2
  <2>2. SubSeq(all, b, n) \in Seq(Shows) /\ Len(SubSeq(all, b, n)) = IF b <= n THEN n - b + 1 ELSE 0
    <3> HIDE DEF Shows, all, b
    <3>1. b \in 1..(Len(all) + 1) /\ n \in (b - 1)..Len(all)
      BY <2>1
    <3> HIDE DEF n
    <3> QED BY <1>1, <3>1, SubSeqProperties
  <2>3. Stream!AddLines(l, m) = SubSeq(all, b, n)
    BY <1>2 DEF Stream!AddLines
  <2> HIDE DEF all, b, n, Shows
  <2> QED BY <1>1, <2>1, <2>2, <2>3
<1>3. CASE ~(Len(all) > PROGRESS_LINES)
  <2>1. Stream!AddLines(l, m) = all
    BY <1>3 DEF Stream!AddLines
  <2> HIDE DEF all, Shows
  <2> QED BY <1>1, <1>3, <2>1
<1> HIDE DEF all, Shows
<1> QED BY <1>2, <1>3

LEMMA Failures ==
    ASSUME NEW cli, NEW e
    PROVE  Stream!FailureOf(cli, e) \in {"", "F", "G"}
BY DEF Stream!FailureOf

\* What a line adds to a parser, and what of it stays.
LEMMA ToldFacts ==
    ASSUME StreamLimits, NEW p \in Parsers, NEW cli, NEW raw \in Seq(Pieces)
    PROVE  LET q == Stream!Told(p, cli, raw)
           IN  /\ q \in Parsers
               /\ Len(raw) # 2 => q.failure = p.failure /\ q.finished = p.finished
               /\ Len(raw) = 2 =>
                     /\ q.failure = IF p.failure = "" THEN Stream!FailureOf(cli, raw[1][1]) ELSE p.failure
                     /\ q.finished = (p.finished \/ Stream!Finishes(cli, raw[1][1]))
<1> DEFINE q == Stream!Told(p, cli, raw)
           F == Stream!FailureOf(cli, raw[1][1])
           Fin == Stream!Finishes(cli, raw[1][1])
           Good == /\ q \in Parsers
                   /\ Len(raw) # 2 => q.failure = p.failure /\ q.finished = p.finished
                   /\ Len(raw) = 2 => /\ q.failure = IF p.failure = "" THEN F ELSE p.failure
                                      /\ q.finished = (p.finished \/ Fin)
<1> SUFFICES Good
  OBVIOUS
<1>0. /\ p.partial \in Seq(Pieces) /\ p.lines \in Seq(Shows) /\ p.failure \in {"", "F", "G"}
      /\ p.finished \in BOOLEAN
      /\ p = [partial |-> p.partial, lines |-> p.lines, failure |-> p.failure, finished |-> p.finished]
  BY DEF Parsers
<1>1. CASE raw = <<>>
  <2>1. q = p /\ Len(raw) = 0
    BY <1>1 DEF Stream!Told
  <2> HIDE DEF q, F, Fin
  <2> QED BY <2>1
<1>2. CASE raw # <<>> /\ Len(raw) # 2
  <2> DEFINE l == Stream!AddLines(p.lines, <<"text">>)
  <2>1. q = [p EXCEPT !.lines = l]
    BY <1>2 DEF Stream!Told
  <2>2. l \in {x \in Seq(Shows) : Len(x) <= PROGRESS_LINES}
    <3>1. <<"text">> \in Seq(Shows)
      <4> DEFINE x == "text"
      <4>1. x \in Shows
        BY DEF Shows, Words
      <4> HIDE DEF x, Shows
      <4>2. <<x>> \in Seq(Shows)
        BY <4>1
      <4> QED BY <4>2 DEF x
    <3> QED BY <1>0, <3>1, LinesAdded
  <2> HIDE DEF q, l
  <2>3. q = [partial |-> p.partial, lines |-> l, failure |-> p.failure, finished |-> p.finished]
    BY <1>0, <2>1
  <2>4. q \in Parsers /\ q.failure = p.failure /\ q.finished = p.finished
    BY <1>0, <2>2, <2>3 DEF Parsers
  <2> HIDE DEF F, Fin
  <2> QED BY <1>2, <2>4
<1>3. CASE Len(raw) = 2
  <2> DEFINE e == raw[1][1]
             isNew == F # "" /\ F # p.failure
             more == (IF isNew THEN <<"x " \o F>> ELSE <<>>) \o Stream!LinesOf(cli, e)
             l == Stream!AddLines(p.lines, more)
             failure == IF p.failure = "" THEN F ELSE p.failure
             finished == p.finished \/ Fin
  <2>1. q = [p EXCEPT !.finished = finished, !.failure = failure, !.lines = l]
    <3>1. raw # <<>>
      <4>1. raw = <<>> => Len(raw) = 0
        BY EmptySeq
      <4> HIDE DEF F, Fin, q
      <4> QED BY <1>3, <4>1
    <3> QED BY <1>3, <3>1 DEF Stream!Told
  <2>2. e \in Words
    BY <1>3 DEF Pieces
  <2>3. F \in {"", "F", "G"} /\ finished \in BOOLEAN
    <3>1. Fin \in BOOLEAN
      BY DEF Stream!Finishes
    <3> QED BY <1>0, <3>1, Failures
  <2>4. more \in Seq(Shows)
    <3>1. (IF isNew THEN <<"x " \o F>> ELSE <<>>) \in Seq(Shows)
      <4>1. CASE isNew
        <5>1. "x " \o F \in Shows
          <6>1. F \in {"F", "G"}
            BY <2>3, <4>1
          <6> HIDE DEF F
          <6>2. "x " \o F \in Causes
            BY <6>1 DEF Causes
          <6> QED BY <6>2 DEF Shows
        <5> DEFINE x == "x " \o F
        <5>2. x \in Shows
          BY <5>1
        <5> HIDE DEF x, Shows
        <5>3. <<x>> \in Seq(Shows)
          BY <5>2
        <5>4. (IF isNew THEN <<x>> ELSE <<>>) = <<x>>
          <6> HIDE DEF isNew
          <6> QED BY <4>1
        <5> QED BY <5>3, <5>4 DEF x
      <4>2. CASE ~isNew
        <5>1. (IF isNew THEN <<"x " \o F>> ELSE <<>>) = <<>>
          BY ONLY <4>2
        <5>2. <<>> \in Seq(Shows)
          OBVIOUS
        <5> QED BY ONLY <5>1, <5>2
      <4> HIDE DEF isNew, Shows
      <4> QED BY <4>1, <4>2
    <3>2. Stream!LinesOf(cli, e) \in Seq(Shows)
      <4>1. e \in Shows
        BY <2>2 DEF Shows
      <4> HIDE DEF e, Shows
      <4>2. Stream!LinesOf(cli, e) \in {<<>>, <<e>>}
        BY DEF Stream!LinesOf
      <4>3. <<>> \in Seq(Shows) /\ <<e>> \in Seq(Shows)
        BY <4>1
      <4> DEFINE y == Stream!LinesOf(cli, e)
                 z == <<e>>
      <4>4. y \in {<<>>, z}
        BY <4>2
      <4>5. z \in Seq(Shows)
        BY <4>3
      <4> HIDE DEF y, z
      <4>6. y \in Seq(Shows)
        BY ONLY <4>3, <4>4, <4>5
      <4> QED BY <4>6 DEF y
    <3> DEFINE x == IF isNew THEN <<"x " \o F>> ELSE <<>>
               y == Stream!LinesOf(cli, e)
    <3>3. x \in Seq(Shows) /\ y \in Seq(Shows)
      BY <3>1, <3>2
    <3> HIDE DEF x, y, Shows
    <3>4. x \o y \in Seq(Shows)
      BY <3>3
    <3> QED BY <3>4 DEF x, y
  <2>5. l \in {x \in Seq(Shows) : Len(x) <= PROGRESS_LINES}
    <3> HIDE DEF more
    <3> QED BY <1>0, <2>4, LinesAdded
  <2>6. failure \in {"", "F", "G"}
    BY <1>0, <2>3
  <2> HIDE DEF q, l, failure, finished
  <2>7. q = [partial |-> p.partial, lines |-> l, failure |-> failure, finished |-> finished]
    BY <1>0, <2>1
  <2>8. q \in Parsers
    BY <1>0, <2>3, <2>5, <2>6, <2>7 DEF Parsers
  <2>9. q.failure = failure /\ q.finished = finished
    BY <2>7
  <2> HIDE DEF F, Fin
  <2> QED BY <1>3, <2>8, <2>9 DEF failure, finished
<1>4. raw = <<>> \/ (raw # <<>> /\ Len(raw) # 2) \/ Len(raw) = 2
  OBVIOUS
<1> HIDE DEF Good
<1> QED BY <1>1, <1>2, <1>3, <1>4

LEMMA EndedFacts ==
    ASSUME StreamLimits, NEW p \in Parsers, NEW cli
    PROVE  LET q == Stream!Ended(p, cli)
           IN  /\ q \in Parsers /\ q.partial = <<>>
               /\ Len(p.partial) # 2 => q.failure = p.failure /\ q.finished = p.finished
               /\ Len(p.partial) = 2 =>
                     /\ q.failure = IF p.failure = "" THEN Stream!FailureOf(cli, p.partial[1][1]) ELSE p.failure
                     /\ q.finished = (p.finished \/ Stream!Finishes(cli, p.partial[1][1]))
<1> DEFINE t == Stream!Told(p, cli, p.partial)
           q == Stream!Ended(p, cli)
<1>0. p.partial \in Seq(Pieces)
  BY DEF Parsers
<1>1. /\ t \in Parsers
      /\ Len(p.partial) # 2 => t.failure = p.failure /\ t.finished = p.finished
      /\ Len(p.partial) = 2 =>
            /\ t.failure = IF p.failure = "" THEN Stream!FailureOf(cli, p.partial[1][1]) ELSE p.failure
            /\ t.finished = (p.finished \/ Stream!Finishes(cli, p.partial[1][1]))
  BY <1>0, ToldFacts
<1>2. q = [t EXCEPT !.partial = <<>>]
  BY DEF Stream!Ended
<1> HIDE DEF t, q
<1>3. q = [partial |-> <<>>, lines |-> t.lines, failure |-> t.failure, finished |-> t.finished]
  BY <1>1, <1>2 DEF Parsers
<1>4. <<>> \in Seq(Pieces)
  OBVIOUS
<1>5. q \in Parsers /\ q.partial = <<>> /\ q.failure = t.failure /\ q.finished = t.finished
  BY <1>1, <1>3, <1>4 DEF Parsers
<1> QED BY <1>1, <1>5 DEF q

\* A newline ends a line as the end of the output does; another piece only waits.
LEMMA PieceFacts ==
    ASSUME StreamLimits, NEW p \in Parsers, NEW cli, NEW x \in Pieces
    PROVE  /\ Stream!Piece(p, cli, x) \in Parsers
           /\ x = Stream!Newline => Stream!Piece(p, cli, x) = Stream!Ended(p, cli)
           /\ x # Stream!Newline => Stream!Piece(p, cli, x) = [p EXCEPT !.partial = Append(p.partial, x)]
<1>1. CASE x = Stream!Newline
  BY <1>1, EndedFacts DEF Stream!Piece, Stream!Ended
<1>2. CASE x # Stream!Newline
  <2> DEFINE a == Append(p.partial, x)
  <2>1. a \in Seq(Pieces)
    <3>1. p.partial \in Seq(Pieces)
      BY DEF Parsers
    <3> HIDE DEF Pieces
    <3> QED BY <3>1
  <2>2. Stream!Piece(p, cli, x) = [p EXCEPT !.partial = a]
    BY <1>2 DEF Stream!Piece
  <2> HIDE DEF a
  <2>3. [p EXCEPT !.partial = a] \in Parsers
    BY <2>1 DEF Parsers
  <2> QED BY <1>2, <2>2, <2>3 DEF a
<1> QED BY <1>1, <1>2

LEMMA OutPieces ==
    ASSUME StreamLimits, NEW r \in Outputs
    PROVE  /\ Len(r.events) \in Nat /\ Len(Out(r)) = 3 * Len(r.events)
           /\ Out(r) \in Seq(Pieces)
           /\ \A i \in 1..(3 * Len(r.events)) :
                 Out(r)[i] = IF i % 3 = 0 THEN Stream!Newline ELSE <<r.events[(i + 2) \div 3], i % 3>>
<1> DEFINE n == Len(r.events)
           o(i) == IF i % 3 = 0 THEN Stream!Newline ELSE <<r.events[(i + 2) \div 3], i % 3>>
<1>1. r.events \in Seq(STRING)
  BY DEF StreamLimits
<1>2. n \in Nat /\ \A j \in 1..n : r.events[j] \in STRING
  BY <1>1
<1>3. ASSUME NEW i \in 1..(3 * n) PROVE o(i) \in Pieces
  <2>1. CASE i % 3 = 0
    <3>1. "nl" \in Words /\ 0 \in {0, 1, 2}
      BY DEF Words
    <3>2. Stream!Newline \in Pieces
      BY <3>1 DEF Pieces, Stream!Newline
    <3> HIDE DEF Pieces
    <3> QED BY <2>1, <3>2
  <2>2. CASE i % 3 # 0
    <3> DEFINE j == (i + 2) \div 3
               k == i % 3
    <3>1. j \in 1..n /\ k \in {0, 1, 2}
      BY <1>2
    <3>2. o(i) = <<r.events[j], k>>
      BY <2>2
    <3> HIDE DEF o, j, k, n
    <3>3. r.events[j] \in Words
      BY <1>2, <3>1 DEF Words
    <3> QED BY <3>1, <3>2, <3>3 DEF Pieces
  <2> QED BY <2>1, <2>2
<1>4. Out(r) = [i \in 1..(3 * n) |-> o(i)]
  BY DEF Out
<1>5. 3 * n \in Nat
  BY <1>2
<1> HIDE DEF o
<1>6. Out(r) \in Seq(Pieces) /\ Len(Out(r)) = 3 * n
  <2> HIDE DEF n, Pieces
  <2>1. Out(r) \in [1..(3 * n) -> Pieces]
    BY <1>3, <1>4
  <2> DEFINE m == 3 * n
  <2>2. m \in Nat /\ Out(r) \in [1..m -> Pieces]
    BY <1>5, <2>1
  <2> HIDE DEF m
  <2>3. Out(r) \in Seq(Pieces)
    BY <2>2, SeqDef
  <2>4. Len(Out(r)) = m
    BY <2>2, <2>3
  <2> QED BY <2>3, <2>4 DEF m
<1>7. \A i \in 1..(3 * n) : Out(r)[i] = o(i)
  <2> HIDE DEF n
  <2> QED BY <1>4
<1> QED BY <1>2, <1>6, <1>7 DEF o

\* f is what a parser is after each piece of a chunk.
Reads(f, p, cli, s) ==
    /\ f \in [0..Len(s) -> Parsers] /\ f[0] = p
    /\ \A i \in 1..Len(s) : f[i] = Stream!Piece(f[i - 1], cli, s[i])
    /\ Stream!Pushed(p, cli, s) = f[Len(s)]

LEMMA PushSteps ==
    ASSUME StreamLimits, NEW p \in Parsers, NEW cli, NEW s \in Seq(Pieces)
    PROVE  \E f : Reads(f, p, cli, s)
<1> DEFINE T == Parsers
           n == Len(s)
           D == [i \in 1..n |-> [x \in T |-> Stream!Piece(x, cli, s[i])]]
           Body(r, i) == IF i = 0 THEN p ELSE Stream!Piece(r[i - 1], cli, s[i])
           R(r) == r = [i \in 0..n |-> Body(r, i)]
           g == CHOOSE r : R(r)
<1> HIDE DEF T
<1>1. D \in [1..n -> [T -> T]]
  <2>1. ASSUME NEW i \in 1..n, NEW x \in T PROVE Stream!Piece(x, cli, s[i]) \in T
    <3>1. s[i] \in Pieces
      OBVIOUS
    <3> QED BY <3>1, PieceFacts DEF T
  <2> QED BY <2>1
<1>2. p \in T /\ n \in Nat
  BY DEF T
<1>3. PICK f \in [0..n -> T] : f[0] = p /\ \A i \in 1..n : f[i] = D[i][f[i - 1]]
  <2>1. Stepwise(n, T, p, D)
    BY <1>1, <1>2 DEF Stepwise
  <2>2. PICK f : Comes(f, n, T, p, D)
    <3> HIDE DEF n, D
    <3> QED BY <2>1, Iterates
  <2> QED BY <2>2 DEF Comes
<1>4. f[0] = p /\ \A i \in 1..n : f[i] = Stream!Piece(f[i - 1], cli, s[i])
  <2>1. ASSUME NEW i \in 1..n PROVE f[i] = Stream!Piece(f[i - 1], cli, s[i])
    <3>1. f[i - 1] \in T
      BY <1>2, <2>1
    <3> QED BY <1>3, <3>1
  <2> QED BY <1>3, <2>1
<1>5. \A i \in 0..n : f[i] = Body(f, i)
  <2>1. \A i \in 0..n : i = 0 \/ i \in 1..n
    BY <1>2
  <2> QED BY <1>4, <2>1
<1>6. R(f)
  <2> HIDE DEF Body, n
  <2> QED BY <1>5
<1>7. Stream!Pushed(p, cli, s) = g[n]
  BY DEF Stream!Pushed
<1>8. R(g)
  <2> HIDE DEF R
  <2> QED BY <1>6
<1> HIDE DEF g
<1>9. g = [i \in 0..n |-> g[i]] /\ \A i \in 0..n : g[i] = Body(g, i)
  <2> HIDE DEF Body, n
  <2> QED BY <1>8
<1>10. g[0] = f[0]
  <2>1. 0 \in 0..n /\ Body(g, 0) = p
    BY <1>2
  <2> QED BY <1>4, <1>9, <2>1
<1>11. ASSUME NEW i \in 1..n, g[i - 1] = f[i - 1] PROVE g[i] = f[i]
  <2>1. i \in 0..n /\ i # 0
    BY <1>2
  <2> QED BY <1>4, <1>9, <1>11, <2>1
<1>12. g = f
  <2>1. f = [i \in 0..n |-> f[i]]
    OBVIOUS
  <2>2. Alike(f, g, n)
    <3> HIDE DEF Body, n, R
    <3> QED BY <1>2, <1>9, <1>10, <1>11, <2>1 DEF Alike
  <2> HIDE DEF n, Body, R
  <2> QED BY <2>2, SameSteps
<1> QED BY <1>3, <1>4, <1>7, <1>12 DEF T, Reads

LEMMA FreshParser ==
    ASSUME StreamLimits
    PROVE  Stream!Parser \in Parsers
<1>1. <<>> \in Seq(Pieces) /\ <<>> \in Seq(Shows) /\ Len(<<>>) <= PROGRESS_LINES
  BY DEF StreamLimits
<1> QED BY <1>1 DEF Parsers, Stream!Parser

\* Piece by piece: what has been read grows by one piece.
LEMMA BeenSteps ==
    ASSUME StreamLimits, NEW r \in Outputs
    PROVE  \E f \in [0..Len(Out(r)) -> Parsers] :
              /\ f[0] = Stream!Parser
              /\ \A i \in 1..Len(Out(r)) : f[i] = Stream!Piece(f[i - 1], r.cli, Out(r)[i])
              /\ \A m \in 0..Len(Out(r)) : \A n \in m..Len(Out(r)) :
                    Stream!Pushed(f[m], r.cli, SubSeq(Out(r), m + 1, n)) = f[n]
<1> DEFINE N == Len(Out(r))
<1>1. N \in Nat /\ Out(r) \in Seq(Pieces) /\ Stream!Parser \in Parsers
  BY OutPieces, FreshParser
<1>2. PICK f \in [0..N -> Parsers] :
              /\ f[0] = Stream!Parser
              /\ \A i \in 1..N : f[i] = Stream!Piece(f[i - 1], r.cli, Out(r)[i])
  <2> DEFINE o == Out(r)
             c == r.cli
  <2>1. o \in Seq(Pieces)
    BY <1>1
  <2> HIDE DEF o, c
  <2>2. \E f : Reads(f, Stream!Parser, c, o)
    BY <1>1, <2>1, PushSteps
  <2> QED BY <2>2 DEF o, c, Reads
<1>3. ASSUME NEW m \in 0..N, NEW n \in m..N
      PROVE  Stream!Pushed(f[m], r.cli, SubSeq(Out(r), m + 1, n)) = f[n]
  <2> DEFINE s == SubSeq(Out(r), m + 1, n)
             l == n - m
  <2>1. /\ s \in Seq(Pieces) /\ Len(s) = l /\ l \in Nat
        /\ \A i \in 1..l : s[i] = Out(r)[m + i] /\ m + i \in 1..N
    <3> DEFINE o == Out(r)
    <3>1. o \in Seq(Pieces) /\ m + 1 \in 1..(Len(o) + 1) /\ n \in (m + 1 - 1)..Len(o) /\ l \in Nat
          /\ N = Len(o)
      BY <1>1, <1>3
    <3> HIDE DEF o, N
    <3>2. /\ SubSeq(o, m + 1, n) \in Seq(Pieces)
          /\ Len(SubSeq(o, m + 1, n)) = IF m + 1 <= n THEN n - (m + 1) + 1 ELSE 0
          /\ \A i \in 1..(n - (m + 1) + 1) : SubSeq(o, m + 1, n)[i] = o[m + 1 + i - 1]
      BY <3>1, SubSeqProperties
    <3>3. (IF m + 1 <= n THEN n - (m + 1) + 1 ELSE 0) = l /\ n - (m + 1) + 1 = l
      BY <3>1
    <3>4. \A i \in 1..l : m + 1 + i - 1 = m + i /\ m + i \in 1..N
      BY <3>1
    <3> HIDE DEF l
    <3>5. /\ SubSeq(o, m + 1, n) \in Seq(Pieces) /\ Len(SubSeq(o, m + 1, n)) = l
          /\ \A i \in 1..l : SubSeq(o, m + 1, n)[i] = o[m + i] /\ m + i \in 1..N
      BY <3>2, <3>3, <3>4
    <3> QED BY <3>1, <3>5 DEF o
  <2> HIDE DEF s
  <2>2. f[m] \in Parsers
    BY <1>2
  <2>3. PICK g \in [0..Len(s) -> Parsers] :
              /\ g[0] = f[m]
              /\ \A i \in 1..Len(s) : g[i] = Stream!Piece(g[i - 1], r.cli, s[i])
              /\ Stream!Pushed(f[m], r.cli, s) = g[Len(s)]
    <3> DEFINE c == r.cli
               q == f[m]
    <3>1. q \in Parsers
      BY <2>2
    <3> HIDE DEF c, q
    <3>2. \E g : Reads(g, q, c, s)
      BY <2>1, <3>1, PushSteps
    <3> QED BY <3>2 DEF c, q, Reads
  <2> DEFINE h == [i \in 0..l |-> f[m + i]]
  <2>4. Alike(h, g, l)
    <3> HIDE DEF N
    <3>1. h = [i \in 0..l |-> h[i]] /\ g = [i \in 0..l |-> g[i]] /\ l \in Nat
      <4> HIDE DEF l
      <4> QED BY <2>1, <2>3
    <3>2. h[0] = f[m] /\ g[0] = h[0]
      BY <1>3, <2>1, <2>3
    <3>3. ASSUME NEW i \in 1..l, g[i - 1] = h[i - 1] PROVE g[i] = h[i]
      <4>1. /\ i \in 0..l /\ i - 1 \in 0..l /\ m + i \in 1..N /\ m + (i - 1) = (m + i) - 1
            /\ s[i] = Out(r)[m + i]
        BY <1>1, <1>3, <2>1, <3>3
      <4>2. h[i] = f[m + i] /\ h[i - 1] = f[(m + i) - 1]
        BY <4>1
      <4>3. f[m + i] = Stream!Piece(f[(m + i) - 1], r.cli, Out(r)[m + i])
        BY <1>2, <4>1
      <4>4. g[i] = Stream!Piece(g[i - 1], r.cli, s[i])
        <5> HIDE DEF l
        <5> QED BY <2>1, <2>3
      <4> HIDE DEF h, l
      <4> QED BY <3>3, <4>1, <4>2, <4>3, <4>4
    <3> HIDE DEF h, l
    <3> QED BY <3>1, <3>2, <3>3 DEF Alike
  <2>5. g = h
    <3> HIDE DEF h, l
    <3> QED BY <2>4, SameSteps
  <2>6. h[l] = f[n]
    <3>1. l \in 0..l /\ m + l = n
      BY <1>1, <1>3, <2>1
    <3> HIDE DEF l
    <3> QED BY <3>1
  <2> HIDE DEF h, l
  <2>7. Stream!Pushed(f[m], r.cli, s) = f[n]
    BY <2>1, <2>3, <2>5, <2>6
  <2> QED BY <2>7 DEF s
<1> QED BY <1>2, <1>3

\* However the output is cut, it is read as one.
LEMMA ReadOn ==
    ASSUME StreamLimits, NEW r \in Outputs
    PROVE  /\ Been(r, 0) = Stream!Parser
           /\ \A n \in 0..Len(Out(r)) : Been(r, n) \in Parsers
           /\ \A i \in 1..Len(Out(r)) : Been(r, i) = Stream!Piece(Been(r, i - 1), r.cli, Out(r)[i])
           /\ \A m \in 0..Len(Out(r)) : \A n \in m..Len(Out(r)) :
                 Stream!Pushed(Been(r, m), r.cli, SubSeq(Out(r), m + 1, n)) = Been(r, n)
<1> DEFINE N == Len(Out(r))
<1>1. N \in Nat
  BY OutPieces
<1>2. PICK f \in [0..N -> Parsers] :
              /\ f[0] = Stream!Parser
              /\ \A i \in 1..N : f[i] = Stream!Piece(f[i - 1], r.cli, Out(r)[i])
              /\ \A m \in 0..N : \A n \in m..N :
                    Stream!Pushed(f[m], r.cli, SubSeq(Out(r), m + 1, n)) = f[n]
  <2>1. 0 \in 0..N
    BY <1>1
  <2> QED BY <2>1, BeenSteps
<1>3. ASSUME NEW n \in 0..N PROVE Been(r, n) = f[n]
  <2>1. 0 \in 0..N /\ n \in 0..N /\ 0 + 1 = 1
    BY <1>1
  <2>2. Stream!Pushed(f[0], r.cli, SubSeq(Out(r), 0 + 1, n)) = f[n]
    BY <1>1, <1>2, <2>1
  <2> QED BY <1>2, <2>1, <2>2 DEF Been
<1>4. \A i \in 1..N : i \in 0..N /\ i - 1 \in 0..N
  BY <1>1
<1>5. \A m \in 0..N : \A n \in m..N : n \in 0..N
  BY <1>1
<1>6. 0 \in 0..N
  BY <1>1
<1> HIDE DEF N
<1>7. \A i \in 1..N : Been(r, i) = Stream!Piece(Been(r, i - 1), r.cli, Out(r)[i])
  BY <1>2, <1>3, <1>4
<1>8. \A m \in 0..N : \A n \in m..N :
         Stream!Pushed(Been(r, m), r.cli, SubSeq(Out(r), m + 1, n)) = Been(r, n)
  BY <1>2, <1>3, <1>5
<1>9. Been(r, 0) = Stream!Parser /\ \A n \in 0..N : Been(r, n) \in Parsers
  BY <1>2, <1>3, <1>6
<1> QED BY <1>7, <1>8, <1>9 DEF N

\* After k whole events nothing waits, and the parser knows of each of them.
Whole(r, k) ==
    /\ Been(r, 3 * k).partial = <<>>
    /\ Been(r, 3 * k).finished <=> \E i \in 1..k : Stream!Finishes(r.cli, r.events[i])
    /\ Been(r, 3 * k).failure = "" <=> \A i \in 1..k : Stream!FailureOf(r.cli, r.events[i]) = ""

\* The two halves of an event's line wait for its end.
LEMMA HalfRead ==
    ASSUME StreamLimits, NEW r \in Outputs, NEW k \in 0..(Len(r.events) - 1), Whole(r, k)
    PROVE  LET p == Been(r, 3 * k)  one == Been(r, 3 * k + 1)  two == Been(r, 3 * k + 2)
           IN  /\ one.failure = p.failure /\ one.finished = p.finished /\ Len(one.partial) = 1
               /\ two.failure = p.failure /\ two.finished = p.finished
               /\ Len(two.partial) = 2 /\ two.partial[1][1] = r.events[k + 1]
<1> DEFINE p == Been(r, 3 * k)
           one == Been(r, 3 * k + 1)
           two == Been(r, 3 * k + 2)
           e == r.events[k + 1]
           n == Len(r.events)
<1>1. /\ n \in Nat /\ Len(Out(r)) = 3 * n
      /\ 3 * k + 1 \in 1..(3 * n) /\ 3 * k + 2 \in 1..(3 * n) /\ 3 * k \in 0..(3 * n)
      /\ (3 * k + 1) - 1 = 3 * k /\ (3 * k + 2) - 1 = 3 * k + 1
      /\ 3 * k + 1 \in 0..(3 * n) /\ 3 * k + 2 \in 0..(3 * n)
  <2>1. n \in Nat /\ Len(Out(r)) = 3 * n
    BY OutPieces
  <2> QED BY <2>1
<1>2. Out(r)[3 * k + 1] = <<e, 1>> /\ Out(r)[3 * k + 2] = <<e, 2>>
  <2>1. (3 * k + 1) % 3 = 1 /\ (3 * k + 2) % 3 = 2
        /\ (3 * k + 1 + 2) \div 3 = k + 1 /\ (3 * k + 2 + 2) \div 3 = k + 1
    OBVIOUS
  <2>2. \A i \in 1..(3 * n) : Out(r)[i] = IF i % 3 = 0 THEN Stream!Newline ELSE <<r.events[(i + 2) \div 3], i % 3>>
    BY OutPieces
  <2>3. Out(r)[3 * k + 1] = <<r.events[(3 * k + 1 + 2) \div 3], (3 * k + 1) % 3>>
    <3> DEFINE i == 3 * k + 1
    <3>1. i \in 1..(3 * n) /\ i % 3 # 0
      BY <1>1, <2>1
    <3> HIDE DEF i, n
    <3>2. Out(r)[i] = <<r.events[(i + 2) \div 3], i % 3>>
      BY <2>2, <3>1
    <3> QED BY <3>2 DEF i
  <2>4. Out(r)[3 * k + 2] = <<r.events[(3 * k + 2 + 2) \div 3], (3 * k + 2) % 3>>
    <3> DEFINE i == 3 * k + 2
    <3>1. i \in 1..(3 * n) /\ i % 3 # 0
      BY <1>1, <2>1
    <3> HIDE DEF i, n
    <3>2. Out(r)[i] = <<r.events[(i + 2) \div 3], i % 3>>
      BY <2>2, <3>1
    <3> QED BY <3>2 DEF i
  <2> QED BY <2>1, <2>3, <2>4
<1>3. /\ <<e, 1>> \in Pieces /\ <<e, 2>> \in Pieces
      /\ <<e, 1>> # Stream!Newline /\ <<e, 2>> # Stream!Newline
  <2>1. \A i \in 1..(3 * n) : Out(r)[i] \in Pieces
    <3>1. Out(r) \in Seq(Pieces) /\ Len(Out(r)) = 3 * n
      BY OutPieces
    <3> HIDE DEF Pieces
    <3> QED BY <3>1
  <2>2. <<e, 1>> \in Pieces /\ <<e, 2>> \in Pieces
    BY <1>1, <1>2, <2>1
  <2> QED BY <2>2 DEF Stream!Newline
<1>4. p \in Parsers /\ one \in Parsers /\ p.partial = <<>>
  BY <1>1, ReadOn DEF Whole
<1>5. one = [p EXCEPT !.partial = Append(p.partial, <<e, 1>>)]
  <2>1. one = Stream!Piece(p, r.cli, <<e, 1>>)
    BY <1>1, <1>2, ReadOn
  <2> HIDE DEF one, p, e
  <2> QED BY <1>3, <1>4, <2>1, PieceFacts
<1>6. two = [one EXCEPT !.partial = Append(one.partial, <<e, 2>>)]
  <2>1. two = Stream!Piece(one, r.cli, <<e, 2>>)
    BY <1>1, <1>2, ReadOn
  <2> HIDE DEF one, two, e
  <2> QED BY <1>3, <1>4, <2>1, PieceFacts
<1> HIDE DEF p, one, two, e
<1>7. one.partial = <<<<e, 1>>>> /\ one.failure = p.failure /\ one.finished = p.finished
  <2>1. one.partial = Append(<<>>, <<e, 1>>) /\ one.failure = p.failure /\ one.finished = p.finished
    BY <1>4, <1>5 DEF Parsers
  <2> DEFINE x == <<e, 1>>
  <2> HIDE DEF x
  <2>2. Append(<<>>, x) = <<x>>
    OBVIOUS
  <2> QED BY <2>1, <2>2 DEF x
<1>8. Len(one.partial) = 1 /\ one.partial[1] = <<e, 1>>
  <2> DEFINE x == <<e, 1>>
  <2> HIDE DEF x
  <2>1. Len(<<x>>) = 1 /\ <<x>>[1] = x
    OBVIOUS
  <2> QED BY <1>7, <2>1 DEF x
<1>9. /\ two.partial = Append(one.partial, <<e, 2>>)
      /\ two.failure = p.failure /\ two.finished = p.finished
  BY <1>4, <1>6, <1>7 DEF Parsers
<1>10. Len(two.partial) = 2 /\ two.partial[1] = <<e, 1>>
  <2>1. one.partial \in Seq(Pieces)
    BY <1>4 DEF Parsers
  <2> DEFINE y == <<e, 2>>
  <2>2. y \in Pieces
    BY <1>3
  <2> HIDE DEF y, Pieces
  <2> DEFINE l == one.partial
  <2>3. l \in Seq(Pieces) /\ Len(l) = 1 /\ l[1] = <<e, 1>>
    BY <1>8, <2>1
  <2> HIDE DEF l
  <2>4. Len(Append(l, y)) = Len(l) + 1 /\ \A i \in 1..Len(l) : Append(l, y)[i] = l[i]
    <3>1. l \in Seq(Pieces) /\ y \in Pieces
      BY <2>2, <2>3
    <3> QED BY ONLY <3>1, AppendProperties
  <2>5. 1 \in 1..Len(l) /\ Len(l) + 1 = 2
    BY <2>3
  <2>6. Len(Append(l, y)) = 2 /\ Append(l, y)[1] = <<e, 1>>
    BY <2>3, <2>4, <2>5
  <2> QED BY <1>9, <2>6 DEF y, l
<1>11. two.partial[1][1] = e
  BY <1>10
<1> QED BY <1>7, <1>8, <1>9, <1>10, <1>11 DEF p, one, two, e

LEMMA WholeNext ==
    ASSUME StreamLimits, NEW r \in Outputs, NEW k \in 0..(Len(r.events) - 1), Whole(r, k)
    PROVE  Whole(r, k + 1)
<1> DEFINE p == Been(r, 3 * k)
           two == Been(r, 3 * k + 2)
           q == Been(r, 3 * (k + 1))
           e == r.events[k + 1]
           n == Len(r.events)
           F(i) == Stream!FailureOf(r.cli, r.events[i])
           Fin(i) == Stream!Finishes(r.cli, r.events[i])
<1>1. /\ n \in Nat /\ Len(Out(r)) = 3 * n
      /\ 3 * (k + 1) \in 1..(3 * n) /\ 3 * k \in 0..(3 * n) /\ 3 * k + 2 \in 0..(3 * n)
      /\ 3 * (k + 1) - 1 = 3 * k + 2
  <2>1. n \in Nat /\ Len(Out(r)) = 3 * n
    BY OutPieces
  <2> QED BY <2>1
<1>2. Out(r)[3 * (k + 1)] = Stream!Newline
  <2>1. (3 * (k + 1)) % 3 = 0
    OBVIOUS
  <2> QED BY <1>1, <2>1, OutPieces
<1>3. p \in Parsers /\ two \in Parsers
  BY <1>1, ReadOn
<1>4. q = Stream!Ended(two, r.cli)
  <2>1. q = Stream!Piece(two, r.cli, Stream!Newline)
    BY <1>1, <1>2, ReadOn
  <2>2. Stream!Newline \in Pieces
    BY DEF Stream!Newline, Pieces, Words
  <2> HIDE DEF q, two
  <2> QED BY <1>3, <2>1, <2>2, PieceFacts
<1>5. /\ two.failure = p.failure /\ two.finished = p.finished
      /\ Len(two.partial) = 2 /\ two.partial[1][1] = e
  BY HalfRead
<1>6. /\ q.partial = <<>>
      /\ q.failure = IF p.failure = "" THEN F(k + 1) ELSE p.failure
      /\ q.finished = (p.finished \/ Fin(k + 1))
  <2> HIDE DEF two, q, p
  <2>1. /\ q.partial = <<>>
        /\ q.failure = IF two.failure = "" THEN Stream!FailureOf(r.cli, e) ELSE two.failure
        /\ q.finished = (two.finished \/ Stream!Finishes(r.cli, e))
    <3> HIDE DEF e
    <3> QED BY <1>3, <1>4, <1>5, EndedFacts
  <2> QED BY <1>5, <2>1
<1>7. /\ p.finished <=> \E i \in 1..k : Fin(i)
      /\ p.failure = "" <=> \A i \in 1..k : F(i) = ""
  BY DEF Whole
<1>8. \A i : i \in 1..(k + 1) <=> i \in 1..k \/ i = k + 1
  OBVIOUS
<1> HIDE DEF p, two, q, F, Fin
<1>9. q.failure = "" <=> \A i \in 1..(k + 1) : F(i) = ""
  BY <1>6, <1>7, <1>8
<1>10. q.finished <=> \E i \in 1..(k + 1) : Fin(i)
  BY <1>6, <1>7, <1>8, Zenon
<1> QED BY <1>6, <1>9, <1>10 DEF Whole, q, F, Fin

LEMMA WholeEvents ==
    ASSUME StreamLimits, NEW r \in Outputs, NEW k \in 0..Len(r.events)
    PROVE  Whole(r, k)
<1> DEFINE n == Len(r.events)
           G == {j \in Nat : j <= n => Whole(r, j)}
<1>1. n \in Nat
  BY OutPieces
<1>2. 0 \in G
  <2>1. Been(r, 0) = Stream!Parser /\ 3 * 0 = 0 /\ 1..0 = {}
    BY ReadOn
  <2> DEFINE p == Been(r, 3 * 0)
  <2>2. p.partial = <<>> /\ ~p.finished /\ p.failure = ""
    <3>1. p = Stream!Parser
      BY <2>1, Zenon
    <3> HIDE DEF p
    <3> QED BY <3>1 DEF Stream!Parser
  <2>3. Whole(r, 0)
    <3> HIDE DEF p
    <3>1. /\ p.partial = <<>>
          /\ p.finished <=> \E i \in 1..0 : Stream!Finishes(r.cli, r.events[i])
          /\ p.failure = "" <=> \A i \in 1..0 : Stream!FailureOf(r.cli, r.events[i]) = ""
      BY <2>1, <2>2, Zenon
    <3> QED BY <3>1 DEF Whole, p
  <2> QED BY <2>3
<1>3. ASSUME NEW j \in G PROVE j + 1 \in G
  <2>1. CASE j + 1 <= n
    <3>1. j \in 0..(n - 1) /\ Whole(r, j)
      BY <1>1, <2>1
    <3>2. Whole(r, j + 1)
      BY <3>1, WholeNext
    <3> QED BY <3>2
  <2>2. CASE ~(j + 1 <= n)
    BY <2>2
  <2> QED BY <2>1, <2>2
<1>4. G = Nat
  <2>1. G \subseteq Nat
    OBVIOUS
  <2> HIDE DEF G
  <2> QED BY <1>2, <1>3, <2>1, Induction
<1>5. k \in G /\ k <= n
  BY <1>1, <1>4
<1> QED BY <1>5

\* What is known after m pieces, read to the end or not.
LEMMA Known ==
    ASSUME StreamLimits, NEW r \in Outputs, NEW m \in 0..Len(Out(r)),
           NEW q \in {Been(r, m), Stream!Ended(Been(r, m), r.cli)}
    PROVE  /\ (\E i \in 1..(m \div 3) : Stream!Finishes(r.cli, r.events[i])) => q.finished
           /\ q.finished => \E i \in DOMAIN r.events : Stream!Finishes(r.cli, r.events[i])
           /\ q.failure = "" => \A i \in 1..(m \div 3) : Stream!FailureOf(r.cli, r.events[i]) = ""
           /\ q.failure # "" => \E i \in DOMAIN r.events : Stream!FailureOf(r.cli, r.events[i]) # ""
<1> DEFINE n == Len(r.events)
           k == m \div 3
           F(i) == Stream!FailureOf(r.cli, r.events[i])
           Fin(i) == Stream!Finishes(r.cli, r.events[i])
           p == Been(r, m)
           w == Been(r, 3 * k)
<1>1. /\ n \in Nat /\ Len(Out(r)) = 3 * n /\ DOMAIN r.events = 1..n
      /\ k \in 0..n /\ m \in {3 * k, 3 * k + 1, 3 * k + 2} /\ (m # 3 * k => k \in 0..(n - 1))
  <2>1. n \in Nat /\ Len(Out(r)) = 3 * n /\ DOMAIN r.events = 1..n
    BY OutPieces DEF StreamLimits
  <2> QED BY <2>1
<1>2. Whole(r, k)
  BY <1>1, WholeEvents
<1>3. p \in Parsers
  BY ReadOn
<1>4. /\ p.failure = w.failure /\ p.finished = w.finished
      /\ Len(p.partial) = 2 => k + 1 \in 1..n /\ p.partial[1][1] = r.events[k + 1]
  <2>1. CASE m = 3 * k
    <3>1. p = w /\ p.partial = <<>> /\ Len(<<>>) = 0
      BY <1>2, <2>1 DEF Whole
    <3> HIDE DEF p, w
    <3>2. Len(p.partial) = 0
      BY <3>1
    <3> QED BY <3>1, <3>2
  <2>2. CASE m # 3 * k
    <3>1. k \in 0..(n - 1) /\ (m = 3 * k + 1 \/ m = 3 * k + 2) /\ k + 1 \in 1..n
      <4> HIDE DEF k, n
      <4> QED BY <1>1, <2>2
    <3> HIDE DEF k
    <3> QED BY <1>2, <3>1, HalfRead
  <2> QED BY <2>1, <2>2
<1>5. /\ q.failure = w.failure \/ (w.failure = "" /\ k + 1 \in 1..n /\ q.failure = F(k + 1))
      /\ (q.finished <=> w.finished) \/ (k + 1 \in 1..n /\ (q.finished <=> (w.finished \/ Fin(k + 1))))
  <2>1. CASE q = p
    BY <1>4, <2>1
  <2>2. CASE q = Stream!Ended(p, r.cli)
    <3> HIDE DEF p, w, n, k
    <3>1. /\ Len(p.partial) # 2 => q.failure = p.failure /\ q.finished = p.finished
          /\ Len(p.partial) = 2 =>
                /\ q.failure = IF p.failure = "" THEN Stream!FailureOf(r.cli, p.partial[1][1]) ELSE p.failure
                /\ q.finished = (p.finished \/ Stream!Finishes(r.cli, p.partial[1][1]))
      BY <1>3, <2>2, EndedFacts
    <3>2. CASE Len(p.partial) # 2
      <4>1. q.failure = w.failure /\ q.finished = w.finished
        BY <1>4, <3>1, <3>2
      <4> HIDE DEF F, Fin
      <4> QED BY <4>1
    <3>3. CASE Len(p.partial) = 2
      <4>1. p.partial[1][1] = r.events[k + 1] /\ k + 1 \in 1..n
        BY <1>4, <3>3
      <4>2. q.failure = IF w.failure = "" THEN F(k + 1) ELSE w.failure
        BY <1>4, <3>1, <3>3, <4>1
      <4>3. q.finished = (w.finished \/ Fin(k + 1))
        BY <1>4, <3>1, <3>3, <4>1
      <4> HIDE DEF F, Fin
      <4>4. q.failure = w.failure \/ (w.failure = "" /\ q.failure = F(k + 1))
        BY <4>2
      <4> QED BY <4>1, <4>3, <4>4
    <3> QED BY <3>2, <3>3
  <2> QED BY <2>1, <2>2
<1>6. /\ w.finished <=> \E i \in 1..k : Fin(i)
      /\ w.failure = "" <=> \A i \in 1..k : F(i) = ""
  BY <1>2 DEF Whole
<1>7. \A i \in 1..k : i \in 1..n
  BY <1>1
<1> HIDE DEF n, k, F, Fin, p, w
<1>8. /\ (\E i \in 1..k : Fin(i)) => q.finished
      /\ q.finished => \E i \in 1..n : Fin(i)
  BY <1>5, <1>6, <1>7, Zenon
<1>9. /\ q.failure = "" => \A i \in 1..k : F(i) = ""
      /\ q.failure # "" => \E i \in 1..n : F(i) # ""
  <2>1. CASE q.failure = w.failure
    BY <1>6, <1>7, <2>1
  <2>2. CASE w.failure = "" /\ k + 1 \in 1..n /\ q.failure = F(k + 1)
    BY <1>6, <2>2
  <2> QED BY <1>5, <2>1, <2>2
<1> QED BY <1>1, <1>8, <1>9 DEF n, k, F, Fin

\* The cursor has read the output up to its offset, and to its end once it is ended.
CursorFits(r, c, w) ==
    /\ c = [offset |-> c.offset, parser |-> c.parser, ended |-> c.ended]
    /\ c.offset \in 0..w /\ c.ended \in BOOLEAN
    /\ c.parser = IF c.ended THEN Stream!Ended(Been(r, c.offset), r.cli) ELSE Been(r, c.offset)

\* The exit file is put in place as the CLI ends, and a look at it is not undone.
StreamInv ==
    /\ launch \in Outputs /\ written \in 0..Len(Out(launch))
    /\ {alive, timeoutFile, stopRequested} \subseteq BOOLEAN
    /\ exitFile \in {0, 1, Stream!NoExit} /\ looking \in {0, 1, Stream!NoExit, Stream!NotLooking}
    /\ exitFile # Stream!NoExit => ~alive
    /\ looking \in {0, 1} => exitFile = looking
    /\ Len(seen.progress) <= PROGRESS_LINES
    /\ CursorFits(launch, cursor, written)

\* What the parser is at the end of the log.
AtEnd(r, w) == Stream!Ended(Been(r, w), r.cli)

\* What was read to its end is all there is.
EarnedInv ==
    /\ cursor.ended => ~alive /\ cursor.offset = written
    /\ seen.status = "succeeded" =>
          /\ exitFile = 0 /\ ~timeoutFile /\ ~stopRequested
          /\ AtEnd(launch, written).finished /\ AtEnd(launch, written).failure = ""

\* The verdict is the one anybody would come to who looks now.
FinalInv ==
    /\ looking \in {exitFile, Stream!NotLooking}
    /\ seen.status \in Stream!Over =>
          /\ ~alive
          /\ seen.status = Stream!Status(exitFile, FALSE, AtEnd(launch, written))
          /\ seen.termination = Stream!Termination(seen.status)

-----------------------------------------------------------------------------

LEMMA LogFrom ==
    ASSUME StreamInv, StreamLimits, NEW m \in 0..written
    PROVE  SubSeq(Stream!Log, m + 1, written) = SubSeq(Out(launch), m + 1, written)
<1> DEFINE o == Out(launch)
           g == SubSeq(o, 1, written)
           n == written - m
<1>1. o \in Seq(Pieces) /\ written \in 0..Len(o) /\ n \in Nat /\ written \in Nat /\ Len(o) \in Nat
  BY OutPieces DEF StreamInv
<1>2. Stream!Log = g
  BY DEF Stream!Log, Stream!Output, Out
<1> HIDE DEF o
<1>3. g \in Seq(Pieces) /\ Len(g) = written /\ \A i \in 1..written : g[i] = o[i]
  <2>1. /\ g \in Seq(Pieces) /\ Len(g) = IF 1 <= written THEN written - 1 + 1 ELSE 0
        /\ \A i \in 1..(written - 1 + 1) : g[i] = o[1 + i - 1]
    <3>1. 1 \in 1..(Len(o) + 1) /\ written \in (1 - 1)..Len(o)
      BY <1>1
    <3> HIDE DEF Pieces
    <3> QED BY <1>1, <3>1, SubSeqProperties
  <2>2. (IF 1 <= written THEN written - 1 + 1 ELSE 0) = written /\ written - 1 + 1 = written
        /\ \A i \in 1..written : 1 + i - 1 = i
    BY <1>1
  <2> HIDE DEF g
  <2> QED BY <2>1, <2>2
<1>4. /\ SubSeq(o, m + 1, written) \in Seq(Pieces) /\ Len(SubSeq(o, m + 1, written)) = n
      /\ \A i \in 1..n : SubSeq(o, m + 1, written)[i] = o[m + i]
  <2>1. /\ SubSeq(o, m + 1, written) \in Seq(Pieces)
        /\ Len(SubSeq(o, m + 1, written)) = IF m + 1 <= written THEN written - (m + 1) + 1 ELSE 0
        /\ \A i \in 1..(written - (m + 1) + 1) : SubSeq(o, m + 1, written)[i] = o[m + 1 + i - 1]
    <3>1. m + 1 \in 1..(Len(o) + 1) /\ written \in (m + 1 - 1)..Len(o)
      BY <1>1
    <3> HIDE DEF Pieces
    <3> QED BY <1>1, <3>1, SubSeqProperties
  <2>2. (IF m + 1 <= written THEN written - (m + 1) + 1 ELSE 0) = n /\ written - (m + 1) + 1 = n
        /\ \A i \in 1..n : m + 1 + i - 1 = m + i
    BY <1>1
  <2> HIDE DEF n
  <2> QED BY <2>1, <2>2
<1> HIDE DEF g
<1>5. /\ SubSeq(g, m + 1, written) \in Seq(Pieces) /\ Len(SubSeq(g, m + 1, written)) = n
      /\ \A i \in 1..n : SubSeq(g, m + 1, written)[i] = g[m + i]
  <2>1. /\ SubSeq(g, m + 1, written) \in Seq(Pieces)
        /\ Len(SubSeq(g, m + 1, written)) = IF m + 1 <= written THEN written - (m + 1) + 1 ELSE 0
        /\ \A i \in 1..(written - (m + 1) + 1) : SubSeq(g, m + 1, written)[i] = g[m + 1 + i - 1]
    <3>1. m + 1 \in 1..(Len(g) + 1) /\ written \in (m + 1 - 1)..Len(g)
      BY <1>1, <1>3
    <3> HIDE DEF Pieces
    <3> QED BY <1>3, <3>1, SubSeqProperties
  <2>2. (IF m + 1 <= written THEN written - (m + 1) + 1 ELSE 0) = n /\ written - (m + 1) + 1 = n
        /\ \A i \in 1..n : m + 1 + i - 1 = m + i
    BY <1>1
  <2> HIDE DEF n
  <2> QED BY <2>1, <2>2
<1>6. \A i \in 1..n : m + i \in 1..written
  BY <1>1
<1> DEFINE a == SubSeq(g, m + 1, written)
           b == SubSeq(o, m + 1, written)
<1>7. a \in Seq(Pieces) /\ b \in Seq(Pieces) /\ Len(a) = n /\ Len(b) = n /\ \A i \in 1..n : a[i] = b[i]
  <2> HIDE DEF n
  <2> QED BY <1>3, <1>4, <1>5, <1>6
<1> HIDE DEF a, b, n
<1>8. a = b
  <2>1. Len(a) = Len(b) /\ \A i \in 1..Len(a) : a[i] = b[i]
    BY <1>7
  <2> HIDE DEF Pieces
  <2> QED BY <1>7, <2>1, SeqEqual
<1> QED BY <1>2, <1>8 DEF a, b, o

\* streamSummary goes on from where it stopped.
LEMMA SummaryFits ==
    ASSUME StreamInv, StreamLimits, NEW exited \in BOOLEAN
    PROVE  /\ CursorFits(launch, Stream!Summarized(exited), written)
           /\ Len(Stream!Summarized(exited).parser.lines) <= PROGRESS_LINES
           /\ cursor.ended => Stream!Summarized(exited) = cursor
           /\ ~cursor.ended => /\ Stream!Summarized(exited).offset = written
                               /\ Stream!Summarized(exited).ended = exited
<1> DEFINE c == Stream!Summarized(exited)
           N == Len(Out(launch))
<1>1. /\ launch \in Outputs /\ written \in 0..N /\ CursorFits(launch, cursor, written) /\ N \in Nat
      /\ cursor.offset \in 0..written /\ written \in Nat
  BY OutPieces DEF StreamInv, CursorFits
<1>2. /\ CursorFits(launch, c, written)
      /\ cursor.ended => c = cursor
      /\ ~cursor.ended => c.offset = written /\ c.ended = exited
  <2>1. CASE cursor.ended
    <3>1. c = cursor
      BY <2>1 DEF Stream!Summarized
    <3> HIDE DEF c
    <3> QED BY <1>1, <2>1, <3>1
  <2>2. CASE ~cursor.ended
    <3> DEFINE m == cursor.offset
               b == Been(launch, written)
               x == IF exited THEN Stream!Ended(b, launch.cli) ELSE b
    <3>1. cursor.parser = Been(launch, m) /\ m \in 0..written
      BY <1>1, <2>2 DEF CursorFits
    <3>2. Stream!Pushed(cursor.parser, launch.cli, SubSeq(Stream!Log, m + 1, written)) = b
      <4>1. SubSeq(Stream!Log, m + 1, written) = SubSeq(Out(launch), m + 1, written)
        BY <3>1, LogFrom
      <4>2. m \in 0..N /\ written \in m..N
        BY <1>1, <3>1
      <4>3. Stream!Pushed(Been(launch, m), launch.cli, SubSeq(Out(launch), m + 1, written)) = b
        <5> HIDE DEF m
        <5> QED BY <1>1, <4>2, ReadOn
      <4> QED BY <3>1, <4>1, <4>3
    <3>3. c = [offset |-> written, parser |-> x, ended |-> exited]
      BY <2>2, <3>2 DEF Stream!Summarized
    <3> HIDE DEF c, b
    <3>4. c.offset = written /\ c.parser = x /\ c.ended = exited
          /\ c = [offset |-> c.offset, parser |-> c.parser, ended |-> c.ended]
      BY <3>3
    <3>5. CursorFits(launch, c, written)
      BY <1>1, <3>4 DEF CursorFits, b
    <3> QED BY <2>2, <3>4, <3>5
  <2> QED BY <2>1, <2>2
<1> HIDE DEF c
<1>3. c.parser \in Parsers
  <2>1. c.offset \in 0..N
    BY <1>1, <1>2 DEF CursorFits
  <2> DEFINE b == Been(launch, c.offset)
  <2>2. b \in Parsers
    BY <1>1, <2>1, ReadOn
  <2>3. c.parser = b \/ c.parser = Stream!Ended(b, launch.cli)
    BY <1>2 DEF CursorFits
  <2> HIDE DEF b
  <2> QED BY <2>2, <2>3, EndedFacts
<1>4. Len(c.parser.lines) <= PROGRESS_LINES
  BY <1>3 DEF Parsers
<1> QED BY <1>2, <1>4 DEF c

LEMMA StreamStarts ==
    ASSUME StreamLimits, Stream!Init
    PROVE  StreamInv /\ EarnedInv /\ FinalInv
<1>1. /\ launch \in Outputs /\ written = 0 /\ alive = TRUE /\ exitFile = Stream!NoExit
      /\ timeoutFile = FALSE /\ stopRequested = FALSE
      /\ cursor = Stream!NoCursor /\ looking = Stream!NotLooking /\ seen = Stream!NothingSeen
  BY DEF Stream!Init
<1>2. Len(Out(launch)) \in Nat /\ Been(launch, 0) = Stream!Parser
  BY <1>1, OutPieces, ReadOn
<1>3. /\ cursor.offset = 0 /\ cursor.ended = FALSE /\ cursor.parser = Stream!Parser
      /\ cursor = [offset |-> cursor.offset, parser |-> cursor.parser, ended |-> cursor.ended]
  BY <1>1 DEF Stream!NoCursor
<1>4. CursorFits(launch, cursor, written)
  <2>1. Been(launch, cursor.offset) = cursor.parser
    BY <1>2, <1>3
  <2>2. cursor.offset \in 0..written /\ cursor.ended \in BOOLEAN /\ ~cursor.ended
    <3>1. cursor.ended \in BOOLEAN /\ ~cursor.ended
      BY <1>3, Zenon
    <3>2. cursor.offset \in 0..written
      BY <1>1, <1>3
    <3> QED BY <3>1, <3>2
  <2> QED BY <1>3, <2>1, <2>2, Zenon DEF CursorFits
<1>5. Len(seen.progress) <= PROGRESS_LINES /\ seen.status = "none"
  <2>1. Len(<<>>) = 0
    OBVIOUS
  <2> QED BY <1>1, <2>1 DEF Stream!NothingSeen, StreamLimits
<1>6. StreamInv
  <2>1. {alive, timeoutFile, stopRequested} \subseteq BOOLEAN
    BY <1>1, Zenon
  <2>2. written \in 0..Len(Out(launch)) /\ ~(looking \in {0, 1}) /\ exitFile = Stream!NoExit
    BY <1>1, <1>2 DEF Stream!NotLooking
  <2> QED BY <2>1, <2>2, <1>1, <1>4, <1>5, Zenon DEF StreamInv
<1>7. EarnedInv /\ FinalInv
  BY <1>1, <1>3, <1>5 DEF EarnedInv, FinalInv, Stream!Over
<1> QED BY <1>6, <1>7

\* More output leaves what was read as it was.
LEMMA MoreWritten ==
    ASSUME StreamLimits, StreamInv, [Stream!Next]_Stream!vars
    PROVE  StreamInv'
<1>1. /\ launch \in Outputs /\ written \in 0..Len(Out(launch)) /\ Len(Out(launch)) \in Nat
      /\ {alive, timeoutFile, stopRequested} \subseteq BOOLEAN
      /\ exitFile \in {0, 1, Stream!NoExit} /\ looking \in {0, 1, Stream!NoExit, Stream!NotLooking}
      /\ exitFile # Stream!NoExit => ~alive
      /\ looking \in {0, 1} => exitFile = looking
      /\ Len(seen.progress) <= PROGRESS_LINES /\ CursorFits(launch, cursor, written)
  BY OutPieces DEF StreamInv
<1>2. CASE UNCHANGED Stream!vars
  BY <1>1, <1>2 DEF StreamInv, Stream!vars
<1>3. CASE Stream!Writes
  <2>1. /\ written' = written + 1 /\ written < Len(Stream!Output)
        /\ UNCHANGED <<launch, alive, exitFile, timeoutFile, stopRequested, cursor, looking, seen>>
    BY <1>3 DEF Stream!Writes
  <2>2. Stream!Output = Out(launch)
    BY DEF Stream!Output, Out
  <2>3. written' \in 0..Len(Out(launch)) /\ \A m \in 0..written : m \in 0..written'
    BY <1>1, <2>1, <2>2
  <2>4. CursorFits(launch, cursor, written')
    BY <1>1, <2>3 DEF CursorFits
  <2> QED BY <1>1, <2>1, <2>3, <2>4 DEF StreamInv
<1>4. ASSUME NEW code \in {0, 1}, Stream!Exits(code) PROVE StreamInv'
  <2>1. /\ alive /\ alive' = FALSE /\ exitFile' = code
        /\ UNCHANGED <<launch, written, timeoutFile, stopRequested, cursor, looking, seen>>
    BY <1>4 DEF Stream!Exits
  <2>2. looking \notin {0, 1}
    BY <1>1, <2>1 DEF Stream!NoExit
  <2> QED BY <1>1, <2>1, <2>2 DEF StreamInv
<1>5. CASE Stream!LimitFires
  BY <1>1, <1>5 DEF StreamInv, Stream!LimitFires
<1>6. CASE Stream!Killed
  BY <1>1, <1>6 DEF StreamInv, Stream!Killed
<1>7. CASE Stream!Stop
  BY <1>1, <1>7 DEF StreamInv, Stream!Stop
<1>8. CASE Stream!Looks
  <2>1. /\ looking' = exitFile
        /\ UNCHANGED <<launch, written, alive, exitFile, timeoutFile, stopRequested, cursor, seen>>
    BY <1>8 DEF Stream!Looks
  <2> QED BY <1>1, <2>1 DEF StreamInv
<1>9. CASE Stream!Says
  <2> DEFINE running == looking = Stream!NoExit /\ alive
             c == Stream!Summarized(~running)
  <2>1. /\ cursor' = c /\ seen'.progress = c.parser.lines /\ looking' = Stream!NotLooking
        /\ UNCHANGED <<launch, written, alive, exitFile, timeoutFile, stopRequested>>
    BY <1>9 DEF Stream!Says
  <2>2. CursorFits(launch, c, written) /\ Len(c.parser.lines) <= PROGRESS_LINES
    <3>1. (~running) \in BOOLEAN
      <4> DEFINE exited == ~running
      <4>1. exited = TRUE \/ exited = FALSE
        BY <1>1
      <4> HIDE DEF exited
      <4>2. exited \in BOOLEAN
        BY <4>1
      <4> QED BY <4>2 DEF exited
    <3> HIDE DEF running
    <3> QED BY <3>1, SummaryFits
  <2> HIDE DEF c
  <2> QED BY <1>1, <2>1, <2>2 DEF StreamInv, Stream!NotLooking
<1>10. CASE Stream!Restarts
  <2>1. /\ cursor' = Stream!NoCursor /\ looking' = Stream!NotLooking
        /\ UNCHANGED <<launch, written, alive, exitFile, timeoutFile, stopRequested, seen>>
    BY <1>10 DEF Stream!Restarts
  <2>2. Been(launch, 0) = Stream!Parser /\ 0 \in 0..written
    BY <1>1, ReadOn
  <2>3. CursorFits(launch, Stream!NoCursor, written)
    BY <2>2 DEF CursorFits, Stream!NoCursor
  <2> QED BY <1>1, <2>1, <2>3 DEF StreamInv, Stream!NotLooking
<1> QED BY <1>2, <1>3, <1>4, <1>5, <1>6, <1>7, <1>8, <1>9, <1>10 DEF Stream!Next

LEMMA StreamTypes == ASSUME StreamLimits PROVE Stream!Spec => []StreamInv
<1>1. Stream!Init => StreamInv
  BY StreamStarts
<1>2. StreamInv /\ [Stream!Next]_Stream!vars => StreamInv'
  BY MoreWritten
<1> QED BY <1>1, <1>2, PTL DEF Stream!Spec

\* However the views cut the output, what has been read is parsed as if it had come at once.
THEOREM ParsedAsOneHolds == ASSUME StreamLimits PROVE Stream!Spec => []Stream!ParsedAsOne
<1>1. ASSUME StreamInv PROVE Stream!ParsedAsOne
  <2> DEFINE m == cursor.offset
             q == cursor.parser
  <2>1. /\ launch \in Outputs /\ m \in 0..Len(Out(launch)) /\ Len(Out(launch)) \in Nat
        /\ q = IF cursor.ended THEN Stream!Ended(Been(launch, m), launch.cli) ELSE Been(launch, m)
    BY <1>1, OutPieces DEF StreamInv, CursorFits
  <2>2. Stream!Pushed(Stream!Parser, launch.cli, SubSeq(Stream!Output, 1, m)) = Been(launch, m)
    BY DEF Been, Stream!Output, Out
  <2>3. q \in {Been(launch, m), Stream!Ended(Been(launch, m), launch.cli)}
    BY <2>1
  <2> HIDE DEF m, q
  <2>4. /\ (\E i \in 1..(m \div 3) : Stream!Finishes(launch.cli, launch.events[i])) => q.finished
        /\ q.failure # "" => \E i \in DOMAIN launch.events : Stream!FailureOf(launch.cli, launch.events[i]) # ""
    BY <2>1, <2>3, Known
  <2>5. (\E e \in {launch.events[i] : i \in 1..(m \div 3)} : Stream!Finishes(launch.cli, e)) => q.finished
    BY <2>4
  <2> QED BY <2>1, <2>2, <2>4, <2>5 DEF Stream!ParsedAsOne, m, q
<1>2. StreamInv => Stream!ParsedAsOne
  BY <1>1
<1> QED BY <1>2, StreamTypes, PTL

\* What is said when the CLI may not write any more.
LEMMA EndsRead ==
    ASSUME StreamLimits, StreamInv, EarnedInv, looking # Stream!NoExit \/ ~alive, ~alive
    PROVE  /\ Stream!Summarized(TRUE).parser = AtEnd(launch, written)
           /\ Stream!Summarized(TRUE).ended /\ Stream!Summarized(TRUE).offset = written
<1> DEFINE c == Stream!Summarized(TRUE)
<1>1. /\ CursorFits(launch, c, written) /\ (cursor.ended => c = cursor)
      /\ ~cursor.ended => c.offset = written /\ c.ended
  BY SummaryFits
<1> HIDE DEF c
<1>2. c.ended /\ c.offset = written
  BY <1>1 DEF EarnedInv
<1> QED BY <1>1, <1>2 DEF CursorFits, AtEnd, c

LEMMA EarnedNext ==
    ASSUME StreamLimits, ~Stragglers, StreamInv, EarnedInv, [Stream!Next]_Stream!vars
    PROVE  EarnedInv'
<1>1. /\ exitFile # Stream!NoExit => ~alive
      /\ looking \in {0, 1} => exitFile = looking
      /\ looking \in {0, 1, Stream!NoExit, Stream!NotLooking}
      /\ exitFile = 0 => ~alive
  BY DEF StreamInv, Stream!NoExit
<1>2. CASE UNCHANGED Stream!vars
  BY <1>2 DEF EarnedInv, Stream!vars
<1>3. CASE Stream!Writes
  <2>1. alive /\ UNCHANGED <<launch, alive, exitFile, timeoutFile, stopRequested, cursor, looking, seen>>
    BY <1>3 DEF Stream!Writes
  <2>2. seen.status # "succeeded" /\ ~cursor.ended
    BY <1>1, <2>1 DEF EarnedInv
  <2> QED BY <2>1, <2>2 DEF EarnedInv
<1>4. ASSUME NEW code \in {0, 1}, Stream!Exits(code) PROVE EarnedInv'
  <2>1. alive /\ ~alive' /\ UNCHANGED <<launch, written, timeoutFile, stopRequested, cursor, looking, seen>>
    BY <1>4 DEF Stream!Exits
  <2>2. seen.status # "succeeded"
    BY <1>1, <2>1 DEF EarnedInv
  <2> QED BY <2>1, <2>2 DEF EarnedInv
<1>5. CASE Stream!LimitFires
  <2>1. alive /\ UNCHANGED <<launch, written, alive, exitFile, stopRequested, cursor, looking, seen>>
    BY <1>5 DEF Stream!LimitFires
  <2>2. seen.status # "succeeded"
    BY <1>1, <2>1 DEF EarnedInv
  <2> QED BY <2>1, <2>2 DEF EarnedInv
<1>6. CASE Stream!Killed
  <2>1. /\ alive /\ ~alive'
        /\ UNCHANGED <<launch, written, exitFile, timeoutFile, stopRequested, cursor, looking, seen>>
    BY <1>6 DEF Stream!Killed
  <2> QED BY <2>1 DEF EarnedInv
<1>7. CASE Stream!Stop
  <2>1. alive /\ UNCHANGED <<launch, written, alive, exitFile, timeoutFile, cursor, looking, seen>>
    BY <1>7 DEF Stream!Stop
  <2>2. seen.status # "succeeded"
    BY <1>1, <2>1 DEF EarnedInv
  <2> QED BY <2>1, <2>2 DEF EarnedInv
<1>8. CASE Stream!Looks
  BY <1>8 DEF EarnedInv, Stream!Looks
<1>9. CASE Stream!Says
  <2> DEFINE running == looking = Stream!NoExit /\ alive
             c == Stream!Summarized(~running)
             q == c.parser
  <2>1. /\ looking # Stream!NotLooking
        /\ cursor' = c /\ seen'.status = Stream!Status(looking, running, q)
        /\ UNCHANGED <<launch, written, alive, exitFile, timeoutFile, stopRequested>>
    BY <1>9 DEF Stream!Says
  <2>2. CASE alive
    <3>1. running /\ looking = Stream!NoExit
      BY <1>1, <2>1, <2>2 DEF Stream!NoExit
    <3>2. cursor'.ended = FALSE
      <4>1. ~cursor.ended
        BY <2>2 DEF EarnedInv
      <4>2. (~running) = FALSE
        BY <3>1
      <4>3. Stream!Summarized(FALSE).ended = FALSE
        BY <4>1, SummaryFits
      <4> HIDE DEF running
      <4> QED BY <2>1, <4>2, <4>3
    <3>3. seen'.status # "succeeded"
      <4>1. Stream!Status(looking, running, q) # "succeeded"
        <5> HIDE DEF running, q
        <5> QED BY <3>1 DEF Stream!Status, Stream!NoExit
      <4> QED BY <2>1, <4>1
    <3> QED BY <3>2, <3>3 DEF EarnedInv
  <2>3. CASE ~alive
    <3>1. (~running) = TRUE /\ running = FALSE
      BY <2>3
    <3> HIDE DEF running
    <3>2. q = AtEnd(launch, written) /\ c.ended /\ c.offset = written
      BY <2>3, <3>1, EndsRead
    <3>3. ASSUME seen'.status = "succeeded"
          PROVE  /\ exitFile = 0 /\ ~timeoutFile /\ ~stopRequested
                 /\ q.finished /\ q.failure = ""
      <4> HIDE DEF q
      <4>1. Stream!Status(looking, FALSE, q) = "succeeded"
        BY <2>1, <3>1, <3>3
      <4>2. looking = 0 /\ ~timeoutFile /\ ~stopRequested /\ Stream!ProtocolFailure(q, looking) = ""
        BY <4>1 DEF Stream!Status, Stream!NoExit
      <4>3. q.failure = "" /\ q.finished
        BY <4>2 DEF Stream!ProtocolFailure
      <4> QED BY <1>1, <4>2, <4>3
    <3> HIDE DEF c, q
    <3>4. cursor'.ended => ~alive' /\ cursor'.offset = written'
      BY <2>1, <2>3, <3>2
    <3> QED BY <2>1, <3>2, <3>3, <3>4 DEF EarnedInv
  <2> QED BY <2>2, <2>3
<1>10. CASE Stream!Restarts
  <2>1. /\ cursor' = Stream!NoCursor
        /\ UNCHANGED <<launch, written, alive, exitFile, timeoutFile, stopRequested, seen>>
    BY <1>10 DEF Stream!Restarts
  <2>2. cursor'.ended = FALSE
    BY <2>1 DEF Stream!NoCursor
  <2> QED BY <2>1, <2>2 DEF EarnedInv
<1> QED BY <1>2, <1>3, <1>4, <1>5, <1>6, <1>7, <1>8, <1>9, <1>10 DEF Stream!Next

LEMMA EarnedHolds ==
    ASSUME StreamLimits, ~Stragglers
    PROVE  Stream!Spec => [](StreamInv /\ EarnedInv)
<1>1. Stream!Init => StreamInv /\ EarnedInv
  BY StreamStarts
<1>2. StreamInv /\ EarnedInv /\ [Stream!Next]_Stream!vars => (StreamInv /\ EarnedInv)'
  BY MoreWritten, EarnedNext
<1> QED BY <1>1, <1>2, PTL DEF Stream!Spec

\* A launch is called succeeded only when the CLI ended by itself with 0, within its limit, and its
\* stream came to its last event without a failure.
THEOREM SuccessIsEarnedHolds ==
    ASSUME StreamLimits, ~Stragglers
    PROVE  Stream!Spec => []Stream!SuccessIsEarned
<1>1. ASSUME StreamInv, EarnedInv PROVE Stream!SuccessIsEarned
  <2> SUFFICES ASSUME seen.status = "succeeded" PROVE Stream!SuccessIsEarned
    BY DEF Stream!SuccessIsEarned
  <2> DEFINE q == AtEnd(launch, written)
  <2>1. /\ exitFile = 0 /\ ~timeoutFile /\ ~stopRequested /\ q.finished /\ q.failure = ""
    BY <1>1 DEF EarnedInv
  <2>2. launch \in Outputs /\ written \in 0..Len(Out(launch))
        /\ q \in {Been(launch, written), Stream!Ended(Been(launch, written), launch.cli)}
    BY <1>1 DEF StreamInv, AtEnd
  <2> HIDE DEF q
  <2>3. /\ q.finished => \E i \in DOMAIN launch.events : Stream!Finishes(launch.cli, launch.events[i])
        /\ q.failure = "" => \A i \in 1..(written \div 3) : Stream!FailureOf(launch.cli, launch.events[i]) = ""
    BY <2>2, Known
  <2> QED BY <2>1, <2>3 DEF Stream!SuccessIsEarned
<1>2. StreamInv /\ EarnedInv => Stream!SuccessIsEarned
  BY <1>1
<1> QED BY <1>2, EarnedHolds, PTL

LEMMA FinalNext ==
    ASSUME StreamLimits, ~Stragglers, ~TornViews, StreamInv, EarnedInv, FinalInv, [Stream!Next]_Stream!vars
    PROVE  FinalInv' /\ (Stream!KeepsVerdict \/ UNCHANGED Stream!vars)
<1>1. /\ exitFile # Stream!NoExit => ~alive
      /\ looking \in {exitFile, Stream!NotLooking}
  BY DEF StreamInv, FinalInv
<1>2. CASE UNCHANGED Stream!vars
  BY <1>2 DEF FinalInv, Stream!vars, Stream!Status, Stream!Termination, Stream!Over
<1>3. ASSUME alive, UNCHANGED seen, looking' \in {exitFile', Stream!NotLooking}
      PROVE  FinalInv' /\ Stream!KeepsVerdict
  <2>1. seen.status \notin Stream!Over
    BY <1>3 DEF FinalInv
  <2> QED BY <1>3, <2>1 DEF FinalInv, Stream!KeepsVerdict
<1>4. CASE Stream!Writes
  BY <1>1, <1>3, <1>4 DEF Stream!Writes
<1>5. ASSUME NEW code \in {0, 1}, Stream!Exits(code) PROVE FinalInv' /\ Stream!KeepsVerdict
  BY <1>3, <1>5 DEF Stream!Exits, Stream!Untouched
<1>6. CASE Stream!LimitFires
  BY <1>1, <1>3, <1>6 DEF Stream!LimitFires
<1>7. CASE Stream!Killed
  BY <1>1, <1>3, <1>7 DEF Stream!Killed
<1>8. CASE Stream!Stop
  BY <1>1, <1>3, <1>8 DEF Stream!Stop
<1>9. ASSUME UNCHANGED <<launch, written, alive, exitFile, timeoutFile, stopRequested, seen>>,
             looking' \in {exitFile, Stream!NotLooking}
      PROVE  FinalInv' /\ Stream!KeepsVerdict
  <2>1. (seen.status = Stream!Status(exitFile, FALSE, AtEnd(launch, written)))' <=>
        seen.status = Stream!Status(exitFile, FALSE, AtEnd(launch, written))
    BY <1>9 DEF Stream!Status
  <2>2. (seen.termination = Stream!Termination(seen.status))' <=>
        seen.termination = Stream!Termination(seen.status)
    BY <1>9 DEF Stream!Termination
  <2> QED BY <1>1, <1>9, <2>1, <2>2 DEF FinalInv, Stream!KeepsVerdict
<1>10. CASE Stream!Looks
  BY <1>9, <1>10 DEF Stream!Looks
<1>11. CASE Stream!Restarts
  BY <1>9, <1>11 DEF Stream!Restarts
<1>12. CASE Stream!Says
  <2> DEFINE running == looking = Stream!NoExit /\ alive
             c == Stream!Summarized(~running)
             q == c.parser
  <2>1. /\ looking = exitFile /\ looking' = Stream!NotLooking
        /\ seen'.status = Stream!Status(looking, running, q)
        /\ seen'.termination = Stream!Termination(seen'.status)
        /\ UNCHANGED <<launch, written, alive, exitFile, timeoutFile, stopRequested>>
    BY <1>1, <1>12 DEF Stream!Says
  <2>2. CASE alive
    <3>1. running
      BY <1>1, <2>1, <2>2
    <3>2. Stream!Status(looking, running, q) \in {"stopping", "running"}
      <4> HIDE DEF q
      <4> QED BY <3>1 DEF Stream!Status, Stream!NoExit
    <3>3. seen'.status \notin Stream!Over
      BY <2>1, <3>2 DEF Stream!Over
    <3>4. seen.status \notin Stream!Over
      BY <2>2 DEF FinalInv
    <3> QED BY <2>1, <3>3, <3>4 DEF FinalInv, Stream!KeepsVerdict
  <2>3. CASE ~alive
    <3>1. (~running) = TRUE /\ running = FALSE
      BY <2>3
    <3> HIDE DEF running
    <3>2. q = AtEnd(launch, written)
      BY <2>3, <3>1, EndsRead
    <3> DEFINE s == Stream!Status(exitFile, FALSE, AtEnd(launch, written))
    <3>3. seen'.status = s /\ seen'.termination = Stream!Termination(s)
      BY <2>1, <3>1, <3>2
    <3>4. Stream!Status(exitFile, FALSE, AtEnd(launch, written))' = s
      <4> DEFINE e == AtEnd(launch, written)
      <4>1. Stream!Status(exitFile, FALSE, e)' = Stream!Status(exitFile, FALSE, e)
        <5>1. e' = e
          BY <2>1
        <5> HIDE DEF e
        <5> QED BY <2>1, <5>1 DEF Stream!Status, Stream!ProtocolFailure
      <4> QED BY <4>1
    <3>5. (seen.termination = Stream!Termination(seen.status))'
      <4>1. seen'.termination = Stream!Termination(seen'.status)
        BY <3>3
      <4> QED BY <2>1, <4>1 DEF Stream!Termination
    <3>6. FinalInv'
      <4>1. (seen.status = Stream!Status(exitFile, FALSE, AtEnd(launch, written)))'
        <5> HIDE DEF s
        <5> QED BY <3>3, <3>4
      <4>2. (~alive)' /\ (looking \in {exitFile, Stream!NotLooking})'
        BY <2>1, <2>3
      <4> QED BY <3>5, <4>1, <4>2 DEF FinalInv
    <3>7. Stream!KeepsVerdict
      <4> SUFFICES ASSUME seen.status \in Stream!Over
                   PROVE  seen'.status = seen.status /\ seen'.termination = seen.termination
        BY DEF Stream!KeepsVerdict
      <4>1. seen.status = s /\ seen.termination = Stream!Termination(seen.status)
        BY DEF FinalInv
      <4> HIDE DEF s
      <4> QED BY <3>3, <4>1
    <3> QED BY <3>6, <3>7
  <2> QED BY <2>2, <2>3
<1> QED BY <1>2, <1>4, <1>5, <1>6, <1>7, <1>8, <1>10, <1>11, <1>12 DEF Stream!Next

\* What the page has said of a launch that is over stays what it says, over restarts of the
\* dashboard too.
THEOREM VerdictIsFinalHolds ==
    ASSUME StreamLimits, ~Stragglers, ~TornViews
    PROVE  Stream!Spec => Stream!VerdictIsFinal
<1> DEFINE I == StreamInv /\ EarnedInv /\ FinalInv
<1>1. Stream!Init => I
  BY StreamStarts
<1>2. I /\ [Stream!Next]_Stream!vars => I'
  BY MoreWritten, EarnedNext, FinalNext
<1>3. I /\ [Stream!Next]_Stream!vars => [Stream!KeepsVerdict]_Stream!vars
  BY FinalNext
<1> QED BY <1>1, <1>2, <1>3, PTL DEF Stream!Spec, Stream!VerdictIsFinal

-----------------------------------------------------------------------------
(* The robots of the office (OfficeFloor) *)

CONSTANTS Tasks, Rooms, DeskLimit, Lounge, Drops, Counter, MaxActors, Reopens, MaxChanges
VARIABLES phase, rows, prev, actor, booted, changes

Floor == INSTANCE OfficeFloor

\* Tasks are numbered; a room is none of the names the model uses for other places.
FloorLimits ==
    /\ IsFiniteSet(Tasks) /\ Tasks = 1..Cardinality(Tasks)
    /\ Lounge \in Nat /\ Drops \in Nat /\ Counter \in Nat
    /\ Rooms \cap {"done", "aborted", "none", "aisle", ""} = {}

Around == Rooms \cup {"done", "aborted", "none", "aisle", ""}
Keys == {"none", "out", "seat", "overflow"} \X Around
Robots ==
    [at : {"nobody", "dead", "celebrate", "walk", "pickup", "throw", "sit", "rest", "shrink"},
     key : Keys, where : Around, target : Around,
     holds : {<<>>, <<"pickup">>, <<"throw">>}, end : {"rest", "shrink", "sit"},
     seat : Nat, drop : Nat, spot : Nat, delivering : BOOLEAN, left : BOOLEAN, origin : Around]
Places == [zone : Rooms \cup {"done", "aborted", "none"}, drawn : BOOLEAN]

LEMMA SameSize == \A S : Floor!Cardinality(S) = Cardinality(S)
BY DEF Floor!Cardinality, Cardinality

LEMMA TaskCount == ASSUME FloorLimits PROVE Floor!Cardinality(Tasks) \in Nat /\ Tasks = 1..Floor!Cardinality(Tasks)
BY SameSize, FS_CardinalityType DEF FloorLimits

LEMMA NobodyFacts ==
    /\ Floor!Nobody \in Robots /\ Floor!Nobody.at = "nobody"
    /\ Floor!Nobody.seat = 0 /\ Floor!Nobody.drop = 0 /\ Floor!Nobody.spot = 0 /\ ~Floor!Nobody.delivering
BY DEF Floor!Nobody, Robots, Keys, Around

LEMMA KeyFacts ==
    ASSUME NEW q \in Places
    PROVE  Floor!KeyOf(q) \in Keys
BY DEF Floor!KeyOf, Places, Keys, Around

LEMMA LowestFacts ==
    ASSUME NEW n \in Nat, NEW taken
    PROVE  Floor!LowestFree(n, taken) \in Nat /\ (Floor!LowestFree(n, taken) # 0 => Floor!LowestFree(n, taken) \notin taken)
<1> DEFINE free == 1..n \ taken
<1>1. CASE free = {}
  BY <1>1 DEF Floor!LowestFree
<1>2. CASE free # {}
  <2>1. free \in SUBSET Nat
    OBVIOUS
  <2>2. \E s \in free : \A u \in free : s <= u
    <3> HIDE DEF free
    <3> QED BY <1>2, <2>1, LeastNat
  <2>3. Floor!LowestFree(n, taken) \in free
    BY <1>2, <2>2 DEF Floor!LowestFree
  <2> QED BY <2>3
<1> QED BY <1>1, <1>2

LEMMA FreshFacts ==
    ASSUME NEW a \in Robots, NEW q \in Places, NEW f, f = Floor!Fresh(a, q)
    PROVE  /\ f \in Robots /\ f.at = "nobody" /\ f.key = Floor!KeyOf(q) /\ f.where = a.where /\ f.target = q.zone
           /\ f.holds = <<>> /\ f.end = "rest" /\ f.seat = 0 /\ f.drop = 0 /\ f.spot = 0
           /\ ~f.delivering /\ f.left = a.left /\ f.origin = a.origin
<1> DEFINE r == Floor!Nobody
<1>1. /\ r \in Robots /\ r.at = "nobody" /\ r.holds = <<>> /\ r.end = "rest"
      /\ r.seat = 0 /\ r.drop = 0 /\ r.spot = 0 /\ r.delivering = FALSE
  BY NobodyFacts DEF Floor!Nobody
<1> HIDE DEF r
<1>2. f = [r EXCEPT !.key = Floor!KeyOf(q), !.where = a.where, !.left = a.left, !.origin = a.origin, !.target = q.zone]
  BY DEF Floor!Fresh, r
<1>3. Floor!KeyOf(q) \in Keys /\ q.zone \in Around
  BY KeyFacts DEF Places, Around
<1>4. a.where \in Around /\ a.left \in BOOLEAN /\ a.origin \in Around
  BY DEF Robots
<1>5. f \in Robots
  BY <1>1, <1>2, <1>3, <1>4 DEF Robots
<1> QED BY <1>1, <1>2, <1>5 DEF Robots

\* A route as officeMove.ts plans it, and how it begins.
LEMMA StartedFacts ==
    ASSUME NEW a \in Robots, NEW p \in Places, NEW q \in Places, NEW spot \in Nat, NEW drop \in Nat, NEW seat \in Nat,
           NEW joins \in BOOLEAN, NEW move,
           NEW b, b = Floor!Started(a, p, q, move, spot, drop, seat, joins)
    PROVE  /\ b \in Robots /\ b.at # "nobody"
           /\ b.seat \in {0, seat} /\ b.drop \in {0, drop} /\ b.spot \in {0, spot}
           /\ b.at = "dead" => b.seat = 0 /\ b.drop = 0 /\ b.spot = 0
<1> DEFINE f == Floor!Fresh(a, q)
<1>0. /\ f \in Robots /\ f.seat = 0 /\ f.drop = 0 /\ f.spot = 0
      /\ p.zone \in Around /\ q.zone \in Around /\ a.where \in Around
  <2> HIDE DEF f
  <2>1. f = Floor!Fresh(a, q)
    BY DEF f
  <2>2. f \in Robots /\ f.seat = 0 /\ f.drop = 0 /\ f.spot = 0
    BY <2>1, FreshFacts
  <2>3. p.zone \in Around /\ q.zone \in Around /\ a.where \in Around
    BY DEF Robots, Places, Around
  <2> QED BY <2>2, <2>3
<1> HIDE DEF f
<1> USE DEF Robots
<1>1. CASE move = "place"
  <2>1. b = IF q.drawn THEN [f EXCEPT !.at = "rest", !.where = q.zone] ELSE [f EXCEPT !.at = "dead"]
    BY <1>1 DEF Floor!Started, f
  <2> QED BY <1>0, <2>1
<1>2. CASE move = "vanish"
  <2>1. b = [f EXCEPT !.at = "shrink"]
    BY <1>2 DEF Floor!Started, f
  <2> QED BY <1>0, <2>1
<1>3. CASE move \in {"enter", "overflow"}
  <2>1. PICK end \in {"rest", "shrink"}, where \in Around, holds \in {<<>>, <<"pickup">>}, s \in {0, spot} :
           b = [f EXCEPT !.at = "walk", !.end = end, !.where = where, !.holds = holds, !.spot = s]
    BY <1>3, <1>0 DEF Floor!Started, f, Around
  <2>2. s \in Nat /\ end \in {"rest", "shrink"} /\ where \in Around /\ holds \in {<<>>, <<"pickup">>}
    OBVIOUS
  <2>3. b \in Robots /\ b.at = "walk" /\ b.seat = 0 /\ b.drop = 0 /\ b.spot = s
    BY <1>0, <2>1, <2>2
  <2> QED BY <2>3
<1>5. CASE move = "walk"
  <2>1. PICK where \in Around : b = [f EXCEPT !.at = "walk", !.where = where]
    BY <1>5, <1>0 DEF Floor!Started, f
  <2> QED BY <1>0, <2>1
<1>6. CASE move = "throw"
  <2>1. PICK where \in Around, holds \in {<<>>, <<"throw">>} :
           b = [f EXCEPT !.at = "walk", !.end = "shrink", !.where = where, !.origin = p.zone, !.delivering = TRUE,
                         !.drop = drop, !.holds = holds]
    BY <1>6, <1>0 DEF Floor!Started, f
  <2> QED BY <1>0, <2>1
<1>7. CASE move \notin {"place", "vanish", "enter", "overflow", "walk", "throw"}
  <2>1. PICK where \in Around, end \in {"shrink", "sit"} :
           b = [f EXCEPT !.at = "celebrate", !.where = where, !.origin = p.zone, !.delivering = TRUE, !.seat = seat, !.end = end]
    BY <1>7, <1>0 DEF Floor!Started, f
  <2> QED BY <1>0, <2>1
<1> QED BY <1>1, <1>2, <1>3, <1>5, <1>6, <1>7

\* One stage further only gives places back.
LEMMA AdvancedFacts ==
    ASSUME NEW a \in Robots, NEW b, b = Floor!Advanced(a)
    PROVE  /\ b \in Robots
           /\ b.seat \in {0, a.seat} /\ b.drop \in {0, a.drop} /\ b.spot \in {0, a.spot}
           /\ a.at # "dead" => b.at # "dead"
           /\ b.at = "nobody" => b = Floor!Nobody \/ b = a
<1> USE DEF Robots
<1>1. CASE a.at = "celebrate"
  BY <1>1 DEF Floor!Advanced
<1>2. CASE a.at = "walk"
  <2>1. CASE a.where # "aisle"
    BY <1>2, <2>1 DEF Floor!Advanced, Around
  <2>2. CASE a.where = "aisle" /\ a.holds # <<>>
    <3>1. Head(a.holds) \in {"pickup", "throw"}
      BY <2>2
    <3>2. b = [a EXCEPT !.at = Head(a.holds), !.holds = <<>>]
      BY <1>2, <2>2 DEF Floor!Advanced
    <3> QED BY <3>1, <3>2
  <2>3. CASE a.where = "aisle" /\ a.holds = <<>>
    BY <1>2, <2>3 DEF Floor!Advanced
  <2> QED BY <2>1, <2>2, <2>3
<1>3. CASE a.at = "pickup"
  BY <1>3 DEF Floor!Advanced
<1>4. CASE a.at = "throw"
  BY <1>4 DEF Floor!Advanced
<1>5. CASE a.at = "sit"
  BY <1>5 DEF Floor!Advanced
<1>6. CASE a.at = "shrink"
  <2>1. b = Floor!Nobody
    BY <1>6 DEF Floor!Advanced
  <2>2. Floor!Nobody \in Robots /\ Floor!Nobody.at = "nobody" /\ Floor!Nobody.seat = 0 /\ Floor!Nobody.drop = 0 /\ Floor!Nobody.spot = 0
    BY NobodyFacts
  <2> QED BY <2>1, <2>2
<1>7. CASE a.at \in {"nobody", "dead", "rest"}
  BY <1>7 DEF Floor!Advanced
<1> QED BY <1>1, <1>2, <1>3, <1>4, <1>5, <1>6, <1>7

Idle(a) ==
    /\ a.at \in {"nobody", "dead"} => a.seat = 0 /\ a.drop = 0 /\ a.spot = 0
    /\ a.at = "nobody" => a = Floor!Nobody
Apart(all) ==
    \A t, u \in Tasks : t # u =>
        /\ all[t].seat # 0 => all[t].seat # all[u].seat
        /\ all[t].drop # 0 => all[t].drop # all[u].drop
        /\ all[t].spot # 0 => all[t].spot # all[u].spot
Crews == {all \in [Tasks -> Robots] : (\A t \in Tasks : Idle(all[t])) /\ Apart(all)}

\* What a frame makes of one robot: it stays as it is or sets out for q.
SetsOut(all, t, q, snap, joins, b, spot, drop, seat) ==
    /\ b = Floor!Started(Floor!Was(all[t]), prev[t], q, Floor!Move(prev[t], q, snap), spot, drop, seat, joins)
    /\ spot \in Nat /\ (spot # 0 => spot \notin Floor!TakenSpots(all))
    /\ drop \in Nat /\ (drop # 0 => drop \notin Floor!TakenDrops(all))
    /\ seat \in Nat /\ (seat # 0 => seat \notin Floor!TakenSeats(all, t))
Becomes(all, t, q, snap, joins, b) ==
    IF Floor!Stays(all, t, q, snap) THEN b = Floor!Was(all[t])
    ELSE \E spot, drop, seat : SetsOut(all, t, q, snap, joins, b, spot, drop, seat)

LEMMA SyncedIs ==
    ASSUME FloorLimits, NEW all, NEW t, NEW q, NEW snap, NEW joins
    PROVE  \E b : Floor!Synced(all, t, q, snap, joins) = [all EXCEPT ![t] = b] /\ Becomes(all, t, q, snap, joins, b)
<1> DEFINE a == Floor!Was(all[t])
           move == Floor!Move(prev[t], q, snap)
           spot == IF Floor!Collects(prev[t], q, move) /\ ~snap
                   THEN Floor!LowestFree(Counter, Floor!TakenSpots(all)) ELSE 0
           drop == IF move = "throw" THEN Floor!LowestFree(Drops, Floor!TakenDrops(all)) ELSE 0
           seat == Floor!LowestFree(Lounge, Floor!TakenSeats(all, t))
           b == IF Floor!Stays(all, t, q, snap) THEN a ELSE Floor!Started(a, prev[t], q, move, spot, drop, seat, joins)
<1>1. Floor!Synced(all, t, q, snap, joins) = [all EXCEPT ![t] = b]
  BY DEF Floor!Synced
<1>2. /\ spot \in Nat /\ (spot # 0 => spot \notin Floor!TakenSpots(all))
      /\ drop \in Nat /\ (drop # 0 => drop \notin Floor!TakenDrops(all))
      /\ seat \in Nat /\ (seat # 0 => seat \notin Floor!TakenSeats(all, t))
  BY LowestFacts DEF FloorLimits
<1> HIDE DEF spot, drop, seat
<1>3. ~Floor!Stays(all, t, q, snap) => SetsOut(all, t, q, snap, joins, b, spot, drop, seat)
  BY <1>2 DEF SetsOut
<1>4. Becomes(all, t, q, snap, joins, b)
  BY <1>3 DEF Becomes
<1> HIDE DEF b
<1> QED BY <1>1, <1>4

LEMMA SyncedKeeps ==
    ASSUME FloorLimits, NEW all \in Crews, NEW t \in Tasks, NEW q \in Places, prev[t] \in Places,
           NEW snap \in BOOLEAN, NEW joins \in BOOLEAN
    PROVE  Floor!Synced(all, t, q, snap, joins) \in Crews
<1>1. PICK b : Floor!Synced(all, t, q, snap, joins) = [all EXCEPT ![t] = b] /\ Becomes(all, t, q, snap, joins, b)
  BY SyncedIs
<1>2. all \in [Tasks -> Robots] /\ all[t] \in Robots /\ Apart(all) /\ \A u \in Tasks : Idle(all[u])
  BY DEF Crews
<1>3. Floor!Was(all[t]) \in Robots /\ Idle(Floor!Was(all[t]))
  BY <1>2, NobodyFacts DEF Floor!Was, Idle
<1>4. /\ b \in Robots /\ Idle(b)
      /\ \A u \in Tasks \ {t} :
           /\ b.seat # 0 => b.seat # all[u].seat
           /\ b.drop # 0 => b.drop # all[u].drop
           /\ b.spot # 0 => b.spot # all[u].spot
  <2>1. CASE Floor!Stays(all, t, q, snap)
    <3>1. b = Floor!Was(all[t])
      BY <1>1, <2>1 DEF Becomes
    <3>2. CASE all[t].at = "dead"
      <4>1. b = Floor!Nobody
        BY <3>1, <3>2 DEF Floor!Was
      <4>2. b \in Robots /\ b.seat = 0 /\ b.drop = 0 /\ b.spot = 0
        BY <4>1, NobodyFacts
      <4> QED BY <4>1, <4>2 DEF Idle
    <3>3. CASE all[t].at # "dead"
      <4>1. b = all[t]
        BY <3>1, <3>3 DEF Floor!Was
      <4> QED BY <1>2, <4>1 DEF Apart
    <3> QED BY <3>2, <3>3
  <2>2. CASE ~Floor!Stays(all, t, q, snap)
    <3>1. PICK spot, drop, seat : SetsOut(all, t, q, snap, joins, b, spot, drop, seat)
      BY <1>1, <2>2 DEF Becomes
    <3>2. /\ b \in Robots /\ b.at # "nobody"
          /\ b.seat \in {0, seat} /\ b.drop \in {0, drop} /\ b.spot \in {0, spot}
          /\ b.at = "dead" => b.seat = 0 /\ b.drop = 0 /\ b.spot = 0
      <4> DEFINE w == Floor!Was(all[t])
                 m == Floor!Move(prev[t], q, snap)
                 p == prev[t]
      <4>1. w \in Robots /\ p \in Places /\ spot \in Nat /\ drop \in Nat /\ seat \in Nat
            /\ b = Floor!Started(w, p, q, m, spot, drop, seat, joins)
        BY <1>3, <3>1 DEF SetsOut
      <4> HIDE DEF w, m, p
      <4> QED BY <4>1, StartedFacts
    <3>3. ASSUME NEW u \in Tasks \ {t}
          PROVE  /\ b.seat # 0 => b.seat # all[u].seat
                 /\ b.drop # 0 => b.drop # all[u].drop
                 /\ b.spot # 0 => b.spot # all[u].spot
      <4>1. CASE Floor!Alive(all[u])
        <5>1. /\ all[u].seat \in Floor!TakenSeats(all, t)
              /\ all[u].drop \in Floor!TakenDrops(all)
              /\ all[u].spot \in Floor!TakenSpots(all)
          BY <4>1 DEF Floor!TakenSeats, Floor!TakenDrops, Floor!TakenSpots
        <5> QED BY <3>1, <3>2, <5>1 DEF SetsOut
      <4>2. CASE ~Floor!Alive(all[u])
        <5>1. all[u].seat = 0 /\ all[u].drop = 0 /\ all[u].spot = 0
          BY <1>2, <4>2 DEF Floor!Alive, Idle
        <5> QED BY <5>1
      <4> QED BY <4>1, <4>2
    <3> QED BY <3>2, <3>3 DEF Idle
  <2> QED BY <2>1, <2>2
<1> DEFINE new == [all EXCEPT ![t] = b]
<1>5. new \in [Tasks -> Robots] /\ new[t] = b /\ \A u \in Tasks \ {t} : new[u] = all[u]
  BY <1>2, <1>4
<1> HIDE DEF new
<1>6. \A u \in Tasks : Idle(new[u])
  BY <1>2, <1>4, <1>5
<1>7. Apart(new)
  <2>1. SUFFICES ASSUME NEW u \in Tasks, NEW v \in Tasks, u # v
        PROVE /\ new[u].seat # 0 => new[u].seat # new[v].seat
              /\ new[u].drop # 0 => new[u].drop # new[v].drop
              /\ new[u].spot # 0 => new[u].spot # new[v].spot
    BY DEF Apart
  <2>2. CASE u = t
    BY <1>4, <1>5, <2>1, <2>2
  <2>3. CASE v = t
    BY <1>4, <1>5, <2>1, <2>3
  <2>4. CASE u # t /\ v # t
    BY <1>2, <1>5, <2>1, <2>4 DEF Apart
  <2> QED BY <2>2, <2>3, <2>4
<1>8. new \in Crews
  BY <1>5, <1>6, <1>7 DEF Crews
<1> QED BY <1>1, <1>8 DEF new

Turns(f, marked, place, snap, joins) ==
    /\ f \in [0..(2 * Floor!Cardinality(Tasks)) -> Crews] /\ f[0] = marked
    /\ \A i \in 1..(2 * Floor!Cardinality(Tasks)) : f[i] = Floor!Turn(f[i - 1], i, place, snap, joins)
    /\ Floor!AllSynced(marked, place, snap, joins) = f[2 * Floor!Cardinality(Tasks)]

LEMMA TurnOf ==
    ASSUME FloorLimits, NEW i \in 1..(2 * Floor!Cardinality(Tasks))
    PROVE  Floor!Tasked(i) \in Tasks
<1> DEFINE n == Floor!Cardinality(Tasks)
<1>1. n \in Nat /\ Tasks = 1..n
  BY TaskCount
<1>2. Floor!Tasked(i) = IF i <= n THEN i ELSE i - n
  BY DEF Floor!Tasked
<1> HIDE DEF n
<1>3. i \in 1..(2 * n)
  BY DEF n
<1> QED BY <1>1, <1>2, <1>3

LEMMA FrameTurns ==
    ASSUME FloorLimits, NEW marked \in Crews, NEW place \in [Tasks -> Places], prev \in [Tasks -> Places],
           NEW snap \in BOOLEAN, NEW joins \in [Tasks -> BOOLEAN]
    PROVE  \E f : Turns(f, marked, place, snap, joins)
<1> DEFINE n == 2 * Floor!Cardinality(Tasks)
           D == [i \in 1..n |-> [x \in Crews |-> Floor!Turn(x, i, place, snap, joins)]]
           Body(r, i) == IF i = 0 THEN marked ELSE Floor!Turn(r[i - 1], i, place, snap, joins)
           R(r) == r = [i \in 0..n |-> Body(r, i)]
           g == CHOOSE r : R(r)
<1>0. n \in Nat
  <2>1. Floor!Cardinality(Tasks) \in Nat
    BY TaskCount
  <2> QED BY <2>1
<1>1. D \in [1..n -> [Crews -> Crews]]
  <2>1. ASSUME NEW i \in 1..n, NEW x \in Crews PROVE Floor!Turn(x, i, place, snap, joins) \in Crews
    <3>1. Floor!Tasked(i) \in Tasks
      BY TurnOf
    <3>2. place[Floor!Tasked(i)] \in Places /\ prev[Floor!Tasked(i)] \in Places /\ joins[Floor!Tasked(i)] \in BOOLEAN
      BY <3>1
    <3>3. Floor!Synced(x, Floor!Tasked(i), place[Floor!Tasked(i)], snap, joins[Floor!Tasked(i)]) \in Crews
      BY <3>1, <3>2, SyncedKeeps
    <3> QED BY <3>3 DEF Floor!Turn
  <2> QED BY <2>1
<1>3. PICK f \in [0..n -> Crews] : f[0] = marked /\ \A i \in 1..n : f[i] = D[i][f[i - 1]]
  <2>1. Stepwise(n, Crews, marked, D)
    BY <1>0, <1>1 DEF Stepwise
  <2>2. PICK f : Comes(f, n, Crews, marked, D)
    <3> HIDE DEF n, D
    <3> QED BY <2>1, Iterates
  <2> QED BY <2>2 DEF Comes
<1>4. f[0] = marked /\ \A i \in 1..n : f[i] = Floor!Turn(f[i - 1], i, place, snap, joins)
  <2>1. ASSUME NEW i \in 1..n PROVE f[i] = Floor!Turn(f[i - 1], i, place, snap, joins)
    <3>1. f[i - 1] \in Crews
      BY <1>0, <2>1
    <3> QED BY <1>3, <3>1
  <2> QED BY <1>3, <2>1
<1>5. \A i \in 0..n : f[i] = Body(f, i)
  <2>1. \A i \in 0..n : i = 0 \/ i \in 1..n
    BY <1>0
  <2> QED BY <1>4, <2>1
<1>6. R(f)
  <2> HIDE DEF Body, n
  <2> QED BY <1>5
<1>7. Floor!AllSynced(marked, place, snap, joins) = g[n]
  BY DEF Floor!AllSynced
<1>8. R(g)
  <2> HIDE DEF R
  <2> QED BY <1>6
<1> HIDE DEF g
<1>9. g = [i \in 0..n |-> g[i]] /\ \A i \in 0..n : g[i] = Body(g, i)
  <2> HIDE DEF Body, n
  <2> QED BY <1>8
<1>10. g[0] = f[0]
  <2>1. 0 \in 0..n /\ Body(g, 0) = marked
    BY <1>0
  <2> QED BY <1>4, <1>9, <2>1
<1>11. ASSUME NEW i \in 1..n, g[i - 1] = f[i - 1] PROVE g[i] = f[i]
  <2>1. i \in 0..n /\ i # 0
    BY <1>0
  <2> QED BY <1>4, <1>9, <1>11, <2>1
<1>12. g = f
  <2>1. f = [i \in 0..n |-> f[i]]
    OBVIOUS
  <2>2. Alike(f, g, n)
    <3> HIDE DEF Body, n, R
    <3> QED BY <1>0, <1>9, <1>10, <1>11, <2>1 DEF Alike
  <2> HIDE DEF n, Body, R
  <2> QED BY <2>2, SameSteps
<1>13. Turns(f, marked, place, snap, joins)
  BY <1>4, <1>7, <1>12 DEF Turns
<1> QED BY <1>13

-----------------------------------------------------------------------------
(* The invariant: what the spots need. *)

FloorTypes ==
    /\ phase \in [Tasks -> Rooms \cup {"done", "aborted", "none"}]
    /\ prev \in [Tasks -> Places] /\ actor \in Crews
    /\ \A t \in Tasks : actor[t].at # "dead"

\* A frame, taken apart.
FrameOf(snap, go, marked, place, joins) ==
    /\ marked = [t \in Tasks |-> Floor!Marked(actor[t])]
    /\ rows' = [z \in Rooms |-> Floor!RowOf(z, marked)]
    /\ place = [t \in Tasks |-> Floor!Place(t, rows')] /\ prev' = place
    /\ joins \in [Tasks -> BOOLEAN]
    /\ actor' = [t \in Tasks |->
          LET s == Floor!AllSynced(marked, place, snap, joins)[t]
          IN  IF s.at = "dead" THEN Floor!Nobody ELSE IF t \in go THEN Floor!Advanced(s) ELSE s]
    /\ booted' = TRUE /\ UNCHANGED <<phase, changes>>

LEMMA FrameIs ==
    ASSUME NEW snap, NEW go, Floor!Frame(snap, BOOLEAN, go)
    PROVE  \E marked, place, joins : FrameOf(snap, go, marked, place, joins)
BY DEF Floor!Frame, FrameOf

LEMMA MarkedFacts ==
    ASSUME FloorTypes, NEW marked, marked = [t \in Tasks |-> Floor!Marked(actor[t])]
    PROVE  /\ marked \in Crews
           /\ \A t \in Tasks : /\ marked[t] = actor[t] \/ (/\ actor[t].delivering /\ actor[t].where # actor[t].origin
                                                         /\ marked[t] = [actor[t] EXCEPT !.left = TRUE])
                               /\ actor[t].delivering /\ actor[t].where # actor[t].origin => marked[t].left
                               /\ marked[t].at # "dead"
<1>0. actor \in [Tasks -> Robots] /\ Apart(actor)
  BY DEF FloorTypes, Crews
<1>1. ASSUME NEW t \in Tasks
      PROVE  /\ marked[t] \in Robots /\ marked[t].at = actor[t].at
             /\ marked[t].seat = actor[t].seat /\ marked[t].drop = actor[t].drop /\ marked[t].spot = actor[t].spot
             /\ marked[t] = actor[t] \/ (/\ actor[t].delivering /\ actor[t].where # actor[t].origin
                                         /\ marked[t] = [actor[t] EXCEPT !.left = TRUE])
             /\ actor[t].delivering /\ actor[t].where # actor[t].origin => marked[t].left
             /\ actor[t] = Floor!Nobody => marked[t] = Floor!Nobody
  <2>1. actor[t] \in Robots /\ marked[t] = Floor!Marked(actor[t])
    BY <1>0
  <2>2. actor[t] = Floor!Nobody => marked[t] = Floor!Nobody
    BY <2>1, NobodyFacts DEF Floor!Marked
  <2> QED BY <2>1, <2>2 DEF Floor!Marked, Robots
<1>2. marked \in [Tasks -> Robots]
  <2>1. marked = [t \in Tasks |-> marked[t]]
    OBVIOUS
  <2> QED BY <1>1, <2>1
<1>3. \A t \in Tasks : Idle(marked[t])
  BY <1>1 DEF FloorTypes, Crews, Idle
<1>4. Apart(marked)
  BY <1>0, <1>1 DEF Apart
<1> QED BY <1>1, <1>2, <1>3, <1>4 DEF Crews, FloorTypes

LEMMA PlaceTypes ==
    ASSUME FloorTypes, NEW r, NEW place, place = [t \in Tasks |-> Floor!Place(t, r)]
    PROVE  place \in [Tasks -> Places]
<1>1. ASSUME NEW t \in Tasks PROVE Floor!Place(t, r) \in Places
  <2>1. phase[t] \in Rooms \cup {"done", "aborted", "none"}
    BY DEF FloorTypes
  <2> DEFINE d == phase[t] \in Rooms /\ t \in Floor!Desired(phase[t]) /\ t \in r[phase[t]]
  <2>2. d \in BOOLEAN
    OBVIOUS
  <2>3. Floor!Place(t, r) = [zone |-> phase[t], drawn |-> d]
    BY DEF Floor!Place
  <2> HIDE DEF d
  <2> QED BY <2>1, <2>2, <2>3 DEF Places
<1> QED BY <1>1

LEMMA FrameKeepsTypes ==
    ASSUME FloorLimits, FloorTypes, NEW snap \in BOOLEAN, NEW go, Floor!Frame(snap, BOOLEAN, go)
    PROVE  FloorTypes'
<1>1. PICK marked, place, joins : FrameOf(snap, go, marked, place, joins)
  BY FrameIs
<1>2. marked \in Crews
  <2>1. marked = [t \in Tasks |-> Floor!Marked(actor[t])]
    BY <1>1 DEF FrameOf
  <2> QED BY <2>1, MarkedFacts
<1>3. place \in [Tasks -> Places]
  <2>1. place = [t \in Tasks |-> Floor!Place(t, rows')]
    BY <1>1 DEF FrameOf
  <2> QED BY <2>1, PlaceTypes
<1> DEFINE all == Floor!AllSynced(marked, place, snap, joins)
<1>4. all \in Crews
  <2>1. prev \in [Tasks -> Places] /\ joins \in [Tasks -> BOOLEAN]
    BY <1>1 DEF FloorTypes, FrameOf
  <2>2. PICK f : Turns(f, marked, place, snap, joins)
    BY <1>2, <1>3, <2>1, FrameTurns
  <2>3. 2 * Floor!Cardinality(Tasks) \in 0..(2 * Floor!Cardinality(Tasks))
    <3>1. Floor!Cardinality(Tasks) \in Nat
      BY TaskCount
    <3> QED BY <3>1
  <2> QED BY <2>2, <2>3 DEF Turns
<1> HIDE DEF all
<1>5. all \in [Tasks -> Robots] /\ Apart(all) /\ \A t \in Tasks : Idle(all[t])
  BY <1>4 DEF Crews
<1>6. ASSUME NEW t \in Tasks
      PROVE  /\ actor'[t] \in Robots /\ actor'[t].at # "dead" /\ (actor'[t].at = "nobody" => actor'[t] = Floor!Nobody)
             /\ actor'[t].seat \in {0, all[t].seat} /\ actor'[t].drop \in {0, all[t].drop} /\ actor'[t].spot \in {0, all[t].spot}
  <2>1. actor'[t] = IF all[t].at = "dead" THEN Floor!Nobody ELSE IF t \in go THEN Floor!Advanced(all[t]) ELSE all[t]
    BY <1>1 DEF FrameOf, all
  <2>2. all[t] \in Robots /\ (all[t].at = "nobody" => all[t] = Floor!Nobody)
    BY <1>5 DEF Idle
  <2>3. Floor!Nobody \in Robots /\ Floor!Nobody.at = "nobody"
        /\ Floor!Nobody.seat = 0 /\ Floor!Nobody.drop = 0 /\ Floor!Nobody.spot = 0
    BY NobodyFacts
  <2>4. CASE all[t].at = "dead"
    BY <2>1, <2>3, <2>4
  <2>5. CASE all[t].at # "dead" /\ t \in go
    <3>1. actor'[t] = Floor!Advanced(all[t])
      BY <2>1, <2>5
    <3>2. /\ actor'[t] \in Robots
          /\ actor'[t].seat \in {0, all[t].seat} /\ actor'[t].drop \in {0, all[t].drop} /\ actor'[t].spot \in {0, all[t].spot}
          /\ actor'[t].at # "dead" /\ (actor'[t].at = "nobody" => actor'[t] = Floor!Nobody \/ actor'[t] = all[t])
      BY <2>2, <2>5, <3>1, AdvancedFacts
    <3> QED BY <2>2, <3>2
  <2>6. CASE all[t].at # "dead" /\ t \notin go
    BY <2>1, <2>2, <2>6
  <2> QED BY <2>4, <2>5, <2>6
<1>7. actor' \in [Tasks -> Robots] /\ \A t \in Tasks : Idle(actor'[t])
  <2>1. actor' = [t \in Tasks |-> actor'[t]]
    BY <1>1 DEF FrameOf
  <2>2. ASSUME NEW t \in Tasks PROVE Idle(actor'[t])
    <3>1. CASE actor'[t].at = "nobody"
      BY <1>6, <3>1, NobodyFacts DEF Idle
    <3>2. CASE actor'[t].at # "nobody"
      BY <1>6, <3>2 DEF Idle
    <3> QED BY <3>1, <3>2
  <2> QED BY <1>6, <2>1, <2>2
<1>8. Apart(actor')
  BY <1>5, <1>6 DEF Apart
<1>9. phase' = phase /\ prev' = place
  BY <1>1 DEF FrameOf
<1> QED BY <1>3, <1>6, <1>7, <1>8, <1>9 DEF FloorTypes, Crews

LEMMA FloorStarts == ASSUME Floor!Init PROVE FloorTypes
<1>1. Floor!Nobody \in Robots /\ Floor!Nobody.at = "nobody"
      /\ Floor!Nobody.seat = 0 /\ Floor!Nobody.drop = 0 /\ Floor!Nobody.spot = 0
  BY NobodyFacts
<1>2. \A t \in Tasks : actor[t] = Floor!Nobody
  BY DEF Floor!Init
<1>3. actor \in [Tasks -> Robots] /\ (\A t \in Tasks : Idle(actor[t])) /\ Apart(actor)
  BY <1>1, <1>2 DEF Floor!Init, Idle, Apart
<1>4. prev \in [Tasks -> Places] /\ phase \in [Tasks -> Rooms \cup {"done", "aborted", "none"}]
  BY DEF Floor!Init, Floor!Nowhere, Places
<1> QED BY <1>1, <1>2, <1>3, <1>4 DEF FloorTypes, Crews

LEMMA ChangesKeepTypes ==
    ASSUME FloorTypes, NEW t \in Tasks, NEW p \in Rooms \cup Floor!Terminal \cup {"none"}, Floor!Changes(t, p)
    PROVE  FloorTypes'
<1>1. phase' = [phase EXCEPT ![t] = p] /\ prev' = prev /\ actor' = actor
  BY DEF Floor!Changes
<1>2. phase' \in [Tasks -> Rooms \cup {"done", "aborted", "none"}]
  BY <1>1 DEF FloorTypes, Floor!Terminal
<1>3. actor' \in Crews <=> actor \in Crews
  BY <1>1 DEF Crews
<1> QED BY <1>1, <1>2, <1>3 DEF FloorTypes

LEMMA FloorNext == ASSUME FloorLimits, FloorTypes, [Floor!Next]_Floor!vars PROVE FloorTypes'
<1>1. ASSUME NEW t \in Tasks, NEW p \in Rooms \cup Floor!Terminal \cup {"none"}, Floor!Changes(t, p) PROVE FloorTypes'
  BY <1>1, ChangesKeepTypes
<1>2. ASSUME NEW snap \in BOOLEAN, NEW go \in SUBSET Tasks, Floor!Frame(snap, BOOLEAN, go) PROVE FloorTypes'
  BY <1>2, FrameKeepsTypes
<1>3. CASE UNCHANGED Floor!vars
  BY <1>3 DEF Floor!vars, FloorTypes, Crews, Apart
<1> QED BY <1>1, <1>2, <1>3 DEF Floor!Next

\* No two robots are given one seat of the sofa, one drop spot or one pickup spot, in whatever
\* order their tasks change and their walks end.
THEOREM SpotsApartHolds == ASSUME FloorLimits PROVE Floor!Spec => []Floor!SpotsApart
<1>1. Floor!Init => FloorTypes
  BY FloorStarts
<1>2. FloorTypes /\ [Floor!Next]_Floor!vars => FloorTypes'
  BY FloorNext
<1>3. FloorTypes => Floor!SpotsApart
  BY DEF FloorTypes, Crews, Apart, Floor!SpotsApart
<1> QED BY <1>1, <1>2, <1>3, PTL DEF Floor!Spec

-----------------------------------------------------------------------------
(* The desk under each robot. *)

Leaving(a) == a.delivering \/ a.left
SeatedAt(q, t, ph, r) == q \in Places /\ q.zone = ph /\ (q.drawn => ph \in Rooms /\ t \in r[ph])

\* Where a robot stands in a room, its desk is in the row; but one on its way out counts as one
\* of the room it leaves.
Desked(a, t, r) ==
    \A z \in Rooms : Floor!Alive(a) /\ a.where = z /\ (Leaving(a) => a.origin = z) => t \in r[z]

\* A robot a, its task's last place p and where the task is now: a robot that is not being
\* taken away has the key of the place; one with a seat's key goes to the seat or is there; one
\* on its way out has left its room for good.
Fit(a, p, ph, boot) ==
    /\ a.at # "dead"
    /\ p.drawn => p.zone \in Rooms /\ Floor!Alive(a) /\ a.key = Floor!KeyOf(p)
    /\ Floor!Alive(a) /\ a.at # "shrink" => a.key = Floor!KeyOf(p)
    /\ Floor!Alive(a) /\ p.zone = "none" => a.at = "shrink" /\ a.key = <<"out", "none">>
    /\ Floor!Alive(a) /\ a.key[1] = "seat" =>
          a.end = "rest" /\ a.at \in {"walk", "pickup", "throw", "rest"} /\ a.key = <<"seat", a.target>>
    /\ Floor!Alive(a) /\ a.at # "shrink" /\ a.end = "rest" => a.key[1] = "seat"
    /\ a.at = "rest" => a.where = a.target /\ a.end = "rest"
    /\ a.at = "sit" => a.where = "aisle"
    /\ Leaving(a) => p.zone \notin Rooms /\ ph \notin Rooms
    /\ a.left => a.where # a.origin
    /\ a.origin \in Rooms \cup {""}
    /\ ~boot => a = Floor!Nobody /\ p = Floor!Nowhere

LEMMA KeyIs ==
    ASSUME FloorLimits, NEW q \in Places, q.drawn => q.zone \in Rooms, NEW k, k = Floor!KeyOf(q)
    PROVE  /\ q.drawn => k = <<"seat", q.zone>> /\ k[1] = "seat"
           /\ ~q.drawn => k[1] # "seat"
           /\ k[2] = q.zone
           /\ k = <<"out", "none">> <=> q.zone = "none"
BY DEF FloorLimits, Places, Floor!KeyOf, Floor!Terminal

LEMMA NobodyFits ==
    ASSUME NEW q \in Places, ~q.drawn, NEW ph
    PROVE  Fit(Floor!Nobody, q, ph, TRUE)
BY DEF Fit, Floor!Nobody, Floor!Alive, Leaving

LEMMA NobodyDesked == \A t, r : Desked(Floor!Nobody, t, r)
BY DEF Desked, Floor!Nobody, Floor!Alive

LEMMA MoveFacts ==
    ASSUME FloorLimits, NEW p \in Places, NEW q \in Places, p.drawn => p.zone \in Rooms, q.drawn => q.zone \in Rooms,
           NEW snap \in BOOLEAN, NEW move, move = Floor!Move(p, q, snap)
    PROVE  /\ move \in {"skip", "place", "enter", "overflow", "vanish", "deliver", "throw", "walk"}
           /\ move = "skip" => ~q.drawn /\ (~booted \/ (p.zone = "none" /\ q.zone # "none"))
           /\ move \in {"enter", "walk"} => q.drawn
           /\ move = "walk" => p.drawn
           /\ move = "overflow" => ~q.drawn /\ (q.zone \in Rooms \/ (p.zone = "none" /\ q.zone = "none"))
           /\ move \in {"deliver", "throw"} => p.drawn /\ q.zone \in {"done", "aborted"}
           /\ move = "vanish" => ~q.drawn
BY DEF FloorLimits, Places, Floor!Move, Floor!Terminal

\* How each plan begins.
Begins(a, p, q, move, b) ==
    /\ b \in Robots /\ b.key = Floor!KeyOf(q) /\ b.left = a.left /\ b.target = q.zone
    /\ move = "place" => /\ b.at = IF q.drawn THEN "rest" ELSE "dead"
                         /\ q.drawn => b.where = q.zone
    /\ move = "vanish" => b.at = "shrink" /\ b.where = a.where
    /\ move \in {"enter", "overflow", "walk", "throw"} => b.at = "walk"
    /\ move \in {"enter", "overflow"} =>
          b.where = IF Floor!Up(a) THEN a.where ELSE IF move = "overflow" /\ p.drawn THEN p.zone ELSE "aisle"
    /\ move \in {"walk", "throw", "deliver"} => b.where = IF Floor!Up(a) THEN a.where ELSE p.zone
    /\ move \in {"place", "vanish", "enter", "walk"} => b.end = "rest"
    /\ move \in {"overflow", "throw", "deliver"} => b.end # "rest"
    /\ move = "deliver" => b.at = "celebrate"
    /\ move \in {"throw", "deliver"} => b.delivering /\ b.origin = p.zone
    /\ move \notin {"throw", "deliver"} => ~b.delivering /\ b.origin = a.origin

LEMMA BegunFacts ==
    ASSUME NEW a \in Robots, NEW p \in Places, NEW q \in Places, NEW spot \in Nat, NEW drop \in Nat, NEW seat \in Nat,
           NEW joins \in BOOLEAN,
           NEW move \in {"place", "enter", "overflow", "vanish", "deliver", "throw", "walk"},
           NEW b, b = Floor!Started(a, p, q, move, spot, drop, seat, joins)
    PROVE  Begins(a, p, q, move, b)
<1> DEFINE f == Floor!Fresh(a, q)
<1>0. /\ f \in Robots /\ f.key = Floor!KeyOf(q) /\ f.left = a.left /\ f.target = q.zone /\ f.end = "rest"
      /\ f.where = a.where /\ f.origin = a.origin /\ ~f.delivering
      /\ p.zone \in Around /\ q.zone \in Around /\ a.where \in Around
  <2> HIDE DEF f
  <2>1. f = Floor!Fresh(a, q)
    BY DEF f
  <2>2. /\ f \in Robots /\ f.key = Floor!KeyOf(q) /\ f.left = a.left /\ f.target = q.zone /\ f.end = "rest"
        /\ f.where = a.where /\ f.origin = a.origin
    BY ONLY <2>1, FreshFacts, a \in Robots, q \in Places
  <2>4. ~f.delivering
    BY ONLY <2>1, FreshFacts, a \in Robots, q \in Places
  <2>3. p.zone \in Around /\ q.zone \in Around /\ a.where \in Around
    BY DEF Robots, Places, Around
  <2> QED BY <2>2, <2>3, <2>4
<1> HIDE DEF f
<1>8. b \in Robots
  BY StartedFacts
<1> USE DEF Robots, Begins
<1>1. CASE move = "place"
  <2>1. b = IF q.drawn THEN [f EXCEPT !.at = "rest", !.where = q.zone] ELSE [f EXCEPT !.at = "dead"]
    BY <1>1 DEF Floor!Started, f
  <2> QED BY <1>0, <1>1, <1>8, <2>1
<1>2. CASE move = "vanish"
  <2>1. b = [f EXCEPT !.at = "shrink"]
    BY <1>2 DEF Floor!Started, f
  <2> QED BY <1>0, <1>2, <1>8, <2>1
<1>3. CASE move \in {"enter", "overflow"}
  <2> DEFINE end == IF move = "enter" THEN "rest" ELSE "shrink"
             where == IF Floor!Up(a) THEN a.where ELSE IF move = "overflow" /\ p.drawn THEN p.zone ELSE "aisle"
  <2>1. PICK holds, s : b = [f EXCEPT !.at = "walk", !.end = end, !.where = where, !.holds = holds, !.spot = s]
    BY <1>3 DEF Floor!Started, f
  <2>2. b.at = "walk" /\ b.end = end /\ b.where = where /\ b.key = f.key /\ b.left = f.left /\ b.target = f.target
        /\ b.origin = f.origin /\ b.delivering = f.delivering
    <3> HIDE DEF end, where
    <3> QED BY <1>0, <2>1
  <2> QED BY <1>0, <1>3, <1>8, <2>2
<1>5. CASE move = "walk"
  <2> DEFINE where == IF Floor!Up(a) THEN a.where ELSE p.zone
  <2>1. b = [f EXCEPT !.at = "walk", !.where = where]
    BY <1>5 DEF Floor!Started, f
  <2>2. b.at = "walk" /\ b.where = where /\ b.end = f.end /\ b.key = f.key /\ b.left = f.left /\ b.target = f.target
        /\ b.origin = f.origin /\ b.delivering = f.delivering
    <3> HIDE DEF where
    <3> QED BY <1>0, <2>1
  <2> QED BY <1>0, <1>5, <1>8, <2>2
<1>6. CASE move = "throw"
  <2> DEFINE where == IF Floor!Up(a) THEN a.where ELSE p.zone
  <2>1. PICK holds :
           b = [f EXCEPT !.at = "walk", !.end = "shrink", !.where = where, !.origin = p.zone, !.delivering = TRUE,
                         !.drop = drop, !.holds = holds]
    BY <1>6 DEF Floor!Started, f
  <2>2. b.at = "walk" /\ b.where = where /\ b.end = "shrink" /\ b.key = f.key /\ b.left = f.left /\ b.target = f.target
        /\ b.origin = p.zone /\ b.delivering = TRUE
    <3> HIDE DEF where
    <3> QED BY <1>0, <2>1
  <2> QED BY <1>0, <1>6, <1>8, <2>2
<1>7. CASE move = "deliver"
  <2> DEFINE where == IF Floor!Up(a) THEN a.where ELSE p.zone
             end == IF seat = 0 THEN "shrink" ELSE "sit"
  <2>1. b = [f EXCEPT !.at = "celebrate", !.where = where, !.origin = p.zone, !.delivering = TRUE, !.seat = seat, !.end = end]
    BY <1>7 DEF Floor!Started, f
  <2>2. b.at = "celebrate" /\ b.where = where /\ b.end = end /\ b.key = f.key /\ b.left = f.left /\ b.target = f.target
        /\ b.origin = p.zone /\ b.delivering = TRUE
    <3> HIDE DEF where, end
    <3> QED BY <1>0, <2>1
  <2> QED BY <1>0, <1>7, <1>8, <2>2
<1> QED BY <1>1, <1>2, <1>3, <1>5, <1>6, <1>7

\* Setting out: the robot keeps its desk or has one of its own at the other end.
LEMMA BegunFits ==
    ASSUME FloorLimits, NEW t \in Tasks, NEW ph, NEW r, NEW a \in Robots, NEW p \in Places, NEW q, SeatedAt(q, t, ph, r),
           Fit(a, p, ph, booted), Idle(a), Desked(a, t, r), a.delivering => a.left \/ a.where = a.origin,
           NEW snap \in BOOLEAN, NEW move, move = Floor!Move(p, q, snap), move # "skip",
           NEW spot \in Nat, NEW drop \in Nat, NEW seat \in Nat, NEW joins \in BOOLEAN,
           move = "vanish" => a # Floor!Nobody, p.zone = "none" => q.zone # "none" \/ a.key # <<"out", "none">>,
           q.zone = "none" => a # Floor!Nobody,
           NEW b, b = Floor!Started(a, p, q, move, spot, drop, seat, joins)
    PROVE  IF b.at = "dead" THEN ~q.drawn ELSE Fit(b, q, ph, TRUE) /\ Desked(b, t, r)
<1>1. q \in Places /\ q.zone = ph /\ (q.drawn => ph \in Rooms /\ t \in r[ph]) /\ (p.drawn => p.zone \in Rooms)
  BY DEF SeatedAt, Fit
<1>2. /\ move \in {"place", "enter", "overflow", "vanish", "deliver", "throw", "walk"}
      /\ move \in {"enter", "walk"} => q.drawn
      /\ move = "walk" => p.drawn
      /\ move = "overflow" => ~q.drawn /\ (q.zone \in Rooms \/ (p.zone = "none" /\ q.zone = "none"))
      /\ move \in {"deliver", "throw"} => p.drawn /\ q.zone \in {"done", "aborted"}
      /\ move = "vanish" => ~q.drawn
  BY <1>1, MoveFacts
<1>3. /\ b \in Robots /\ b.key = Floor!KeyOf(q) /\ b.left = a.left /\ b.target = q.zone
      /\ move = "place" => /\ b.at = IF q.drawn THEN "rest" ELSE "dead"
                           /\ q.drawn => b.where = q.zone
      /\ move = "vanish" => b.at = "shrink" /\ b.where = a.where
      /\ move \in {"enter", "overflow", "walk", "throw"} => b.at = "walk"
      /\ move \in {"enter", "overflow"} =>
            b.where = IF Floor!Up(a) THEN a.where ELSE IF move = "overflow" /\ p.drawn THEN p.zone ELSE "aisle"
      /\ move \in {"walk", "throw", "deliver"} => b.where = IF Floor!Up(a) THEN a.where ELSE p.zone
      /\ move \in {"place", "vanish", "enter", "walk"} => b.end = "rest"
      /\ move \in {"overflow", "throw", "deliver"} => b.end # "rest"
      /\ move = "deliver" => b.at = "celebrate"
      /\ move \in {"throw", "deliver"} => b.delivering /\ b.origin = p.zone
      /\ move \notin {"throw", "deliver"} => ~b.delivering /\ b.origin = a.origin
  <2>1. Begins(a, p, q, move, b)
    BY <1>1, <1>2, BegunFacts
  <2> QED BY <2>1 DEF Begins
<1>4. /\ q.drawn => b.key = <<"seat", q.zone>> /\ b.key[1] = "seat"
      /\ ~q.drawn => b.key[1] # "seat"
      /\ b.key = <<"out", "none">> <=> q.zone = "none"
  BY <1>1, <1>3, KeyIs
\* a robot with a desk stands at it or has left the room it stood in
<1>5. p.drawn /\ ~Floor!Up(a) => a.at = "rest" /\ a.where = p.zone
  <2>1. SUFFICES ASSUME p.drawn PROVE ~Floor!Up(a) => a.at = "rest" /\ a.where = p.zone
    OBVIOUS
  <2>2. Floor!Alive(a) /\ a.key = Floor!KeyOf(p)
    BY <2>1 DEF Fit
  <2>3. a.key = <<"seat", p.zone>> /\ a.key[1] = "seat"
    BY <1>1, <2>1, <2>2, KeyIs
  <2>4. a.at \in {"walk", "pickup", "throw", "rest"} /\ a.key = <<"seat", a.target>>
    BY <2>2, <2>3 DEF Fit
  <2>5. a.target = p.zone
    BY <2>3, <2>4
  <2>6. a.at = "rest" => a.where = a.target
    BY DEF Fit
  <2> QED BY <2>4, <2>5, <2>6 DEF Floor!Up
<1>6. p.drawn => Floor!Alive(a) /\ ~Leaving(a) /\ p.zone \in Rooms
  BY <1>1 DEF Fit
<1>7. q.drawn => ~Leaving(a)
  BY <1>1 DEF Fit
<1>8. Floor!Up(a) => Floor!Alive(a)
  BY DEF Floor!Up, Floor!Alive
<1>9. ~Leaving(a) => \A z \in Rooms : Floor!Alive(a) /\ a.where = z => t \in r[z]
  BY DEF Desked
<1>10. "aisle" \notin Rooms /\ "none" \notin Rooms /\ "done" \notin Rooms /\ "aborted" \notin Rooms /\ "" \notin Rooms
  BY DEF FloorLimits
<1>11. CASE move = "place"
  <2>1. CASE ~q.drawn
    BY <1>3, <1>11, <2>1
  <2>2. CASE q.drawn
    <3>1. b.at = "rest" /\ b.where = q.zone /\ b.end = "rest" /\ ~b.delivering /\ b.origin = a.origin /\ ~b.left
      BY <1>3, <1>7, <1>11, <2>2 DEF Leaving
    <3>2. Fit(b, q, ph, TRUE)
      BY <1>1, <1>3, <1>4, <1>10, <2>2, <3>1 DEF Fit, Floor!Alive, Leaving
    <3>3. Desked(b, t, r)
      BY <1>1, <2>2, <3>1 DEF Desked
    <3> QED BY <3>1, <3>2, <3>3
  <2> QED BY <2>1, <2>2
<1>12. CASE move = "vanish"
  <2>1. b.at = "shrink" /\ b.where = a.where /\ ~b.delivering /\ b.origin = a.origin /\ b.left = a.left
    BY <1>3, <1>12
  <2>2. Floor!Alive(a)
    BY <1>12 DEF Floor!Alive, Idle, Fit
  <2>3. Fit(b, q, ph, TRUE)
    BY <1>1, <1>2, <1>3, <1>4, <1>12, <2>1 DEF Fit, Floor!Alive, Leaving
  <2>4. Desked(b, t, r)
    <3>1. ASSUME NEW z \in Rooms, b.where = z, Leaving(b) => b.origin = z PROVE t \in r[z]
      <4>1. ~a.left
        BY <2>1, <3>1 DEF Fit, Leaving
      <4>2. Leaving(a) => a.origin = z
        BY <2>1, <3>1, <4>1 DEF Leaving
      <4> QED BY <2>1, <2>2, <3>1, <4>2 DEF Desked
    <3> QED BY <3>1 DEF Desked
  <2> QED BY <2>1, <2>3, <2>4
<1>13. CASE move = "enter"
  <2>1. b.at = "walk" /\ b.end = "rest" /\ ~b.delivering /\ b.origin = a.origin /\ ~b.left
        /\ b.where = IF Floor!Up(a) THEN a.where ELSE "aisle"
    BY <1>2, <1>3, <1>7, <1>13 DEF Leaving
  <2>2. Fit(b, q, ph, TRUE)
    BY <1>1, <1>2, <1>3, <1>4, <1>10, <1>13, <2>1 DEF Fit, Floor!Alive, Leaving
  <2>3. Desked(b, t, r)
    BY <1>2, <1>7, <1>8, <1>9, <1>10, <1>13, <2>1 DEF Desked
  <2> QED BY <2>1, <2>2, <2>3
<1>14. CASE move = "overflow"
  <2>1. q.zone \in Rooms
    <3>1. CASE p.zone = "none" /\ q.zone = "none"
      <4>1. Floor!Alive(a)
        BY <3>1 DEF Floor!Alive, Idle, Fit
      <4> QED BY <3>1, <4>1 DEF Fit
    <3> QED BY <1>2, <1>14, <3>1
  <2>2. ~Leaving(a)
    BY <1>1, <2>1 DEF Fit
  <2>3. b.at = "walk" /\ b.end # "rest" /\ ~b.delivering /\ b.origin = a.origin /\ ~b.left
        /\ b.where = IF Floor!Up(a) THEN a.where ELSE IF p.drawn THEN p.zone ELSE "aisle"
    BY <1>3, <1>14, <2>2 DEF Leaving
  <2>4. Fit(b, q, ph, TRUE)
    BY <1>1, <1>2, <1>3, <1>4, <1>10, <1>14, <2>1, <2>3 DEF Fit, Floor!Alive, Leaving
  <2>5. Desked(b, t, r)
    BY <1>5, <1>6, <1>8, <1>9, <1>10, <2>2, <2>3 DEF Desked
  <2> QED BY <2>3, <2>4, <2>5
<1>15. CASE move = "walk"
  <2>1. b.at = "walk" /\ b.end = "rest" /\ ~b.delivering /\ b.origin = a.origin /\ ~b.left
        /\ b.where = IF Floor!Up(a) THEN a.where ELSE p.zone
    BY <1>2, <1>3, <1>7, <1>15 DEF Leaving
  <2>2. Fit(b, q, ph, TRUE)
    BY <1>1, <1>2, <1>3, <1>4, <1>10, <1>15, <2>1 DEF Fit, Floor!Alive, Leaving
  <2>3. Desked(b, t, r)
    BY <1>2, <1>5, <1>6, <1>8, <1>9, <1>15, <2>1 DEF Desked
  <2> QED BY <2>1, <2>2, <2>3
<1>16. CASE move \in {"throw", "deliver"}
  <2>1. b.at \in {"walk", "celebrate"} /\ b.end # "rest" /\ b.delivering /\ b.origin = p.zone /\ ~b.left
        /\ b.where = IF Floor!Up(a) THEN a.where ELSE p.zone
    BY <1>2, <1>3, <1>6, <1>16 DEF Leaving
  <2>2. Fit(b, q, ph, TRUE)
    <3>1. ~q.drawn /\ ph \notin Rooms /\ p.zone \in Rooms /\ q.zone # "none"
      BY <1>1, <1>2, <1>6, <1>10, <1>16
    <3> QED BY <1>1, <1>3, <1>4, <2>1, <3>1 DEF Fit, Floor!Alive, Leaving
  <2>3. Desked(b, t, r)
    BY <1>2, <1>5, <1>6, <1>8, <1>9, <1>16, <2>1 DEF Desked
  <2> QED BY <2>1, <2>2, <2>3
<1> QED BY <1>2, <1>11, <1>12, <1>13, <1>14, <1>15, <1>16

\* Staying: what is under way goes on toward the place the task still has.
LEMMA StaysFits ==
    ASSUME FloorLimits, NEW t \in Tasks, NEW ph, NEW r, NEW all, NEW a \in Robots, a = Floor!Was(all[t]),
           prev[t] \in Places, NEW q, SeatedAt(q, t, ph, r),
           Fit(a, prev[t], ph, booted), Idle(a), Desked(a, t, r), NEW snap \in BOOLEAN,
           a = Floor!Nobody => ~(Floor!Cardinality({u \in Tasks : all[u].at # "nobody"}) >= MaxActors),
           Floor!Stays(all, t, q, snap)
    PROVE  Fit(a, q, ph, TRUE) /\ Desked(a, t, r)
<1> DEFINE p == prev[t]
           move == Floor!Move(p, q, snap)
<1>1. q \in Places /\ q.zone = ph /\ (q.drawn => ph \in Rooms /\ t \in r[ph]) /\ p \in Places /\ (p.drawn => p.zone \in Rooms)
  BY DEF SeatedAt, Fit
<1>2. /\ move = "skip" => ~q.drawn /\ (~booted \/ (p.zone = "none" /\ q.zone # "none"))
      /\ move = "vanish" => ~q.drawn
  BY <1>1, MoveFacts
<1>3. \/ a # Floor!Nobody /\ a.key = Floor!KeyOf(q)
      \/ q.zone = "none" /\ (a = Floor!Nobody \/ ~booted)
      \/ a = Floor!Nobody /\ (move = "vanish" \/ (move = "place" /\ ~q.drawn))
      \/ move = "skip"
  BY DEF Floor!Stays
<1> HIDE DEF move, p
<1>4. Fit(a, p, ph, booted)
  BY DEF p
<1>5. /\ q.drawn => Floor!KeyOf(q) = <<"seat", q.zone>>
      /\ Floor!KeyOf(q) = <<"out", "none">> <=> q.zone = "none"
      /\ Floor!KeyOf(p) = <<"out", "none">> <=> p.zone = "none"
  BY <1>1, KeyIs
<1>6. "none" \notin Rooms
  BY DEF FloorLimits
<1>7. ~booted => a = Floor!Nobody
  BY <1>4 DEF Fit
<1>8. CASE a # Floor!Nobody /\ a.key = Floor!KeyOf(q)
  <2>1. Floor!Alive(a)
    BY <1>4, <1>8 DEF Floor!Alive, Idle, Fit
  <2>2. q.zone = "none" => a.at = "shrink" /\ a.key = <<"out", "none">>
    <3>1. SUFFICES ASSUME q.zone = "none" PROVE a.at = "shrink" /\ a.key = <<"out", "none">>
      OBVIOUS
    <3>2. a.key = <<"out", "none">>
      BY <1>5, <1>8, <3>1
    <3>3. a.at # "shrink" => p.zone = "none"
      BY <1>4, <1>5, <2>1, <3>2 DEF Fit
    <3>4. p.zone = "none" => a.at = "shrink"
      BY <1>4, <2>1 DEF Fit
    <3> QED BY <3>2, <3>3, <3>4
  <2> QED BY <1>1, <1>4, <1>8, <2>1, <2>2 DEF Fit
<1>9. CASE a = Floor!Nobody /\ ~q.drawn
  BY <1>1, <1>9, NobodyFits
<1>10. CASE move = "skip" /\ booted
  <2>1. ~q.drawn /\ p.zone = "none" /\ q.zone # "none"
    BY <1>2, <1>10
  <2>2. Floor!Alive(a) => a.at = "shrink" /\ a.key = <<"out", "none">>
    BY <1>4, <2>1 DEF Fit
  <2> QED BY <1>1, <1>4, <2>1, <2>2 DEF Fit
<1>11. q.zone = "none" => ~q.drawn
  BY <1>1, <1>6
<1> QED BY <1>2, <1>3, <1>7, <1>8, <1>9, <1>10, <1>11

\* One stage further: out of the room, or to the seat the key names.
LEMMA AdvancedFits ==
    ASSUME FloorLimits, NEW t \in Tasks, NEW ph, NEW r, NEW a \in Robots, NEW q, SeatedAt(q, t, ph, r),
           Fit(a, q, ph, TRUE), Desked(a, t, r), NEW b, b = Floor!Advanced(a)
    PROVE  Fit(b, q, ph, TRUE) /\ Desked(b, t, r)
<1>0. q \in Places /\ q.zone = ph /\ (q.drawn => ph \in Rooms /\ t \in r[ph])
  BY DEF SeatedAt
<1>1. "aisle" \notin Rooms
  BY DEF FloorLimits
<1>2. b \in Robots
  BY AdvancedFacts
<1>3. /\ q.drawn => Floor!KeyOf(q) = <<"seat", q.zone>>
      /\ ~q.drawn => Floor!KeyOf(q)[1] # "seat"
  BY <1>0, KeyIs DEF Fit
<1> USE DEF Robots
<1>4. CASE a.at = "celebrate"
  <2>1. b = [a EXCEPT !.at = "walk"]
    BY <1>4 DEF Floor!Advanced
  <2>2. b.at = "walk" /\ b.where = a.where /\ b.key = a.key /\ b.end = a.end /\ b.target = a.target
        /\ b.origin = a.origin /\ b.delivering = a.delivering /\ b.left = a.left
    BY <2>1
  <2> QED BY <1>4, <2>2 DEF Fit, Floor!Alive, Leaving, Desked
<1>5. CASE a.at = "walk" /\ a.where # "aisle"
  <2>1. b = [a EXCEPT !.where = "aisle"]
    BY <1>5 DEF Floor!Advanced
  <2>2. b.at = "walk" /\ b.where = "aisle" /\ b.key = a.key /\ b.end = a.end /\ b.target = a.target
        /\ b.origin = a.origin /\ b.delivering = a.delivering /\ b.left = a.left
    BY <1>5, <2>1
  <2>3. "aisle" # a.origin
    BY <1>1 DEF Fit
  <2>4. Fit(b, q, ph, TRUE)
    BY <1>5, <2>2, <2>3 DEF Fit, Floor!Alive, Leaving
  <2>5. Desked(b, t, r)
    BY <1>1, <2>2 DEF Desked
  <2> QED BY <2>4, <2>5
<1>6. CASE a.at = "walk" /\ a.where = "aisle" /\ a.holds # <<>>
  <2>1. Head(a.holds) \in {"pickup", "throw"}
    BY <1>6
  <2>2. b = [a EXCEPT !.at = Head(a.holds), !.holds = <<>>]
    BY <1>6 DEF Floor!Advanced
  <2>3. b.at \in {"pickup", "throw"} /\ b.where = a.where /\ b.key = a.key /\ b.end = a.end /\ b.target = a.target
        /\ b.origin = a.origin /\ b.delivering = a.delivering /\ b.left = a.left
    BY <2>1, <2>2
  <2> QED BY <1>6, <2>3 DEF Fit, Floor!Alive, Leaving, Desked
<1>7. CASE a.at = "walk" /\ a.where = "aisle" /\ a.holds = <<>> /\ a.end = "rest"
  <2>1. b = [a EXCEPT !.at = "rest", !.where = a.target]
    BY <1>7 DEF Floor!Advanced
  <2>2. b.at = "rest" /\ b.where = a.target /\ b.key = a.key /\ b.end = a.end /\ b.target = a.target
        /\ b.origin = a.origin /\ b.delivering = a.delivering /\ b.left = a.left
    BY <1>7, <2>1
  <2>3. a.key[1] = "seat" /\ a.key = <<"seat", a.target>> /\ a.key = Floor!KeyOf(q)
    BY <1>7 DEF Fit, Floor!Alive
  <2>4. q.drawn /\ a.target = q.zone
    BY <1>3, <2>3
  <2>5. ~Leaving(a)
    BY <1>0, <2>4 DEF Fit
  <2> QED BY <1>0, <1>7, <2>2, <2>3, <2>4, <2>5 DEF Fit, Floor!Alive, Leaving, Desked
<1>8. CASE a.at = "walk" /\ a.where = "aisle" /\ a.holds = <<>> /\ a.end # "rest"
  <2>1. b = [a EXCEPT !.at = a.end]
    BY <1>8 DEF Floor!Advanced
  <2>2. b.at = a.end /\ b.at \in {"shrink", "sit"} /\ b.where = a.where /\ b.key = a.key /\ b.end = a.end /\ b.target = a.target
        /\ b.origin = a.origin /\ b.delivering = a.delivering /\ b.left = a.left
    BY <1>8, <2>1
  <2> QED BY <1>8, <2>2 DEF Fit, Floor!Alive, Leaving, Desked
<1>9. CASE a.at \in {"pickup", "throw"}
  <2>1. b = [a EXCEPT !.at = "walk", !.spot = 0] \/ b = [a EXCEPT !.at = "walk", !.drop = 0]
    BY <1>9 DEF Floor!Advanced
  <2>2. b.at = "walk" /\ b.where = a.where /\ b.key = a.key /\ b.end = a.end /\ b.target = a.target
        /\ b.origin = a.origin /\ b.delivering = a.delivering /\ b.left = a.left
    BY <2>1
  <2> QED BY <1>9, <2>2 DEF Fit, Floor!Alive, Leaving, Desked
<1>10. CASE a.at = "sit"
  <2>1. b = [a EXCEPT !.at = "shrink"]
    BY <1>10 DEF Floor!Advanced
  <2>2. b.at = "shrink" /\ b.where = a.where /\ b.key = a.key /\ b.end = a.end /\ b.target = a.target
        /\ b.origin = a.origin /\ b.delivering = a.delivering /\ b.left = a.left
    BY <2>1
  <2> QED BY <1>10, <2>2 DEF Fit, Floor!Alive, Leaving, Desked
<1>11. CASE a.at = "shrink"
  <2>1. b = Floor!Nobody
    BY <1>11 DEF Floor!Advanced
  <2>2. ~q.drawn
    <3>1. ASSUME q.drawn PROVE FALSE
      <4>1. Floor!Alive(a) /\ a.key = <<"seat", q.zone>>
        BY <1>3, <3>1 DEF Fit
      <4>3. a.key[1] = "seat"
        BY <4>1
      <4>2. a.at \in {"walk", "pickup", "throw", "rest"}
        BY <4>1, <4>3 DEF Fit
      <4> QED BY <1>11, <4>2
    <3> QED BY <3>1
  <2>3. Fit(Floor!Nobody, q, ph, TRUE)
    BY <1>0, <2>2, NobodyFits
  <2>4. Desked(Floor!Nobody, t, r)
    BY NobodyDesked
  <2> QED BY <2>1, <2>3, <2>4
<1>12. CASE a.at \in {"nobody", "dead", "rest"}
  <2>1. b = a
    BY <1>12 DEF Floor!Advanced
  <2> QED BY <2>1
<1> QED BY <1>4, <1>5, <1>6, <1>7, <1>8, <1>9, <1>10, <1>11, <1>12

\* The rows laid out for a frame keep the desk of every robot that is in its room.
LEMMA RowsKeep ==
    ASSUME NEW t \in Tasks, NEW z \in Rooms, NEW all, NEW a \in Robots, a = all[t], NEW ph, Fit(a, prev[t], ph, booted),
           prev[t] \in Places, FloorLimits,
           Floor!Alive(a), a.where = z, Leaving(a) => a.origin = z, t \in rows[z]
    PROVE  t \in Floor!RowOf(z, all)
<1>1. ~a.left
  BY DEF Fit, Leaving
<1>2. Floor!Up(a) \/ prev[t].zone = z
  <2>1. SUFFICES ASSUME ~Floor!Up(a) PROVE prev[t].zone = z
    OBVIOUS
  <2>2. a.at = "rest" \/ a.at = "sit"
    BY <2>1 DEF Floor!Up, Floor!Alive, Robots
  <2>3. a.at # "sit"
    BY DEF Fit, FloorLimits
  <2>4. a.target = z /\ a.end = "rest" /\ a.at # "shrink"
    BY <2>2, <2>3 DEF Fit
  <2>5. a.key = <<"seat", z>> /\ a.key = Floor!KeyOf(prev[t])
    BY <2>4 DEF Fit
  <2>6. Floor!KeyOf(prev[t])[2] = prev[t].zone
    BY KeyIs DEF Fit
  <2> QED BY <2>5, <2>6
<1> DEFINE kept == Floor!Desired(z) \cup Floor!Retained(z, all)
<1>3. t \in kept
  BY <1>1, <1>2 DEF Floor!Retained
<1> HIDE DEF kept
<1>4. Floor!RowOf(z, all) = IF Floor!Cardinality(kept) <= DeskLimit \/ rows[z] = {} THEN kept
             ELSE (kept \cap rows[z]) \cup Floor!First(DeskLimit - Floor!Cardinality(kept \cap rows[z]), kept \ (kept \cap rows[z]))
  BY DEF Floor!RowOf, kept
<1> QED BY <1>3, <1>4

\* A robot has one turn in a frame, and finds itself as the frame began.
Mine(t) == IF phase[t] # "none" THEN t ELSE t + Floor!Cardinality(Tasks)

LEMMA MyTurn ==
    ASSUME FloorLimits, NEW t \in Tasks, NEW i \in 1..(2 * Floor!Cardinality(Tasks)),
           Floor!Tasked(i) = t, (phase[t] # "none") = (i <= Floor!Cardinality(Tasks))
    PROVE  i = Mine(t)
<1> DEFINE n == Floor!Cardinality(Tasks)
<1>1. n \in Nat /\ t \in 1..n
  BY TaskCount
<1>2. t = IF i <= n THEN i ELSE i - n
  BY DEF Floor!Tasked
<1>3. Mine(t) = IF phase[t] # "none" THEN t ELSE t + n
  BY DEF Mine
<1>4. (phase[t] # "none") <=> i <= n
  OBVIOUS
<1>5. i \in Nat
  BY <1>1 DEF n
<1> HIDE DEF n
<1> QED BY <1>1, <1>2, <1>3, <1>4, <1>5

LEMMA TurnOnce ==
    ASSUME FloorLimits, NEW t \in Tasks, NEW f, NEW marked \in Crews, NEW place, NEW snap, NEW joins,
           Turns(f, marked, place, snap, joins)
    PROVE  \E all \in Crews :
              /\ all[t] = marked[t]
              /\ Floor!AllSynced(marked, place, snap, joins)[t] = Floor!Synced(all, t, place[t], snap, joins[t])[t]
<1> DEFINE n == Floor!Cardinality(Tasks)
           m == Mine(t)
<1>1. n \in Nat /\ t \in 1..n /\ Tasks = 1..n
  BY TaskCount
<1>2. m \in 1..(2 * n)
  <2>1. m = t \/ m = t + n
    BY DEF Mine
  <2> QED BY <1>1, <2>1
<1>3. Floor!Tasked(m) = t /\ (phase[t] # "none") = (m <= n)
  <2>1. CASE phase[t] # "none"
    <3>1. m = t /\ m <= n
      BY <1>1, <2>1 DEF Mine
    <3>2. Floor!Tasked(m) = t
      BY <3>1 DEF Floor!Tasked
    <3> QED BY <2>1, <3>1, <3>2
  <2>2. CASE phase[t] = "none"
    <3>1. m = t + n /\ ~(m <= n) /\ m - n = t
      BY <1>1, <2>2 DEF Mine
    <3>2. Floor!Tasked(m) = t
      BY <3>1 DEF Floor!Tasked
    <3> QED BY <2>2, <3>1, <3>2
  <2> QED BY <2>1, <2>2
<1>4. /\ f \in [0..(2 * n) -> Crews] /\ f[0] = marked
      /\ \A i \in 1..(2 * n) : f[i] = Floor!Turn(f[i - 1], i, place, snap, joins)
      /\ Floor!AllSynced(marked, place, snap, joins) = f[2 * n]
  BY DEF Turns
<1>5. f[m] = Floor!Synced(f[m - 1], t, place[t], snap, joins[t])
  BY <1>2, <1>3, <1>4 DEF Floor!Turn
<1>6. ASSUME NEW i \in 1..(2 * n), i # m PROVE f[i][t] = f[i - 1][t]
  <2>1. f[i] = Floor!Turn(f[i - 1], i, place, snap, joins)
    BY <1>4, <1>6
  <2> DEFINE u == Floor!Tasked(i)
             x == f[i - 1]
  <2>2. u \in Tasks
    BY TurnOf
  <2>3. x \in [Tasks -> Robots]
    <3>1. i - 1 \in 0..(2 * n)
      BY <1>1
    <3> QED BY <1>4, <3>1 DEF Crews
  <2>4. CASE (phase[u] # "none") = (i <= n)
    <3>1. f[i] = Floor!Synced(x, u, place[u], snap, joins[u])
      BY <2>1, <2>4 DEF Floor!Turn
    <3>2. u # t
      BY <1>6, <2>4, MyTurn
    <3>3. PICK b : f[i] = [x EXCEPT ![u] = b]
      BY <3>1 DEF Floor!Synced
    <3> HIDE DEF u, x
    <3>4. f[i][t] = x[t]
      BY <2>2, <2>3, <3>2, <3>3
    <3> QED BY <3>4 DEF x
  <2>5. CASE (phase[u] # "none") # (i <= n)
    <3>1. f[i] = x
      BY <2>1, <2>5 DEF Floor!Turn
    <3> QED BY <3>1
  <2> QED BY <2>4, <2>5
<1> HIDE DEF n, m
<1>7. f[m - 1][t] = marked[t]
  <2> DEFINE G == {k \in Nat : k < m => f[k][t] = marked[t]}
  <2>1. 0 \in G
    BY <1>4
  <2>2. ASSUME NEW k \in G PROVE k + 1 \in G
    <3>1. SUFFICES ASSUME k + 1 < m PROVE f[k + 1][t] = marked[t]
      OBVIOUS
    <3>2. k + 1 \in 1..(2 * n) /\ k + 1 # m /\ (k + 1) - 1 = k /\ k < m
      BY <1>1, <1>2, <3>1
    <3>3. f[k + 1][t] = f[(k + 1) - 1][t]
      BY <1>6, <3>2
    <3> QED BY <3>2, <3>3
  <2>3. G \subseteq Nat
    OBVIOUS
  <2>4. G = Nat
    <3> HIDE DEF G
    <3> QED BY <2>1, <2>2, <2>3, Induction
  <2>5. m - 1 \in Nat /\ m - 1 < m
    BY <1>1, <1>2
  <2> QED BY <2>4, <2>5
<1>8. f[2 * n][t] = f[m][t]
  <2> DEFINE G == {k \in Nat : m + k <= 2 * n => f[m + k][t] = f[m][t]}
  <2>1. 0 \in G
    <3>1. m + 0 = m
      BY <1>1, <1>2
    <3> QED BY <3>1
  <2>2. ASSUME NEW k \in G PROVE k + 1 \in G
    <3>1. SUFFICES ASSUME m + (k + 1) <= 2 * n PROVE f[m + (k + 1)][t] = f[m][t]
      OBVIOUS
    <3>2. m + (k + 1) \in 1..(2 * n) /\ m + (k + 1) # m /\ (m + (k + 1)) - 1 = m + k /\ m + k <= 2 * n
      BY <1>1, <1>2, <3>1
    <3>3. f[m + (k + 1)][t] = f[(m + (k + 1)) - 1][t]
      BY <1>6, <3>2
    <3> QED BY <3>2, <3>3
  <2>3. G \subseteq Nat
    OBVIOUS
  <2>4. G = Nat
    <3> HIDE DEF G
    <3> QED BY <2>1, <2>2, <2>3, Induction
  <2>5. 2 * n - m \in Nat /\ m + (2 * n - m) = 2 * n
    BY <1>1, <1>2
  <2>6. 2 * n - m \in G
    BY <2>4, <2>5
  <2>7. m + (2 * n - m) <= 2 * n => f[m + (2 * n - m)][t] = f[m][t]
    BY <2>6
  <2>8. 2 * n <= 2 * n
    BY <1>1
  <2> QED BY <2>5, <2>7, <2>8
<1>9. f[m - 1] \in Crews
  <2>1. m - 1 \in 0..(2 * n)
    BY <1>1, <1>2
  <2> QED BY <1>4, <2>1
<1> QED BY <1>4, <1>5, <1>7, <1>8, <1>9

\* Rows: of tasks only, and never more than the limit.
LEMMA FirstSize ==
    ASSUME FloorLimits, NEW some \in SUBSET Tasks, NEW n \in Nat
    PROVE  Floor!First(n, some) \subseteq some /\ Cardinality(Floor!First(n, some)) <= n
<1> DEFINE F == Floor!First(n, some)
           c == Floor!Cardinality(Tasks)
<1>1. c \in Nat /\ Tasks = 1..c
  BY TaskCount
<1>2. F = {t \in some : Cardinality({u \in some : u < t}) < n}
  BY SameSize DEF Floor!First
<1>3. IsFiniteSet(some)
  BY FS_Subset DEF FloorLimits
<1> HIDE DEF F, c
<1>4. F \subseteq some /\ IsFiniteSet(F)
  BY <1>2, <1>3, FS_Subset
<1>5. CASE F = {}
  <2>1. Cardinality(F) = 0
    BY <1>5, FS_EmptySet
  <2>2. F \subseteq some /\ Cardinality(F) <= n
    BY <1>4, <2>1
  <2> QED BY <2>2 DEF F
<1>6. CASE F # {}
  <2>1. F \in SUBSET (0..c)
    BY <1>1, <1>4
  <2>2. PICK m \in F : \A y \in F : m >= y
    BY <1>1, <1>6, <2>1, SomeMax
  <2> DEFINE B == {u \in some : u < m}
  <2>3. F \ {m} \subseteq B
    BY <1>1, <1>4, <2>2
  <2>4. IsFiniteSet(B) /\ Cardinality(B) < n
    BY <1>2, <1>3, FS_Subset
  <2> HIDE DEF B
  <2>5. Cardinality(F \ {m}) <= Cardinality(B) /\ Cardinality(B) \in Nat
    BY <2>3, <2>4, FS_Subset, FS_CardinalityType
  <2>6. Cardinality(F \ {m}) = Cardinality(F) - 1 /\ Cardinality(F) \in Nat
    BY <1>4, FS_RemoveElement, FS_CardinalityType
  <2>7. Cardinality(F) <= n
    BY <2>4, <2>5, <2>6
  <2> QED BY <1>4, <2>7 DEF F
<1> QED BY <1>5, <1>6

RowsFit(r) == \A z \in Rooms : r[z] \subseteq Tasks /\ Cardinality(r[z]) <= DeskLimit

LEMMA RowFits ==
    ASSUME FloorLimits, DeskLimit \in Nat, NEW z \in Rooms, RowsFit(rows), NEW all
    PROVE  Floor!RowOf(z, all) \subseteq Tasks /\ Cardinality(Floor!RowOf(z, all)) <= DeskLimit
<1> DEFINE wanted == Floor!Desired(z)
           kept == wanted \cup Floor!Retained(z, all)
           old == kept \cap rows[z]
           new == kept \ old
           size == DeskLimit - Floor!Cardinality(old)
<1>1. wanted \subseteq Tasks /\ Cardinality(wanted) <= DeskLimit
  <2>1. {t \in Tasks : phase[t] = z} \in SUBSET Tasks
    OBVIOUS
  <2> QED BY <2>1, FirstSize DEF Floor!Desired
<1>2. kept \subseteq Tasks /\ (rows[z] = {} => kept = wanted)
  BY <1>1 DEF Floor!Retained, RowsFit
<1>3. Floor!RowOf(z, all) = IF Floor!Cardinality(kept) <= DeskLimit \/ rows[z] = {} THEN kept
             ELSE old \cup Floor!First(size, new)
  BY DEF Floor!RowOf
<1> HIDE DEF wanted, kept
<1>4. CASE Floor!Cardinality(kept) <= DeskLimit \/ rows[z] = {}
  BY <1>1, <1>2, <1>3, <1>4, SameSize
<1>5. CASE ~(Floor!Cardinality(kept) <= DeskLimit \/ rows[z] = {})
  <2>1. IsFiniteSet(rows[z]) /\ IsFiniteSet(old) /\ Cardinality(old) <= Cardinality(rows[z]) /\ Cardinality(rows[z]) <= DeskLimit
        /\ Cardinality(rows[z]) \in Nat /\ Cardinality(old) \in Nat
    BY FS_Subset, FS_CardinalityType DEF RowsFit, FloorLimits
  <2>2. size = DeskLimit - Cardinality(old)
    BY SameSize
  <2>3. size \in Nat
    BY <2>1, <2>2
  <2> HIDE DEF size
  <2>4. new \in SUBSET Tasks
    BY <1>2
  <2> DEFINE N == Floor!First(size, new)
  <2>5. N \subseteq new /\ Cardinality(N) <= size
    BY <2>3, <2>4, FirstSize
  <2>6. IsFiniteSet(N) /\ Cardinality(N) \in Nat
    BY <2>4, <2>5, FS_Subset, FS_CardinalityType DEF FloorLimits
  <2>7. Floor!RowOf(z, all) = old \cup N
    BY <1>3, <1>5
  <2> HIDE DEF N, old
  <2>8. Cardinality(old \cup N) = Cardinality(old) + Cardinality(N) - Cardinality(old \cap N) /\ Cardinality(old \cap N) \in Nat
    BY <2>1, <2>6, FS_Union, FS_Intersection, FS_CardinalityType
  <2>9. old \subseteq Tasks
    BY <1>2 DEF old
  <2> QED BY <2>1, <2>2, <2>3, <2>4, <2>5, <2>6, <2>7, <2>8, <2>9
<1> QED BY <1>4, <1>5

\* What the runs assume: no task comes back to a room while its robot is on its way out, and
\* there are robots for all.
RobotsSuffice == ~Reopens /\ DeskLimit \in Nat /\ MaxActors \in Nat /\ Cardinality(Tasks) <= MaxActors

\* The inductive invariant behind DeskUnderRobot.
FloorInv ==
    /\ FloorTypes /\ RowsFit(rows)
    /\ \A t \in Tasks : Fit(actor[t], prev[t], phase[t], booted) /\ Desked(actor[t], t, rows)

LEMMA AllFit ==
    ASSUME FloorLimits, RobotsSuffice, NEW all, NEW t \in Tasks, all[t] = Floor!Nobody
    PROVE  ~(Floor!Cardinality({u \in Tasks : all[u].at # "nobody"}) >= MaxActors)
<1> DEFINE U == {u \in Tasks : all[u].at # "nobody"}
<1>1. U \subseteq Tasks \ {t}
  BY NobodyFacts
<1> HIDE DEF U
<1>2. IsFiniteSet(Tasks) /\ Cardinality(Tasks \ {t}) = Cardinality(Tasks) - 1 /\ IsFiniteSet(Tasks \ {t})
      /\ Cardinality(Tasks) \in Nat
  BY FS_RemoveElement, FS_CardinalityType DEF FloorLimits
<1>3. Cardinality(U) <= Cardinality(Tasks \ {t}) /\ Cardinality(U) \in Nat
  BY <1>1, <1>2, FS_Subset, FS_CardinalityType
<1>4. Cardinality(U) < MaxActors
  BY <1>2, <1>3 DEF RobotsSuffice
<1>5. Floor!Cardinality(U) < MaxActors
  BY <1>4, SameSize
<1>6. ~(Floor!Cardinality(U) >= MaxActors)
  BY <1>3, <1>5, SameSize DEF RobotsSuffice
<1> QED BY <1>6 DEF U

\* A robot whose frame began fits what the frame makes of it.
LEMMA MarkedFits ==
    ASSUME FloorInv, NEW marked, marked = [t \in Tasks |-> Floor!Marked(actor[t])], NEW t \in Tasks
    PROVE  /\ Fit(marked[t], prev[t], phase[t], booted) /\ Desked(marked[t], t, rows)
           /\ marked[t].delivering => marked[t].left \/ marked[t].where = marked[t].origin
<1> DEFINE a == actor[t]
           b == marked[t]
<1>1. a \in Robots /\ Fit(a, prev[t], phase[t], booted) /\ Desked(a, t, rows)
  BY DEF FloorInv, FloorTypes, Crews
<1>2. b = Floor!Marked(a)
  OBVIOUS
<1> HIDE DEF a, b
<1>3. CASE a.delivering /\ a.where # a.origin
  <2>1. b = [a EXCEPT !.left = TRUE]
    BY <1>2, <1>3 DEF Floor!Marked
  <2>2. /\ b.at = a.at /\ b.where = a.where /\ b.key = a.key /\ b.end = a.end /\ b.target = a.target
        /\ b.origin = a.origin /\ b.delivering = a.delivering /\ b.left
    BY <1>1, <2>1 DEF Robots
  <2>3. Fit(b, prev[t], phase[t], booted)
    <3>1. a # Floor!Nobody
      BY <1>3, NobodyFacts
    <3> QED BY <1>1, <1>3, <2>2, <3>1 DEF Fit, Floor!Alive, Leaving
  <2>4. Desked(b, t, rows)
    BY <1>1, <1>3, <2>2 DEF Desked, Floor!Alive, Leaving
  <2> QED BY <2>2, <2>3, <2>4 DEF b
<1>4. CASE ~(a.delivering /\ a.where # a.origin)
  <2>1. b = a
    BY <1>2, <1>4 DEF Floor!Marked
  <2> QED BY <1>1, <1>4, <2>1 DEF b
<1> QED BY <1>3, <1>4

LEMMA FrameKeepsFit ==
    ASSUME FloorLimits, RobotsSuffice, FloorInv, NEW snap \in BOOLEAN, NEW go, Floor!Frame(snap, BOOLEAN, go)
    PROVE  FloorInv'
<1>1. PICK marked, place, joins : FrameOf(snap, go, marked, place, joins)
  BY FrameIs
<1>2. FloorTypes /\ FloorTypes'
  BY FrameKeepsTypes DEF FloorInv
<1>3. /\ marked = [t \in Tasks |-> Floor!Marked(actor[t])]
      /\ rows' = [z \in Rooms |-> Floor!RowOf(z, marked)]
      /\ place = [t \in Tasks |-> Floor!Place(t, rows')] /\ prev' = place /\ joins \in [Tasks -> BOOLEAN]
      /\ booted' = TRUE /\ phase' = phase
  BY <1>1 DEF FrameOf
<1>4. RowsFit(rows')
  <2>1. \A z \in Rooms : rows'[z] = Floor!RowOf(z, marked)
    BY <1>3
  <2>2. \A z \in Rooms : Floor!RowOf(z, marked) \subseteq Tasks /\ Cardinality(Floor!RowOf(z, marked)) <= DeskLimit
    BY RowFits DEF FloorInv, RobotsSuffice
  <2> QED BY <2>1, <2>2 DEF RowsFit
<1>5. marked \in Crews /\ \A t \in Tasks : marked[t].at # "dead"
  BY <1>2, <1>3, MarkedFacts
<1>6. place \in [Tasks -> Places] /\ prev \in [Tasks -> Places]
  BY <1>2, <1>3, PlaceTypes DEF FloorTypes
<1>7. PICK f : Turns(f, marked, place, snap, joins)
  BY <1>3, <1>5, <1>6, FrameTurns
<1>8. ASSUME NEW t \in Tasks
      PROVE  Fit(actor'[t], place[t], phase[t], TRUE) /\ Desked(actor'[t], t, rows')
  <2> DEFINE a == marked[t]
             p == prev[t]
             q == place[t]
             ph == phase[t]
             r == rows'
             s == Floor!AllSynced(marked, place, snap, joins)[t]
  <2>1. a \in Robots /\ Idle(a) /\ a.at # "dead" /\ p \in Places /\ q \in Places
    BY <1>5, <1>6 DEF Crews
  <2>2. Fit(a, p, ph, booted) /\ Desked(a, t, rows) /\ (a.delivering => a.left \/ a.where = a.origin)
    BY <1>3, MarkedFits
  <2>3. SeatedAt(q, t, ph, r)
    <3>1. q = Floor!Place(t, r)
      BY <1>3
    <3>2. q \in Places
      BY <2>1
    <3> HIDE DEF q, r
    <3>3. q.zone = phase[t] /\ q.drawn = (phase[t] \in Rooms /\ t \in Floor!Desired(phase[t]) /\ t \in r[phase[t]])
      BY <3>1 DEF Floor!Place
    <3> QED BY <3>2, <3>3 DEF SeatedAt
  <2>4. Desked(a, t, r)
    <3>1. ASSUME NEW z \in Rooms, Floor!Alive(a), a.where = z, Leaving(a) => a.origin = z PROVE t \in r[z]
      <4>1. t \in rows[z]
        BY <2>2, <3>1 DEF Desked
      <4>2. t \in Floor!RowOf(z, marked)
        BY <2>1, <2>2, <3>1, <4>1, RowsKeep
      <4> QED BY <1>3, <4>2
    <3> QED BY <3>1 DEF Desked
  <2>5. PICK all \in Crews : all[t] = a /\ s = Floor!Synced(all, t, q, snap, joins[t])[t]
    BY <1>5, <1>7, TurnOnce
  <2>6. PICK b : Floor!Synced(all, t, q, snap, joins[t]) = [all EXCEPT ![t] = b] /\ Becomes(all, t, q, snap, joins[t], b)
    BY SyncedIs
  <2>7. s = b
    BY <2>5, <2>6 DEF Crews
  <2>8. Floor!Was(all[t]) = a
    BY <2>1, <2>5 DEF Floor!Was
  <2>9. actor'[t] = IF s.at = "dead" THEN Floor!Nobody ELSE IF t \in go THEN Floor!Advanced(s) ELSE s
    BY <1>1 DEF FrameOf
  <2>10. joins[t] \in BOOLEAN
    BY <1>3
  <2> HIDE DEF a, p, q, ph, r, s
  <2>11. b \in Robots /\ IF b.at = "dead" THEN ~q.drawn ELSE Fit(b, q, ph, TRUE) /\ Desked(b, t, r)
    <3>1. CASE Floor!Stays(all, t, q, snap)
      <4>1. b = a
        BY <2>6, <2>8, <3>1 DEF Becomes
      <4>2. a = Floor!Nobody => ~(Floor!Cardinality({u \in Tasks : all[u].at # "nobody"}) >= MaxActors)
        BY <2>5, AllFit
      <4>3. Fit(a, q, ph, TRUE) /\ Desked(a, t, r)
        <5>1. prev[t] \in Places /\ Fit(a, prev[t], ph, booted)
          BY <2>1, <2>2 DEF p
        <5> QED BY <2>1, <2>3, <2>4, <2>8, <3>1, <4>2, <5>1, StaysFits
      <4> QED BY <2>1, <4>1, <4>3
    <3>2. CASE ~Floor!Stays(all, t, q, snap)
      <4> DEFINE move == Floor!Move(p, q, snap)
      <4>1. PICK spot, drop, seat : SetsOut(all, t, q, snap, joins[t], b, spot, drop, seat)
        BY <2>6, <3>2 DEF Becomes
      <4>2. spot \in Nat /\ drop \in Nat /\ seat \in Nat /\ b = Floor!Started(a, p, q, move, spot, drop, seat, joins[t])
        BY <2>8, <4>1 DEF SetsOut, p
      <4>3. /\ move # "skip"
            /\ move = "vanish" => a # Floor!Nobody
            /\ q.zone = "none" => a # Floor!Nobody
            /\ ~(a # Floor!Nobody /\ a.key = Floor!KeyOf(q) /\ q.zone = "none")
        BY <2>8, <3>2 DEF Floor!Stays, p
      <4>4. p.zone = "none" => q.zone # "none" \/ a.key # <<"out", "none">>
        <5>1. q.zone = "none" => Floor!KeyOf(q) = <<"out", "none">>
          BY DEF Floor!KeyOf, Floor!Terminal
        <5> QED BY <4>3, <5>1
      <4> HIDE DEF move
      <4>5. b \in Robots
        BY <2>1, <2>10, <4>2, StartedFacts
      <4>6. move = Floor!Move(p, q, snap)
        BY DEF move
      <4>7. IF b.at = "dead" THEN ~q.drawn ELSE Fit(b, q, ph, TRUE) /\ Desked(b, t, r)
        <5> DEFINE j == joins[t]
        <5>1. j \in BOOLEAN /\ b = Floor!Started(a, p, q, move, spot, drop, seat, j)
          BY <2>10, <4>2
        <5> HIDE DEF j
        <5> QED BY ONLY FloorLimits, t \in Tasks, snap \in BOOLEAN, <2>1, <2>2, <2>3, <2>4, <4>2, <4>3, <4>4, <4>6, <5>1, BegunFits
      <4> QED BY <4>5, <4>7
    <3> QED BY <3>1, <3>2
  <2>12. CASE b.at = "dead"
    <3>1. Fit(Floor!Nobody, q, ph, TRUE) /\ Desked(Floor!Nobody, t, r)
      BY <2>1, <2>11, <2>12, NobodyFits, NobodyDesked
    <3>2. actor'[t] = Floor!Nobody
      BY <2>7, <2>9, <2>12
    <3> QED BY <3>1, <3>2 DEF q, ph, r
  <2>13. CASE b.at # "dead" /\ t \in go
    <3>1. actor'[t] = Floor!Advanced(b)
      BY <2>7, <2>9, <2>13
    <3>2. Fit(actor'[t], q, ph, TRUE) /\ Desked(actor'[t], t, r)
      BY <2>3, <2>11, <2>13, <3>1, AdvancedFits
    <3> QED BY <3>2 DEF q, ph, r
  <2>14. CASE b.at # "dead" /\ t \notin go
    <3>1. actor'[t] = b
      BY <2>7, <2>9, <2>14
    <3> QED BY <2>11, <2>14, <3>1 DEF q, ph, r
  <2> QED BY <2>12, <2>13, <2>14
<1> QED BY <1>2, <1>3, <1>4, <1>8 DEF FloorInv

LEMMA FloorInvStarts == ASSUME FloorLimits, RobotsSuffice, Floor!Init PROVE FloorInv
<1>1. FloorTypes
  BY FloorStarts
<1>2. RowsFit(rows)
  BY FS_EmptySet DEF Floor!Init, RowsFit, RobotsSuffice
<1>3. ASSUME NEW t \in Tasks PROVE Fit(actor[t], prev[t], phase[t], booted) /\ Desked(actor[t], t, rows)
  <2>1. actor[t] = Floor!Nobody /\ prev[t] = Floor!Nowhere
    BY DEF Floor!Init
  <2>2. ~Floor!Nowhere.drawn /\ Floor!Nowhere \in Places
    BY DEF Floor!Nowhere, Places
  <2>3. Fit(Floor!Nobody, Floor!Nowhere, phase[t], TRUE) /\ Desked(Floor!Nobody, t, rows)
    BY <2>2, NobodyFits, NobodyDesked
  <2> QED BY <2>1, <2>3 DEF Fit
<1> QED BY <1>1, <1>2, <1>3 DEF FloorInv

LEMMA ChangesKeepFit ==
    ASSUME RobotsSuffice, FloorInv, NEW t \in Tasks, NEW z \in Rooms \cup Floor!Terminal \cup {"none"}, Floor!Changes(t, z)
    PROVE  FloorInv'
<1>1. FloorTypes'
  BY ChangesKeepTypes DEF FloorInv
<1>2. phase' = [phase EXCEPT ![t] = z] /\ UNCHANGED <<rows, prev, actor, booted>>
      /\ (z \in Rooms /\ (actor[t].delivering \/ actor[t].left) => Reopens)
  BY DEF Floor!Changes
<1>3. ASSUME NEW u \in Tasks PROVE Fit(actor[u], prev[u], phase'[u], booted)
  <2>1. Fit(actor[u], prev[u], phase[u], booted)
    BY DEF FloorInv
  <2>2. Leaving(actor[u]) => phase'[u] \notin Rooms
    BY <1>2, <2>1 DEF Fit, Leaving, RobotsSuffice, FloorInv, FloorTypes
  <2> QED BY <2>1, <2>2 DEF Fit
<1>4. \A u \in Tasks : Desked(actor[u], u, rows) /\ RowsFit(rows)
  BY DEF FloorInv
<1>5. /\ RowsFit(rows')
      /\ \A u \in Tasks : Fit(actor'[u], prev'[u], phase'[u], booted') /\ Desked(actor'[u], u, rows')
  <2>1. rows' = rows /\ prev' = prev /\ actor' = actor /\ booted' = booted
    BY <1>2
  <2> QED BY <1>3, <1>4, <2>1
<1> QED BY <1>1, <1>5 DEF FloorInv

LEMMA FloorInvNext == ASSUME FloorLimits, RobotsSuffice, FloorInv, [Floor!Next]_Floor!vars PROVE FloorInv'
<1>1. ASSUME NEW t \in Tasks, NEW z \in Rooms \cup Floor!Terminal \cup {"none"}, Floor!Changes(t, z) PROVE FloorInv'
  BY <1>1, ChangesKeepFit
<1>2. ASSUME NEW snap \in BOOLEAN, NEW go \in SUBSET Tasks, Floor!Frame(snap, BOOLEAN, go) PROVE FloorInv'
  BY <1>2, FrameKeepsFit
<1>3. CASE UNCHANGED Floor!vars
  <2>1. FloorTypes'
    BY <1>3, FloorNext DEF FloorInv
  <2>2. UNCHANGED <<phase, rows, prev, actor, booted>>
    BY <1>3 DEF Floor!vars
  <2> QED BY <2>1, <2>2 DEF FloorInv
<1> QED BY <1>1, <1>2, <1>3 DEF Floor!Next

\* The desk of a robot that is in a room is in the room's row as long as it is there, however
\* its task, the others' and their walks come in between, and no row outgrows its limit.
THEOREM DeskUnderRobotHolds == ASSUME FloorLimits, RobotsSuffice PROVE Floor!Spec => []Floor!DeskUnderRobot
<1>1. Floor!Init => FloorInv
  BY FloorInvStarts
<1>2. FloorInv /\ [Floor!Next]_Floor!vars => FloorInv'
  BY FloorInvNext
<1>3. FloorInv => Floor!DeskUnderRobot
  BY SameSize DEF FloorInv, Floor!DeskUnderRobot, RowsFit, Desked, Leaving
<1> QED BY <1>1, <1>2, <1>3, PTL DEF Floor!Spec

=============================================================================
