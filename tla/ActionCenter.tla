---------------------------- MODULE ActionCenter ----------------------------
(***************************************************************************)
(* dashboard/server/src/services/reviewModel.ts: why a task is in the Action *)
(* Center, from its files: the classification of its phase, verdict, human   *)
(* decision and completion gates, then stale work, due checks and            *)
(* supersession in that order, each seeing what the one before it said; and  *)
(* what the inbox (routes/review.ts) makes of it.                            *)
(***************************************************************************)
EXTENDS Integers, Sequences, FiniteSets

InReview == {"review", "in_review"}
Terminal == {"done", "aborted"}
Exceptions == {"blocked", "escalated", "validation_failed", "devops_needed"}
Idles == {"review", "in_review", "pending", "assigned", "assigned_parallel", "debugging",
          "devops_needed"}                           \* IDLE_THRESHOLD_DAYS
Phases == InReview \cup Terminal \cup Exceptions \cup Idles
              \cup {"debugging_complete", "devops_complete", "free_roam_complete"}

\* normalizePhase, normalizeVerdict: null unless exactly one of the contract.
NoPhase == {"none", "off-contract"}
Adverse == {"changes_requested", "escalate", "infra_failure"}
Verdicts == Adverse \cup {"approved", "none"}

\* What CompletionGuard.gate_view says: no gates, not to be read, a gate that waits
\* for a grant (finished: in a finished task), unresolved gates, all resolved.
Gates == {"none", "unreadable", "no ledger", "awaits grant", "awaits, finished", "open", "resolved"}

\* lapsed: longer without a change than its phase allows; superseded: another run's
\* task.md says it replaces this task; blockers: the phases of its blocked_on tasks.
Task == [readable : BOOLEAN, phase : Phases \cup NoPhase, verdict : Verdicts,
         decided : BOOLEAN, gates : Gates, lapsed : BOOLEAN, due : BOOLEAN, superseded : BOOLEAN,
         blockers : {{}, {"done"}, {"aborted", "done"}, {"done", "review"}, {"none"}}]

-----------------------------------------------------------------------------

GateAction(t) ==
    CASE t.gates = "none" \/ t.phase \in Terminal -> "none"
      [] t.gates \in {"unreadable", "no ledger"} -> "gates_unreadable"
      [] t.gates = "awaits grant" -> "authorization_required"
      [] /\ t.gates \in {"awaits, finished", "open"}
         /\ t.phase \in InReview /\ t.verdict = "approved" -> "completion_held"
      [] OTHER -> "none"

\* A status.yaml that cannot be read has no phase.
PhaseOf(t) == IF t.readable THEN t.phase ELSE "none"

\* classifyAction; an unreadable status.yaml also names no gates and no decision applied.
Classified(t) ==
    CASE ~t.readable -> "workflow_exception"
      [] t.decided -> "decision_pending"
      [] GateAction(t) # "none" -> GateAction(t)
      [] t.phase \in InReview -> "awaiting_review"
      [] t.phase = "aborted" -> "none"
      [] t.phase \in Exceptions -> "workflow_exception"
      [] t.verdict \in Adverse -> "artifact_drift"
      [] t.phase = "off-contract" -> "workflow_exception"
      [] OTHER -> "none"

Summary(kind, review) == [kind |-> kind, needsReview |-> review]

Assessed(t) == Summary(Classified(t), Classified(t) = "awaiting_review")

\* assessStaleness: a block whose blockers have all finished; a task nothing was done
\* on for longer than its phase allows, unless it is there already.
Stale(t, s) ==
    CASE /\ PhaseOf(t) = "blocked" /\ s.kind = "workflow_exception"
         /\ t.blockers # {} /\ t.blockers \subseteq Terminal -> [s EXCEPT !.kind = "stale_work"]
      [] PhaseOf(t) \in Idles /\ t.lapsed /\ s.kind = "none" -> [s EXCEPT !.kind = "stale_work"]
      [] OTHER -> s

Open(t) == PhaseOf(t) \notin Terminal \cup NoPhase

\* assessCheckDue: it replaces stale work, which it explains.
CheckDue(t, s) ==
    IF Open(t) /\ t.due /\ s.kind \in {"none", "stale_work"}
    THEN [s EXCEPT !.kind = "check_due"] ELSE s

\* assessSupersession: over everything but an unapplied human decision.
Superseded(t, s) ==
    IF t.superseded /\ Open(t) /\ s.kind # "decision_pending"
    THEN Summary("artifact_drift", FALSE) ELSE s

Review(t) == Superseded(t, CheckDue(t, Stale(t, Assessed(t))))

-----------------------------------------------------------------------------
(* The inbox (routes/review.ts, ReviewView.tsx) *)

Priority == <<"gates_unreadable", "authorization_required", "completion_held", "awaiting_review",
              "decision_pending", "workflow_exception", "artifact_drift", "check_due", "stale_work">>

Rank(kind) == IF kind = "none" THEN 10 ELSE CHOOSE n \in DOMAIN Priority : Priority[n] = kind

\* The row's button: decide or grant in place, else the run in Monitor.
Offers(s) ==
    CASE s.kind \in {"awaiting_review", "decision_pending"} -> "decide"
      [] s.kind = "authorization_required" -> "grant"
      [] OTHER -> "open"

Before(s, u) == Rank(s.kind) < Rank(u.kind)

-----------------------------------------------------------------------------
(* Risk (deriveRiskLevel): the higher of the change's and the findings' *)

RiskRank(r) == CASE r = "high" -> 3 [] r = "medium" -> 2 [] r = "low" -> 1 [] OTHER -> 0
Levels == {"high", "medium", "low"}

FindingRisk(errors, warnings) == IF errors > 0 THEN "high" ELSE IF warnings > 0 THEN "medium" ELSE "low"

Risk(reviewed, change, errors, warnings) ==
    LET found == FindingRisk(errors, warnings)
    IN  IF ~reviewed THEN "none"
        ELSE IF change \in Levels /\ RiskRank(change) >= RiskRank(found) THEN change ELSE found

-----------------------------------------------------------------------------
(* history[]: the latest transition, and the stays in Debug Lab *)

\* A row without a readable time is older than any other.
Row == [time : -1..2, from : {"debugging", "review"}, to : {"debugging", "review"}]

LatestRow(rows) ==
    IF rows = <<>> THEN 0
    ELSE CHOOSE n \in DOMAIN rows : \A m \in DOMAIN rows :
             rows[n].time > rows[m].time \/ (rows[n].time = rows[m].time /\ n >= m)

\* debugging -> debugging is bookkeeping during a stay.
Entries(rows) == SelectSeq(rows, LAMBDA r : r.to = "debugging" /\ r.from # "debugging")

-----------------------------------------------------------------------------

\* Whatever else is true of it, a task that cannot go on without a human is in the
\* Action Center; an unapplied human decision is never hidden; who is asked for a
\* review can give it there (needsReview goes with awaiting_review and its button);
\* a finished task only comes up for a decision or an adverse verdict.
NothingIsMissed(t) ==
    LET s == Review(t)
    IN  /\ (~t.readable \/ PhaseOf(t) \in InReview \cup Exceptions \cup {"off-contract"}
            \/ t.decided \/ (t.superseded /\ Open(t)) \/ (t.due /\ Open(t))
            \/ (t.verdict \in Adverse /\ PhaseOf(t) # "aborted")) => s.kind # "none"
        /\ t.decided /\ t.readable => s.kind = "decision_pending"
        /\ s.needsReview <=> s.kind = "awaiting_review"
        /\ s.needsReview => Offers(s) = "decide"
        /\ t.readable /\ t.phase \in Terminal => s.kind \in {"none", "decision_pending", "artifact_drift"}
        /\ \A kind \in {"gates_unreadable", "authorization_required", "completion_held"} :
              s.kind = kind => Before(s, Summary("awaiting_review", TRUE))

\* A clean review never hides what the change risks, nor the other way round.
RiskIsTheHigher ==
    \A change \in Levels \cup {"none"}, errors, warnings \in 0..1 :
        LET r == Risk(TRUE, change, errors, warnings)
        IN  /\ RiskRank(r) >= RiskRank(change) /\ RiskRank(r) >= RiskRank(FindingRisk(errors, warnings))
            /\ r = change \/ r = FindingRisk(errors, warnings)

\* The latest transition is the latest by time wherever its row is in the file, also
\* among the entries into Debug Lab.
LatestIsLatest(rows) ==
    \A some \in {rows, Entries(rows)} : some # <<>> =>
        \A m \in DOMAIN some : some[LatestRow(some)].time >= some[m].time
=============================================================================
