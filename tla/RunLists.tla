------------------------------ MODULE RunLists ------------------------------
(***************************************************************************)
(* What the dashboard reads of a run and how it lists runs                     *)
(* (server/src/services/runScanner.ts, shared/statusLabels.ts,                 *)
(* client/src/views/commandZones.ts, monitorDetail.ts, monitorList.ts,         *)
(* CommandView.tsx). Phases, statuses and zones keep the names of the code; a   *)
(* run is a record, its id the number the list breaks ties by, a time is a      *)
(* number, 0 when there is none.                                             *)
(***************************************************************************)
EXTENDS Integers, Sequences, FiniteSets, SequencesExt, FiniteSetsExt

CONSTANTS Preview   \* TIMELINE_PREVIEW: lines of the collapsed timeline

-----------------------------------------------------------------------------
(* The tables of the phases. *)

RunPhase ==
    {"pending", "blocked", "assigned", "assigned_parallel", "review", "in_review", "debugging",
     "debugging_complete", "devops_needed", "devops_complete", "escalated", "free_roam_complete",
     "validation_failed", "done", "aborted"}

PHASE_TO_STATUS ==
    [p \in RunPhase |->
        CASE p = "pending" -> "queued"
          [] p \in {"blocked", "escalated"} -> "blocked"
          [] p \in {"review", "in_review"} -> "waiting_review"
          [] p = "validation_failed" -> "failed"
          [] p = "done" -> "completed"
          [] p = "aborted" -> "cancelled"
          [] OTHER -> "running"]

\* mapPhaseToRunStatus: never guessed.
StatusOf(phase) == IF phase \in RunPhase THEN PHASE_TO_STATUS[phase] ELSE "unknown"

Zone(id, phases, agent, kind) == [id |-> id, phases |-> phases, agent |-> agent, kind |-> kind]

ZONES ==
    {Zone("inbox", {"pending"}, "pm", "work"),
     Zone("review", {"review", "in_review"}, "reviewer", "work"),
     Zone("escalation", {"escalated", "free_roam_complete"}, "free-roam", "work"),
     Zone("devops", {"devops_needed", "devops_complete"}, "devops", "work"),
     Zone("dev", {"assigned", "assigned_parallel"}, "dev", "work"),
     Zone("done", {"done"}, "none", "terminal"),
     Zone("debug", {"debugging", "debugging_complete"}, "debugger", "work"),
     Zone("blocked", {"blocked"}, "none", "stuck"),
     Zone("rejected", {"validation_failed"}, "none", "stuck"),
     Zone("aborted", {"aborted"}, "none", "terminal")}

\* PHASE_TO_ZONE
ZonesWith(phase) == {z \in ZONES : phase \in z.phases}

\* mappedRoles: the role the next action names when nothing else does.
MappedRole(phase) ==
    CASE phase = "pending" -> "pm"
      [] phase \in {"review", "in_review"} -> "reviewer"
      [] phase \in {"debugging", "debugging_complete"} -> "debugger"
      [] phase \in {"devops_needed", "devops_complete"} -> "devops"
      [] phase \in {"escalated", "free_roam_complete"} -> "free-roam"
      [] phase = "done" -> "done"
      [] OTHER -> "none"

\* buildNextActionPreview: what status.yaml recommends, else the phase, else the recorded role.
NextRole(status) ==
    CASE status.nextAgent # "none" /\ status.nextReason -> status.nextAgent
      [] MappedRole(status.phase) # "none" -> MappedRole(status.phase)
      [] status.phase \in {"assigned", "assigned_parallel", "validation_failed"} /\ status.role # "done" -> status.role
      [] OTHER -> "none"

ActiveStatuses == {"running", "waiting_review", "blocked", "queued", "failed"}

\* isAssignedOnly: "running" only because it was assigned.
AssignedOnly(phase) == StatusOf(phase) = "running" /\ phase \in {"assigned", "assigned_parallel"}

\* The three tables of phases agree: each phase is in one zone, finished zones hold the finished
\* runs and stuck ones runs that wait, and the role a phase recommends is the one of its zone.
TablesAgree ==
    \A p \in RunPhase :
        /\ Cardinality(ZonesWith(p)) = 1
        /\ \A z \in ZonesWith(p) :
              /\ (z.kind = "terminal") <=> (StatusOf(p) \notin ActiveStatuses)
              /\ z.kind = "stuck" => StatusOf(p) \in {"blocked", "failed"}
              /\ MappedRole(p) \notin {"none", "done"} => MappedRole(p) = z.agent
              /\ (z.agent # "none" /\ MappedRole(p) = "none") => AssignedOnly(p)

-----------------------------------------------------------------------------
(* History. A row is a hand-off (from one phase to another), one that kept its phase, or one of *)
(* metadata (a gate, waits_on or carries); at is its time, 0 for a bare date. *)

\* metadataTag, but for a note, which is a line of its own.
IsMeta(row) == row.kind = "meta"

\* chronological: by time when every row has one, else as written.
Chronological(rows) ==
    IF \E i \in DOMAIN rows : rows[i].at = 0 THEN rows
    ELSE LET order == SetToSortSeq(DOMAIN rows, LAMBDA i, j :
                          rows[i].at < rows[j].at \/ (rows[i].at = rows[j].at /\ i < j))
         IN  [i \in DOMAIN rows |-> rows[order[i]]]

\* The newest first, consecutive rows of metadata in one line.
Folded(rows) ==
    FoldLeft(LAMBDA lines, row :
                 IF IsMeta(row) /\ lines # <<>> /\ IsMeta(Last(lines)[1])
                 THEN [lines EXCEPT ![Len(lines)] = Append(@, row)] ELSE Append(lines, <<row>>),
             <<>>, Reverse(Chronological(rows)))

\* timelinePreview (take): as many lines as reach the latest row that is not metadata, which a
\* limit of two already does: the metadata before it is one line.
Take(lines) ==
    LET events == {i \in DOMAIN lines : ~IsMeta(lines[i][1])}
    IN  Max({Preview, IF events = {} THEN 0 ELSE Min(events)})

TimelinePreview(rows) ==
    LET lines == Folded(rows)
    IN  SubSeq(lines, 1, Min({Take(lines), Len(lines)}))

Shown(rows) == FlattenSeq(TimelinePreview(rows))

\* lastHandoffAt: the latest timed change of phase.
LastHandoffAt(rows) == Max({0} \cup {rows[i].at : i \in {j \in DOMAIN rows : rows[j].kind = "handoff"}})

\* The collapsed timeline reaches the latest hand-off, the one the list orders the run by, in
\* whatever order the rows were written and however many of metadata came after it (not so when
\* rows that kept their phase came after it: they are lines of their own, see the README).
TimelineReaches(rows) ==
    LET shown == Shown(rows)
        all == Reverse(Chronological(rows))
    IN  /\ shown = SubSeq(all, 1, Len(shown))
        /\ (\A i \in DOMAIN rows : rows[i].kind # "kept" /\ rows[i].at # 0) =>
              (LastHandoffAt(rows) # 0 => \E i \in DOMAIN shown : shown[i].kind = "handoff" /\ shown[i].at = LastHandoffAt(rows))

-----------------------------------------------------------------------------
(* Lists of runs: a run has its phase, its id, when it was updated and last handed off, and what *)
(* the review model says of it. *)

RUN_STATUS_PRIORITY ==
    [running |-> 0, blocked |-> 1, waiting_review |-> 2, failed |-> 3, queued |-> 4, unknown |-> 5,
     completed |-> 6, cancelled |-> 7]

\* recency
Recency(run) == IF run.handoff # 0 THEN run.handoff ELSE run.updated

\* sortRunsByPriority
Precedes(r, s) ==
    LET a == RUN_STATUS_PRIORITY[StatusOf(r.phase)]
        b == RUN_STATUS_PRIORITY[StatusOf(s.phase)]
    IN  \/ a < b
        \/ a = b /\ Recency(r) > Recency(s)
        \/ a = b /\ Recency(r) = Recency(s) /\ r.id > s.id

\* Monitor's scopes (inScope): an unreadable run is only in All.
InScope(run, scope) ==
    CASE scope = "active" -> StatusOf(run.phase) \in ActiveStatuses
      [] scope = "finished" -> StatusOf(run.phase) \in {"completed", "cancelled"}
      [] OTHER -> TRUE

FilterRuns(runs, scope, prefix, found) ==
    {r \in runs : InScope(r, scope) /\ (prefix = "any" \/ r.prefix = prefix) /\ r.id \in found}

\* searchElsewhere: how many the other scope would show.
Elsewhere(runs, scope, prefix, found) ==
    IF scope = "all" THEN {}
    ELSE FilterRuns(runs, IF scope = "active" THEN "finished" ELSE "active", prefix, found)

\* Command's queue (priority).
QueuePriority(run) ==
    LET status == StatusOf(run.phase)
    IN  CASE status = "failed" -> 0
          [] run.needsReview -> 1
          [] status \in {"running", "waiting_review"} -> 2
          [] status = "blocked" -> 3
          [] status = "queued" -> 4
          [] status = "cancelled" -> 5
          [] OTHER -> 6

Queue(runs) ==
    SetToSortSeq(runs, LAMBDA r, s :
        QueuePriority(r) < QueuePriority(s) \/ (QueuePriority(r) = QueuePriority(s) /\ r.id > s.id))

\* The filter chips of the queue, and what each counts (countRuns).
Filtered(runs, filter) ==
    CASE filter = "actionable" -> {r \in runs : StatusOf(r.phase) \in ActiveStatuses}
      [] filter = "needs" -> {r \in runs : r.needsReview}
      [] filter = "failed" -> {r \in runs : StatusOf(r.phase) = "failed"}
      [] filter = "done" -> {r \in runs : StatusOf(r.phase) = "completed"}
      [] filter = "unreadable" -> {r \in runs : StatusOf(r.phase) = "unknown"}
      [] OTHER -> runs

\* summarizeZones: what stands in a zone, whether a person or an agent is on it.
InZone(runs, z) == {r \in runs : r.phase \in z.phases}
Attention(runs, z) == \E r \in InZone(runs, z) : r.needsReview \/ StatusOf(r.phase) = "failed"
AgentOnIt(runs, z) == \E r \in InZone(runs, z) : z.agent = r.agent /\ z.agent # "none" /\ ~AssignedOnly(r.phase)

\* zoneTone
Tone(runs, z) ==
    CASE InZone(runs, z) = {} \/ z.kind = "terminal" -> "gray"
      [] z.kind = "stuck" -> (IF z.id = "rejected" THEN "red" ELSE "amber")
      [] Attention(runs, z) -> "amber"
      [] AgentOnIt(runs, z) -> "cyan"
      [] OTHER -> "green"

\* zoneNeedsEye
NeedsEye(runs, z) == InZone(runs, z) # {} /\ z.kind # "terminal" /\ (z.kind = "stuck" \/ Attention(runs, z))

\* zonePreview of an open zone: what needs a person leads, then the stalest.
Urgent(run) == run.needsReview \/ StatusOf(run.phase) = "failed"
ZonePreview(runs, z, limit) ==
    LET order == SetToSortSeq(InZone(runs, z), LAMBDA r, s :
                     \/ Urgent(r) /\ ~Urgent(s)
                     \/ Urgent(r) = Urgent(s) /\ r.updated < s.updated
                     \/ Urgent(r) = Urgent(s) /\ r.updated = s.updated /\ r.id < s.id)
    IN  SubSeq(order, 1, Min({limit, Len(order)}))

-----------------------------------------------------------------------------
(* Properties of the lists. *)

\* The order of the list is one order, whatever the order of the directory; every readable run
\* is in one of the two scopes, so that a search that finds nothing says where it would; each
\* task of a zone is counted in its chip; and a person's turn never hides: the queue leads with
\* it, its zone asks for attention and shows it first.
ListsAreComplete(runs, found) ==
    /\ \A r, s \in runs : r # s => (Precedes(r, s) # Precedes(s, r))
    /\ \A r, s, t \in runs : (Precedes(r, s) /\ Precedes(s, t)) => Precedes(r, t)
    /\ \A prefix \in {"any"} \cup {r.prefix : r \in runs}, scope \in {"active", "finished"} :
          LET matching == {r \in FilterRuns(runs, "all", prefix, found) : StatusOf(r.phase) # "unknown"}
          IN  matching = FilterRuns(runs, scope, prefix, found) \cup Elsewhere(runs, scope, prefix, found)
    /\ Filtered(runs, "actionable") \cup Filtered(runs, "unreadable") \cup FilterRuns(runs, "finished", "any", {r.id : r \in runs}) = runs
    /\ \A i, j \in DOMAIN Queue(runs) :
          (StatusOf(Queue(runs)[i].phase) \notin ActiveStatuses /\ ~Queue(runs)[i].needsReview
             /\ StatusOf(Queue(runs)[j].phase) \in ActiveStatuses) => j < i
    /\ \A r \in Filtered(runs, "needs") : \A z \in ZonesWith(r.phase) : z.kind # "terminal" =>
          /\ NeedsEye(runs, z) /\ Tone(runs, z) \notin {"gray", "cyan", "green"}
          /\ Urgent(ZonePreview(runs, z, 1)[1])

-----------------------------------------------------------------------------
(* The summary of a run (getRunSummary): its status.yaml can be missing or half written. *)

\* Its status and dates: completed_at, else the update that ended it, else none.
Summary(readable, status) ==
    LET state == IF readable THEN StatusOf(status.phase) ELSE "unknown"
        updated == IF readable /\ status.updated # 0 THEN status.updated ELSE status.mtime
    IN  [status |-> state, updated |-> updated,
         completed |-> CASE readable /\ status.completed # 0 -> status.completed
                         [] state \in {"completed", "failed", "cancelled"} -> updated
                         [] OTHER -> 0]

\* A run whose status.yaml cannot be read stays listed, as unreadable and never guessed: it has
\* a date to be ordered by and none of an end; and a role is recommended to no run that is
\* blocked or over but for the one its own next_action names.
NothingIsGuessed(readable, status) ==
    LET summary == Summary(readable, status)
        seen == IF readable THEN status ELSE [status EXCEPT !.phase = "none", !.role = "none", !.nextAgent = "none"]
    IN  /\ summary.updated # 0
        /\ ~readable => (summary.status = "unknown" /\ summary.completed = 0 /\ NextRole(seen) = "none")
        /\ (summary.status \in {"cancelled", "blocked"} /\ seen.phase # "escalated" /\ seen.nextAgent = "none")
              => NextRole(seen) = "none"
=============================================================================
