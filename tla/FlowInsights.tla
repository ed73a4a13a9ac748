---------------------------- MODULE FlowInsights ----------------------------
(***************************************************************************)
(* Insights, Flow: where open work is stuck and how fast it closes             *)
(* (server/src/services/flowInsights.ts, officeTime.ts, shared/runCounts.ts).   *)
(* Time is local and counted in quarters of a day. A field of status.yaml is a  *)
(* bare date, <<"day", d>>, a timestamp, <<"time", t>>, or is not there.        *)
(***************************************************************************)
EXTENDS Integers, Sequences, FiniteSets, FiniteSetsExt

CONSTANTS
    Window,     \* days of the window
    FreshDays,  \* FLOW_BACKLOG_DAYS
    NearStart   \* START_MATCH_MS, in quarters

Quarters == 4
NoTime == -1
None == <<"none", 0>>

Statuses == {"running", "waiting_review", "blocked", "queued", "failed", "completed", "cancelled", "unknown"}

\* isActiveStatus
ActiveStatuses == {"running", "waiting_review", "blocked", "queued", "failed"}

\* countRuns
CountRuns(runs) ==
    LET by(some) == Cardinality({r \in DOMAIN runs : runs[r].status \in some})
    IN  [total |-> by(Statuses), active |-> by(ActiveStatuses), completed |-> by({"completed"}),
         cancelled |-> by({"cancelled"}), unreadable |-> by({"unknown"}),
         finished |-> by({"completed", "failed", "cancelled"})]

-----------------------------------------------------------------------------
(* Dates (officeTime.ts). *)

LocalDay(t) == t \div Quarters

\* officeMs: a bare date is local midnight.
OfficeMs(field) ==
    IF field[1] = "time" THEN field[2]
    ELSE IF field[1] = "day" THEN field[2] * Quarters
    ELSE NoTime

DayOf(field) == IF field[1] = "day" THEN field[2] ELSE LocalDay(field[2])

\* timestamp: a bare date in history says nothing about hours.
Timestamp(row) == IF row.at[1] = "time" THEN row.at[2] ELSE NoTime

-----------------------------------------------------------------------------
(* History. A row has a date, the phases it went from and to, the kind of its agent (a role,  *)
(* an actor, an operator, unknown) and whether it names an operator in a field of its own.      *)

Timed(history) == {i \in DOMAIN history : Timestamp(history[i]) # NoTime}
Into(history, phases) == {i \in Timed(history) : history[i].to \in phases /\ history[i].from # "gate"}
LastInto(history, phases) ==
    LET rows == Into(history, phases)
    IN  IF rows = {} THEN NoTime ELSE Timestamp(history[Max(rows)])

\* endedAt: the last timed transition into the end, else completed_at.
EndedAt(run, history) ==
    LET timed == LastInto(history, IF run.status = "cancelled" THEN {"aborted"} ELSE {"done"})
    IN  IF timed # NoTime THEN timed ELSE OfficeMs(run.completedAt)

\* cycleSpan: from the first timestamp when it fits created_at, to the last one into done.
CycleSpan(run, history) ==
    LET created == OfficeMs(run.startedAt)
        timed == Timed(history)
        first == IF timed = {} THEN NoTime ELSE Timestamp(history[Min(timed)])
        fits == first # NoTime /\ (created = NoTime \/ first - created \in (-NearStart)..NearStart)
        start == IF fits THEN first ELSE created
        done == LastInto(history, {"done"})
        end == IF done # NoTime THEN done ELSE OfficeMs(run.completedAt)
    IN  IF start = NoTime \/ end = NoTime THEN NoTime ELSE Max({0, end - start})

\* rowOperator: the field, else an operator named as the agent.
RowOperator(row) == row.operator \/ row.agent = "operator"

-----------------------------------------------------------------------------
(* The window. *)

Cutoff(now) == OfficeMs(<<"day", LocalDay(now - (Window - 1) * Quarters)>>)
InWindow(t, now) == t # NoTime /\ t >= Cutoff(now) /\ t <= now

Days(now) == [i \in 1..Window |-> LocalDay(now - (Window - i) * Quarters)]

\* FlowInsightsService.get: the histories read, of runs updated in the window.
Candidates(runs, now) ==
    {r \in DOMAIN runs : /\ OfficeMs(runs[r].updatedAt) # NoTime
                         /\ OfficeMs(runs[r].updatedAt) >= now - Window * Quarters}
Read(runs, r, now) == IF r \in Candidates(runs, now) THEN runs[r].history ELSE <<>>

Ended(runs, r, now) == EndedAt(runs[r], Read(runs, r, now))

Closed(runs, now) == {r \in DOMAIN runs : runs[r].status = "completed" /\ InWindow(Ended(runs, r, now), now)}
Aborted(runs, now) == {r \in DOMAIN runs : runs[r].status = "cancelled" /\ InWindow(Ended(runs, r, now), now)}
Opened(runs, now) == {r \in DOMAIN runs : InWindow(OfficeMs(runs[r].startedAt), now)}

\* The bars of throughput.days.
Bars(runs, now) ==
    [i \in 1..Window |->
        [opened |-> {r \in Opened(runs, now) : DayOf(runs[r].startedAt) = Days(now)[i]},
         closed |-> {r \in Closed(runs, now) : LocalDay(Ended(runs, r, now)) = Days(now)[i]},
         aborted |-> {r \in Aborted(runs, now) : LocalDay(Ended(runs, r, now)) = Days(now)[i]}]]

\* throughput.cycle
Cycle(runs, now) ==
    LET span(r) == CycleSpan(runs[r], Read(runs, r, now))
        sample == {r \in Closed(runs, now) : span(r) # NoTime}
    IN  [sample |-> sample,
         fresh |-> {r \in sample : span(r) <= FreshDays * Quarters},
         backlog |-> {r \in sample : span(r) > FreshDays * Quarters}]

-----------------------------------------------------------------------------
(* Who moved work. *)

Rows(runs, now) ==
    UNION {{<<r, i>> : i \in DOMAIN Read(runs, r, now)} : r \in Candidates(runs, now)}
RowAt(runs, at) == runs[at[1]].history[at[2]]

Counted(runs, now) ==
    {at \in Rows(runs, now) : RowAt(runs, at).from # "gate" /\ InWindow(OfficeMs(RowAt(runs, at).at), now)}
SamePhase(runs, now) == {at \in Counted(runs, now) : RowAt(runs, at).from = RowAt(runs, at).to}
Openings(runs, now) == {at \in Counted(runs, now) \ SamePhase(runs, now) : RowAt(runs, at).from = "created"}
Moves(runs, now) == Counted(runs, now) \ (SamePhase(runs, now) \cup Openings(runs, now))

\* A row counts once for its role and once for its operator.
Lists(row) ==
    {l \in {"roles", "conductors"} : IF l = "roles" THEN row.agent # "operator" ELSE RowOperator(row)}

Conducted(runs, now) == {at[1] : at \in {m \in Moves(runs, now) : "conductors" \in Lists(RowAt(runs, m))}}
Moved(runs, now) == {at[1] : at \in Moves(runs, now)}

-----------------------------------------------------------------------------
(* Stuck now. A review of each run says whether it needs a person and for which kind of reason, *)
(* the phase and the days it has been idle past its threshold (NoTime: not idle).             *)

Open(runs) == {r \in DOMAIN runs : runs[r].status \in ActiveStatuses}
NeedsYou(runs) == {r \in DOMAIN runs : runs[r].kind # "none"}
ByKind(runs, kind) == {r \in DOMAIN runs : runs[r].kind = kind}
Waits(runs) == [phase \in {runs[r].phase : r \in Open(runs)} |-> {r \in Open(runs) : runs[r].phase = phase}]

\* buildFlowHealth
HEALTH_PENALTY == [failed |-> 10, idle |-> 5, unreadable |-> 5, blocked |-> 2]
Factors(runs) ==
    [failed |-> Cardinality({r \in Open(runs) : runs[r].status = "failed"}),
     idle |-> Cardinality({r \in Open(runs) : runs[r].idle}),
     unreadable |-> CountRuns(runs).unreadable,
     blocked |-> Cardinality({r \in Open(runs) : runs[r].status = "blocked"})]
Score(runs) ==
    LET factors == Factors(runs)
        impact(label) == factors[label] * HEALTH_PENALTY[label]
    IN  Max({0, Min({100, 100 - (impact("failed") + impact("idle") + impact("unreadable") + impact("blocked"))})})
Health(runs) == IF Score(runs) >= 90 THEN "ok" ELSE IF Score(runs) >= 70 THEN "warning" ELSE "error"

-----------------------------------------------------------------------------
(* Properties. *)

\* Each run of a set is in one of the bars.
SharedOut(some, bars, k) ==
    /\ some = UNION {bars[i][k] : i \in DOMAIN bars}
    /\ \A i, j \in DOMAIN bars : i # j => bars[i][k] \cap bars[j][k] = {}

\* The number of runs of a throughput card is the sum of its bars, each run in one bar; and
\* what is opened on one of the days shown is in that day's bar, whatever time of day it is
\* read at ("The window starts at local midnight of the first bar, so counts equal the sum of
\* the bars"); and a closed run that says when it was opened is one of the cycle's.
BarsAddUp(runs, now) ==
    LET bars == Bars(runs, now)
    IN  /\ SharedOut(Opened(runs, now), bars, "opened")
        /\ SharedOut(Closed(runs, now), bars, "closed")
        /\ SharedOut(Aborted(runs, now), bars, "aborted")
        /\ \A r \in DOMAIN runs, i \in 1..Window :
              runs[r].startedAt = <<"day", Days(now)[i]>> => r \in bars[i].opened
        /\ \A r \in Closed(runs, now) : OfficeMs(runs[r].startedAt) # NoTime =>
              r \in Cycle(runs, now).fresh \cup Cycle(runs, now).backlog

\* The run's update date is at most so many days behind what its history says: a dispatch
\* dates the update by the day it began and the row by the time it ends (run-agent.sh 651,
\* sync-status-from-output.rb 248, 270), so it is behind by the midnights the dispatch ran over.
Behind(run, late) ==
    \A i \in DOMAIN run.history :
        LET t == OfficeMs(run.history[i].at)
        IN  t # NoTime => /\ OfficeMs(run.updatedAt) # NoTime
                          /\ DayOf(run.updatedAt) >= LocalDay(t) - late

\* A completed run is in the bar of the day its history last says it was done, after the first
\* late days.
EndIsShown(runs, r, late, now) ==
    LET history == runs[r].history
        done == Into(history, {"done"})
    IN  \A i \in 1..Window, j \in done :
            (/\ runs[r].status = "completed" /\ i > late /\ \A m \in done : m <= j
             /\ Timestamp(history[j]) <= now /\ LocalDay(Timestamp(history[j])) = Days(now)[i])
                => r \in Bars(runs, now)[i].closed

\* No move in the window falls between the two lists, after the first late days.
MovesAreShown(runs, r, late, now) ==
    \A i \in DOMAIN runs[r].history :
        LET row == runs[r].history[i]
        IN  (/\ row.from \notin {"gate", "created", row.to} /\ InWindow(OfficeMs(row.at), now)
             /\ LocalDay(OfficeMs(row.at)) >= Days(now)[late + 1]) =>
                 /\ <<r, i>> \in Moves(runs, now)
                 /\ Lists(row) # {} /\ (row.operator => "conductors" \in Lists(row))
                 /\ (row.agent = "role" => "roles" \in Lists(row))

\* Only the histories of runs updated in the window are read ("A transition inside the window
\* means updated_at is at least that recent"), and still nothing the window shows is missing
\* but from as many of its first days as the update date is behind; and a conductor is named
\* only on runs that moved.
HistoryIsShown(runs, now) ==
    /\ \A r \in DOMAIN runs : \A late \in 0..(Window - 1) :
          Behind(runs[r], late) => EndIsShown(runs, r, late, now) /\ MovesAreShown(runs, r, late, now)
    /\ Conducted(runs, now) \subseteq Moved(runs, now)

\* Every run is open, finished or unreadable, and the counts of the cards say so together; the
\* kinds add up to "need you", the phases to the open runs.
CountsAgree(runs) ==
    LET counts == CountRuns(runs)
    IN  /\ counts.total = Cardinality(DOMAIN runs)
        /\ counts.total = counts.active + counts.completed + counts.cancelled + counts.unreadable
        /\ UNION {ByKind(runs, k) : k \in {"review", "stale"}} = NeedsYou(runs)
        /\ UNION {Waits(runs)[p] : p \in DOMAIN Waits(runs)} = Open(runs)
        /\ Health(runs) = "ok" => Factors(runs).failed <= 1

FlowIsRight(runs, now) == BarsAddUp(runs, now) /\ HistoryIsShown(runs, now) /\ CountsAgree(runs)
=============================================================================
