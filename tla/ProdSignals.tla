----------------------------- MODULE ProdSignals -----------------------------
(***************************************************************************)
(* The production signals (server/src/services/prodSignals.ts): the error    *)
(* lines of the clusters' logs, read back from the newest, folded into        *)
(* failures, and matched to the runs that are about them; one read per        *)
(* environment is kept in memory and on disk and served while it is renewed. *)
(* One environment; a read is the time it ended.                             *)
(***************************************************************************)
EXTENDS Integers, Sequences, FiniteSets, SequencesExt, FiniteSetsExt

CONSTANTS
    CacheTime,      \* cacheMinutes
    SlowDisk,       \* may a build end while the saved read is being loaded
    MaxTime, MaxRequests, MaxRestarts      \* bounds

VARIABLES
    now,
    cache, disk,    \* the read in memory and the saved one: when it ended, with an error or not
    building,       \* inflight: when it began, or none
    saving,         \* the read that is being written
    requests,       \* each: what it asked, when, and what it has got so far
    restarts

vars == <<now, cache, disk, building, saving, requests, restarts>>

None == [at |-> -1, error |-> FALSE]
Open == {"loading", "waiting"}

Init ==
    /\ now = 0
    /\ cache = None /\ disk \in {None, [at |-> 0, error |-> FALSE]}
    /\ building = -1 /\ saving = None
    /\ requests = <<>> /\ restarts = 0

-----------------------------------------------------------------------------
(* ProdSignalsService.get *)

\* Slip: an answer from the cache does not look at its age.
AnyHit(read) == read # None

Fresh(read) == read # None /\ now - read.at < CacheTime

\* From the cache, stale while it is renewed, or after the read.
Answered(r, read) ==
    IF r.refresh \/ read = None THEN [r EXCEPT !.state = "waiting"]
    ELSE [r EXCEPT !.state = "answered", !.got = read, !.ended = now, !.refreshing = ~Fresh(read)]

Builds(r, read) == building = -1 /\ ~(~r.refresh /\ Fresh(read))

Request(refresh) ==
    /\ Len(requests) < MaxRequests
    /\ LET r == [refresh |-> refresh, state |-> "loading", asked |-> now, got |-> None, ended |-> -1,
                 refreshing |-> FALSE]
       IN  IF ~refresh /\ cache = None
           THEN requests' = Append(requests, r) /\ UNCHANGED building
           ELSE /\ requests' = Append(requests, Answered(r, cache))
                /\ building' = IF Builds(r, cache) THEN now ELSE building
    /\ UNCHANGED <<now, cache, disk, saving, restarts>>

\* readDiskCache: what it finds replaces what the cache has got meanwhile.
Loads(i) ==
    /\ requests[i].state = "loading"
    /\ LET read == IF disk # None THEN disk ELSE cache
       IN  /\ cache' = read
           /\ requests' = [requests EXCEPT ![i] = Answered(@, read)]
           /\ building' = IF Builds(requests[i], read) THEN now ELSE building
    /\ UNCHANGED <<now, disk, saving, restarts>>

\* The read is over, and is saved before anyone who waits for it is answered.
BuildEnds(error) ==
    /\ building # -1 /\ saving = None
    /\ SlowDisk \/ \A i \in DOMAIN requests : requests[i].state # "loading"
    /\ cache' = [at |-> now, error |-> error]
    /\ saving' = cache'
    /\ UNCHANGED <<now, disk, building, requests, restarts>>

Saved ==
    /\ saving # None
    /\ disk' = IF saving.error THEN disk ELSE saving
    /\ requests' = [i \in DOMAIN requests |->
          IF requests[i].state = "waiting"
          THEN [requests[i] EXCEPT !.state = "answered", !.got = saving, !.ended = now] ELSE requests[i]]
    /\ building' = -1 /\ saving' = None
    /\ UNCHANGED <<now, cache, restarts>>

\* The unit of time is longer than a write of the file takes.
Tick ==
    /\ now < MaxTime /\ saving = None /\ now' = now + 1
    /\ UNCHANGED <<cache, disk, building, saving, requests, restarts>>

\* What is in memory is lost, and the requests under way with it; the saved read stays.
Restart ==
    /\ restarts < MaxRestarts /\ restarts' = restarts + 1
    /\ cache' = None /\ building' = -1 /\ saving' = None
    /\ requests' = [i \in DOMAIN requests |->
          IF requests[i].state \in Open THEN [requests[i] EXCEPT !.state = "lost"] ELSE requests[i]]
    /\ UNCHANGED <<now, disk>>

Next ==
    \/ \E refresh \in BOOLEAN : Request(refresh)
    \/ \E i \in DOMAIN requests : Loads(i)
    \/ \E error \in BOOLEAN : BuildEnds(error)
    \/ Saved \/ Tick \/ Restart

Spec == Init /\ [][Next]_vars

\* An answer not marked "refreshing" is of a read that ended after it was asked for, or one
\* that was within the cache time; a refresh is always answered by a read that ended later;
\* and an answer is never older than one that was given before it was asked for.
AnswersAreCurrent ==
    \A i \in DOMAIN requests :
        LET r == requests[i]
        IN  r.state = "answered" =>
                /\ ~r.refreshing => r.got.at >= r.asked \/ r.ended - r.got.at < CacheTime
                /\ r.refresh => r.got.at >= r.asked
                /\ restarts = 0 => \A j \in DOMAIN requests :
                       /\ requests[j].state = "answered"
                       /\ requests[j].ended < r.asked
                       => r.got.at >= requests[j].got.at

-----------------------------------------------------------------------------
(* Reading back (readErrorEvents, readWindow): a log is the number of error lines of each *)
(* hour 0..H-1, the newest last; the deadline may cut any window. *)

LinesIn(log, start, end) == FoldSet(LAMBDA h, n : n + log[h], 0, start..(end - 1))

Hours(log) == Cardinality(DOMAIN log)

ReadBack(log, cap, cut) ==
    LET back[end \in 0..Hours(log), span \in 1..(2 * Hours(log)), n \in 0..100] ==
            LET start == Max({0, end - span})
                lines == LinesIn(log, start, end)
            IN  CASE end = 0 -> [lines |-> n, from |-> 0, truncated |-> FALSE]
                  [] end \in cut -> [lines |-> n, from |-> end, truncated |-> TRUE]
                  [] start > 0 /\ n + lines >= cap -> [lines |-> n + lines, from |-> start, truncated |-> TRUE]
                  [] OTHER -> back[start, Min({2 * span, 2 * Hours(log)}), n + lines]
    IN  back[Hours(log), 1, 0]

\* Every line since coveredFrom is counted, once; and the read says when it is cut.
ReadBackIsExact(log, cap, cut) ==
    LET read == ReadBack(log, cap, cut)
    IN  /\ read.lines = FoldSet(LAMBDA h, n : n + log[h], 0, read.from..(Hours(log) - 1))
        /\ read.truncated = (read.from > 0)

-----------------------------------------------------------------------------
(* Deployments (deployWindows, deployOverlap): events are [at, kind] in the order of time. *)

DeployMax == 2
Settle == 1

Windows(events) ==
    FoldLeft(LAMBDA s, e :
        CASE e.kind = "started" ->
                IF s.open = -1 \/ e.at - s.open > DeployMax THEN [s EXCEPT !.open = e.at] ELSE s
          [] e.kind = "completed" ->
                [open |-> -1,
                 all |-> IF s.open # -1 /\ e.at - s.open <= DeployMax
                         THEN Append(s.all, [from |-> s.open, to |-> e.at + Settle]) ELSE s.all]
          [] OTHER -> [s EXCEPT !.open = -1],
        [open |-> -1, all |-> <<>>], events).all

\* A window is one deployment that was started and completed within the limit, and no start
\* that a steady state ended or that is too old makes one.
WindowsAreDeployments(events) ==
    \A w \in Range(Windows(events)) :
        /\ w.to - Settle - w.from \in 0..DeployMax
        /\ \E i, j \in DOMAIN events :
              /\ i < j
              /\ events[i].kind = "started" /\ events[i].at = w.from
              /\ events[j].kind = "completed" /\ events[j].at = w.to - Settle
              /\ \A k \in (i + 1)..(j - 1) : events[k].kind = "started"

-----------------------------------------------------------------------------
(* Who owns a group of failures (classifyCoverage): a run is open, or closed at a time, and   *)
(* names the error, only the path, or nothing. *)

SawTheLast(run, last) == run.closed >= last

Coverage(runs, last, hasPhrase, window) ==
    LET owns(run) == run.names = "error" \/ (run.names = "path" /\ ~hasPhrase)
        recent(run) == ~run.open /\ run.closed >= window
    IN  CASE \E run \in runs : run.open /\ owns(run) -> "mentioned"
          [] \E run \in runs : recent(run) /\ owns(run) /\ SawTheLast(run, last) -> "closed_recently"
          [] \E run \in runs : recent(run) /\ owns(run) -> "recurs_after"
          [] OTHER -> "unowned"

\* A failure after every run about it was closed is never taken for handled, and one that an
\* open run is about is never shown as nobody's.
CoverageIsHonest(runs, last, hasPhrase, window) ==
    LET found == Coverage(runs, last, hasPhrase, window)
    IN  /\ found = "closed_recently" => \E run \in runs : ~run.open /\ run.closed >= last
        /\ (\E run \in runs : run.open /\ run.names = "error") => found = "mentioned"
        /\ found = "unowned" => \A run \in runs : ~run.open \/ run.names # "error"
=============================================================================
