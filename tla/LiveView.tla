------------------------------ MODULE LiveView ------------------------------
(***************************************************************************)
(* How a change under runs/ reaches the operator's screen:                 *)
(*   server/src/services/watcher.ts, routes/events.ts  debounced updates   *)
(*   server/src/services/runScanner.ts                 the cached listing  *)
(*   client/src/App.tsx, views/MonitorView.tsx         the shown run       *)
(* The content of runs/ is a version number; a listing or a run's detail   *)
(* is the version it was read at.                                          *)
(***************************************************************************)
EXTENDS Integers, FiniteSets

CONSTANTS Runs,        \* the task ids an operator can select
          Missing,     \* those of them with no directory (a stale deep link)
          DebounceMs,  \* ticks of quiet before an update is sent
          MaxWaitMs,   \* ticks an update can be put off under constant writes
          MaxWrites,   \* bound on the changes to runs/
          MaxFlight,   \* bound on the plain requests in flight
          MaxOutages   \* bound on the dropped event streams

None == "none"
Unread == -1
Off == -1

VARIABLES
    disk,      \* the version of runs/
    watch,     \* the watcher: its two timers (Off: not set), time since the first unsent change
    scan,      \* RunScanner: the cached listing and the scan in flight
    stream,    \* the event stream: phase, updates under way, outages
    refresh,   \* App's coordinated refresh: step, the version in hand, aborted
    flight,    \* the requests sent without a signal, and what the server answered
    app,       \* what App holds: selection, listing, detail
    calm       \* not in the code: nothing else was under way when the last update was
               \* sent, and no selection has aborted the refresh it caused

vars == <<disk, watch, scan, stream, refresh, flight, app, calm>>

Idle == [at |-> "idle", ver |-> Unread, aborted |-> FALSE]
Ask(what, run) == [what |-> what, run |-> run, ver |-> Unread]
NoDetail == [run |-> None, ver |-> Unread]
AtRest == [debounce |-> Off, cap |-> Off, age |-> 0]

\* The first load asks for health, runs and reviews at once (fetchInitialData).
Init ==
    /\ disk = 0
    /\ watch = AtRest
    /\ scan = [cache |-> Unread, now |-> Unread]
    /\ stream = [phase |-> "connecting", updates |-> 0, outages |-> 0]
    /\ refresh = Idle
    /\ flight = {Ask("list", None)}
    /\ app = [selected |-> None, list |-> Unread, detail |-> NoDetail,
              loading |-> FALSE, error |-> FALSE]
    /\ calm = TRUE

Pending == watch.debounce # Off
Due == watch.debounce = 0 \/ watch.cap = 0

(***************************************************************************)
(* Server                                                                  *)
(***************************************************************************)
QueuedAfresh(w) == [w EXCEPT !.debounce = DebounceMs, !.cap = MaxWaitMs]

\* queueUpdate: the quiet period starts again, the cap only starts once.
Queued(w) == [w EXCEPT !.debounce = DebounceMs,
                       !.cap = IF w.cap = Off THEN MaxWaitMs ELSE w.cap]

Write ==
    /\ disk < MaxWrites
    /\ ~Due
    /\ disk' = disk + 1
    /\ watch' = Queued(watch)
    /\ UNCHANGED <<scan, stream, refresh, flight, app, calm>>

Tick ==
    /\ Pending /\ ~Due
    /\ watch' = [debounce |-> watch.debounce - 1, cap |-> watch.cap - 1,
                 age |-> watch.age + 1]
    /\ UNCHANGED <<disk, scan, stream, refresh, flight, app, calm>>

InvalidatedLater(s) == s

\* The update drops the cached listing; a scan in flight is left alone.
Invalidated(s) == [s EXCEPT !.cache = Unread]

\* Nothing else is under way.
Undisturbed ==
    refresh = Idle /\ scan.now = Unread /\ flight = {} /\ stream.phase # "connecting"

\* One SSE listener per viewer; a viewer whose stream is down gets nothing.
Flush ==
    /\ Due
    /\ watch' = AtRest
    /\ scan' = Invalidated(scan)
    /\ stream' = IF stream.phase = "open" THEN [stream EXCEPT !.updates = @ + 1] ELSE stream
    /\ calm' = Undisturbed
    /\ UNCHANGED <<disk, refresh, flight, app>>

\* listRuns: a fresh cache answers at once, otherwise one scan serves all, App's refresh
\* and whatever else asks the scanner (analytics, reports).
BeginScan ==
    /\ scan.cache = Unread /\ scan.now = Unread
    /\ scan' = [scan EXCEPT !.now = disk]
    /\ UNCHANGED <<disk, watch, stream, refresh, flight, app, calm>>

EndScan ==
    /\ scan.now # Unread
    /\ scan' = [cache |-> scan.now, now |-> Unread]
    /\ UNCHANGED <<disk, watch, stream, refresh, flight, app, calm>>

\* SCAN_COALESCE_MS after a scan its result is not served any more.
CacheLapses ==
    /\ scan.cache # Unread
    /\ scan' = [scan EXCEPT !.cache = Unread]
    /\ UNCHANGED <<disk, watch, stream, refresh, flight, app, calm>>

\* What the server answers: the cached listing, or the run read now.
Answer(what) == IF what = "list" THEN scan.cache ELSE disk

Serve ==
    \/ /\ refresh.at # "idle" /\ refresh.ver = Unread /\ Answer(refresh.at) # Unread
       /\ refresh' = [refresh EXCEPT !.ver = Answer(refresh.at)]
       /\ UNCHANGED <<disk, watch, scan, stream, flight, app, calm>>
    \/ \E f \in flight :
       /\ f.ver = Unread /\ Answer(f.what) # Unread
       /\ flight' = (flight \ {f}) \union {[f EXCEPT !.ver = Answer(f.what)]}
       /\ UNCHANGED <<disk, watch, scan, stream, refresh, app, calm>>

Opens ==
    /\ stream.phase # "open"
    /\ stream' = [stream EXCEPT !.phase = "open"]
    /\ UNCHANGED <<disk, watch, scan, refresh, flight, app, calm>>

Drops ==
    /\ stream.phase = "open" /\ stream.outages < MaxOutages
    /\ stream' = [phase |-> "closed", updates |-> 0, outages |-> stream.outages + 1]
    /\ UNCHANGED <<disk, watch, scan, refresh, flight, app, calm>>

(***************************************************************************)
(* Client                                                                  *)
(***************************************************************************)
\* setRuns; a selected run the listing lacks is reported as not found.
Listed(a, ver) ==
    IF a.selected \in Missing
    THEN [a EXCEPT !.list = ver, !.detail = NoDetail, !.error = TRUE]
    ELSE [a EXCEPT !.list = ver]

\* fetchRunDetail, before and after the answer.
Asking(a) == [a EXCEPT !.loading = TRUE, !.error = FALSE]
Detailed(a, run, ver) ==
    IF run \in Missing THEN [a EXCEPT !.detail = NoDetail, !.error = TRUE, !.loading = FALSE]
    ELSE [a EXCEPT !.detail = [run |-> run, ver |-> ver], !.loading = FALSE]

\* onRunsChanged: skipped while a refresh is in flight.
Deliver ==
    /\ stream.updates > 0
    /\ stream' = [stream EXCEPT !.updates = @ - 1]
    /\ refresh' = IF refresh = Idle THEN [Idle EXCEPT !.at = "list"] ELSE refresh
    /\ UNCHANGED <<disk, watch, scan, flight, app, calm>>

\* The listing came, or the fetch was aborted and changes nothing; then the detail.
RefreshListed ==
    /\ refresh.at = "list"
    /\ refresh.aborted \/ refresh.ver # Unread
    /\ LET a == IF refresh.aborted THEN app ELSE Listed(app, refresh.ver)
       IN  IF a.selected = None
           THEN app' = a /\ refresh' = Idle
           ELSE /\ app' = Asking(a)
                /\ refresh' = [refresh EXCEPT !.at = a.selected, !.ver = Unread]
    /\ UNCHANGED <<disk, watch, scan, stream, flight, calm>>

\* An aborted detail keeps what is shown, but the loading flag still goes down.
RefreshDetailed ==
    /\ refresh.at \in Runs
    /\ refresh.aborted \/ refresh.ver # Unread
    /\ app' = IF refresh.aborted THEN [app EXCEPT !.loading = FALSE]
              ELSE Detailed(app, refresh.at, refresh.ver)
    /\ refresh' = Idle
    /\ UNCHANGED <<disk, watch, scan, stream, flight, calm>>

\* A plain answer is applied whenever it comes, whatever was asked since.
Receive ==
    \E f \in flight :
    /\ f.ver # Unread
    /\ flight' = flight \ {f}
    /\ app' = IF f.what = "list" THEN Listed(app, f.ver) ELSE Detailed(app, f.run, f.ver)
    /\ UNCHANGED <<disk, watch, scan, stream, refresh, calm>>

\* The selection effect: aborts the refresh and asks for the run without a signal.
Select ==
    \E r \in Runs :
    /\ r # app.selected
    /\ Cardinality(flight) < MaxFlight
    /\ app' = Asking([app EXCEPT !.selected = r])
    /\ flight' = flight \union {Ask("detail", r)}
    /\ refresh' = IF refresh = Idle THEN Idle ELSE [refresh EXCEPT !.aborted = TRUE]
    /\ calm' = (calm /\ refresh = Idle)
    /\ UNCHANGED <<disk, watch, scan, stream>>

\* A recorded decision, or Retry: load everything again, with no signal.
Reload ==
    /\ Cardinality(flight) < MaxFlight - 1
    /\ Ask("list", None) \notin flight
    /\ flight' = flight \union {Ask("list", None)}
                  \union (IF app.selected = None THEN {} ELSE {Ask("detail", app.selected)})
    /\ app' = IF app.selected = None THEN app ELSE Asking(app)
    /\ UNCHANGED <<disk, watch, scan, stream, refresh, calm>>

Next ==
    \/ Write \/ Tick \/ Flush \/ BeginScan \/ EndScan \/ CacheLapses \/ Serve
    \/ Opens \/ Drops \/ Deliver \/ RefreshListed \/ RefreshDetailed
    \/ Receive \/ Select \/ Reload

Spec == Init /\ [][Next]_vars

(***************************************************************************)
(* Properties                                                              *)
(***************************************************************************)
\* What MonitorView renders for the selection.
Shows ==
    IF app.selected = None THEN "home"
    ELSE IF app.loading /\ app.detail.run # app.selected THEN "loading"
    ELSE IF app.error THEN "error"
    ELSE IF app.detail # NoDetail THEN "detail" ELSE "not found"

\* Constant writes cannot put an update off for longer than the cap.  An update that
\* comes in mid-refresh is dropped (App.tsx 245), and so is what a selection aborts; but
\* whatever was dropped before, the listing is the current one once everything has
\* settled, if the last update found nothing else under way and its refresh was not
\* aborted, on a stream that never dropped.
UpdatesReachTheScreen ==
    /\ watch.age <= MaxWaitMs
    /\ ( /\ calm /\ ~Pending /\ stream.updates = 0 /\ stream.phase = "open" /\ stream.outages = 0
         /\ refresh = Idle /\ scan.now = Unread /\ flight = {} /\ app.list > 0 )
       => app.list = disk

\* The detail shown belongs to the selected run (App.tsx:113 "Abort any
\* previous in-flight fetches when selectedRunId changes").
DetailIsSelected == Shows = "detail" => app.detail.run = app.selected
=============================================================================
