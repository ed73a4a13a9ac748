--------------------------- MODULE Authorizations ---------------------------
(***************************************************************************)
(* Grants from the Action Center: GateViewService (a slot per ruby process,  *)
(* one timer for the earliest expiry), ReviewModelService (one scan for many *)
(* requests, its cache), AuthorizationGrants and the client's inbox with its *)
(* grant dialog.  A gate of each task waits for a grant of one action; the   *)
(* ledger says until when the task's grant covers it.                        *)
(***************************************************************************)
EXTENDS Integers, Sequences, FiniteSets

CONSTANTS
    Tasks,
    Slots,          \* ruby processes at once
    MaxTimer,       \* the longest time a timer can be set for (MAX_TIMER_MS, 24.8 days)
    MaxTime, MaxScans, MaxChanges, MaxPosts    \* bounds: clock, scans, changes of the
                                               \* ledger, grant requests at once

VARIABLES
    now,
    ledger,     \* until when the grant of each task lasts; 0: none.  changes so far
    running,    \* gate views being loaded, each with what it read
    queued,     \* loads that wait for a slot, in order
    timer,      \* the expiry watched; 0: none
    scans,      \* scans of the review model
    review,     \* the pending scan and the cached one; 0: none
    update,     \* the watcher has an update to send
    refreshing, \* App's coordinated refresh, after which the views load again
    inbox,      \* the scan asked for and what is shown
    dialog,     \* the grant dialog
    posts       \* grant requests under way; mounted: their dialog is still open

vars == <<now, ledger, running, queued, timer, scans, review, update, refreshing,
          inbox, dialog, posts>>

Unread == -2
Unreadable == -1
Seen == Unread..(MaxTime + 2)
Never == [t \in Tasks |-> 0]

\* A load is of a scan (its number), of the dialog (0) or of a grant request.
ForView == 0
ForPost(k) == -k
Load == [of : ForPost(MaxPosts)..MaxScans, task : Tasks, seen : Seen]
\* outdated: there was an invalidate since it began (another scanGeneration).
Scan == [at : {"none", "reading", "done"}, outdated : BOOLEAN,
         left : SUBSET Tasks, seen : [Tasks -> Seen]]
NoScan == [at |-> "none", outdated |-> FALSE, left |-> {}, seen |-> Never]
Spent == [NoScan EXCEPT !.at = "done"]
Closed == [task |-> CHOOSE t \in Tasks : TRUE, at |-> "closed"]

TypeOK ==
    /\ now \in 0..MaxTime
    /\ ledger \in [until : [Tasks -> 0..(MaxTime + 2)], changes : 0..MaxChanges]
    /\ running \subseteq Load /\ Cardinality(running) <= Slots
    /\ queued \in Seq(Load) /\ (queued # <<>> => Cardinality(running) = Slots)
    /\ timer \in 0..(MaxTime + 2)
    /\ scans \in [1..MaxScans -> Scan]
    /\ review \in [pending : 0..MaxScans, cache : 0..MaxScans]
    /\ update \in BOOLEAN /\ refreshing \in BOOLEAN
    /\ inbox \in [asked : 0..MaxScans, shown : [Tasks -> Seen]]
    /\ dialog \in [task : Tasks, at : {"closed", "loading", "ready", "sending"}]
    /\ posts \subseteq [no : 1..MaxPosts, task : Tasks, at : {"checking", "granting", "answering"},
                        ok : BOOLEAN, mounted : BOOLEAN]

Init ==
    /\ now = 0
    /\ \E until \in [Tasks -> 0..2] : ledger = [until |-> until, changes |-> 0]
    /\ running = {} /\ queued = <<>> /\ timer = 0
    /\ scans = [n \in 1..MaxScans |-> NoScan]
    /\ review = [pending |-> 0, cache |-> 0]
    /\ update = FALSE /\ refreshing = TRUE
    /\ inbox = [asked |-> 0, shown |-> Never]
    /\ dialog = Closed /\ posts = {}

-----------------------------------------------------------------------------
(* GateViewService *)

\* What the guard says of the grant now.
Available(t) == IF ledger.until[t] > now THEN ledger.until[t] ELSE 0

\* acquire
Acquire(l) ==
    IF Cardinality(running) < Slots
    THEN running' = running \cup {l} /\ UNCHANGED queued
    ELSE queued' = Append(queued, l) /\ UNCHANGED running

New(of, t) == [of |-> of, task |-> t, seen |-> Unread]

\* release hands the slot straight to the next waiter.
Release(l) ==
    IF queued = <<>> THEN running' = running \ {l} /\ UNCHANGED queued
    ELSE running' = (running \ {l}) \cup {Head(queued)} /\ queued' = Tail(queued)

\* The script reads the ledger, or fails, or its time is up.
Read(l) ==
    /\ l \in running /\ l.seen = Unread
    /\ \E seen \in {Available(l.task), Unreadable} :
          running' = (running \ {l}) \cup {[l EXCEPT !.seen = seen]}
    /\ UNCHANGED <<now, ledger, queued, timer, scans, review, update, refreshing,
                   inbox, dialog, posts>>

\* watchExpiry: one timer, for the earliest expiry seen that a timer can be set for.
Watched(at) ==
    IF at <= 0 \/ (timer # 0 /\ timer <= at) \/ at - now > MaxTimer THEN timer ELSE at

Due == timer # 0 /\ now > timer

TimerFires ==
    /\ Due
    /\ timer' = 0 /\ update' = TRUE
    /\ UNCHANGED <<now, ledger, running, queued, scans, review, refreshing, inbox,
                   dialog, posts>>

-----------------------------------------------------------------------------
(* ReviewModelService and the inbox *)

\* invalidate
NoReview == [pending |-> 0, cache |-> 0]
Outdated == [n \in 1..MaxScans |->
               CASE scans[n].at = "reading" -> [scans[n] EXCEPT !.outdated = TRUE]
                 [] scans[n].at = "done" -> Spent
                 [] OTHER -> NoScan]

\* The inbox loads, aborting what it asked for before: the cached summaries, else
\* the pending scan, else a new one.
InboxLoads(r, ss) ==
    LET fresh == {n \in 1..MaxScans : ss[n].at = "none"}
        new   == CHOOSE n \in fresh : \A m \in fresh : n <= m
    IN  IF r.cache # 0
        THEN /\ inbox' = [asked |-> 0, shown |-> ss[r.cache].seen]
             /\ review' = r /\ scans' = ss
        ELSE IF r.pending # 0
        THEN /\ inbox' = [inbox EXCEPT !.asked = r.pending]
             /\ review' = r /\ scans' = ss
        ELSE /\ fresh # {}
             /\ inbox' = [inbox EXCEPT !.asked = new]
             /\ review' = [r EXCEPT !.pending = new]
             /\ scans' = [ss EXCEPT ![new] = [NoScan EXCEPT !.at = "reading", !.left = Tasks]]

\* A load of a scan takes a slot, or waits for one.
LoadForScan(n, t) ==
    /\ scans[n].at = "reading" /\ t \in scans[n].left
    /\ Acquire(New(n, t))
    /\ scans' = [scans EXCEPT ![n].left = @ \ {t}]
    /\ UNCHANGED <<now, ledger, timer, review, update, refreshing, inbox, dialog, posts>>

Loading(n) == {l \in running : l.of = n} # {} \/ \E k \in DOMAIN queued : queued[k].of = n

\* Slip: a scan that began before an invalidate fills the cache.
FilledAnyway(n) == n

Filled(n) == IF scans[n].outdated THEN review.cache ELSE n

\* The scan's last load has ended: its answer, to those who still wait for it.
ScanEnds(n) ==
    /\ scans[n].at = "reading" /\ scans[n].left = {} /\ ~Loading(n)
    /\ scans' = IF Filled(n) = n THEN [scans EXCEPT ![n].at = "done"] ELSE [scans EXCEPT ![n] = Spent]
    /\ review' = [review EXCEPT !.cache = Filled(n), !.pending = IF @ = n THEN 0 ELSE @]
    /\ inbox' = IF inbox.asked = n THEN [asked |-> 0, shown |-> scans[n].seen] ELSE inbox
    /\ UNCHANGED <<now, ledger, running, queued, timer, update, refreshing, dialog, posts>>

CacheLapses ==
    /\ review.cache # 0
    /\ review' = [review EXCEPT !.cache = 0]
    /\ scans' = [scans EXCEPT ![review.cache] = Spent]
    /\ UNCHANGED <<now, ledger, running, queued, timer, update, refreshing,
                   inbox, dialog, posts>>

\* The update invalidates the model and starts App's refresh, unless one is under way.
Announce ==
    /\ update
    /\ update' = FALSE /\ refreshing' = TRUE
    /\ review' = NoReview /\ scans' = Outdated
    /\ UNCHANGED <<now, ledger, running, queued, timer, inbox, dialog, posts>>

\* App's refresh ends with dashboard:refresh; the operator may come back to the view.
Refreshed ==
    /\ refreshing' = FALSE
    /\ InboxLoads(review, scans)
    /\ UNCHANGED <<now, ledger, running, queued, timer, update, dialog, posts>>

-----------------------------------------------------------------------------
(* The grant dialog and AuthorizationGrants *)

\* A view still loading for a dialog that was closed bounds the next one.
Open(t) ==
    /\ \A l \in running \cup {queued[k] : k \in DOMAIN queued} : l.of # ForView
    /\ dialog.at = "closed" /\ inbox.shown[t] = 0 /\ MaxPosts > 0
    /\ dialog' = [task |-> t, at |-> "loading"]
    /\ Acquire(New(ForView, t))
    /\ UNCHANGED <<now, ledger, timer, scans, review, update, refreshing, inbox, posts>>

\* Cancel and the backdrop wait for an answer; Escape does not.
Close ==
    /\ dialog.at # "closed"
    /\ dialog' = Closed
    /\ posts' = {[p EXCEPT !.mounted = FALSE] : p \in posts}
    /\ UNCHANGED <<now, ledger, running, queued, timer, scans, review, update,
                   refreshing, inbox>>

Submit(k) ==
    /\ dialog.at = "ready" /\ \A p \in posts : p.no # k
    /\ dialog' = [dialog EXCEPT !.at = "sending"]
    /\ posts' = posts \cup {[no |-> k, task |-> dialog.task, at |-> "checking", ok |-> FALSE, mounted |-> TRUE]}
    /\ Acquire(New(ForPost(k), dialog.task))
    /\ UNCHANGED <<now, ledger, timer, scans, review, update, refreshing, inbox>>

\* A load ends: its expiry is watched, its slot passed on, and whoever asked goes on.
EndLoad(l) ==
    /\ l \in running /\ l.seen # Unread
    /\ timer' = Watched(l.seen)
    /\ Release(l)
    /\ scans' = IF l.of \in 1..MaxScans THEN [scans EXCEPT ![l.of].seen[l.task] = l.seen] ELSE scans
    /\ dialog' = IF l.of = ForView /\ dialog = [task |-> l.task, at |-> "loading"] /\ l.seen = 0
                 THEN [dialog EXCEPT !.at = "ready"] ELSE dialog
    /\ posts' = {IF l.of = ForPost(p.no)
                 THEN [p EXCEPT !.at = IF l.seen = 0 THEN "granting" ELSE "answering"]
                 ELSE p : p \in posts}
    /\ UNCHANGED <<now, ledger, review, update, refreshing, inbox>>

\* record-authorization.rb appends the grant, or refuses; the watcher sees the file.
Grant(p) ==
    /\ p \in posts /\ p.at = "granting"
    /\ \E ok \in BOOLEAN :
       /\ posts' = (posts \ {p}) \cup {[p EXCEPT !.at = "answering", !.ok = ok]}
       /\ IF ok
          THEN /\ ledger.changes < MaxChanges
               /\ ledger' = [until |-> [ledger.until EXCEPT ![p.task] = now + 1],
                             changes |-> ledger.changes + 1]
               /\ update' = TRUE
          ELSE UNCHANGED <<ledger, update>>
    /\ UNCHANGED <<now, running, queued, timer, scans, review, refreshing, inbox, dialog>>

\* The route invalidates the model.  A recorded grant closes the dialog that is open,
\* its own or not, and the inbox loads again; a refusal goes to its own dialog.
AnswerPost(p) ==
    /\ p \in posts /\ p.at = "answering"
    /\ posts' = posts \ {p}
    /\ IF p.ok
       THEN /\ dialog' = Closed
            /\ InboxLoads(NoReview, Outdated)
       ELSE /\ dialog' = IF p.mounted THEN [dialog EXCEPT !.at = "ready"] ELSE dialog
            /\ UNCHANGED <<review, scans, inbox>>
    /\ UNCHANGED <<now, ledger, running, queued, timer, update, refreshing>>

\* Somebody grants or revokes in a terminal.
Elsewhere(t) ==
    /\ ledger.changes < MaxChanges
    /\ \E until \in {0, now + 1, now + 2} :
          ledger' = [until |-> [ledger.until EXCEPT ![t] = until], changes |-> ledger.changes + 1]
    /\ update' = TRUE
    /\ UNCHANGED <<now, running, queued, timer, scans, review, refreshing, inbox,
                   dialog, posts>>

Tick ==
    /\ now < MaxTime /\ ~Due
    /\ now' = now + 1
    /\ UNCHANGED <<ledger, running, queued, timer, scans, review, update, refreshing,
                   inbox, dialog, posts>>

Next ==
    \/ TimerFires \/ CacheLapses \/ Announce \/ Refreshed \/ Close \/ Tick
    \/ \E k \in 1..MaxPosts : Submit(k)
    \/ \E t \in Tasks : Open(t) \/ Elsewhere(t) \/ \E n \in 1..MaxScans : LoadForScan(n, t)
    \/ \E n \in 1..MaxScans : ScanEnds(n)
    \/ \E l \in running : Read(l) \/ EndLoad(l)
    \/ \E p \in posts : Grant(p) \/ AnswerPost(p)

Spec == Init /\ [][Next]_vars

-----------------------------------------------------------------------------

Quiet == ~update /\ ~refreshing /\ inbox.asked = 0 /\ ~Due /\ posts = {}

\* gateView.ts 152-155, reviewModel.ts 566-568: with nothing under way the inbox
\* shows what the ledger says, or that it could not be read; a grant that runs out
\* goes from the screen although no file changes, within the timer's second.  A grant
\* that lasts longer than a timer can be set for (given in a terminal: the dialog stops
\* at 168 hours) has no timer unless it is read again, and may stay: MaxTimer is more
\* than MaxTime + 2 where this is checked.
InboxFollowsLedger ==
    /\ TypeOK
    /\ Quiet => \A t \in Tasks :
          \/ inbox.shown[t] \in {Unreadable, Available(t)}
          \/ inbox.shown[t] = ledger.until[t] /\ 0 < timer /\ timer <= ledger.until[t]
=============================================================================
