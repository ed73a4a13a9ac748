----------------------------- MODULE StartDialog -----------------------------
(***************************************************************************)
(* Start or open task, on one task: client/src/views/StartTaskDialog.tsx     *)
(* (its repositories and plans), RunPanel.tsx (the form, its confirmation    *)
(* and the start), OfficeLaunchStatus.tsx (useOfficeLaunch: reading the      *)
(* task's launch again and again) and RunQueuePanel.tsx (Cancel), against    *)
(* what routes/launch.ts accepts.  The launch card reads the same way.       *)
(***************************************************************************)
EXTENDS Integers, FiniteSets

CONSTANTS
    Fields,       \* of the form; "mode", "when" and "repos" among them, each 0 or 1
    MaxEdits, MaxPosts, MaxSteps,   \* bounds: edits, requests, steps that start or end elsewhere
    MaxOutages    \* reads of the task's launch that fail

VARIABLES
    server,     \* what GET /api/launch/task/:id would answer: launch, queued item, chain
    seen,       \* the answer the dialog shows (useOfficeLaunch's data)
    poll,       \* its reading: asked, answered, or waiting for its timer
    form,
    planned,    \* the repositories the shown plans are for
    confirmed,  \* the confirmation is ticked
    promised,   \* history: the form when it was ticked
    post,       \* the start or stop under way
    cancel,     \* a cancel under way
    count       \* of edits, requests, outages and steps elsewhere: for the bounds

vars == <<server, seen, poll, form, planned, confirmed, promised, post, cancel, count>>

Chain == 1      \* form.mode
Later == 1      \* form.when: at a time or after another task
Fresh == [launch |-> "none", queued |-> FALSE, chain |-> FALSE]
Asked == [at |-> "asked", answer |-> Fresh]
Waiting == [at |-> "timer", answer |-> Fresh]
NoPost == [what |-> "none", at |-> "none", body |-> [f \in Fields |-> 0], answer |-> "none"]
Busy == post.at # "none"

Init ==
    /\ server = Fresh /\ seen = Fresh /\ poll = Asked
    /\ form = [f \in Fields |-> 0]
    /\ planned = -1                   \* no plan yet: the form is still loading
    /\ confirmed = FALSE /\ promised = form
    /\ post = NoPost /\ cancel = "none"
    /\ count = [edits |-> 0, posts |-> 0, outages |-> 0, steps |-> 0]

-----------------------------------------------------------------------------
(* The server *)

InFlight(s) == s.launch \in {"running", "verifying"}

\* The item starts when the task is free, its step ends and is verified; a chain
\* queues its next step or ends.
Proceeds ==
    /\ \/ /\ server.queued /\ ~InFlight(server)
          /\ server' = [server EXCEPT !.queued = FALSE, !.launch = "running"]
       \/ server.launch = "running" /\ server' = [server EXCEPT !.launch = "verifying"]
       \/ server.launch = "verifying" /\ server' = [server EXCEPT !.launch = "done"]
       \/ /\ server.chain /\ ~server.queued /\ ~InFlight(server)
          /\ server' = [server EXCEPT !.chain = FALSE]
    /\ UNCHANGED <<seen, poll, form, planned, confirmed, promised, post, cancel, count>>

NextOfChain ==
    /\ server.chain /\ ~server.queued /\ ~InFlight(server) /\ count.steps < MaxSteps
    /\ server' = [server EXCEPT !.queued = TRUE]
    /\ count' = [count EXCEPT !.steps = @ + 1]
    /\ UNCHANGED <<seen, poll, form, planned, confirmed, promised, post, cancel>>

\* POST task and POST chain: refused while a chain or a waiting item has the task, and
\* "now" while a step is in flight.
Accepts(s, body) ==
    /\ ~s.chain /\ ~s.queued
    /\ body["when"] = Later \/ ~InFlight(s)

\* A request of another viewer.
Elsewhere ==
    /\ count.steps < MaxSteps /\ Accepts(server, form)
    /\ server' = [server EXCEPT !.queued = TRUE]
    /\ count' = [count EXCEPT !.steps = @ + 1]
    /\ UNCHANGED <<seen, poll, form, planned, confirmed, promised, post, cancel>>

\* The queue turns within the request: a "now" starts there (201), or waits for a slot (202).
Started(s) == [s EXCEPT !.launch = "running"]
Queued(s) == [s EXCEPT !.queued = TRUE]

ServerTakes ==
    /\ post.at = "sent"
    /\ CASE post.what = "start" /\ Accepts(server, post.body) ->
            \E starts \in (IF post.body["when"] = Later THEN {FALSE} ELSE BOOLEAN) :
               LET after == IF starts THEN Started(server) ELSE Queued(server)
               IN  /\ server' = [after EXCEPT !.chain = post.body["mode"] = Chain]
                   /\ post' = [post EXCEPT !.at = "answered",
                                           !.answer = IF starts THEN "running" ELSE "queued"]
         [] post.what = "stop" ->
            /\ server' = [server EXCEPT !.chain = FALSE,
                             !.launch = IF @ = "running" THEN "verifying" ELSE @,
                             !.queued = @ /\ ~server.chain]
            /\ post' = [post EXCEPT !.at = "answered", !.answer = "queued"]
         [] OTHER -> post' = [post EXCEPT !.at = "answered", !.answer = "refused"] /\ UNCHANGED server
    /\ UNCHANGED <<seen, poll, form, planned, confirmed, promised, cancel, count>>

ServerCancels ==
    /\ cancel = "sent"
    /\ cancel' = "answered"
    /\ server' = [server EXCEPT !.queued = FALSE, !.chain = @ /\ ~server.queued]
    /\ UNCHANGED <<seen, poll, form, planned, confirmed, promised, post, count>>

-----------------------------------------------------------------------------
(* useOfficeLaunch *)

Active(s) == s.launch = "running"
Polling(s) == Active(s) \/ s.launch = "verifying" \/ s.queued \/ s.chain

\* Slip: read again only while a step runs.
OnlyWhileActive(s) == IF Active(s) THEN Waiting ELSE [Waiting EXCEPT !.at = "stopped"]

\* The timer after an answer: 3 s while something goes on, 15 s otherwise (idlePollMs).
ReadsAgain(s) == Waiting

TimerFires ==
    /\ poll.at = "timer"
    /\ poll' = Asked
    /\ UNCHANGED <<server, seen, form, planned, confirmed, promised, post, cancel, count>>

Answers ==
    /\ poll.at = "asked"
    /\ poll' = [at |-> "answered", answer |-> server]
    /\ UNCHANGED <<server, seen, form, planned, confirmed, promised, post, cancel, count>>

\* When polling turns on or off the effect starts over and asks at once.
Shown ==
    /\ poll.at = "answered"
    /\ seen' = poll.answer
    /\ poll' = IF Polling(seen') # Polling(seen) THEN Asked ELSE ReadsAgain(seen')
    /\ UNCHANGED <<server, form, planned, confirmed, promised, post, cancel, count>>

\* A failed read is shown as an error, and sets no timer.
ReadFails ==
    /\ poll.at = "asked" /\ count.outages < MaxOutages
    /\ poll' = [Asked EXCEPT !.at = "stopped"]
    /\ count' = [count EXCEPT !.outages = @ + 1]
    /\ UNCHANGED <<server, seen, form, planned, confirmed, promised, post, cancel>>

-----------------------------------------------------------------------------
(* The form *)

\* Role, note, CLI and repositories wait for the step; the trigger for the queue.
Editable(f) ==
    CASE f = "when" -> ~Busy /\ ~seen.queued
      [] f = "mode" -> ~Busy
      [] f = "pairing" -> ~Busy /\ ~seen.chain /\ form["mode"] = Chain
      [] OTHER -> ~Active(seen) /\ ~Busy

\* Slip: the list of repositories is not among the effect's dependencies.
WatchedButRepos == Fields \ {"repos"}

\* Any change of these unticks the confirmation.
Watched == Fields

Edit(f) ==
    /\ Editable(f) /\ count.edits < MaxEdits
    /\ form' = [form EXCEPT ![f] = 1 - @]
    /\ confirmed' = (confirmed /\ f \notin Watched)
    /\ count' = [count EXCEPT !.edits = @ + 1]
    /\ UNCHANGED <<server, seen, poll, planned, promised, post, cancel>>

\* The plans of the present list; the request of an earlier list was cancelled.
Plans ==
    /\ planned # form["repos"]
    /\ planned' = form["repos"]
    /\ UNCHANGED <<server, seen, poll, form, confirmed, promised, post, cancel, count>>

Confirm ==
    /\ ~confirmed
    /\ ~Active(seen) \/ form["when"] = Later
    /\ ~seen.queued /\ ~seen.chain
    /\ confirmed' = TRUE /\ promised' = form
    /\ UNCHANGED <<server, seen, poll, form, planned, post, cancel, count>>

\* runBlockedReason.
Blocked ==
    \/ seen.chain \/ seen.queued
    \/ Active(seen) /\ form["when"] # Later
    \/ planned # form["repos"]
    \/ ~confirmed

Start ==
    /\ ~Busy /\ ~Blocked /\ count.posts < MaxPosts
    /\ post' = [NoPost EXCEPT !.what = "start", !.at = "sent", !.body = form]
    /\ count' = [count EXCEPT !.posts = @ + 1]
    /\ UNCHANGED <<server, seen, poll, form, planned, confirmed, promised, cancel>>

\* Stop, or Stop chain while one runs.
Stop ==
    /\ ~Busy /\ (Active(seen) \/ seen.chain) /\ count.posts < MaxPosts
    /\ post' = [NoPost EXCEPT !.what = "stop", !.at = "sent"]
    /\ count' = [count EXCEPT !.posts = @ + 1]
    /\ UNCHANGED <<server, seen, poll, form, planned, confirmed, promised, cancel>>

\* What is known goes on screen at once and the launch is read again; an error changes
\* nothing but its message.
Answered ==
    /\ post.at = "answered"
    /\ post' = NoPost
    /\ IF post.answer = "refused" THEN UNCHANGED <<seen, poll, confirmed>>
       ELSE /\ seen' = IF post.answer = "running" THEN [seen EXCEPT !.launch = "running"] ELSE seen
            /\ poll' = Asked
            /\ confirmed' = (confirmed /\ post.what = "stop")
    /\ UNCHANGED <<server, form, planned, promised, cancel, count>>

CancelItem ==
    /\ seen.queued /\ cancel = "none" /\ count.posts < MaxPosts
    /\ cancel' = "sent"
    /\ count' = [count EXCEPT !.posts = @ + 1]
    /\ UNCHANGED <<server, seen, poll, form, planned, confirmed, promised, post>>

Cancelled ==
    /\ cancel = "answered"
    /\ cancel' = "none"
    /\ poll' = Asked
    /\ UNCHANGED <<server, seen, form, planned, confirmed, promised, post, count>>

Reads == TimerFires \/ Answers \/ Shown

Next ==
    \/ Proceeds \/ NextOfChain \/ Elsewhere \/ ServerTakes \/ ServerCancels
    \/ Reads \/ ReadFails
    \/ (\E f \in Fields : Edit(f)) \/ Plans \/ Confirm
    \/ Start \/ Stop \/ Answered \/ CancelItem \/ Cancelled

Spec == Init /\ [][Next]_vars
FairSpec == Spec /\ WF_vars(Reads) /\ WF_vars(Proceeds)

-----------------------------------------------------------------------------

\* RunPanel.tsx 69: what is sent is what the confirmation line said when it was ticked,
\* whatever was edited, refused or started meanwhile.
PromisedIsSent == post.at # "none" /\ post.what = "start" => post.body = promised

\* OfficeLaunchStatus.tsx 10-12: however the step was started, stopped or cancelled, the
\* dialog comes to show what the server says, as long as no read failed (43 sets no
\* timer then: the dialog stays as it is until polling turns on or off again).
ShowsTheServer == []<>(seen = server \/ count.outages > 0)

\* The same whatever failed: what the operator is promised (OfficeLaunchStatus.tsx 10-12).
ShowsItAgain == []<>(seen = server)
=============================================================================
