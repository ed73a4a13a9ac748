------------------------------- MODULE MCViews -------------------------------
(***************************************************************************)
(* What the dashboard shows, side by side: each behaviour is one of one part, *)
(* on the first of the variables below; the others stay at 0.  The pure       *)
(* functions are checked on one input each.  Views runs FairSpec, Screens runs *)
(* ScreensSpec: two runs of less than half the states each.                   *)
(***************************************************************************)
EXTENDS Integers, Sequences, FiniteSets, SequencesExt, FiniteSetsExt

VARIABLES part, a, b, c, d, e, f, g, h, i, j, k, l

vars == <<part, a, b, c, d, e, f, g, h, i, j, k, l>>

-----------------------------------------------------------------------------
(* The parts that run. *)

\* Two tasks, one desk room and the inbox, one place of each kind; whether robots come to
\* rest is looked at with one change of a phase less.
Floor(moves) == INSTANCE OfficeFloor WITH
    Tasks <- {1, 2}, Rooms <- {"A", "inbox"}, DeskLimit <- 1, Lounge <- 1, Drops <- 1, Counter <- 1,
    MaxActors <- 2, Reopens <- FALSE, MaxChanges <- moves,
    phase <- a, rows <- b, prev <- c, actor <- d, booted <- e, changes <- f

Board == INSTANCE DevBayBoard WITH
    Tasks <- {1}, Gates <- 2, Grace <- 1, Longest <- 3, MaxChanges <- 4,
    gates <- a, inBay <- b, seen <- c, hold <- d, shown <- e, requests <- f, claimed <- g,
    arrived <- h, rejected <- i, robot <- j, pending <- k, changes <- l

Reload == INSTANCE CatchUp WITH
    MaxWorld <- 3,
    world <- a, missed <- b, open <- c, sawOpen <- d, closedAfterOpen <- e, awaiting <- f,
    load <- g, data <- h, armed <- i, animate <- j, placed <- k

Index(lane) == INSTANCE IndexLanes WITH
    Lane <- lane, OwnIds <- 100..108, MaxCalls <- 2, MaxPipe <- 2,
    toServer <- a, toClient <- b, running <- c, late <- d, watching <- e, inFlight <- f,
    noted <- g, injected <- h, open <- i, heard <- j, life <- k

Signals == INSTANCE ProdSignals WITH
    CacheTime <- 1, SlowDisk <- FALSE, MaxTime <- 2, MaxRequests <- 3, MaxRestarts <- 1,
    now <- a, cache <- b, disk <- c, building <- d, saving <- e, requests <- f, restarts <- g

Loading == INSTANCE ViewLoads WITH
    Selectable <- {"7", "30"}, Guard <- "abort", MaxChanges <- 2, MaxLoads <- 5,
    world <- a, untold <- b, chosen <- c, loads <- d, shown <- e, error <- f, kept <- g, isOpen <- h

Map == INSTANCE CommandMap WITH
    Tasks <- {1, 2}, Zones <- {"dev", "review"}, NoZone <- "", MaxMoves <- 2, MaxVisits <- 2, Bursts <- TRUE,
    world <- a, told <- b, load <- c, shown <- d, prevZone <- e, flows <- f, logs <- g, cache <- h,
    error <- i, visits <- j, moves <- k

\* Streams of up to two events of either CLI.
Outputs ==
    LET upTo2(S) == UNION {[1..n -> S] : n \in 0..2}
    IN  {[cli |-> "claude", events |-> s] : s \in upTo2({"text", "result", "error result"}) \cup {<<"unknown">>}} \cup
        {[cli |-> "codex", events |-> s] :
            s \in upTo2({"turn.completed", "error", "turn.failed"}) \cup {<<"stream error">>}}

Stream == INSTANCE LaunchStream WITH
    Outputs <- Outputs, PROGRESS_LINES <- 1, TornViews <- FALSE, Stragglers <- FALSE, MaxRestarts <- 1,
    run <- a, written <- b, alive <- c, exitFile <- d, timeoutFile <- e, stopRequested <- f,
    cursor <- g, looking <- h, seen <- i, restarts <- j

Pairing == INSTANCE ChainPairing WITH
    Writers <- {"dev"}, CLIs <- {"claude", "codex"}, Cap <- 2, MaxLaunches <- 3, ReviewsFollow <- FALSE,
    launches <- a, chain <- b, pruned <- c

-----------------------------------------------------------------------------
(* The inputs of the pure functions. *)

Rooms == INSTANCE OfficeRooms WITH Chairs <- 2, Bench <- 1, HelpBench <- 1, Stand <- 1, Line <- 1, Spots <- 1

\* Four tasks that wait on each other and on Earth, and two of any kind.
WaitInputs ==
    LET chained == [room : {"blocked"}, waits : {{"earth"}}, grant : {FALSE}, refs : {{u} : u \in 0..3}, at : {0, 1}]
        single == [room : {"blocked", "finished"}, waits : {{}, {"earth"}, {"others"}, {"earth", "others"}},
                   grant : BOOLEAN, refs : {{}, {1}, {2}, {0, 1}}, at : {0, 1}]
    IN  [1..3 -> chained] \cup [1..2 -> {t \in single : t.grant => t.refs = {}}]

ReviewInputs ==
    LET task == [needsReview : BOOLEAN, pending : BOOLEAN, decision : {"none", "approve", "reject"},
                 decidedAt : {1}, at : {0, 1}]
    IN  [1..3 -> {t \in task : t.needsReview \/ t.decision = "reject"}]
HelpInputs == [1..3 -> [phase : {"open", "handoff"}, at : 0..2]]
OriginInputs ==
    [phase : {"open", "handoff"}, pending : BOOLEAN,
     move : [from : {"open", "work", "dev"}, to : {"open", "handoff"}, agent : {"orchestrator", "dev"}, at : 0..1],
     decided : [action : {"none", "escalate"}, at : 0..1]]
KeyInputs == {s \in UNION {[1..n -> 1..3] : n \in 0..3} : IsInjective(s)}

Rungs == INSTANCE ReleaseLadder

\* A task, a train that carries it, and another train that does.
LadderInputs ==
    LET named(s, al, o, four, five) == [n \in Rungs!Names |->
            CASE n = "implementation_verification" -> "pass" [] n = "staging_acceptance" -> s
              [] n = Rungs!Alias -> al [] n = Rungs!Closeout -> o
              [] n = "deploy_production" -> four [] n = "production_acceptance" -> five
              [] OTHER -> "absent"]
        base == [status : {"running", "completed"}, declared : {TRUE}, readable : {TRUE},
                 gate : {named(s, "pass", "pending", four, five) :
                            s \in {"absent", "pass"}, four \in {"absent", "pending"}, five \in {"absent", "pass"}},
                 carries : {{}}, waits : {TRUE}, wait : {0}, at : {0}]
        bare == [status : {"running"}, declared : BOOLEAN, readable : BOOLEAN,
                 gate : {[n \in Rungs!Names |-> IF n = Rungs!Closeout THEN "pending" ELSE "absent"]},
                 carries : {{}}, waits : BOOLEAN, wait : {2}, at : {0}]
        train == [status : {"running", "failed"}, declared : {TRUE}, readable : {TRUE},
                  gate : {named("absent", "absent", "absent", p[1], p[2]) :
                             p \in {<<"pending", "pending">>, <<"pass", "pending">>, <<"pass", "pass">>,
                                    <<"absent", "pending">>, <<"na", "pending">>}},
                  carries : {{1}}, waits : {TRUE}, wait : {0}, at : {1}]
    IN  {<<x, y, z>> : x \in base \cup bare, y \in {t \in train : t.status = "running"}, z \in train}

Flow == INSTANCE FlowInsights WITH Window <- 2, FreshDays <- 1, NearStart <- 6

\* A run with up to two moves, the last by a dispatch that ran over a midnight or did not,
\* beside one without a history.
FlowInputs ==
    LET row == [at : {<<"day", 2>>} \cup {<<"time", t>> : t \in {7, 8, 9, 13}},
                from : {"created", "work", "gate"}, to : {"work", "done"},
                agent : {"role", "operator"}, operator : BOOLEAN]
        opening == [at |-> <<"time", 7>>, from |-> "created", to |-> "work", agent |-> "role", operator |-> TRUE]
        lastOf(s) == Max({Flow!OfficeMs(s[n].at) : n \in DOMAIN s} \cup {4})
        written(t) == <<"day", Flow!LocalDay(t)>>
        status(s) == IF s # <<>> /\ Last(s).to = "done" THEN "completed" ELSE "running"
        begun(s, nights) == <<"day", Flow!LocalDay(lastOf(s)) - nights>>
        made(s, st, started, kind, nights) ==
            [status |-> st, startedAt |-> started, updatedAt |-> begun(s, nights), history |-> s, kind |-> kind,
             completedAt |-> IF st \in {"completed", "cancelled"} THEN written(lastOf(s)) ELSE Flow!None,
             phase |-> IF st = "blocked" THEN "blocked" ELSE "work", idle |-> kind = "stale"]
        histories == {<<>>} \cup {<<r>> : r \in row} \cup {<<opening, r>> : r \in {q \in row : q.from = "work"}}
    IN  [now : {12, 13}, b : {made(<<>>, st, <<"day", 2>>, kind, 0) :
                                 st \in {"failed", "blocked", "completed", "unknown"}, kind \in {"none", "review"}},
         a : {made(s, status(s), started, "stale", nights) :
                    s \in histories, started \in {<<"day", 1>>, <<"time", 9>>}, nights \in {0, 1}}]

Lists == INSTANCE RunLists WITH Preview <- 2

ListInputs ==
    LET of(p, n, u, at) == [phase |-> p, needsReview |-> n, updated |-> u, handoff |-> at, agent |-> "dev", prefix |-> "EAR"]
        some == {of(p, n, 1, at) : p \in {"assigned", "review", "validation_failed", "done", "half"}, n \in BOOLEAN, at \in {0, 2}}
                \cup {[of("in_review", TRUE, 2, 0) EXCEPT !.agent = "reviewer", !.prefix = "VS"],
                      [of("aborted", FALSE, 2, 1) EXCEPT !.agent = "none", !.prefix = "VS"]}
        with(r, n) == r @@ [id |-> n]
    IN  {{with(x, 1), with(y, 2), with(z, 3)} : x \in some, y \in some, z \in {s \in some : s.handoff = 0}}

RowInputs ==
    LET rows == [kind : {"handoff", "kept", "meta"}, at : 0..2]
    IN  UNION {[1..n -> rows] : n \in 0..3} \cup
        {<<[kind |-> "handoff", at |-> 1]>> \o r : r \in [1..4 -> [kind : {"meta", "handoff"}, at : {1, 2}]]}

DetailInputs ==
    [readable : BOOLEAN,
     status : [phase : Lists!RunPhase, role : {"dev", "done"}, nextAgent : {"none", "dev"}, nextReason : BOOLEAN,
               updated : {0, 1}, completed : {0, 1}, mtime : {2}]]

Imports == INSTANCE GoGraph

\* One module with three packages, two modules with paths of their own, two with one path.
ImportInputs ==
    LET dirs == <<<<"a">>, <<"a", "b">>, <<"c">>>>
        module(root, path) == [root |-> root, path |-> path]
        layouts == {[mods |-> <<module(<<>>, <<"x">>)>>, paths |-> {<<"x", "a">>, <<"x", "a", "b">>, <<"x", "c">>}],
                    [mods |-> <<module(<<"a">>, <<"x">>), module(<<"c">>, <<"y">>)>>,
                     paths |-> {<<"x">>, <<"x", "b">>, <<"y">>}],
                    [mods |-> <<module(<<"a">>, <<"x">>), module(<<"c">>, <<"x">>)>>,
                     paths |-> {<<"x">>, <<"x", "b">>, <<"y">>}]}
    IN  UNION {{[mods |-> layout.mods, files |-> [n \in 1..3 |-> [dir |-> dirs[n], imports |-> taken[n]]]] :
                   taken \in [1..3 -> SUBSET layout.paths]} : layout \in layouts}

LogInputs == [log : UNION {[0..n -> 0..2] : n \in 0..3}, cap : {2, 3}, cut : {{}, {3}, {1}}]
EventInputs == UNION {{s \in [1..n -> [at : 0..4, kind : {"started", "completed", "steady"}]] :
                          \A m \in 1..(n - 1) : s[m].at <= s[m + 1].at} : n \in 0..3}
CoverageInputs ==
    [runs : {{x, y} : x, y \in [open : BOOLEAN, closed : 0..3, names : {"error", "path", "nothing"}]},
     last : 1..3, phrase : BOOLEAN, window : {1}]

-----------------------------------------------------------------------------

FromB == <<part, b, c, d, e, f, g, h, i, j, k, l>>
FromD == <<part, d, e, f, g, h, i, j, k, l>>
FromG == <<part, g, h, i, j, k, l>>
FromH == <<part, h, i, j, k, l>>
FromI == <<part, i, j, k, l>>
FromK == <<part, k, l>>
FromL == <<part, l>>

NoneFromK == k = 0 /\ l = 0
NoneFromI == i = 0 /\ j = 0 /\ NoneFromK
NoneFromH == h = 0 /\ NoneFromI
NoneFromG == g = 0 /\ NoneFromH
NoneFromD == d = 0 /\ e = 0 /\ f = 0 /\ NoneFromG
NoneFromB == b = 0 /\ c = 0 /\ NoneFromD

PureInit ==
    \/ part = "waits" /\ a \in WaitInputs
    \/ part = "review" /\ a \in ReviewInputs
    \/ part = "help" /\ a \in HelpInputs
    \/ part = "origin" /\ a \in OriginInputs
    \/ part = "keys" /\ a \in KeyInputs
    \/ part = "ladder" /\ a \in LadderInputs
    \/ part = "flow" /\ a \in FlowInputs
    \/ part = "tables" /\ a = 0
    \/ part = "list" /\ a \in ListInputs
    \/ part = "rows" /\ a \in RowInputs
    \/ part = "detail" /\ a \in DetailInputs
    \/ part = "imports" /\ a \in ImportInputs
    \/ part = "log" /\ a \in LogInputs
    \/ part = "events" /\ a \in EventInputs
    \/ part = "coverage" /\ a \in CoverageInputs

Init ==
    \/ part = "floor" /\ Floor(3)!Init /\ NoneFromG
    \/ part = "rest" /\ Floor(2)!Init /\ NoneFromG
    \/ part = "board" /\ Board!Init
    \/ part = "reload" /\ Reload!Init /\ l = 0
    \/ part = "daemon" /\ Index("daemon")!Init /\ l = 0
    \/ part = "proxy" /\ Index("proxy")!Init /\ l = 0
    \/ part = "signals" /\ Signals!Init /\ NoneFromH
    \/ part = "view" /\ Loading!Init /\ NoneFromI
    \/ part = "map" /\ Map!Init /\ l = 0
    \/ part = "stream" /\ Stream!Init /\ NoneFromK
    \/ part = "pairing" /\ Pairing!Init /\ NoneFromD
    \/ PureInit /\ NoneFromB

FloorStep == part = "floor" /\ Floor(3)!Next /\ UNCHANGED FromG
RestStep == part = "rest" /\ Floor(2)!Next /\ UNCHANGED FromG
BoardStep == part = "board" /\ Board!Next /\ UNCHANGED part
ReloadStep == part = "reload" /\ Reload!Next /\ UNCHANGED FromL
IndexStep(lane) == part = lane /\ Index(lane)!Next /\ UNCHANGED FromL
SignalsStep == part = "signals" /\ Signals!Next /\ UNCHANGED FromH
ViewStep == part = "view" /\ Loading!Next /\ UNCHANGED FromI
MapStep == part = "map" /\ Map!Next /\ UNCHANGED FromL
StreamStep == part = "stream" /\ Stream!Next /\ UNCHANGED FromK
PairingStep == part = "pairing" /\ Pairing!Next /\ UNCHANGED FromD

Next ==
    \/ FloorStep \/ RestStep \/ BoardStep \/ ReloadStep \/ IndexStep("daemon") \/ IndexStep("proxy")
    \/ SignalsStep \/ ViewStep \/ MapStep \/ StreamStep \/ PairingStep

Spec == Init /\ [][Next]_vars

\* The fairness of each part that has one.  A behaviour stays in its part, so an action of each
\* of several parts can share a condition: it is that of the part the behaviour is in.
OfLane(A(_)) == \E lane \in {"daemon", "proxy"} : part = lane /\ A(lane) /\ UNCHANGED FromL
OfView(A) == part = "view" /\ A /\ UNCHANGED FromI
OfMap(A) == part = "map" /\ A /\ UNCHANGED FromL
OfBoard(A) == part = "board" /\ A /\ UNCHANGED part

Handles(lane) == Index(lane)!Handles
Sweeps(lane) == Index(lane)!Sweep
Delivers(lane) == Index(lane)!DaemonReads \/ Index(lane)!ProxyReads
Watches(lane) == \E id \in d : Index(lane)!WatcherStarts(id)
Exits(lane) == k = "stopping" /\ Index(lane)!Exits

FairSpec ==
    /\ Spec
    /\ WF_vars(\/ part = "rest" /\ Floor(2)!Frame(FALSE, {FALSE}, {1, 2}) /\ UNCHANGED FromG
               \/ OfBoard(Board!BoardFrame(FALSE)) \/ OfView(Loading!Refreshes) \/ OfMap(Map!Hears)
               \/ OfLane(Handles))
    /\ WF_vars(\/ OfBoard(Board!Tick) \/ OfView(\E n \in DOMAIN d : Loading!Answers(n)) \/ OfMap(Map!Reads)
               \/ OfLane(Sweeps))
    /\ WF_vars(OfView(\E n \in DOMAIN d : Loading!Lands(n)) \/ OfMap(Map!Lands) \/ OfLane(Delivers))
    /\ WF_vars(OfLane(Watches))
    /\ WF_vars(OfLane(Exits))

-----------------------------------------------------------------------------

\* Office floor: no two robots are given one place, no desk goes from under a robot, and no
\* robot walks for a change made while the page could not see it (officeMove.ts 600-640,
\* officeLook.ts 76-80, Office3DView.tsx 70-120).
RobotsKeepTheirPlaces ==
    /\ part = "floor" => Floor(3)!SpotsApart /\ Floor(3)!DeskUnderRobot
    /\ part = "reload" => Reload!GapsArePlaced

\* Index lanes: one embedding at a time, and the host hears the answers to its own calls
\* (socraticode-local-watch.mjs 16-29, socraticode-local-mcp-proxy.mjs 58-60).
LanesKeepApart ==
    /\ part = "daemon" => Index("daemon")!OneEmbeddingRun
    /\ part = "proxy" => Index("proxy")!HostHearsItsOwn

\* Production signals: an answer is as recent as it claims, counts each line once, and
\* takes no failure for handled that came after (prodSignals.ts 250-420, 520-620).
SignalsAreHonest ==
    /\ part = "signals" => Signals!AnswersAreCurrent
    /\ part = "log" => Signals!ReadBackIsExact(a.log, a.cap, a.cut)
    /\ part = "events" => Signals!WindowsAreDeployments(a)
    /\ part = "coverage" => Signals!CoverageIsHonest(a.runs, a.last, a.phrase, a.window)

\* Steps: what one said is read once and whole however it was cut, and only one that said so
\* succeeded (officeLauncher.ts 291-345); a review is by another CLI than the writing, and the
\* steps shown are those that ran (taskChain.ts 150-215, routes/launch.ts 240-270).
StepsAreTold ==
    /\ part = "stream" => Stream!ParsedAsOne /\ Stream!SuccessIsEarned
    /\ part = "pairing" => Pairing!ReviewedByAnother /\ Pairing!TimelineHolds

Kind(tasks, q) == {t \in DOMAIN tasks : tasks[t].room = q}

\* Office rooms: the queue of waits lists every task once under what it waits on, seats go to
\* those that came first, and every desk can be reached (officeBlocked.ts, officeReview.ts).
RoomsAreFair ==
    /\ part = "waits" =>
          /\ Rooms!QueueIsComplete(a, Rooms!EarthQueue(a)) /\ Rooms!QueueIsComplete(a, Rooms!OthersQueue(a))
          /\ Rooms!SeatsAreFair(Rooms!WaitingRoom(a), Rooms!Dates(a), {Kind(a, "blocked")})
    /\ part = "review" =>
          Rooms!SeatsAreFair(Rooms!Inspection(a), Rooms!Dates(a), {{t \in DOMAIN a : Rooms!ReviewKind(a[t]) = "waiting"}})
    /\ part = "help" =>
          Rooms!SeatsAreFair(Rooms!HelpDesk(a), Rooms!Dates(a), {{t \in DOMAIN a : a[t].phase = p} : p \in {"open", "handoff"}})
    /\ part = "origin" => Rooms!OriginIsTold(a)
    /\ part = "keys" => Rooms!KeyboardReaches(a, 9)

\* Read models: the rooms, the ladder, the flow, the lists and the import graph count every
\* task, run or file once and claim nothing the records do not say (officeBlocked.ts,
\* releaseLadder.ts, flowInsights.ts, runModel.ts).
ReadModelsAgree ==
    /\ RoomsAreFair
    /\ part = "ladder" => Rungs!LadderIsHonest(a)
    /\ part = "flow" => Flow!FlowIsRight(<<a.a, a.b>>, a.now)
    /\ part = "tables" => Lists!TablesAgree
    /\ part = "list" => Lists!ListsAreComplete(a, {1, 3})
    /\ part = "rows" => Lists!TimelineReaches(a)
    /\ part = "detail" => Lists!NothingIsGuessed(a.readable, a.status)
    /\ part = "imports" => Imports!GraphIsRight(a.files, a.mods)

\* A view that aborts its older requests does not go back to an older answer (FlowView.tsx
\* 40-49, ReviewView.tsx 156-176; ReleaseLadderView.tsx 27-33 and ProdSignalsPanel.tsx
\* 94-110, where an older answer may come back, are in no run), no line is drawn for a move
\* that was not seen (CommandView.tsx), and no launch changes the verdict it was given, when
\* a look reads it at once and nothing writes on after its end (officeLauncher.ts 291-322).
NothingIsTakenBack ==
    [][/\ part = "view" => Loading!GoesForward
       /\ part = "map" => Map!DrawsMoves
       /\ part = "stream" => Stream!KeepsVerdict]_vars

\* Everything that moves comes to rest where the data is: robots in their rooms, notes on the
\* board, the watchers of the index, an open view and the map on what the server has
\* (OfficeCharacterView.tsx 650-760, officeMove.ts, socraticode-local-mcp-proxy.mjs 85-110).
ViewsSettle ==
    []<>(/\ part = "rest" => Floor(2)!Settled
         /\ part = "board" => Board!UpToDate
         /\ part \in {"daemon", "proxy"} => ~e
         /\ part = "view" => Loading!Settled
         /\ part = "map" => Map!Settled)

-----------------------------------------------------------------------------
(* The second run: what the operator sees and sends. *)

\* One run that exists and a stale deep link.
Live == INSTANCE LiveView WITH
    Runs <- {"A", "B"}, Missing <- {"B"}, DebounceMs <- 2, MaxWaitMs <- 2,
    MaxWrites <- 2, MaxFlight <- 2, MaxOutages <- 1,
    disk <- a, watch <- b, scan <- c, stream <- d, refresh <- e, flight <- f, app <- g, calm <- h

\* Two tasks at one slot without requests, and one task with a grant request.
Inbox(tasks, changes, requests) == INSTANCE Authorizations WITH
    Tasks <- tasks, Slots <- 1, MaxTimer <- 5, MaxTime <- 2, MaxScans <- 2,
    MaxChanges <- changes, MaxPosts <- requests,
    now <- a, ledger <- b, running <- c, queued <- d, timer <- e, scans <- f, review <- g,
    update <- h, refreshing <- i, inbox <- j, dialog <- k, posts <- l

Start == INSTANCE StartDialog WITH
    Fields <- {"mode", "when", "repos"}, MaxEdits <- 2, MaxPosts <- 1, MaxSteps <- 1, MaxOutages <- 1,
    server <- a, seen <- b, poll <- c, form <- d, planned <- e, confirmed <- f, promised <- g,
    post <- h, cancel <- i, count <- j

Actions == INSTANCE ActionCenter
Request == INSTANCE StartRequest WITH MaxTargets <- 2

ScreensInit ==
    \/ part = "live view" /\ Live!Init /\ NoneFromI
    \/ part = "inbox" /\ Inbox({"A", "B"}, 0, 0)!Init
    \/ part = "grants" /\ Inbox({"A"}, 1, 1)!Init
    \/ part = "start" /\ Start!Init /\ NoneFromK
    \/ part = "action center" /\ a \in Actions!Task /\ NoneFromB
    \/ part = "request" /\ a \in Request!Inputs /\ NoneFromB

LiveViewStep == part = "live view" /\ Live!Next /\ UNCHANGED FromI
InboxStep == part = "inbox" /\ Inbox({"A", "B"}, 0, 0)!Next /\ UNCHANGED part
GrantsStep == part = "grants" /\ Inbox({"A"}, 1, 1)!Next /\ UNCHANGED part
StartStep == part = "start" /\ Start!Next /\ UNCHANGED FromK

ScreensNext == LiveViewStep \/ InboxStep \/ GrantsStep \/ StartStep

ScreensSpec ==
    /\ ScreensInit /\ [][ScreensNext]_vars
    /\ WF_vars(part = "start" /\ Start!Reads /\ UNCHANGED FromK)
    /\ WF_vars(part = "start" /\ Start!Proceeds /\ UNCHANGED FromK)

\* Live view: no update is put off for longer than the cap; updates that come in mid-refresh
\* are dropped, and made good by the next one that finds nothing under way, on a stream that
\* never dropped (watcher.ts 60-100, runScanner.ts 340-400, App.tsx 240-300).
UpdatesReachTheScreen == part = "live view" => Live!UpdatesReachTheScreen

\* Action Center: once everything has settled, a grant that ended shows as one to give and a
\* grant that was given does not (gateView.ts 150-205); and no task that needs a human is left
\* out of the list (reviewModel.ts 330-560).
InboxFollowsLedger ==
    /\ part = "inbox" => Inbox({"A", "B"}, 0, 0)!InboxFollowsLedger
    /\ part = "grants" => Inbox({"A"}, 1, 1)!InboxFollowsLedger
    /\ part = "action center" => Actions!NothingIsMissed(a)

\* Start dialog: what is sent is what the confirmation line said (RunPanel.tsx 69).
PromisedIsSent == part = "start" => Start!PromisedIsSent

\* Start dialog: it comes to show what the server says, unless a read failed
\* (OfficeLaunchStatus.tsx 10-12).
ShowsTheServer == []<>(part = "start" => a = b \/ j.outages > 0)

\* Start request: what the form holds back the server would refuse, and what it lets
\* through the server takes but for the cases it does not look at: a time beyond the 7 days,
\* a step whose verification failed, and for chains the office's holds and a reviewer that
\* wrote the last step (startTask.ts 40-83, RunPanel.tsx 92, routes/launch.ts 223-229,
\* 337-416, taskChain.ts 205-240); and the verdict shown says what happened to the changes
\* (stepGovernance.ts, officeLaunch.ts 68).
FormsAgree == part = "request" => Request!FormsAgree(a) /\ Request!VerdictHolds(a)
=============================================================================
