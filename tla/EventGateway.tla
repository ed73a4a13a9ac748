----------------------------- MODULE EventGateway -----------------------------
(***************************************************************************)
(* Outside events become dispatches: scripts/event-gateway.rb.  Deliveries of  *)
(* the same events are handled by processes side by side, each step one locked *)
(* rewrite of the ledger with the reads before it; a process may be killed     *)
(* between any two, and the ledger file may be lost.  What preflight and       *)
(* run-agent.sh decide is left open, but for the lease that keeps two runs of  *)
(* a task apart (TaskOwnership).  Task ids are numbers of TASK-GW-<n>.         *)
(***************************************************************************)
EXTENDS Integers

CONSTANTS
    Procs,          \* processes that handle deliveries
    Deliveries,     \* delivery ids
    Refs,           \* external references ("owner/repo#17")
    Events,         \* what the deliveries may say: their references and commands' roles
    SlowDispatch,   \* whether a process may take longer than RESERVATION_STALE_SECONDS
    LossInFlight,   \* whether the ledger may be lost while a delivery is handled
    MaxIds,         \* bound: ids minted
    MaxKills,       \* bound: processes killed
    MaxLosses       \* bound: losses of the ledger

VARIABLES
    event,          \* the reference and role of each delivery, fixed from the start
    ledger,         \* ledger.yaml: the row of each delivery
    mapping,        \* external-refs.yaml: the task of each reference, 0 for none
    dirs,           \* tasks whose directory exists
    mirror,         \* gateway-events.yaml of each task: the outcome of each delivery
    torn,           \* tasks whose mirror holds an empty row, which no later writer gets past
    proc,           \* where each process is
    runs,           \* history: how often a delivery's event has run
    killed,         \* history: processes of a delivery killed with its run begun
    kills, losses

vars == <<event, ledger, mapping, dirs, mirror, torn, proc, runs, killed, kills, losses>>

Terminal == {"dispatched", "dispatch_failed", "rejected_preflight"}
Outcomes == Terminal \cup {"none", "in_progress", "duplicate", "rejected"}

\* old: received more than RESERVATION_STALE_SECONDS ago.
NoRow == [outcome |-> "none", old |-> FALSE]

Idle == [at |-> "idle", d |-> "none", task |-> 0, outcome |-> "none"]

Ids == 1..MaxIds

Process ==
    [at : {"idle", "command", "resolve", "lookup", "preflight", "mint",
           "dispatch", "running", "finalize", "mirror"},
     d : Deliveries \cup {"none"}, task : 0..MaxIds, outcome : Outcomes]

TypeOK ==
    /\ event \in [Deliveries -> [ref : Refs, role : {"pm", "dev", "none"}]]
    /\ ledger \in [Deliveries -> [outcome : Outcomes, old : BOOLEAN]]
    /\ mapping \in [Refs -> 0..MaxIds]
    /\ dirs \subseteq Ids
    /\ mirror \in [Ids -> [Deliveries -> Outcomes]]
    /\ torn \subseteq Ids
    /\ proc \in [Procs -> Process]
    /\ runs \in [Deliveries -> Nat] /\ killed \in [Deliveries -> Nat]
    /\ kills \in 0..MaxKills /\ losses \in 0..MaxLosses

Init ==
    /\ event \in Events
    /\ ledger = [d \in Deliveries |-> NoRow] /\ mapping = [r \in Refs |-> 0]
    /\ dirs = {} /\ mirror = [t \in Ids |-> [d \in Deliveries |-> "none"]] /\ torn = {}
    /\ proc = [p \in Procs |-> Idle]
    /\ runs = [d \in Deliveries |-> 0] /\ killed = runs /\ kills = 0 /\ losses = 0

-----------------------------------------------------------------------------
(* The ledger *)

Moves(p, to) == proc' = [proc EXCEPT ![p] = to]
GoesTo(p, at) == Moves(p, [proc[p] EXCEPT !.at = at])
Ends(p) == Moves(p, Idle)

Stale(d) == ledger[d].outcome = "in_progress" /\ ledger[d].old

\* reserve_delivery: a live or ended row makes this delivery a duplicate.
Reserve(p, d) ==
    /\ proc[p].at = "idle"
    /\ ledger[d].outcome = "none" \/ Stale(d)
    /\ ledger' = [ledger EXCEPT ![d] = [outcome |-> "in_progress", old |-> FALSE]]
    /\ Moves(p, [at |-> "command", d |-> d, task |-> 0, outcome |-> "none"])
    /\ UNCHANGED <<event, mapping, dirs, mirror, torn, runs, killed, kills, losses>>

\* finalize_delivery, of a row that may be gone.
Row(d, outcome) ==
    ledger' = [ledger EXCEPT ![d].outcome = IF @ = "none" THEN @ ELSE outcome]

\* resolve_command
Command(p) ==
    /\ proc[p].at = "command"
    /\ IF event[proc[p].d].role = "none" THEN Row(proc[p].d, "rejected") /\ Ends(p)
       ELSE Row(proc[p].d, "in_progress") /\ GoesTo(p, "resolve")
    /\ UNCHANGED <<event, mapping, dirs, mirror, torn, runs, killed, kills, losses>>

\* resolve_identity, by reference: a mapped id counts once its directory exists.
Resolve(p) ==
    /\ proc[p].at = "resolve"
    /\ LET d == proc[p].d
           task == mapping[event[d].ref]
       IN  \/ /\ task \in dirs
              /\ Row(d, "in_progress")
              /\ Moves(p, [proc[p] EXCEPT !.at = "lookup", !.task = task])
           \/ /\ task \notin dirs /\ event[d].role = "pm"
              /\ Row(d, "in_progress") /\ GoesTo(p, "preflight")
           \/ /\ task \notin dirs /\ event[d].role # "pm"
              /\ Row(d, "rejected") /\ Ends(p)
    /\ UNCHANGED <<event, mapping, dirs, mirror, torn, runs, killed, kills, losses>>

\* mirror_lookup
Recovered(task, d) == mirror[task][d] \in Terminal

Lookup(p) ==
    /\ proc[p].at = "lookup"
    /\ IF Recovered(proc[p].task, proc[p].d)
       THEN Row(proc[p].d, "duplicate") /\ Ends(p)
       ELSE GoesTo(p, "preflight") /\ UNCHANGED ledger
    /\ UNCHANGED <<event, mapping, dirs, mirror, torn, runs, killed, kills, losses>>

\* The pre-check; a refusal is mirrored if the task is known.
Preflight(p, allowed) ==
    /\ proc[p].at = "preflight"
    /\ \/ /\ allowed /\ UNCHANGED ledger
          /\ GoesTo(p, IF proc[p].task = 0 THEN "mint" ELSE "dispatch")
       \/ /\ ~allowed /\ Row(proc[p].d, "rejected_preflight")
          /\ IF proc[p].task = 0 THEN Ends(p) ELSE GoesTo(p, "mirror")
    /\ UNCHANGED <<event, mapping, dirs, mirror, torn, runs, killed, kills, losses>>

\* mint_task_id: what no directory has and the mapping has not handed out.
Taken == dirs \cup {mapping[r] : r \in Refs}

\* mint_and_map; a concurrent delivery may have minted first.
Mint(p, id) ==
    /\ proc[p].at = "mint"
    /\ LET ref == event[proc[p].d].ref
       IN  /\ IF mapping[ref] # 0 THEN id = mapping[ref]
              ELSE (\A t \in Taken : t < id) /\ (id = 1 \/ id - 1 \in Taken)
           /\ mapping' = [mapping EXCEPT ![ref] = id]
    /\ Row(proc[p].d, "in_progress")
    /\ Moves(p, [proc[p] EXCEPT !.at = "dispatch", !.task = id])
    /\ UNCHANGED <<event, dirs, mirror, torn, runs, killed, kills, losses>>

-----------------------------------------------------------------------------
(* The dispatch and its outcome *)

\* run-agent.sh takes the task's lease and makes the directory of a new task ...
Run(p) ==
    /\ proc[p].at = "dispatch"
    /\ \A q \in Procs : ~(proc[q].at = "running" /\ proc[q].task = proc[p].task)
    /\ dirs' = dirs \cup {proc[p].task}
    /\ runs' = [runs EXCEPT ![proc[p].d] = @ + 1]
    /\ GoesTo(p, "running")
    /\ UNCHANGED <<event, ledger, mapping, mirror, torn, killed, kills, losses>>

\* ... or refuses, before it made the directory or after.
RunRefused(p) ==
    /\ proc[p].at = "dispatch"
    /\ dirs' \in {dirs, dirs \cup {proc[p].task}}
    /\ Moves(p, [proc[p] EXCEPT !.at = "finalize", !.outcome = "dispatch_failed"])
    /\ UNCHANGED <<event, ledger, mapping, mirror, torn, runs, killed, kills, losses>>

RunEnds(p, outcome) ==
    /\ proc[p].at = "running"
    /\ outcome \in {"dispatched", "dispatch_failed"}
    /\ Moves(p, [proc[p] EXCEPT !.at = "finalize", !.outcome = outcome])
    /\ UNCHANGED <<event, ledger, mapping, dirs, mirror, torn, runs, killed, kills, losses>>

Finalize(p) ==
    /\ proc[p].at = "finalize"
    /\ Row(proc[p].d, proc[p].outcome)
    /\ GoesTo(p, "mirror")
    /\ UNCHANGED <<event, mapping, dirs, mirror, torn, runs, killed, kills, losses>>

\* mirror_to_task copies the row as the ledger has it now; without one it writes an empty
\* row, or fails on the rows that are there.
Mirror(p) ==
    /\ proc[p].at = "mirror"
    /\ LET d == proc[p].d
           task == proc[p].task
           empty == \A e \in Deliveries : mirror[task][e] = "none"
       IN  /\ mirror' = IF task \in dirs \ torn /\ ledger[d].outcome # "none"
                        THEN [mirror EXCEPT ![task][d] = ledger[d].outcome] ELSE mirror
           /\ torn' = IF task \in dirs /\ ledger[d].outcome = "none" /\ empty
                      THEN torn \cup {task} ELSE torn
    /\ Ends(p)
    /\ UNCHANGED <<event, ledger, mapping, dirs, runs, killed, kills, losses>>

-----------------------------------------------------------------------------
(* Time and faults *)

\* RESERVATION_STALE_SECONDS pass.
Ages(d) ==
    /\ ledger[d].outcome = "in_progress" /\ ~ledger[d].old
    /\ SlowDispatch \/ \A p \in Procs : proc[p].d # d
    /\ ledger' = [ledger EXCEPT ![d].old = TRUE]
    /\ UNCHANGED <<event, mapping, dirs, mirror, torn, proc, runs, killed, kills, losses>>

Kill(p) ==
    /\ proc[p].at # "idle" /\ kills < MaxKills
    /\ kills' = kills + 1
    /\ killed' = IF proc[p].at \in {"running", "finalize", "mirror"}
                 THEN [killed EXCEPT ![proc[p].d] = @ + 1] ELSE killed
    /\ Ends(p)
    /\ UNCHANGED <<event, ledger, mapping, dirs, mirror, torn, runs, losses>>

LoseLedger ==
    /\ losses < MaxLosses
    /\ LossInFlight \/ \A p \in Procs : proc[p] = Idle
    /\ losses' = losses + 1
    /\ ledger' = [d \in Deliveries |-> NoRow]
    /\ UNCHANGED <<event, mapping, dirs, mirror, torn, proc, runs, killed, kills>>

Next ==
    \/ \E p \in Procs :
          \/ \E d \in Deliveries : Reserve(p, d)
          \/ Command(p) \/ Resolve(p) \/ Lookup(p)
          \/ \E allowed \in BOOLEAN : Preflight(p, allowed)
          \/ \E id \in Ids : Mint(p, id)
          \/ Run(p) \/ RunRefused(p)
          \/ \E outcome \in Terminal : RunEnds(p, outcome)
          \/ Finalize(p) \/ Mirror(p) \/ Kill(p)
    \/ \E d \in Deliveries : Ages(d)
    \/ LoseLedger

Spec == Init /\ [][Next]_vars

-----------------------------------------------------------------------------

\* event-gateway.rb 291-298, 376-392: however often an event is delivered, at once or after
\* the ledger was lost, it runs once; again only after a process was killed in its run or
\* before the outcome was on record.
RunsOnce == \A d \in Deliveries : runs[d] <= 1 + killed[d]

\* event-gateway.rb 431-456, 492-502: no two references share a task, and a delivery is
\* dispatched to the task of its reference, also while ids are handed out whose directories
\* are not there yet.
TasksOfTheirOwn ==
    /\ \A r, s \in Refs : mapping[r] # 0 /\ mapping[r] = mapping[s] => r = s
    /\ \A p \in Procs : proc[p].task # 0 => proc[p].task = mapping[event[proc[p].d].ref]
=============================================================================
