---------------------------- MODULE ReleaseLadder ----------------------------
(***************************************************************************)
(* Insights, Readiness: how far each task has been proven                     *)
(* (server/src/services/releaseLadder.ts, client/src/views/ladderProof.ts,    *)
(* releaseProgress.ts, ReleaseLadderView.tsx). A run has the status of each    *)
(* of its completion gates and, when it is a release train, the tasks it       *)
(* carries: a production rung a task does not declare is read from its trains.  *)
(* A product is a set of runs, a run's id is a number, its date the number at. *)
(***************************************************************************)
EXTENDS Integers, Sequences, FiniteSets, FiniteSetsExt

RELEASE_LADDER == <<"implementation_verification", "deploy_staging", "staging_acceptance",
                    "deploy_production", "production_acceptance">>
Rungs == 1..Len(RELEASE_LADDER)
ProdRungs == {4, 5}

\* A gate the ladder reads as staging_acceptance, the gate of every closeout, any other.
Alias == "authenticated_staging"
Closeout == "knowledge_closeout"
Names == {RELEASE_LADDER[i] : i \in Rungs} \cup {Alias, Closeout, "other"}

\* Release statuses of a gate; "absent" when there is no such gate.
Statuses == {"pass", "pending", "na", "absent"}

\* ladder: gates is null when the run declares none, unreadable ones have no gates.
Gates(run) == IF run.declared /\ run.readable THEN run.gate ELSE [n \in Names |-> "absent"]
Readable(run) == run.declared => run.readable

\* ownCells: the rung's own gate, else the alias.
OwnCell(run, i) ==
    LET own == Gates(run)[RELEASE_LADDER[i]]
    IN  IF own = "absent" /\ i = 3 THEN Gates(run)[Alias] ELSE own

-----------------------------------------------------------------------------
(* Release trains. *)

\* trainsFor: readable trains that have not ended without shipping.
TrainsOf(runs, id) ==
    {t \in DOMAIN runs : /\ id \in runs[t].carries /\ runs[t].declared /\ runs[t].readable
                         /\ runs[t].status \notin {"cancelled", "failed"}}

Newest(runs, some) ==
    CHOOSE t \in some : \A u \in some \ {t} :
        runs[t].at > runs[u].at \/ (runs[t].at = runs[u].at /\ t < u)

\* The trains of a task that have the gate.
Offered(runs, id, i) == {t \in TrainsOf(runs, id) : OwnCell(runs[t], i) # "absent"}

\* Slip: the newest train that has the gate speaks for all of them.
NewestSays(runs, offered, i) == Newest(runs, offered)

\* ladderTask: the newest train that has not passed the rung, else the newest.
Speaker(runs, offered, i) ==
    LET open == {t \in offered : OwnCell(runs[t], i) # "pass"}
    IN  Newest(runs, IF open # {} THEN open ELSE offered)

\* The train a production rung is read from, 0 for the task itself.
Via(runs, id, i) ==
    IF i \notin ProdRungs \/ OwnCell(runs[id], i) # "absent" THEN 0
    ELSE LET offered == Offered(runs, id, i)
         IN  IF offered = {} THEN 0 ELSE Speaker(runs, offered, i)

Cell(runs, id, i) ==
    LET via == Via(runs, id, i)
    IN  OwnCell(runs[IF via = 0 THEN id ELSE via], i)

-----------------------------------------------------------------------------
(* The ladder of a task (ladderTask). *)

Passed(cells) == {i \in Rungs : cells[i] = "pass"}
Pending(cells) == {i \in Rungs : cells[i] = "pending"}

Cells(runs, id) == [i \in Rungs |-> Cell(runs, id, i)]
Highest(cells) == Max({0} \cup Passed(cells))
FirstOpen(cells) == Min({6} \cup Pending(cells))

\* waitingOnProd
WaitingOnProd(runs, id) == Readable(runs[id]) /\ FirstOpen(Cells(runs, id)) \in ProdRungs

\* noProdGates: proven up to staging, and nothing can prove more.
NoProdGates(runs, id) ==
    LET cells == Cells(runs, id)
    IN  Readable(runs[id]) /\ Highest(cells) = 3 /\ \A i \in ProdRungs : cells[i] = "absent"

\* nextProd, pendingTrains: the trains that still have to pass the next production rung.
NextProd(runs, id) == Min({6} \cup {i \in ProdRungs : Cell(runs, id, i) = "pending" /\ Via(runs, id, i) # 0})
PendingTrains(runs, id) ==
    IF NextProd(runs, id) = 6 THEN {}
    ELSE {t \in TrainsOf(runs, id) : OwnCell(runs[t], NextProd(runs, id)) \notin {"absent", "pass"}}

-----------------------------------------------------------------------------
(* The runs of a product (buildReleaseLadder). *)

\* closeoutOnly: the closeout gate alone is not a delivery gate.
CloseoutOnly(run) ==
    /\ run.declared /\ run.readable /\ Gates(run)[Closeout] # "absent"
    /\ \A n \in Names \ {Closeout} : Gates(run)[n] = "absent"

NoGates(runs) ==
    {id \in DOMAIN runs : /\ (~runs[id].declared \/ CloseoutOnly(runs[id]))
                          /\ TrainsOf(runs, id) = {}}
Aborted(runs) == {id \in DOMAIN runs \ NoGates(runs) : runs[id].status = "cancelled"}
Listed(runs) == DOMAIN runs \ (NoGates(runs) \cup Aborted(runs))
Trains(runs) == {id \in Listed(runs) : runs[id].carries # {}}
Climbing(runs) == Listed(runs) \ Trains(runs)

\* counts.byHighest, 0 for none.
ByHighest(runs) ==
    [i \in {0} \cup Rungs |-> Cardinality({id \in Climbing(runs) : Highest(Cells(runs, id)) = i})]

\* unblockedByProdRun: open tasks that wait for a production run, but for those a train carries
\* and the train that waits for its own run (isOwnRunWait).
OwnRunWait(run, id) == run.carries # {} /\ run.wait \in {0, id}
UnblockedByProdRun(runs) ==
    {id \in DOMAIN runs : /\ runs[id].waits /\ TrainsOf(runs, id) = {}
                          /\ ~OwnRunWait(runs[id], id)
                          /\ runs[id].status \notin {"completed", "cancelled"}}

-----------------------------------------------------------------------------
(* The page. *)

\* Gates outside the ladder: the alias too when the task has the rung's own gate.
Extra(run) ==
    {n \in {"other", Closeout} \cup (IF Gates(run)[RELEASE_LADDER[3]] = "absent" THEN {} ELSE {Alias}) :
        Gates(run)[n] # "absent"}

\* isComplete: accepted in production, or done with nothing declared left open.
Complete(runs, id) ==
    \/ Cell(runs, id, 5) = "pass"
    \/ /\ runs[id].status = "completed"
       /\ Pending(Cells(runs, id)) = {}
       /\ \A n \in Extra(runs[id]) : Gates(runs[id])[n] \in {"pass", "na"}

\* proofGroups: the tasks that wait on production, by the trains that would prove them.
Waiting(runs) == {id \in Listed(runs) : WaitingOnProd(runs, id) /\ runs[id].carries = {}}
ProofGroups(runs) ==
    {[trains |-> ts, tasks |-> {id \in Waiting(runs) : PendingTrains(runs, id) = ts}] :
        ts \in {PendingTrains(runs, id) : id \in Waiting(runs)}}

\* ProductLadder: open work first, complete tasks in a fold.
Rows(runs, folded) ==
    {id \in Listed(runs) : ~Complete(runs, id)} \cup
    (IF folded THEN {} ELSE {id \in Listed(runs) : Complete(runs, id)})

\* ReleaseLadderView: a card of its own for a product with listed runs, one card for all those
\* that only have runs without gates.
Card(runs) == IF Listed(runs) # {} THEN "own" ELSE IF NoGates(runs) # {} THEN "shared" ELSE "none"

\* rungProgress: how far, and what comes next.
RungProgress(cells) == [reached |-> Highest(cells), next |-> FirstOpen(cells)]

\* gateRungProgress: the same line in Monitor, from the task's own gates.
GateRungProgress(run) == RungProgress([i \in Rungs |-> OwnCell(run, i)])

-----------------------------------------------------------------------------
(* Properties. *)

\* Every run of a product is counted once, on the ladder, as a train, as aborted or without
\* gates; every task that waits on production is in one group and none of them is complete
\* but for one accepted before it was deployed; and one a train carries is not listed again
\* as what a production run would also unblock.
RunsAreCountedOnce(runs) ==
    LET tops == ByHighest(runs)
        waiting == Waiting(runs)
    IN  /\ tops[0] + tops[1] + tops[2] + tops[3] + tops[4] + tops[5]
             + Cardinality(Trains(runs)) + Cardinality(Aborted(runs)) + Cardinality(NoGates(runs))
             = Cardinality(DOMAIN runs)
        /\ Card(runs) = "none" => \A id \in DOMAIN runs : runs[id].status = "cancelled"
        /\ \A id \in waiting : Cardinality({g \in ProofGroups(runs) : id \in g.tasks}) = 1
        /\ \A id \in waiting : Complete(runs, id) => FirstOpen(Cells(runs, id)) = 4
        /\ \A g \in ProofGroups(runs) : g.trains # {} => g.tasks \cap UnblockedByProdRun(runs) = {}

\* A production rung is proven through trains only when none of the trains that have it and
\* may still ship it has it open (types.ts: "a task on several trains is proven only when all
\* pass"); and a line read from the gates of the task alone is never ahead of the ladder.
ProvenByEveryTrain(runs) ==
    \A id \in Listed(runs) :
        /\ \A i \in ProdRungs : (Via(runs, id, i) # 0 /\ Cell(runs, id, i) = "pass") =>
              \A t \in TrainsOf(runs, id) : OwnCell(runs[t], i) \in {"pass", "absent"}
        /\ GateRungProgress(runs[id]).reached <= RungProgress(Cells(runs, id)).reached

\* Once the trains of a group have passed the rung its tasks wait for, each task has it.
GroupWouldProve(runs) ==
    \A id \in Waiting(runs) : PendingTrains(runs, id) # {} =>
        LET i == NextProd(runs, id)
            after == [t \in DOMAIN runs |->
                IF t \in PendingTrains(runs, id) THEN [runs[t] EXCEPT !.gate[RELEASE_LADDER[i]] = "pass"]
                ELSE runs[t]]
        IN  Cell(after, id, i) = "pass"

LadderIsHonest(runs) == RunsAreCountedOnce(runs) /\ ProvenByEveryTrain(runs) /\ GroupWouldProve(runs)
=============================================================================
