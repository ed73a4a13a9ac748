----------------------------- MODULE MCServices -----------------------------
(***************************************************************************)
(* Services and scripts that share no state, side by side: each              *)
(* behaviour is one of one service, on the first of the variables below; the *)
(* others stay at 0.  One run then checks a small instance of each.          *)
(***************************************************************************)
EXTENDS Integers, Sequences, FiniteSets

VARIABLES service, a, b, c, d, e, f, g, h, i, j, k, l

vars == <<service, a, b, c, d, e, f, g, h, i, j, k, l>>

Chain == INSTANCE KnowledgeChain WITH
    Totals <- {2}, MaxStarts <- 2, MaxRestarts <- 1,
    chain <- a, rounds <- b, starts <- c, restarts <- d

Audits == INSTANCE KnowledgeAudits WITH
    Plain <- {"p"}, Auto <- {"a"}, PolicyChanges <- TRUE, MaxChanges <- 2, MaxRestarts <- 1,
    audits <- a, contract <- b, policy <- c, cache <- d, known <- e, disk <- f, adopted <- g,
    load <- h, dirty <- i, result <- j, changes <- k, restarts <- l

\* Two notes with two findings each; the last finding is for a human to close.
Findings == INSTANCE KnowledgeFindings WITH
    Findings <- 1..4, NoteOf <- <<1, 1, 2, 2>>, Priority <- <<1, 0, 0, 1>>, Human <- {4},
    InScope <- 1..4, Confirmed <- {2}, MaxNotes <- 1, MaxFindings <- 2, MaxAnswers <- 1,
    Overtaking <- FALSE, Cooldown <- 2, MaxAudits <- 3, MaxDecisions <- 2, MaxTime <- 5,
    audits <- a, ledger <- b, answering <- c, run <- d, looked <- e, runs <- f, now <- g

New == INSTANCE NewTask WITH
    Requests <- {"r1", "r2"}, MaxAttempts <- 2, Keep <- 1, SlowProbe <- FALSE,
    MaxIds <- 2, MaxItems <- 2, MaxRestarts <- 1,
    dirs <- a, line <- b, reqs <- c, records <- d, items <- e, redos <- f, restarts <- g

Trees == INSTANCE Worktrees WITH
    Repos <- {"a", "r"}, ReadOnly <- {"r"}, Replacing <- FALSE,
    MaxOutside <- 3, MaxSteps <- 2, MaxRestarts <- 1,
    branches <- a, base <- b, pushed <- c, linked <- d, main <- e, registry <- f, closed <- g,
    flow <- h, removal <- i, outside <- j, steps <- k, restarts <- l

Records == INSTANCE TaskRecords WITH
    Requests <- [decision |-> {"d1", "d2"}, handoff |-> {"h1", "h2"}, answer |-> {"a1"}],
    Kept <- 1, ReadsFail <- FALSE, MaxEdits <- 1, MaxRestarts <- 1,
    file <- a, line <- b, req <- c, edits <- d, restarts <- e

Ident == INSTANCE Identity WITH
    Names <- {"earth", "moon"}, Prefixes <- 1..3, Reserved <- {3},
    Candidates <- [n \in {"earth", "moon"} |-> IF n = "earth" THEN <<1, 2>> ELSE <<2>>],
    Base <- 3, MaxPulls <- 2,
    registry <- a, local <- b, sync <- c, tmp <- d, pulls <- e

Gates == INSTANCE CompletionGates WITH
    Gates <- {"g", "h"}, Acts <- {"deploy"}, Times <- {1, 2}, Replans <- FALSE, MaxEntries <- 2,
    phase <- a, gates <- b, ledger <- c

Status == INSTANCE TaskStatus WITH
    Branches <- {"b"}, LoopLimit <- 1, RoamLimit <- 1, RetryLimit <- 1, Parallel <- TRUE,
    Decisions <- {"approve", "request_changes"}, Against <- FALSE,
    FirstPhases <- {"pending", "assigned", "blocked"},
    st <- a, gates <- b, upstream <- c, decision <- d, run <- e, lanes <- f

\* Two events of one reference, and a race for the ids of two.
Gateway == INSTANCE EventGateway WITH
    Procs <- {"p", "q"}, Deliveries <- {"d1", "d2"}, Refs <- {"r", "s"},
    Events <- {[d1 |-> [ref |-> "r", role |-> "pm"], d2 |-> second] : second \in
                  {[ref |-> "r", role |-> "dev"], [ref |-> "s", role |-> "pm"], [ref |-> "r", role |-> "none"]}},
    SlowDispatch <- FALSE, LossInFlight <- FALSE, MaxIds <- 2, MaxKills <- 1, MaxLosses <- 1,
    ledger <- a, mapping <- b, dirs <- c, mirror <- d, torn <- e, proc <- f, runs <- g,
    killed <- h, kills <- i, losses <- j, event <- k

-----------------------------------------------------------------------------

FromHIs0 == h = 0 /\ i = 0 /\ j = 0 /\ k = 0 /\ l = 0
FromGIs0 == g = 0 /\ FromHIs0
FromFIs0 == f = 0 /\ FromGIs0
FromEIs0 == e = 0 /\ FromFIs0

Init ==
    \/ service = "chain" /\ Chain!Init /\ FromEIs0
    \/ service = "audits" /\ Audits!Init
    \/ service = "findings" /\ Findings!Init /\ FromHIs0
    \/ service = "new task" /\ New!Init /\ FromHIs0
    \/ service = "worktrees" /\ Trees!Init
    \/ service = "records" /\ Records!Init /\ FromFIs0
    \/ service = "identity" /\ Ident!Init /\ FromFIs0
    \/ service = "gates" /\ Gates!Init /\ d = 0 /\ FromEIs0
    \/ service = "status" /\ Status!Init /\ FromGIs0
    \/ service = "gateway" /\ Gateway!Init /\ l = 0

FromE == <<service, e, f, g, h, i, j, k, l>>
FromD == <<service, d, e, f, g, h, i, j, k, l>>
FromG == <<service, g, h, i, j, k, l>>
FromF == <<service, f, g, h, i, j, k, l>>
FromH == <<service, h, i, j, k, l>>

KnowledgeChainStep == service = "chain" /\ Chain!Next /\ UNCHANGED FromE
KnowledgeAuditsStep == service = "audits" /\ Audits!Next /\ UNCHANGED service
KnowledgeFindingsStep == service = "findings" /\ Findings!Next /\ UNCHANGED FromH
NewTaskStep == service = "new task" /\ New!Next /\ UNCHANGED FromH
WorktreesStep == service = "worktrees" /\ Trees!Next /\ UNCHANGED service
TaskRecordsStep == service = "records" /\ Records!Next /\ UNCHANGED FromF
IdentityStep == service = "identity" /\ Ident!Next /\ UNCHANGED FromF
CompletionGatesStep == service = "gates" /\ Gates!Next /\ UNCHANGED FromD
TaskStatusStep == service = "status" /\ Status!Next /\ UNCHANGED FromG
EventGatewayStep == service = "gateway" /\ Gateway!Next /\ UNCHANGED <<service, l>>

Next ==
    \/ KnowledgeChainStep \/ KnowledgeAuditsStep \/ KnowledgeFindingsStep \/ NewTaskStep
    \/ WorktreesStep \/ TaskRecordsStep \/ IdentityStep
    \/ CompletionGatesStep \/ TaskStatusStep \/ EventGatewayStep

ChainProgress == service = "chain" /\ Chain!Progress /\ UNCHANGED FromE

Spec == Init /\ [][Next]_vars
FairSpec == Spec /\ WF_vars(ChainProgress)

-----------------------------------------------------------------------------

\* Knowledge chain: after its end it queues and starts no further round
\* (knowledgeChain.ts 118-137).
EndedChainIsQuiet == [][service = "chain" => Chain!QuietOnceEnded]_vars

\* Knowledge chain: every chain ends with a reason and every start is answered,
\* whatever was cancelled, forgotten or restarted (knowledgeChain.ts 139-190).
ChainEnds == []<>(service = "chain" => Chain!Settled)

\* Knowledge re-check: a round is queued only after the one before it in the same chain
\* succeeded (knowledgeChain.ts 8-15); what a load returns with nothing changed since it began
\* is what the validator says of every file now (knowledgeReviews.ts 383-545); and an answer
\* waits until a run was told of it, within the runs announced (knowledgeDecisions.ts 12-14).
KnowledgeIsInOrder ==
    /\ service = "chain" => Chain!RoundsInOrder
    /\ service = "audits" => Audits!AuditsAreCurrent
    /\ service = "findings" => Findings!AnswersReachARun /\ Findings!ScopeTakesThatManyRuns

\* Nothing is done over: a task the operator confirmed is verified, and no step that could
\* still rewrite it is out or comes (newTask.ts 23-26); and an outside event runs once, in
\* its reference's own task, however often it is delivered (event-gateway.rb 291-298, 376-392).
NothingIsDoneOver ==
    /\ service = "new task" => New!ConfirmedIsFinal
    /\ service = "gateway" => Gateway!RunsOnce /\ Gateway!TasksOfTheirOwn

\* Completion: a task is done with every gate and branch resolved; a gate is passed after the
\* gates it waits on, and some unresolved gate waits on none (completion-guard.rb 26-27,
\* 272-300); and what the branches hold up shows in the phase, after whichever writer
\* (branch-projection.rb 46-63).
DoneIsEarned ==
    /\ service = "gates" => Gates!DoneIsEarned /\ Gates!PassedInOrder /\ Gates!SomeGateIsNext
    /\ service = "status" => Status!DoneIsEarned /\ Status!BranchesShow

\* Task status: every output that moves the task brings it nearer to the limits of the guards
\* (run-agent.sh 2248-2328, sync-status-from-output.rb 234-243).
EachTurnCounts == [][service = "status" => Status!TurnCounts]_vars

\* What is on record stays: the worktrees the dashboard made, which it removes only with
\* everything delivered (worktrees.ts 26-29, 355-385); what a store acknowledged, in order
\* (decisionStore.ts 172-175); a prefix of somebody (identity.ts 132-180); and a resolved gate,
\* whatever is revoked later (authorization-ledger.rb 7-15).
RecordsStay ==
    [][/\ service = "worktrees" => Trees!MadeIsOnRecord' /\ Trees!RemovedIsItsOwn
       /\ service = "records" => Records!RecordedStays
       /\ service = "identity" => Ident!OwnerStands
       /\ service = "gates" => Gates!ResolvedStay]_vars
=============================================================================
