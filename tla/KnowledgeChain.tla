--------------------------- MODULE KnowledgeChain ---------------------------
(***************************************************************************)
(* dashboard/server/src/services/knowledgeChain.ts: "Run re-check now" in    *)
(* several rounds, one after another.  Each round is an item of the Run      *)
(* queue under the one knowledge key; the chain is a file that the queue's   *)
(* timer advances.  A start and the timer both await the queue's tick, so    *)
(* Stop, a cancel or a restart may come in between.                          *)
(***************************************************************************)
EXTENDS Integers, Sequences, FiniteSets

CONSTANTS
    Totals,         \* CHAIN_ROUNDS: the rounds an operator may ask for
    MaxStarts,      \* bound: chains ever started
    MaxRestarts     \* bound: restarts of the dashboard

VARIABLES
    chain,      \* the chain file
    rounds,     \* the knowledge items of the queue, each with its launch
    starts,     \* round 1 of each start whose request still awaits the queue
    restarts

vars == <<chain, rounds, starts, restarts>>

\* Rounds there can ever be.
MaxRounds == MaxStarts * CHOOSE n \in Totals : \A m \in Totals : m <= n

\* item: the queued round, 0 when none; last: the last launch; first names the chain.
Chain == [first : 0..MaxRounds, total : {0} \cup Totals, started : 0..MaxRounds,
          item : 0..MaxRounds, last : 0..MaxRounds, ended : BOOLEAN]

\* "gone" is an ended item that the queue no longer keeps.
Round == [first : 1..MaxRounds, number : 1..MaxRounds, total : Totals,
          state : {"waiting", "starting", "started", "failed", "cancelled",
                   "skipped", "gone"},
          run : {"none", "running", "stopping", "succeeded", "bad"}]

NoChain == [first |-> 0, total |-> 0, started |-> 0, item |-> 0, last |-> 0, ended |-> TRUE]

TypeOK ==
    /\ chain \in Chain
    /\ rounds \in Seq(Round) /\ Len(rounds) <= MaxRounds
    /\ starts \subseteq DOMAIN rounds
    /\ restarts \in 0..MaxRestarts

Init == chain = NoChain /\ rounds = <<>> /\ starts = {} /\ restarts = 0

-----------------------------------------------------------------------------
(* The queue and the launches *)

Running(i) == rounds[i].run \in {"running", "stopping"}

\* launcher.latest: rounds start one at a time, so the latest launch is the
\* youngest round that has one; 0 when there is none.
Latest ==
    LET launched == {i \in DOMAIN rounds : rounds[i].run # "none"}
    IN  IF launched = {} THEN 0 ELSE CHOOSE i \in launched : \A j \in launched : j <= i

LatestRuns == Latest # 0 /\ Running(Latest)

\* enqueue is refused while the key has an open item.
HasOpen == \E i \in DOMAIN rounds : rounds[i].state \in {"waiting", "starting"}

Enqueued(first, number, total) ==
    Append(rounds, [first |-> first, number |-> number, total |-> total,
                    state |-> "waiting", run |-> "none"])

Pick(i) ==
    /\ rounds[i].state = "waiting" /\ ~LatestRuns
    /\ rounds' = [rounds EXCEPT ![i].state = "starting"]
    /\ UNCHANGED <<chain, starts, restarts>>

\* The brief is built; without notes and answers the round is skipped, and a CLI
\* that cannot run fails it.  Otherwise the launch exists before the item says so.
StartRound(i) ==
    /\ rounds[i].state = "starting"
    /\ \/ /\ rounds[i].run = "none"
          /\ \E s \in {"failed", "skipped"} : rounds' = [rounds EXCEPT ![i].state = s]
       \/ /\ rounds[i].run = "none"
          /\ rounds' = [rounds EXCEPT ![i].run = "running"]
       \/ /\ rounds[i].run # "none"
          /\ rounds' = [rounds EXCEPT ![i].state = "started"]
    /\ UNCHANGED <<chain, starts, restarts>>

RoundEnds(i) ==
    /\ Running(i)
    /\ \E e \in (IF rounds[i].run = "running" THEN {"succeeded", "bad"} ELSE {"bad"}) :
          rounds' = [rounds EXCEPT ![i].run = e]
    /\ UNCHANGED <<chain, starts, restarts>>

\* The operator cancels the item, or the queue's retention drops an ended one.
Cancel(i) ==
    /\ rounds[i].state = "waiting"
    /\ rounds' = [rounds EXCEPT ![i].state = "cancelled"]
    /\ UNCHANGED <<chain, starts, restarts>>

Forget(i) ==
    /\ rounds[i].state \notin {"waiting", "starting", "gone"}
    /\ rounds' = [rounds EXCEPT ![i].state = "gone"]
    /\ UNCHANGED <<chain, starts, restarts>>

-----------------------------------------------------------------------------
(* The chain *)

\* start, up to its await.
Start(total) ==
    /\ ~LatestRuns /\ ~HasOpen
    /\ Cardinality({rounds[i].first : i \in DOMAIN rounds}) < MaxStarts
    /\ rounds' = Enqueued(Len(rounds) + 1, 1, total)
    /\ starts' = starts \cup {Len(rounds) + 1}
    /\ UNCHANGED <<chain, restarts>>

\* start, after its await: the chain is written over the one before unless round 1
\* was skipped, failed, cancelled or is no longer on record.
Started(i) ==
    /\ i \in starts
    /\ starts' = starts \ {i}
    /\ LET new == [NoChain EXCEPT !.first = i, !.total = rounds[i].total, !.ended = FALSE]
       IN  chain' = CASE rounds[i].state = "started" -> [new EXCEPT !.started = 1, !.last = i]
                      [] rounds[i].state \in {"waiting", "starting"} -> [new EXCEPT !.item = i]
                      [] OTHER -> chain
    /\ UNCHANGED <<rounds, restarts>>

End == chain' = [chain EXCEPT !.ended = TRUE]

\* Slip: a round that is no longer on record is waited for.
OverIfOnRecord(i) == rounds[i].state \in {"started", "failed", "cancelled", "skipped"}

Over(i) == rounds[i].state \notin {"waiting", "starting"}

\* tick while a round is queued: follow it.
FollowRound ==
    /\ ~chain.ended /\ chain.item # 0
    /\ Over(chain.item)
    /\ IF rounds[chain.item].state = "started"
       THEN chain' = [chain EXCEPT !.started = @ + 1, !.last = chain.item, !.item = 0]
       ELSE End
    /\ UNCHANGED <<rounds, starts, restarts>>

MayGoOn ==
    /\ Latest # 0 /\ Latest = chain.last
    /\ rounds[Latest].run = "succeeded"
    /\ chain.started < chain.total
    /\ ~HasOpen

\* tick when the last round was started: queue the next one after a success.
NextRound ==
    /\ ~chain.ended /\ chain.item = 0
    /\ ~(Latest = chain.last /\ LatestRuns)
    /\ IF MayGoOn
       THEN /\ rounds' = Enqueued(chain.first, chain.started + 1, chain.total)
            /\ chain' = [chain EXCEPT !.item = Len(rounds) + 1]
       ELSE End /\ UNCHANGED rounds
    /\ UNCHANGED <<starts, restarts>>

\* Slip: Stop leaves the round in the queue.
NoCancel == FALSE

CancelsRound == ~chain.ended /\ chain.item # 0 /\ rounds[chain.item].state = "waiting"

\* stop: a round that is being started can no longer be cancelled, and its launch
\* is not there to be stopped.
Stop ==
    /\ ~chain.ended \/ LatestRuns
    /\ LET stops == Latest # 0 /\ rounds[Latest].run = "running"
       IN  rounds' = [i \in DOMAIN rounds |->
                        IF CancelsRound /\ i = chain.item THEN [rounds[i] EXCEPT !.state = "cancelled"]
                        ELSE IF stops /\ i = Latest THEN [rounds[i] EXCEPT !.run = "stopping"]
                        ELSE rounds[i]]
    /\ chain' = [chain EXCEPT !.ended = TRUE]
    /\ UNCHANGED <<starts, restarts>>

\* Requests are lost; the queue's first tick settles what was being started.
Restart ==
    /\ restarts < MaxRestarts
    /\ restarts' = restarts + 1
    /\ starts' = {}
    /\ rounds' = [i \in DOMAIN rounds |->
                    IF rounds[i].state # "starting" THEN rounds[i]
                    ELSE [rounds[i] EXCEPT !.state = IF rounds[i].run = "none" THEN "failed"
                                                                            ELSE "started"]]
    /\ UNCHANGED chain

Next ==
    \/ \E n \in Totals : Start(n)
    \/ \E i \in DOMAIN rounds : \/ Pick(i) \/ StartRound(i) \/ RoundEnds(i)
                                \/ Cancel(i) \/ Forget(i) \/ Started(i)
    \/ FollowRound \/ NextRound \/ Stop \/ Restart

\* The timer fires, starts go on and awaits end; an agent ends by its time limit.
Progress ==
    \/ FollowRound \/ NextRound
    \/ \E i \in DOMAIN rounds : Pick(i) \/ StartRound(i) \/ RoundEnds(i) \/ Started(i)

Spec == Init /\ [][Next]_vars
FairSpec == Spec /\ WF_vars(Progress)

-----------------------------------------------------------------------------

\* knowledgeChain.ts 8-15: a round is queued only after the one before it in the
\* same chain succeeded, and never more rounds than were asked for.
RoundsInOrder ==
    TypeOK /\ \A i \in DOMAIN rounds :
        /\ rounds[i].number <= rounds[i].total
        /\ rounds[i].number > 1 =>
              \E j \in 1..(i - 1) : /\ rounds[j].first = rounds[i].first
                                    /\ rounds[j].number = rounds[i].number - 1
                                    /\ rounds[j].run = "succeeded"

\* A chain that has ended (stopped, failed, overtaken by an item of its key) gets
\* no further round, and a round of it that still waited is not started.
QuietOnceEnded ==
    chain.ended =>
        /\ \A i \in DOMAIN rounds :
              rounds[i].first = chain.first /\ rounds[i].state = "waiting"
              => rounds'[i].state # "starting"
        /\ \A i \in DOMAIN rounds' \ DOMAIN rounds : rounds'[i].first # chain.first

EndedChainIsQuiet == [][QuietOnceEnded]_vars

\* Every chain ends with a reason, whatever was cancelled, forgotten or restarted.
Settled == chain.ended /\ starts = {}

ChainEnds == []<>Settled

=============================================================================
