---------------------------- MODULE ChainPairing ----------------------------
(***************************************************************************)
(* Who takes the steps of one task, and what the timeline says of them         *)
(* (services/taskChain.ts preflight, writerCli, stepView; routes/launch.ts     *)
(* previousWriter): a role chain runs its writers on one CLI and its reviewer  *)
(* on another; steps run on their own come in between chains. TaskChain has    *)
(* the chain's control; here one step runs at a time, and its launch and its   *)
(* verification go from the disk some launches later.                          *)
(***************************************************************************)
EXTENDS Integers, Sequences, FiniteSets, SequencesExt, FiniteSetsExt

CONSTANTS
    Writers,         \* the roles the writer's CLI runs
    CLIs,
    Cap,             \* steps of one chain
    MaxLaunches,
    ReviewsFollow    \* whether a reviewer may be the first to run after another reviewer

VARIABLES
    launches,    \* the task's launches: [role, cli, state]
    chain,       \* the newest chain: pairing, steps [role, cli, item, launch, outcome], ended
    pruned       \* launches whose records are gone

vars == <<launches, chain, pruned>>

Roles == Writers \cup {"reviewer", "free-roam"}
Pairings == {p \in [writer : CLIs, reviewer : CLIs] : p.writer # p.reviewer}
NoChain == [pairing |-> CHOOSE p \in Pairings : TRUE, steps |-> <<>>, ended |-> TRUE]
Step(role, cli) == [role |-> role, cli |-> cli, item |-> "waiting", launch |-> 0, outcome |-> "none"]
Result(l) == IF l \in pruned \/ l = 0 THEN "gone" ELSE launches[l].state

TypeOK ==
    /\ \A l \in DOMAIN launches : launches[l].cli \in CLIs
    /\ Len(chain.steps) <= Cap /\ pruned \subseteq DOMAIN launches

Init == launches = <<>> /\ chain = NoChain /\ pruned = {}

InFlight == \E l \in DOMAIN launches : launches[l].state \in {"running", "verifying"}

cliFor(role, pairing) == IF role = "reviewer" THEN pairing.reviewer ELSE pairing.writer

\* previousWriter: the newest launch, when it was a writer's.
PreviousWriter == IF launches # <<>> /\ Last(launches).role \in Writers THEN Last(launches).cli ELSE "none"

\* writerCli: whose work a reviewer would look at.
WriterCli(steps) ==
    LET written == {n \in DOMAIN steps : steps[n].role # "reviewer"}
    IN  IF written = {} THEN PreviousWriter ELSE steps[Max(written)].cli

\* preflight: the first thing in the way of an unattended step, or none.
Preflight(role, pairing, writer, hold, authorized, usable) ==
    CASE hold -> "blocked"
      [] role = "free-roam" -> "escalated"
      [] role = "reviewer" /\ writer = cliFor(role, pairing) -> "pairing"
      [] ~authorized -> "authorization"
      [] ~usable -> "cli"
      [] OTHER -> "none"

\* What an operator starts: reviewing again, with other CLIs, is left out unless ReviewsFollow.
MayBeFirst(role) ==
    (role = "reviewer" /\ launches # <<>> /\ ~ReviewsFollow) => Last(launches).role \in Writers

\* POST run: a step on its own, on the CLI the operator chose.
RunsAlone(role, cli) ==
    /\ chain.ended /\ ~InFlight /\ Len(launches) < MaxLaunches
    /\ MayBeFirst(role)
    /\ launches' = Append(launches, [role |-> role, cli |-> cli, state |-> "running"])
    /\ UNCHANGED <<chain, pruned>>

\* start: refused when the preflight finds anything.
StartsChain(role, pairing) ==
    /\ chain.ended /\ ~InFlight /\ Len(launches) < MaxLaunches
    /\ MayBeFirst(role)
    /\ \E hold, authorized, usable \in BOOLEAN :
          Preflight(role, pairing, WriterCli(<<>>), hold, authorized, usable) = "none"
    /\ chain' = [pairing |-> pairing, steps |-> <<Step(role, cliFor(role, pairing))>>, ended |-> FALSE]
    /\ UNCHANGED <<launches, pruned>>

\* The queue starts the chain's step.
StepStarts ==
    /\ ~chain.ended /\ Last(chain.steps).item = "waiting" /\ Len(launches) < MaxLaunches
    /\ LET n == Len(chain.steps) s == chain.steps[n]
       IN  /\ launches' = Append(launches, [role |-> s.role, cli |-> s.cli, state |-> "running"])
           /\ chain' = [chain EXCEPT !.steps[n].item = "started", !.steps[n].launch = Len(launches) + 1]
    /\ UNCHANGED pruned

\* Or cannot: the chain ends.
StepCannotStart ==
    /\ ~chain.ended /\ Last(chain.steps).item = "waiting"
    /\ chain' = [chain EXCEPT !.steps[Len(chain.steps)].item = "failed", !.ended = TRUE]
    /\ UNCHANGED <<launches, pruned>>

\* A launch ends, is verified, and was good or bad, or had been stopped.
LaunchEnds == \E l \in DOMAIN launches, stopped \in BOOLEAN :
    /\ launches[l].state = "running"
    /\ launches' = [launches EXCEPT ![l].state = IF stopped THEN "stopped" ELSE "verifying"]
    /\ UNCHANGED <<chain, pruned>>
Verifies == \E l \in DOMAIN launches, how \in {"good", "bad"} :
    /\ launches[l].state = "verifying"
    /\ launches' = [launches EXCEPT ![l].state = how]
    /\ UNCHANGED <<chain, pruned>>

\* advance: the outcome is put down, then the role decide-next-step.rb names is queued, or the chain ends.
Judges(next) ==
    /\ ~chain.ended
    /\ LET n == Len(chain.steps)
           result == Result(chain.steps[n].launch)
           judged == [chain EXCEPT !.steps[n].outcome = result]
       IN  /\ result \in {"good", "bad", "stopped"}
           /\ \E hold, authorized, usable \in BOOLEAN :
                 chain' = IF result = "good" /\ next # "done" /\ n < Cap
                             /\ Preflight(next, chain.pairing, WriterCli(chain.steps), hold, authorized, usable) = "none"
                          THEN [judged EXCEPT !.steps = Append(@, Step(next, cliFor(next, chain.pairing)))]
                          ELSE [judged EXCEPT !.ended = TRUE]
    /\ UNCHANGED <<launches, pruned>>

\* stop: the chain is over at once; its step is cancelled, or stopped, or being verified.
Stops ==
    /\ ~chain.ended
    /\ LET n == Len(chain.steps)
       IN  /\ chain' = [chain EXCEPT !.ended = TRUE, !.steps[n].item = IF @ = "waiting" THEN "cancelled" ELSE @]
           /\ launches' = [l \in DOMAIN launches |->
                 IF l = chain.steps[n].launch /\ launches[l].state = "running"
                 THEN [launches[l] EXCEPT !.state = "stopped"] ELSE launches[l]]
    /\ UNCHANGED pruned

\* OfficeLauncher.prune: the oldest records go.
Prunes(l) ==
    /\ l \notin pruned /\ \A older \in 1..(l - 1) : older \in pruned
    /\ launches[l].state \notin {"running", "verifying"}
    /\ chain.ended \/ (Len(chain.steps) > 0 /\ l < Last(chain.steps).launch)
    /\ pruned' = pruned \cup {l}
    /\ UNCHANGED <<launches, chain>>

Next ==
    \/ StepStarts \/ StepCannotStart \/ LaunchEnds \/ Verifies \/ Stops
    \/ \E role \in Roles, cli \in CLIs : RunsAlone(role, cli)
    \/ \E role \in Roles, pairing \in Pairings : StartsChain(role, pairing)
    \/ \E next \in Roles \cup {"done"} : Judges(next)
    \/ \E l \in DOMAIN launches : Prunes(l)

Spec == Init /\ [][Next]_vars

\* stepView: what the timeline says of a step.
StepStatus(s) ==
    CASE s.item = "waiting" -> "queued"
      [] s.item \in {"failed", "cancelled"} -> "not started"
      [] Result(s.launch) = "running" -> "running"
      [] Result(s.launch) = "gone" ->
            (CASE s.outcome = "good" -> "verified" [] OTHER -> "failed")
      [] Result(s.launch) = "verifying" -> "verifying"
      [] Result(s.launch) = "good" -> "verified"
      [] Result(s.launch) = "stopped" -> "stopped"
      [] OTHER -> "failed"

-----------------------------------------------------------------------------
(* Properties. *)

\* A reviewer of a chain never runs on the CLI whose work it looks at: that of the task's last
\* writer before it, in the chain or before the chain.
ReviewedByAnother ==
    \A n \in DOMAIN chain.steps :
        LET s == chain.steps[n]
            before == {l \in 1..(s.launch - 1) : launches[l].role \in Writers}
        IN  (s.role = "reviewer" /\ s.launch # 0 /\ before # {}) => launches[Max(before)].cli # s.cli

\* What a chain went on from is verified in its timeline, and stays so when the records of the
\* launch are gone.
TimelineHolds == \A n \in 1..(Len(chain.steps) - 1) : StepStatus(chain.steps[n]) = "verified"
=============================================================================
