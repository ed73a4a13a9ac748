----------------------------- MODULE MCProgress -----------------------------
(***************************************************************************)
(* What must eventually happen to queued items and to leases: a behaviour is *)
(* one of the Run queue, or one of the ownership register, whose variables    *)
(* have their own names here.                                                *)
(***************************************************************************)
EXTENDS RunQueue

VARIABLES part, epoch, holder, lease, history, status, driver, credential, writes, renewer, wake, op, lag

\* Two dispatches of one task, with renewals that may be late.
Runs == {"r1", "r2"}

Own == INSTANCE TaskOwnership WITH
    Tasks <- {"t"}, Checkouts <- {}, NoRun <- "none", NoCheckout <- "none",
    TaskOf <- [r \in Runs |-> "t"], CheckoutOf <- [r \in Runs |-> "none"],
    SharedMode <- {}, WorktreeExclusive <- FALSE,
    Lease <- 2, FenceLease <- 2, RenewInterval <- 1, Punctual <- FALSE, MaxLag <- 1, MaxWrites <- 1

register == <<epoch, holder, lease, history, status, driver, credential, writes, renewer, wake, op, lag>>
both == <<part, vars, register>>

QueueStep == part = "queue" /\ NextBeside /\ UNCHANGED <<part, register>>
OwnershipStep == part = "ownership" /\ Own!Next /\ UNCHANGED <<part, vars>>

-----------------------------------------------------------------------------

\* Fairness of RunQueue and of TaskOwnership, action by action.  A behaviour stays in its part,
\* so an action of each can share a condition: it is that of the part the behaviour is in.
OfQueue(A) == part = "queue" /\ A /\ UNCHANGED <<part, register>>
OfRun(A(_), r) == part = "ownership" /\ A(r) /\ UNCHANGED <<part, vars>>

Answers(r) == Own!Grant(r) \/ Own!Refuse(r)
Finishes(r) == Own!Renew(r) \/ Own!Release(r)
Renewer(r) == Own!RenewerWakes(r) \/ Own!RenewerQuits(r)

ProgressFairness ==
    /\ WF_both(OfQueue(TickBegins) \/ OfRun(Answers, "r1"))
    /\ WF_both(OfQueue(TickEnds \/ \E i \in Ids : Pick(i)) \/ OfRun(Finishes, "r1"))
    /\ WF_both(OfQueue(StartStep) \/ OfRun(Renewer, "r1"))
    /\ WF_both(OfQueue(LaunchEnds(1)) \/ OfRun(Answers, "r2"))
    /\ WF_both(OfQueue(LaunchEnds(2)) \/ OfRun(Finishes, "r2"))
    /\ WF_both(OfQueue(Verify(1)) \/ OfRun(Renewer, "r2"))
    /\ WF_both(OfQueue(Verify(2)) \/ (part = "ownership" /\ Own!Tick /\ UNCHANGED <<part, vars>>))
    /\ WF_both(OfQueue(TimePasses(1)))
    /\ WF_both(OfQueue(TimePasses(2)))

ProgressInit == part \in {"queue", "ownership"} /\ Init /\ Own!Init
ProgressNext == QueueStep \/ OwnershipStep
ProgressSpec == ProgressInit /\ [][ProgressNext]_both /\ ProgressFairness

-----------------------------------------------------------------------------

\* Ownership register: after kill -9 of its driver a run's lease lapses and stays lapsed
\* (docs/task-ownership.md 362, run-agent.sh 951-995).
KilledHolderLapses == <>[](part = "ownership" => Own!KilledHaveLapsed)
=============================================================================
