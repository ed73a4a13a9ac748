--------------------------- MODULE FencedRegister ---------------------------
(***************************************************************************)
(* What the ownership register of runs/<task>/ownership.yaml promises, with *)
(* every lease, clock, lock and process taken away: each grant of a task    *)
(* hands out a fresh token, and the task's status is only ever written      *)
(* under the newest one.  TaskOwnership implements this module.             *)
(***************************************************************************)
EXTENDS Naturals

CONSTANTS
    Tasks,      \* the governed tasks, one register each
    Runs,       \* the dispatches, one run_id each
    NoRun,      \* "nobody"
    TaskOf      \* [Runs -> Tasks], the task each run is dispatched for

VARIABLES
    token,      \* token[t]: how often t has been granted, the newest token
    owner,      \* owner[t]: the run of the newest grant, NoRun once it ended
    held,       \* held[r]: the token r presents, 0 when it has none
    wrote       \* wrote[t]: the token t's status was last written under

vars == <<token, owner, held, wrote>>

Init ==
    /\ token = [t \in Tasks |-> 0]
    /\ owner = [t \in Tasks |-> NoRun]
    /\ held = [r \in Runs |-> 0]
    /\ wrote = [t \in Tasks |-> 0]

\* Whoever owned the task before is displaced.  The new owner may never learn
\* its token: it can die between the grant and reading the answer.
Grant(r) ==
    LET fresh == token[TaskOf[r]] + 1 IN
    /\ held[r] = 0
    /\ token' = [token EXCEPT ![TaskOf[r]] = fresh]
    /\ owner' = [owner EXCEPT ![TaskOf[r]] = r]
    /\ held' \in {held, [held EXCEPT ![r] = fresh]}
    /\ UNCHANGED wrote

\* A run that gives its token back owns nothing any more.
Retire(r) ==
    /\ held' = [held EXCEPT ![r] = 0]
    /\ owner' = [owner EXCEPT ![TaskOf[r]] = IF @ = r THEN NoRun ELSE @]
    /\ UNCHANGED <<token, wrote>>

\* An operator ends somebody else's ownership; the token stays spent.
Evict(t) ==
    /\ owner' = [owner EXCEPT ![t] = NoRun]
    /\ UNCHANGED <<token, held, wrote>>

\* The owner, or the last owner while nobody followed it, writes the status.
OwnerWrite(r) ==
    LET t == TaskOf[r] IN
    /\ held[r] # 0
    /\ held[r] = token[t]
    /\ owner[t] \in {r, NoRun}
    /\ wrote' = [wrote EXCEPT ![t] = held[r]]
    /\ UNCHANGED <<token, owner, held>>

\* A writer that is no dispatch writes on behalf of the newest grant.
OverseerWrite(t) ==
    /\ wrote' = [wrote EXCEPT ![t] = token[t]]
    /\ UNCHANGED <<token, owner, held>>

Next ==
    \/ \E r \in Runs : Grant(r) \/ Retire(r) \/ OwnerWrite(r)
    \/ \E t \in Tasks : Evict(t) \/ OverseerWrite(t)

Spec == Init /\ [][Next]_vars
=============================================================================
