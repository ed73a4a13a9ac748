--------------------------- MODULE CompletionGates ---------------------------
(***************************************************************************)
(* The completion gates of one task with the ledger of authorizations:        *)
(* scripts/update-completion-gate.rb, revise-task-plan.rb, the gate plan of a  *)
(* PM output in sync-status-from-output.rb, record-authorization.rb, and what  *)
(* completion-guard.rb makes of them for the writers of phase `done`.  Every   *)
(* writer holds the task's lock, so each is one step; a refused or unreadable  *)
(* one changes nothing.  The clock of a writer is any time: it may step back.  *)
(***************************************************************************)
EXTENDS Integers, Sequences

CONSTANTS
    Gates,          \* names of gates
    Acts,           \* AuthorizationLedger::ACTIONS
    Times,          \* times a writer's clock may show (positive)
    Replans,        \* whether a PM run may be forced on a finished task (AI_DEV_OFFICE_FORCE)
    MaxEntries      \* bound: entries of the ledger

VARIABLES
    phase,          \* phase of status.yaml: done, aborted, or open for any other
    gates,          \* completion_gates of status.yaml
    ledger          \* authorization.yaml; the id of an entry is its place

vars == <<phase, gates, ledger>>

Finished == phase \in {"done", "aborted"}

\* through and at are authorization_through and updated_at of a pass with refs, else 0.
Gate == [status : {"absent", "pending", "pass", "na"}, requires : Acts \cup {"none"},
         after : SUBSET Gates, record : BOOLEAN, ran : BOOLEAN,
         refs : SUBSET Nat, through : Nat, at : Times \cup {0}]

\* A new gate; Absent stands for no record.
Pending(requires, after, record) ==
    [status |-> "pending", requires |-> requires, after |-> after, record |-> record,
     ran |-> FALSE, refs |-> {}, through |-> 0, at |-> 0]

Absent == [Pending("none", {}, FALSE) EXCEPT !.status = "absent"]

\* until is expires_at, 0 for a grant without one; of is the entry a revoke revokes.
Entry == [type : {"grant", "revoke"}, action : Acts \cup {"none"}, at : Times \cup {0},
          until : Times \cup {0}, of : Nat]

TypeOK ==
    /\ phase \in {"open", "done", "aborted"}
    /\ gates \in [Gates -> Gate]
    /\ ledger \in Seq(Entry)

Init == phase = "open" /\ gates = [g \in Gates |-> Absent] /\ ledger = <<>>

-----------------------------------------------------------------------------
(* The guard *)

Declared == {g \in Gates : gates[g].status # "absent"}

\* Slip: revoked or not is asked of the clock, not of the order of entries.
ValidByClock(id, action, time, through) ==
    /\ id \in DOMAIN ledger /\ id <= through
    /\ ledger[id].type = "grant" /\ ledger[id].action = action
    /\ ledger[id].at <= time /\ (ledger[id].until = 0 \/ time < ledger[id].until)
    /\ ~\E r \in DOMAIN ledger :
            ledger[r].type = "revoke" /\ ledger[r].of = id /\ ledger[r].at <= time

\* valid_grant? of grant id for an action, as of a time and a place in the ledger.
ValidGrant(id, action, time, through) ==
    /\ id \in DOMAIN ledger /\ id <= through
    /\ ledger[id].type = "grant" /\ ledger[id].action = action
    /\ ledger[id].at <= time /\ (ledger[id].until = 0 \/ time < ledger[id].until)
    /\ ~\E r \in DOMAIN ledger : r <= through /\ ledger[r].type = "revoke" /\ ledger[r].of = id

Satisfied(g) ==
    IF gates[g].status = "na" THEN gates[g].refs = {}
    ELSE /\ gates[g].refs # {} /\ gates[g].through \in DOMAIN ledger
         /\ \A id \in gates[g].refs :
                ValidGrant(id, gates[g].requires, gates[g].at, gates[g].through)

Resolved(g) ==
    /\ gates[g].status \in {"pass", "na"}
    /\ gates[g].status = "pass" /\ gates[g].record => gates[g].ran
    /\ gates[g].requires # "none" => Satisfied(g)

Unresolved == {g \in Declared : ~Resolved(g)}

\* can_transition_to_done
MayFinish == Unresolved = {}

\* gate_reaches?: every set of gates closed under `after` that has one has the other.
Reaches(from, to) ==
    \A S \in SUBSET Gates :
        from \in S /\ (\A g \in S : gates[g].after \subseteq S) => to \in S

Acyclic(gs) ==
    \A S \in (SUBSET Gates) \ {{}} : \E g \in S : gs[g].after \cap S = {}

-----------------------------------------------------------------------------
(* update-completion-gate.rb *)

Declare(g, requires, after, record) ==
    /\ ~Finished /\ g \notin Declared
    /\ after \subseteq Declared
    /\ gates' = [gates EXCEPT ![g] = Pending(requires, after, record)]
    /\ UNCHANGED <<phase, ledger>>

\* The record is built anew and carries requires, after and record on.
Settle(gate, status, ran, refs, through, at) ==
    [status |-> status, requires |-> gate.requires, after |-> gate.after,
     record |-> gate.record, ran |-> ran, refs |-> refs, through |-> through, at |-> at]

\* pass, also of a gate that has been settled before.
Pass(g, refs, ran, time) ==
    /\ ~Finished /\ g \in Declared
    /\ gates[g].record => ran
    /\ gates[g].after \cap Unresolved = {}
    /\ IF gates[g].requires = "none" THEN refs = {} /\ time = 0
       ELSE /\ refs # {} /\ time # 0
            /\ \A id \in refs : ValidGrant(id, gates[g].requires, time, Len(ledger))
    /\ gates' = [gates EXCEPT ![g] =
          Settle(@, "pass", ran, refs, IF refs = {} THEN 0 ELSE Len(ledger), time)]
    /\ UNCHANGED <<phase, ledger>>

\* na: not a waiver, but it waits on no other gate.
NotApplicable(g) ==
    /\ ~Finished /\ g \in Declared
    /\ gates' = [gates EXCEPT ![g] = Settle(@, "na", FALSE, {}, 0, 0)]
    /\ UNCHANGED <<phase, ledger>>

Depend(g, added) ==
    /\ ~Finished /\ gates[g].status = "pending"
    /\ added \subseteq Declared /\ added \cap gates[g].after = {} /\ g \notin added
    /\ \A d \in added : ~Reaches(d, g)
    /\ gates' = [gates EXCEPT ![g].after = @ \cup added]
    /\ UNCHANGED <<phase, ledger>>

RequireRecord(g) ==
    /\ ~Finished /\ gates[g].status = "pending" /\ ~gates[g].record
    /\ gates' = [gates EXCEPT ![g].record = TRUE]
    /\ UNCHANGED <<phase, ledger>>

-----------------------------------------------------------------------------
(* Plans: a revision declares gates; a PM output lists them, add-only *)

\* revise-task-plan.rb; requires gives each new gate its action, or none.
Revise(new, requires) ==
    /\ ~Finished /\ new # {} /\ new \cap Declared = {}
    /\ gates' = [g \in Gates |-> IF g \in new THEN Pending(requires[g], {}, FALSE) ELSE gates[g]]
    /\ UNCHANGED <<phase, ledger>>

PlanItem == [requires : Acts \cup {"none"}, after : SUBSET Gates, record : BOOLEAN]

Same(g, item) == gates[g].after = item.after /\ gates[g].record = item.record

\* What an item may say of a gate that is already declared.
Agrees(g, item) ==
    /\ gates[g].requires = item.requires
    /\ gates[g].after \subseteq item.after /\ (gates[g].record => item.record)
    /\ Same(g, item) \/ gates[g].status = "pending"

\* reconcile_gate_plan of a plan that lists some gates.
Reconciled(plan) ==
    [g \in Gates |->
        IF g \notin DOMAIN plan THEN gates[g]
        ELSE IF g \in Declared
             THEN [gates[g] EXCEPT !.after = plan[g].after, !.record = plan[g].record]
             ELSE Pending(plan[g].requires, plan[g].after, plan[g].record)]

\* The phase a PM output gives: any other agent than dev or free-roam keeps it.
AfterPm == {phase, "open"}

PlanGates(plan, to) ==
    /\ ~Finished \/ Replans
    /\ to \in AfterPm /\ (to = "done" => MayFinish)
    /\ \A g \in DOMAIN plan : g \notin plan[g].after
    /\ \A g \in DOMAIN plan \cap Declared : Agrees(g, plan[g])
    /\ \A g \in DOMAIN plan : plan[g].after \subseteq Declared \cup DOMAIN plan
    /\ Acyclic(Reconciled(plan))
    /\ gates' = Reconciled(plan)
    /\ phase' = to
    /\ UNCHANGED ledger

-----------------------------------------------------------------------------
(* record-authorization.rb *)

Grant(action, time, until) ==
    /\ ~Finished /\ Len(ledger) < MaxEntries
    /\ until # 0 => time < until
    /\ ledger' = Append(ledger, [type |-> "grant", action |-> action, at |-> time,
                                 until |-> until, of |-> 0])
    /\ UNCHANGED <<phase, gates>>

\* A revoke is taken of a finished task as well.
Revoke(id, time) ==
    /\ Len(ledger) < MaxEntries
    /\ ledger[id].type = "grant"
    /\ ~\E r \in DOMAIN ledger : ledger[r].type = "revoke" /\ ledger[r].of = id
    /\ ledger' = Append(ledger, [type |-> "revoke", action |-> "none", at |-> time,
                                 until |-> 0, of |-> id])
    /\ UNCHANGED <<phase, gates>>

-----------------------------------------------------------------------------
(* The phase: role outputs, decisions and forced routes *)

Finish ==
    /\ MayFinish
    /\ phase' = "done"
    /\ UNCHANGED <<gates, ledger>>

Abort ==
    /\ phase' = "aborted"
    /\ UNCHANGED <<gates, ledger>>

\* A decision or a forced run takes a finished task up again.
Reopen ==
    /\ Finished
    /\ phase' = "open"
    /\ UNCHANGED <<gates, ledger>>

Next ==
    \/ \E g \in Gates :
          \/ \E requires \in Acts \cup {"none"}, after \in SUBSET Gates, record \in BOOLEAN :
                Declare(g, requires, after, record)
          \/ \E refs \in SUBSET DOMAIN ledger, ran \in BOOLEAN, time \in Times \cup {0} :
                Pass(g, refs, ran, time)
          \/ NotApplicable(g) \/ RequireRecord(g)
          \/ \E added \in (SUBSET Gates) \ {{}} : Depend(g, added)
    \/ \E new \in SUBSET Gates : \E requires \in [new -> Acts \cup {"none"}] : Revise(new, requires)
    \/ \E listed \in SUBSET Gates : \E plan \in [listed -> PlanItem], to \in AfterPm :
          PlanGates(plan, to)
    \/ \E action \in Acts, time \in Times, until \in Times \cup {0} : Grant(action, time, until)
    \/ \E id \in DOMAIN ledger, time \in Times : Revoke(id, time)
    \/ Finish \/ Abort \/ Reopen

Spec == Init /\ [][Next]_vars

-----------------------------------------------------------------------------

\* completion-guard.rb 26-27, 87-99: a task that is done has every gate it declares resolved,
\* also after grants were revoked, gates passed anew, and the task aborted or taken up again.
DoneIsEarned == phase = "done" => Unresolved = {}

\* update-completion-gate.rb 19-22: a gate that is passed was passed after the gates it
\* waits on, and those still count as resolved.
PassedInOrder ==
    \A g \in Gates : gates[g].status = "pass" => gates[g].after \cap Unresolved = {}

\* authorization-ledger.rb 7-15: what is resolved stays resolved; no later revoke, whatever
\* its clock showed, takes a pass back.
ResolvedStay == \A g \in Declared : Resolved(g) => Resolved(g)'
ResolvedStays == [][ResolvedStay]_vars

\* completion-guard.rb 272-300: gates never wait on one another in a circle, so while any
\* is unresolved there is one that waits on none of them.
SomeGateIsNext ==
    Unresolved # {} => \E g \in Unresolved : gates[g].after \cap Unresolved = {}
=============================================================================
