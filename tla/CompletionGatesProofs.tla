------------------------ MODULE CompletionGatesProofs ------------------------
(***************************************************************************)
(* For any gates, actions, times and bound: what is resolved stays resolved,  *)
(* a passed gate was passed in order, some unresolved gate is always next,     *)
(* and, unless a PM run is forced on a finished task, done is earned.          *)
(* The inductive invariant is GatesInv: the status of a gate alone tells       *)
(* whether it is resolved (Settled), which is what makes a pass final, and     *)
(* `after` names declared gates only and has no circle.                        *)
(* Behind it, the inbox that shows the grants of many tasks (Authorizations):  *)
(* its invariant InboxInv follows what was read from the ledger to the screen. *)
(* Then the operator's answers to knowledge findings (KnowledgeFindings), and   *)
(* last what the reports say of any set of runs: how far tasks and the trains   *)
(* that carry them are proven by their gates (ReleaseLadder), and how fast work  *)
(* closes (FlowInsights).                                                      *)
(***************************************************************************)
EXTENDS CompletionGates, FiniteSetTheorems, SequenceTheorems,
        WellFoundedInduction, TLAPS

Settling == {"pass", "na"}

Settled == \A g \in Gates : gates[g].status \in Settling => Resolved(g)

Known == \A g \in Gates : gates[g].after \subseteq Declared

Ordered ==
    \A g \in Gates : gates[g].status = "pass" =>
        \A d \in gates[g].after : gates[d].status \in Settling

GatesInv == TypeOK /\ Settled /\ Known /\ Acyclic(gates) /\ Ordered

\* With Settled this is DoneIsEarned.
DoneSettled == phase = "done" => \A g \in Gates : gates[g].status # "pending"

-----------------------------------------------------------------------------
(* Records *)

\* A new gate has the type of a gate.
LEMMA PendingType ==
    ASSUME NEW requires \in Acts \cup {"none"}, NEW after \in SUBSET Gates, NEW record \in BOOLEAN
    PROVE  Pending(requires, after, record) \in Gate
BY DEF Pending, Gate

\* The absent gate has the type of a gate.
LEMMA AbsentType == Absent \in Gate
BY DEF Absent, Pending, Gate

\* Entries of record-authorization.rb have the type of an entry.
LEMMA AppendType ==
    ASSUME TypeOK, NEW e \in Entry, ledger' = Append(ledger, e)
    PROVE  ledger' \in Seq(Entry)
BY AppendProperties DEF TypeOK

-----------------------------------------------------------------------------
(* Resolution *)

\* A gate whose record and ledger stay as they are is resolved as before.
LEMMA SameGate ==
    ASSUME NEW g \in Gates, gates'[g] = gates[g], ledger' = ledger, Resolved(g)
    PROVE  Resolved(g)'
BY DEF Resolved, Satisfied, ValidGrant

\* An entry appended to the ledger changes no judgement as of an earlier entry.
LEMMA AppendKeepsGrant ==
    ASSUME TypeOK, NEW e \in Entry, ledger' = Append(ledger, e),
           NEW id, NEW action, NEW time, NEW through \in DOMAIN ledger,
           ValidGrant(id, action, time, through)
    PROVE  ValidGrant(id, action, time, through)' /\ through \in DOMAIN ledger'
<1>1. /\ ledger' \in Seq(Entry) /\ Len(ledger') = Len(ledger) + 1
      /\ \A i \in 1..Len(ledger) : ledger'[i] = ledger[i]
      BY AppendProperties DEF TypeOK
<1>2. Len(ledger) \in Nat /\ DOMAIN ledger = 1..Len(ledger) /\ DOMAIN ledger' = 1..(Len(ledger) + 1)
      BY <1>1, LenProperties DEF TypeOK
<1>3. \A r \in DOMAIN ledger' : r <= through => r \in DOMAIN ledger
      BY <1>2
<1> QED BY <1>1, <1>2, <1>3 DEF ValidGrant

\* An entry appended to the ledger leaves every resolved gate resolved.
LEMMA AppendKeepsGate ==
    ASSUME TypeOK, NEW e \in Entry, ledger' = Append(ledger, e), gates' = gates,
           NEW g \in Gates, Resolved(g)
    PROVE  Resolved(g)'
<1>1. CASE gates[g].requires = "none" \/ gates[g].status = "na"
      BY <1>1 DEF Resolved, Satisfied
<1>2. CASE gates[g].requires # "none" /\ gates[g].status # "na"
  <2>1. Satisfied(g) BY <1>2 DEF Resolved
  <2>2. /\ gates[g].refs # {} /\ gates[g].through \in DOMAIN ledger
        /\ \A id \in gates[g].refs :
                ValidGrant(id, gates[g].requires, gates[g].at, gates[g].through)
        BY <1>2, <2>1 DEF Satisfied
  <2>3. gates[g].through \in DOMAIN ledger'
        BY <2>2, AppendKeepsGrant
  <2>4. \A id \in gates[g].refs :
            ValidGrant(id, gates[g].requires, gates[g].at, gates[g].through)'
    <3> SUFFICES ASSUME NEW id \in gates[g].refs
                 PROVE ValidGrant(id, gates[g].requires, gates[g].at, gates[g].through)'
        OBVIOUS
    <3> DEFINE action == gates[g].requires
               time == gates[g].at
               through == gates[g].through
    <3>1. ValidGrant(id, action, time, through) /\ through \in DOMAIN ledger
          BY <2>2
    <3> HIDE DEF action, time, through
    <3>2. /\ id \in DOMAIN ledger' /\ id <= through
          /\ ledger'[id].type = "grant" /\ ledger'[id].action = action
          /\ ledger'[id].at <= time /\ (ledger'[id].until = 0 \/ time < ledger'[id].until)
          /\ ~\E r \in DOMAIN ledger' :
                  r <= through /\ ledger'[r].type = "revoke" /\ ledger'[r].of = id
          BY <3>1, AppendKeepsGrant DEF ValidGrant
    <3> QED BY <3>2 DEF ValidGrant, action, time, through
  <2> QED BY <1>2, <2>2, <2>3, <2>4 DEF Resolved, Satisfied
<1> QED BY <1>1, <1>2

-----------------------------------------------------------------------------
(* Orderings *)

\* Steps that leave every ordering as it is leave it without a circle.
LEMMA SameOrdering ==
    ASSUME Acyclic(gates), \A g \in Gates : gates'[g].after = gates[g].after
    PROVE  Acyclic(gates)'
BY DEF Acyclic

\* A new gate that waits on declared gates only closes no circle.
LEMMA NewGateOrdering ==
    ASSUME Known, Acyclic(gates), NEW g \in Gates, g \notin Declared,
           \A h \in Gates \ {g} : gates'[h].after = gates[h].after,
           gates'[g].after \subseteq Declared
    PROVE  Acyclic(gates)'
<1> SUFFICES ASSUME NEW S \in (SUBSET Gates) \ {{}}
             PROVE  \E h \in S : gates'[h].after \cap S = {}
    BY DEF Acyclic
<1>1. CASE S \subseteq {g}
      BY <1>1
<1>2. CASE ~(S \subseteq {g})
  <2>1. S \ {g} \in (SUBSET Gates) \ {{}} BY <1>2
  <2>2. PICK h \in S \ {g} : gates[h].after \cap (S \ {g}) = {}
        BY <2>1 DEF Acyclic
  <2>3. g \notin gates[h].after BY <2>2 DEF Known
  <2> QED BY <2>2, <2>3
<1> QED BY <1>1, <1>2

\* depend: an edge to a gate that does not reach back closes no circle.
LEMMA DependOrdering ==
    ASSUME Acyclic(gates), NEW g \in Gates, NEW added \in SUBSET Gates,
           \A d \in added : ~Reaches(d, g),
           \A h \in Gates \ {g} : gates'[h].after = gates[h].after,
           gates'[g].after = gates[g].after \cup added
    PROVE  Acyclic(gates)'
<1> SUFFICES ASSUME NEW S \in (SUBSET Gates) \ {{}}
             PROVE  \E h \in S : gates'[h].after \cap S = {}
    BY DEF Acyclic
<1> DEFINE Closed(T) == \A h \in T : gates[h].after \subseteq T
           U == {x \in Gates : \E T \in SUBSET Gates : Closed(T) /\ g \notin T /\ x \in T}
<1>1. added \subseteq U /\ g \notin U
      BY DEF Reaches
<1>2. \A h \in U : gates[h].after \subseteq U
  <2> SUFFICES ASSUME NEW h \in U PROVE gates[h].after \subseteq U
      OBVIOUS
  <2>1. PICK T \in SUBSET Gates : Closed(T) /\ g \notin T /\ h \in T
        OBVIOUS
  <2>2. gates[h].after \subseteq T BY <2>1
  <2> QED BY <2>1, <2>2
<1> HIDE DEF U
<1>3. CASE S \cap U # {}
  <2>1. S \cap U \in (SUBSET Gates) \ {{}} BY <1>3
  <2>2. PICK h \in S \cap U : gates[h].after \cap (S \cap U) = {}
        BY <2>1 DEF Acyclic
  <2>3. h # g /\ gates[h].after \subseteq U BY <1>1, <1>2
  <2> QED BY <2>2, <2>3
<1>4. CASE S \cap U = {}
  <2>1. PICK h \in S : gates[h].after \cap S = {}
        BY DEF Acyclic
  <2>2. added \cap S = {} BY <1>1, <1>4
  <2> QED BY <2>1, <2>2
<1> QED BY <1>3, <1>4

-----------------------------------------------------------------------------
(* One lemma for each action that writes a gate *)

\* declare
LEMMA DeclareInv ==
    ASSUME GatesInv, NEW g \in Gates, NEW requires \in Acts \cup {"none"},
           NEW after \in SUBSET Gates, NEW record \in BOOLEAN,
           Declare(g, requires, after, record)
    PROVE  GatesInv'
<1> USE DEF GatesInv
<1>1. /\ g \notin Declared /\ after \subseteq Declared
      /\ gates' = [gates EXCEPT ![g] = Pending(requires, after, record)]
      /\ phase' = phase /\ ledger' = ledger
      BY DEF Declare
<1>2. TypeOK'
      BY <1>1, PendingType DEF TypeOK
<1>3. /\ \A h \in Gates \ {g} : gates'[h] = gates[h]
      /\ gates'[g] = Pending(requires, after, record)
      BY <1>1 DEF TypeOK
<1>4. gates'[g].status = "pending" /\ gates'[g].after = after
      BY <1>3 DEF Pending
<1>5. Settled'
      BY <1>1, <1>3, <1>4, SameGate DEF Settled, Settling
<1>6. Known'
      BY <1>1, <1>3, <1>4 DEF Known, Declared
<1>7. Acyclic(gates)'
      BY <1>1, <1>3, <1>4, NewGateOrdering
<1>8. Ordered'
      BY <1>1, <1>3, <1>4 DEF Ordered, Known, Declared, Settling
<1> QED BY <1>2, <1>5, <1>6, <1>7, <1>8

\* pass and na: a record of a declared gate, resolved, waiting on what it waited on.
LEMMA SettleInv ==
    ASSUME GatesInv, NEW g \in Declared, NEW new \in Gate,
           gates' = [gates EXCEPT ![g] = new], phase' = phase, ledger' = ledger,
           new.status \in Settling, new.after = gates[g].after, Resolved(g)',
           new.status = "pass" => gates[g].after \cap Unresolved = {}
    PROVE  GatesInv'
<1> USE DEF GatesInv
<1>1. g \in Gates BY DEF Declared
<1>2. /\ \A h \in Gates \ {g} : gates'[h] = gates[h]
      /\ gates'[g] = new
      BY <1>1 DEF TypeOK
<1>3. TypeOK' BY <1>1 DEF TypeOK
<1>4. Settled' BY <1>2, SameGate DEF Settled
<1>5. \A h \in Gates : gates'[h].after = gates[h].after BY <1>2
<1>6. Known' BY <1>2, <1>5 DEF Known, Declared, Settling
<1>7. Acyclic(gates)' BY <1>5, SameOrdering
<1>8. \A h \in Gates : gates[h].status \in Settling => gates'[h].status \in Settling
      BY <1>2
<1>9. Ordered'
  <2> SUFFICES ASSUME NEW h \in Gates, gates'[h].status = "pass", NEW d \in gates'[h].after
               PROVE  gates'[d].status \in Settling
      BY DEF Ordered
  <2>1. d \in gates[h].after /\ d \in Declared /\ d \in Gates
        BY <1>5 DEF Known, Declared
  <2>2. CASE h = g
    <3>1. Resolved(d) BY <1>2, <2>1, <2>2 DEF Unresolved
    <3> QED BY <1>8, <2>1, <3>1 DEF Resolved, Settling
  <2>3. CASE h # g
        BY <1>2, <1>8, <2>1, <2>3 DEF Ordered
  <2> QED BY <2>2, <2>3
<1> QED BY <1>3, <1>4, <1>6, <1>7, <1>9

\* pass
LEMMA PassInv ==
    ASSUME GatesInv, NEW g \in Gates, NEW refs \in SUBSET DOMAIN ledger,
           NEW ran \in BOOLEAN, NEW time \in Times \cup {0}, Pass(g, refs, ran, time)
    PROVE  GatesInv'
<1> DEFINE through == IF refs = {} THEN 0 ELSE Len(ledger)
           new == Settle(gates[g], "pass", ran, refs, through, time)
<1>1. /\ g \in Declared /\ (gates[g].record => ran) /\ gates[g].after \cap Unresolved = {}
      /\ gates[g].requires # "none" => refs # {} /\ \A id \in refs :
             ValidGrant(id, gates[g].requires, time, Len(ledger))
      /\ phase' = phase /\ ledger' = ledger /\ gates' = [gates EXCEPT ![g] = new]
      BY DEF Pass
<1>2. gates[g] \in Gate /\ Len(ledger) \in Nat /\ DOMAIN ledger = 1..Len(ledger)
      BY LenProperties DEF GatesInv, TypeOK
<1>3. /\ new.status = "pass" /\ new.requires = gates[g].requires /\ new.after = gates[g].after
      /\ new.record = gates[g].record /\ new.ran = ran /\ new.refs = refs /\ new.at = time
      /\ new.through = through
      BY DEF Settle
<1>4. through \in Nat /\ refs \in SUBSET Nat
      BY <1>2
<1>5. refs # {} => through = Len(ledger) /\ through \in DOMAIN ledger
      BY <1>2
<1> HIDE DEF through
<1>6. new \in Gate
      BY <1>2, <1>4 DEF Gate, Settle
<1> HIDE DEF new
<1>7. gates'[g] = new
      BY <1>1 DEF GatesInv, TypeOK
<1>8. Resolved(g)'
  <2>1. CASE gates[g].requires = "none"
        BY <1>1, <1>3, <1>7, <2>1 DEF Resolved
  <2>2. CASE gates[g].requires # "none"
    <3>1. \A id \in refs : ValidGrant(id, gates[g].requires, time, through)
          BY <1>1, <1>5, <2>2
    <3>2. \A id \in refs :
            /\ id \in DOMAIN ledger' /\ id <= through
            /\ ledger'[id].type = "grant" /\ ledger'[id].action = gates[g].requires
            /\ ledger'[id].at <= time /\ (ledger'[id].until = 0 \/ time < ledger'[id].until)
            /\ ~\E r \in DOMAIN ledger' :
                    r <= through /\ ledger'[r].type = "revoke" /\ ledger'[r].of = id
          BY <1>1, <3>1 DEF ValidGrant
    <3>3. Satisfied(g)'
          BY <1>1, <1>3, <1>5, <1>7, <2>2, <3>2 DEF Satisfied, ValidGrant
    <3> QED BY <1>1, <1>3, <1>7, <3>3 DEF Resolved
  <2> QED BY <2>1, <2>2
<1> QED BY <1>1, <1>3, <1>6, <1>8, SettleInv DEF Settling

\* na
LEMMA NotApplicableInv ==
    ASSUME GatesInv, NEW g \in Gates, NotApplicable(g)
    PROVE  GatesInv'
<1> DEFINE new == Settle(gates[g], "na", FALSE, {}, 0, 0)
<1>1. /\ g \in Declared /\ phase' = phase /\ ledger' = ledger
      /\ gates' = [gates EXCEPT ![g] = new]
      BY DEF NotApplicable
<1>2. gates[g] \in Gate BY DEF GatesInv, TypeOK
<1>3. new.status = "na" /\ new.refs = {} /\ new.after = gates[g].after
      BY DEF Settle
<1>4. new \in Gate BY <1>2 DEF Gate, Settle
<1> HIDE DEF new
<1>5. gates'[g] = new BY <1>1 DEF GatesInv, TypeOK
<1>6. Resolved(g)' BY <1>3, <1>5 DEF Resolved, Satisfied
<1> QED BY <1>1, <1>3, <1>4, <1>6, SettleInv DEF Settling

\* depend and require-record: a pending gate stays pending and keeps what it requires.
LEMMA AddInv ==
    ASSUME GatesInv, NEW g \in Gates, NEW new \in Gate, gates[g].status = "pending",
           gates' = [gates EXCEPT ![g] = new], phase' = phase, ledger' = ledger,
           new.status = "pending", new.after \subseteq Declared, Acyclic(gates)'
    PROVE  GatesInv'
<1> USE DEF GatesInv
<1>1. /\ \A h \in Gates \ {g} : gates'[h] = gates[h]
      /\ gates'[g] = new
      BY DEF TypeOK
<1>2. TypeOK' BY DEF TypeOK
<1>3. Settled' BY <1>1, SameGate DEF Settled, Settling
<1>4. Known' BY <1>1 DEF Known, Declared
<1>5. \A h \in Gates : gates[h].status \in Settling => gates'[h].status \in Settling
      BY <1>1 DEF Settling
<1>6. Ordered' BY <1>1, <1>5 DEF Ordered, Known, Declared
<1> QED BY <1>2, <1>3, <1>4, <1>6

\* depend
LEMMA DependInv ==
    ASSUME GatesInv, NEW g \in Gates, NEW added \in SUBSET Gates, Depend(g, added)
    PROVE  GatesInv'
<1> DEFINE new == [gates[g] EXCEPT !.after = @ \cup added]
<1>1. /\ gates[g].status = "pending" /\ added \subseteq Declared /\ \A d \in added : ~Reaches(d, g)
      /\ phase' = phase /\ ledger' = ledger /\ gates' = [gates EXCEPT ![g] = new]
      BY DEF Depend
<1>2. gates[g] \in Gate BY DEF GatesInv, TypeOK
<1>3. new \in Gate BY <1>2 DEF Gate
<1>4. new.status = "pending" /\ new.after = gates[g].after \cup added
      BY <1>1, <1>2 DEF Gate
<1> HIDE DEF new
<1>5. /\ \A h \in Gates \ {g} : gates'[h] = gates[h]
      /\ gates'[g] = new
      BY <1>1 DEF GatesInv, TypeOK
<1>6. Acyclic(gates)'
      BY <1>1, <1>4, <1>5, DependOrdering DEF GatesInv
<1>7. new.after \subseteq Declared
      BY <1>1, <1>4 DEF GatesInv, Known
<1> QED BY <1>1, <1>3, <1>4, <1>6, <1>7, AddInv

\* require-record
LEMMA RequireRecordInv ==
    ASSUME GatesInv, NEW g \in Gates, RequireRecord(g)
    PROVE  GatesInv'
<1> DEFINE new == [gates[g] EXCEPT !.record = TRUE]
<1>1. /\ gates[g].status = "pending" /\ phase' = phase /\ ledger' = ledger
      /\ gates' = [gates EXCEPT ![g] = new]
      BY DEF RequireRecord
<1>2. gates[g] \in Gate BY DEF GatesInv, TypeOK
<1>3. new \in Gate BY <1>2 DEF Gate
<1>4. new.status = "pending" /\ new.after = gates[g].after
      BY <1>1, <1>2 DEF Gate
<1> HIDE DEF new
<1>5. \A h \in Gates : gates'[h].after = gates[h].after
      BY <1>1, <1>4 DEF GatesInv, TypeOK
<1>6. Acyclic(gates)' BY <1>5, SameOrdering DEF GatesInv
<1>7. new.after \subseteq Declared BY <1>4 DEF GatesInv, Known
<1> QED BY <1>1, <1>3, <1>4, <1>6, <1>7, AddInv

\* A plan, of a revision or of a PM output: settled gates keep their record, every other
\* gate is absent or pending, and what it waits on is declared then.
LEMMA PlanInv ==
    ASSUME GatesInv, TypeOK', ledger' = ledger, Acyclic(gates)', Known',
           \A g \in Gates : gates[g].status \in Settling => gates'[g] = gates[g],
           \A g \in Gates : gates'[g].status \in Settling => gates[g].status \in Settling
    PROVE  GatesInv'
<1> USE DEF GatesInv
<1>1. Settled' BY SameGate DEF Settled
<1>2. Ordered'
  <2> SUFFICES ASSUME NEW g \in Gates, gates'[g].status = "pass", NEW d \in gates'[g].after
               PROVE  gates'[d].status \in Settling
      BY DEF Ordered
  <2>1. gates[g].status \in Settling /\ gates'[g] = gates[g] BY DEF Settling
  <2>2. gates[d].status \in Settling /\ d \in Gates BY <2>1 DEF Ordered, Known, Declared
  <2> QED BY <2>2
<1> QED BY <1>1, <1>2

\* revise-task-plan.rb
LEMMA ReviseInv ==
    ASSUME GatesInv, NEW new \in SUBSET Gates, NEW requires \in [new -> Acts \cup {"none"}],
           Revise(new, requires)
    PROVE  GatesInv'
<1> USE DEF GatesInv
<1>1. /\ new \cap Declared = {} /\ phase' = phase /\ ledger' = ledger
      /\ gates' = [g \in Gates |-> IF g \in new THEN Pending(requires[g], {}, FALSE) ELSE gates[g]]
      BY DEF Revise
<1>2. /\ \A g \in new : gates'[g] = Pending(requires[g], {}, FALSE)
      /\ \A g \in Gates \ new : gates'[g] = gates[g]
      BY <1>1
<1>3. \A g \in new : gates'[g].status = "pending" /\ gates'[g].after = {} /\ gates'[g] \in Gate
  <2> SUFFICES ASSUME NEW g \in new
               PROVE  gates'[g].status = "pending" /\ gates'[g].after = {} /\ gates'[g] \in Gate
      OBVIOUS
  <2>1. gates'[g] = Pending(requires[g], {}, FALSE) BY <1>2
  <2>2. requires[g] \in Acts \cup {"none"} OBVIOUS
  <2>3. Pending(requires[g], {}, FALSE) \in Gate BY <2>2, PendingType
  <2> QED BY <2>1, <2>3 DEF Pending
<1>4. TypeOK' BY <1>1, <1>2, <1>3 DEF TypeOK
<1>5. Known' BY <1>1, <1>2, <1>3 DEF Known, Declared
<1>6. Acyclic(gates)'
  <2> SUFFICES ASSUME NEW S \in (SUBSET Gates) \ {{}}
               PROVE  \E g \in S : gates'[g].after \cap S = {}
      BY DEF Acyclic
  <2>1. CASE S \cap new # {} BY <1>3, <2>1
  <2>2. CASE S \cap new = {}
    <3>1. PICK g \in S : gates[g].after \cap S = {} BY DEF Acyclic
    <3> QED BY <1>2, <2>2, <3>1
  <2> QED BY <2>1, <2>2
<1>7. \A g \in Gates : gates[g].status \in Settling => g \notin new
      BY <1>1 DEF Declared, Settling
<1> QED BY <1>1, <1>2, <1>3, <1>4, <1>5, <1>6, <1>7, PlanInv DEF Settling

\* What the gate plan of a PM output makes of each gate.
LEMMA ReconciledGate ==
    ASSUME TypeOK, NEW listed \in SUBSET Gates, NEW plan \in [listed -> PlanItem],
           \A g \in DOMAIN plan \cap Declared : Agrees(g, plan[g]),
           NEW g \in Gates
    PROVE  /\ Reconciled(plan)[g] \in Gate
           /\ g \notin listed => Reconciled(plan)[g] = gates[g]
           /\ g \in listed => Reconciled(plan)[g].after = plan[g].after
           /\ g \in listed /\ g \in Declared => Reconciled(plan)[g].status = gates[g].status
           /\ g \in listed /\ g \notin Declared => Reconciled(plan)[g].status = "pending"
           /\ gates[g].status \in Settling => Reconciled(plan)[g] = gates[g]
<1> USE DEF TypeOK
<1>1. CASE g \notin listed BY <1>1 DEF Reconciled
<1>2. CASE g \in listed /\ g \notin Declared
  <2>1. Reconciled(plan)[g] = Pending(plan[g].requires, plan[g].after, plan[g].record)
        BY <1>2 DEF Reconciled
  <2>2. plan[g] \in PlanItem BY <1>2
  <2>3. Pending(plan[g].requires, plan[g].after, plan[g].record) \in Gate
        BY <2>2, PendingType DEF PlanItem
  <2> QED BY <1>2, <2>1, <2>3 DEF Pending, Declared, Settling
<1>3. CASE g \in listed /\ g \in Declared
  <2> DEFINE new == [gates[g] EXCEPT !.after = plan[g].after, !.record = plan[g].record]
  <2>1. Reconciled(plan)[g] = new BY <1>3 DEF Reconciled
  <2>2. gates[g] \in Gate /\ plan[g].after \in SUBSET Gates /\ plan[g].record \in BOOLEAN
        BY <1>3 DEF PlanItem
  <2>3. new \in Gate /\ new.after = plan[g].after /\ new.status = gates[g].status
        BY <2>2 DEF Gate
  <2>4. ASSUME gates[g].status \in Settling PROVE new = gates[g]
    <3>1. gates[g].after = plan[g].after /\ gates[g].record = plan[g].record
          BY <1>3, <2>4 DEF Agrees, Same, Settling
    <3> QED BY <2>2, <3>1 DEF Gate
  <2> HIDE DEF new
  <2> QED BY <1>3, <2>1, <2>3, <2>4
<1> QED BY <1>1, <1>2, <1>3

\* sync-status-from-output.rb, of a PM output that plans gates
LEMMA PlanGatesInv ==
    ASSUME GatesInv, NEW listed \in SUBSET Gates, NEW plan \in [listed -> PlanItem],
           NEW to \in AfterPm, PlanGates(plan, to)
    PROVE  GatesInv'
<1> USE DEF GatesInv
<1>1. /\ \A g \in DOMAIN plan \cap Declared : Agrees(g, plan[g])
      /\ \A g \in DOMAIN plan : plan[g].after \subseteq Declared \cup DOMAIN plan
      /\ Acyclic(Reconciled(plan))
      /\ gates' = Reconciled(plan) /\ phase' = to /\ ledger' = ledger
      BY DEF PlanGates
<1>2. \A g \in Gates :
          /\ gates'[g] \in Gate
          /\ g \notin listed => gates'[g] = gates[g]
          /\ g \in listed => gates'[g].after = plan[g].after
          /\ g \in listed /\ g \in Declared => gates'[g].status = gates[g].status
          /\ g \in listed /\ g \notin Declared => gates'[g].status = "pending"
          /\ gates[g].status \in Settling => gates'[g] = gates[g]
      BY <1>1, ReconciledGate
<1>3. gates' \in [Gates -> Gate]
  <2>1. DOMAIN gates' = Gates /\ gates' = [g \in Gates |-> gates'[g]]
        BY <1>1 DEF Reconciled
  <2> QED BY <1>2, <2>1
<1>4. TypeOK' BY <1>1, <1>3 DEF TypeOK, AfterPm
<1>5. \A g \in Gates : g \in Declared \/ g \in listed => gates'[g].status # "absent"
      BY <1>2 DEF Declared
<1>6. Known'
  <2> SUFFICES ASSUME NEW g \in Gates, NEW d \in gates'[g].after PROVE d \in Declared'
      BY DEF Known
  <2>1. d \in Declared \cup listed BY <1>1, <1>2 DEF Known
  <2>2. d \in Gates BY <2>1 DEF Declared
  <2> QED BY <1>5, <2>1, <2>2 DEF Declared
<1>7. Acyclic(gates)' BY <1>1 DEF Acyclic
<1>8. \A g \in Gates : gates'[g].status \in Settling => gates[g].status \in Settling
      BY <1>2 DEF Settling
<1> QED BY <1>1, <1>2, <1>4, <1>6, <1>7, <1>8, PlanInv

\* An entry appended to the ledger.
LEMMA LedgerInv ==
    ASSUME GatesInv, NEW e \in Entry, ledger' = Append(ledger, e), gates' = gates, phase' = phase
    PROVE  GatesInv'
<1> USE DEF GatesInv
<1>1. TypeOK' BY AppendType DEF TypeOK
<1>2. Settled' BY AppendKeepsGate DEF Settled
<1>3. Known' /\ Acyclic(gates)' /\ Ordered' BY DEF Known, Declared, Acyclic, Ordered
<1> QED BY <1>1, <1>2, <1>3

\* A change of phase alone.
LEMMA PhaseInv ==
    ASSUME GatesInv, phase' \in {"open", "done", "aborted"}, gates' = gates, ledger' = ledger
    PROVE  GatesInv'
<1> USE DEF GatesInv
<1>1. TypeOK' BY DEF TypeOK
<1>2. Settled' BY SameGate DEF Settled
<1>3. Known' /\ Acyclic(gates)' /\ Ordered' BY DEF Known, Declared, Acyclic, Ordered
<1> QED BY <1>1, <1>2, <1>3

-----------------------------------------------------------------------------
(* The invariant is inductive *)

\* A task starts without gates.
LEMMA InitInv == Init => GatesInv
<1> SUFFICES ASSUME Init PROVE GatesInv
    OBVIOUS
<1>1. \A g \in Gates : gates[g] = Absent BY DEF Init
<1>2. \A g \in Gates : gates[g].status = "absent" /\ gates[g].after = {}
      BY <1>1 DEF Absent, Pending
<1>3. TypeOK BY AbsentType, EmptySeq DEF Init, TypeOK
<1> QED BY <1>2, <1>3 DEF GatesInv, Settled, Settling, Known, Ordered, Acyclic

\* Every writer keeps the invariant.
LEMMA NextInv == GatesInv /\ [Next]_vars => GatesInv'
<1> SUFFICES ASSUME GatesInv, [Next]_vars PROVE GatesInv'
    OBVIOUS
<1>1. ASSUME NEW g \in Gates, NEW requires \in Acts \cup {"none"}, NEW after \in SUBSET Gates,
             NEW record \in BOOLEAN, Declare(g, requires, after, record)
      PROVE  GatesInv'
      BY <1>1, DeclareInv
<1>2. ASSUME NEW g \in Gates, NEW refs \in SUBSET DOMAIN ledger, NEW ran \in BOOLEAN,
             NEW time \in Times \cup {0}, Pass(g, refs, ran, time)
      PROVE  GatesInv'
      BY <1>2, PassInv
<1>3. ASSUME NEW g \in Gates, NotApplicable(g) PROVE GatesInv'
      BY <1>3, NotApplicableInv
<1>4. ASSUME NEW g \in Gates, RequireRecord(g) PROVE GatesInv'
      BY <1>4, RequireRecordInv
<1>5. ASSUME NEW g \in Gates, NEW added \in (SUBSET Gates) \ {{}}, Depend(g, added)
      PROVE  GatesInv'
      BY <1>5, DependInv
<1>6. ASSUME NEW new \in SUBSET Gates, NEW requires \in [new -> Acts \cup {"none"}],
             Revise(new, requires)
      PROVE  GatesInv'
      BY <1>6, ReviseInv
<1>7. ASSUME NEW listed \in SUBSET Gates, NEW plan \in [listed -> PlanItem],
             NEW to \in AfterPm, PlanGates(plan, to)
      PROVE  GatesInv'
      BY <1>7, PlanGatesInv
<1>8. ASSUME NEW action \in Acts, NEW time \in Times, NEW until \in Times \cup {0},
             Grant(action, time, until)
      PROVE  GatesInv'
  <2> DEFINE e == [type |-> "grant", action |-> action, at |-> time, until |-> until, of |-> 0]
  <2>1. e \in Entry BY DEF Entry
  <2>2. ledger' = Append(ledger, e) /\ gates' = gates /\ phase' = phase BY <1>8 DEF Grant
  <2> HIDE DEF e
  <2> QED BY <2>1, <2>2, LedgerInv
<1>9. ASSUME NEW id \in DOMAIN ledger, NEW time \in Times, Revoke(id, time) PROVE GatesInv'
  <2> DEFINE e == [type |-> "revoke", action |-> "none", at |-> time, until |-> 0, of |-> id]
  <2>1. id \in Nat BY LenProperties DEF GatesInv, TypeOK
  <2>2. e \in Entry BY <2>1 DEF Entry
  <2>3. ledger' = Append(ledger, e) /\ gates' = gates /\ phase' = phase BY <1>9 DEF Revoke
  <2> HIDE DEF e
  <2> QED BY <2>2, <2>3, LedgerInv
<1>10. CASE Finish \/ Abort \/ Reopen
       BY <1>10, PhaseInv DEF Finish, Abort, Reopen
<1>11. CASE UNCHANGED vars
  <2>1. phase' = phase /\ gates' = gates /\ ledger' = ledger BY <1>11 DEF vars
  <2>2. phase \in {"open", "done", "aborted"} BY DEF GatesInv, TypeOK
  <2> QED BY <2>1, <2>2, PhaseInv
<1> QED BY <1>1, <1>2, <1>3, <1>4, <1>5, <1>6, <1>7, <1>8, <1>9, <1>10, <1>11 DEF Next

\* GatesInv holds throughout; with it the types of the three variables.
THEOREM GatesInvHolds == Spec => []GatesInv
<1>1. Init => GatesInv BY InitInv
<1>2. GatesInv /\ [Next]_vars => GatesInv' BY NextInv
<1> QED BY <1>1, <1>2, PTL DEF Spec

-----------------------------------------------------------------------------
(* What follows from it *)

\* A gate is unresolved just when it is pending.
LEMMA UnresolvedIsPending ==
    ASSUME GatesInv PROVE Unresolved = {g \in Gates : gates[g].status = "pending"}
<1>1. \A g \in Gates : gates[g].status \in {"absent", "pending", "pass", "na"}
      BY DEF GatesInv, TypeOK, Gate
<1> QED BY <1>1 DEF GatesInv, Settled, Settling, Resolved, Unresolved, Declared

\* update-completion-gate.rb 19-22, 226-244: a passed gate waited on resolved gates only,
\* and they stay so.
THEOREM PassedInOrderHolds == Spec => []PassedInOrder
<1>1. GatesInv => PassedInOrder
      BY UnresolvedIsPending DEF GatesInv, Ordered, PassedInOrder, Settling
<1> QED BY <1>1, GatesInvHolds, PTL

\* completion-guard.rb 272-300: no circle of gates keeps a task from ever being done.
THEOREM SomeGateIsNextHolds == Spec => []SomeGateIsNext
<1>1. ASSUME GatesInv PROVE SomeGateIsNext
  <2> SUFFICES ASSUME Unresolved # {}
               PROVE  \E g \in Unresolved : gates[g].after \cap Unresolved = {}
      BY DEF SomeGateIsNext
  <2>1. Unresolved \in (SUBSET Gates) \ {{}} BY DEF Unresolved, Declared
  <2> QED BY <1>1, <2>1 DEF GatesInv, Acyclic
<1> QED BY <1>1, GatesInvHolds, PTL

\* No writer makes a settled gate pending again.
LEMMA StaysSettled ==
    ASSUME GatesInv, [Next]_vars, NEW g \in Gates, gates[g].status \in Settling
    PROVE  gates'[g].status \in Settling
<1> USE DEF GatesInv, TypeOK, Settling
<1>1. ASSUME NEW h \in Gates, NEW requires \in Acts \cup {"none"}, NEW after \in SUBSET Gates,
             NEW record \in BOOLEAN, Declare(h, requires, after, record)
      PROVE  gates'[g] = gates[g]
      BY <1>1 DEF Declare, Declared
<1>2. ASSUME NEW h \in Gates, NEW refs \in SUBSET DOMAIN ledger, NEW ran \in BOOLEAN,
             NEW time \in Times \cup {0}, Pass(h, refs, ran, time)
      PROVE  gates'[g] = gates[g] \/ gates'[g].status = "pass"
  <2> DEFINE new == Settle(gates[h], "pass", ran, refs, IF refs = {} THEN 0 ELSE Len(ledger), time)
  <2>1. gates' = [gates EXCEPT ![h] = new] BY <1>2 DEF Pass
  <2>2. new.status = "pass" BY DEF Settle
  <2> HIDE DEF new
  <2> QED BY <2>1, <2>2
<1>3. ASSUME NEW h \in Gates, NotApplicable(h)
      PROVE  gates'[g] = gates[g] \/ gates'[g].status = "na"
      BY <1>3 DEF NotApplicable, Settle
<1>4. ASSUME NEW h \in Gates, RequireRecord(h) PROVE gates'[g] = gates[g]
      BY <1>4 DEF RequireRecord
<1>5. ASSUME NEW h \in Gates, NEW added \in (SUBSET Gates) \ {{}}, Depend(h, added)
      PROVE  gates'[g] = gates[g]
      BY <1>5 DEF Depend
<1>6. ASSUME NEW new \in SUBSET Gates, NEW requires \in [new -> Acts \cup {"none"}],
             Revise(new, requires)
      PROVE  gates'[g] = gates[g]
      BY <1>6 DEF Revise, Declared
<1>7. ASSUME NEW listed \in SUBSET Gates, NEW plan \in [listed -> PlanItem],
             NEW to \in AfterPm, PlanGates(plan, to)
      PROVE  gates'[g] = gates[g]
  <2>1. gates' = Reconciled(plan) /\ \A h \in DOMAIN plan \cap Declared : Agrees(h, plan[h])
        BY <1>7 DEF PlanGates
  <2>2. TypeOK BY DEF TypeOK
  <2>3. gates[g].status \in Settling => Reconciled(plan)[g] = gates[g]
        BY <2>1, <2>2, ReconciledGate
  <2> QED BY <2>1, <2>3
<1>8. CASE gates' = gates
      BY <1>8
<1>9. ASSUME NEW action \in Acts, NEW time \in Times, NEW until \in Times \cup {0},
             Grant(action, time, until)
      PROVE  gates' = gates
      BY <1>9 DEF Grant
<1>10. ASSUME NEW id \in DOMAIN ledger, NEW time \in Times, Revoke(id, time) PROVE gates' = gates
       BY <1>10 DEF Revoke
<1>11. CASE Finish \/ Abort \/ Reopen \/ UNCHANGED vars
       BY <1>11 DEF Finish, Abort, Reopen, vars
<1> QED BY <1>1, <1>2, <1>3, <1>4, <1>5, <1>6, <1>7, <1>8, <1>9, <1>10, <1>11 DEF Next

\* authorization-ledger.rb 7-15: once resolved, a gate stays resolved: neither a later
\* revoke nor a clock that steps back nor a new pass takes it back.
THEOREM ResolvedStaysHolds == Spec => ResolvedStays
<1>1. ASSUME GatesInv, GatesInv', [Next]_vars PROVE ResolvedStay
  <2> SUFFICES ASSUME NEW g \in Declared, Resolved(g) PROVE Resolved(g)'
      BY DEF ResolvedStay
  <2>1. g \in Gates /\ gates[g].status \in Settling BY DEF Declared, Resolved, Settling
  <2>2. gates'[g].status \in Settling BY <1>1, <2>1, StaysSettled
  <2> QED BY <1>1, <2>1, <2>2 DEF GatesInv, Settled
<1>2. GatesInv /\ GatesInv' /\ [Next]_vars => [ResolvedStay]_vars BY <1>1
<1> QED BY <1>2, GatesInvHolds, PTL DEF Spec, ResolvedStays

\* completion-guard.rb 26-27: done is earned, as long as no PM run is forced on a finished
\* task (sync-status-from-output.rb asks the guard before it adds the gates of the plan).
THEOREM DoneIsEarnedHolds == ASSUME ~Replans PROVE Spec => []DoneIsEarned
<1>1. Init => DoneSettled BY DEF Init, DoneSettled
<1>2. ASSUME GatesInv, DoneSettled, [Next]_vars PROVE DoneSettled'
  <2> SUFFICES ASSUME phase' = "done", NEW g \in Gates PROVE gates'[g].status # "pending"
      BY DEF DoneSettled
  <2>1. CASE phase = "done"
    <3>1. CASE gates' = gates BY <1>2, <2>1, <3>1 DEF DoneSettled
    <3>2. CASE gates' # gates
          BY <1>2, <2>1, <3>2 DEF Next, vars, Finished, Declare, Pass, NotApplicable,
             RequireRecord, Depend, Revise, PlanGates, Grant, Revoke, Finish, Abort, Reopen
    <3> QED BY <3>1, <3>2
  <2>2. CASE phase # "done"
    <3>1. Finish
          BY <1>2, <2>2 DEF Next, vars, Declare, Pass, NotApplicable, RequireRecord,
             Depend, Revise, PlanGates, AfterPm, Grant, Revoke, Abort, Reopen
    <3>2. Unresolved = {} /\ gates' = gates BY <3>1 DEF Finish, MayFinish
    <3> QED BY <1>2, <3>2, UnresolvedIsPending
  <2> QED BY <2>1, <2>2
<1>3. GatesInv /\ DoneSettled /\ [Next]_vars => DoneSettled' BY <1>2
<1>4. GatesInv /\ DoneSettled => DoneIsEarned
      BY UnresolvedIsPending DEF DoneSettled, DoneIsEarned
<1> QED BY <1>1, <1>3, <1>4, GatesInvHolds, PTL DEF Spec

-----------------------------------------------------------------------------
(* The inbox and the grants from it *)

CONSTANTS Tasks, Slots, MaxTimer, MaxTime, MaxScans, MaxChanges, MaxPosts
VARIABLES now, grants, running, queued, timer, scans, review, update, refreshing, inbox, dialog, posts

Inbox == INSTANCE Authorizations WITH ledger <- grants

InboxLimits ==
    /\ {Slots, MaxTime, MaxScans, MaxChanges, MaxPosts} \subseteq Nat /\ Tasks # {}
    /\ MaxTimer \in Nat /\ MaxTimer > MaxTime + 2

PostRecord == [no : 1..MaxPosts, task : Tasks, at : {"checking", "granting", "answering"},
               ok : BOOLEAN, mounted : BOOLEAN]
InboxTypes ==
    /\ now \in 0..MaxTime
    /\ grants \in [until : [Tasks -> 0..(MaxTime + 2)], changes : 0..MaxChanges]
    /\ timer \in 0..(MaxTime + 2)
    /\ scans \in [1..MaxScans -> Inbox!Scan]
    /\ review \in [pending : 0..MaxScans, cache : 0..MaxScans]
    /\ update \in BOOLEAN /\ refreshing \in BOOLEAN
    /\ inbox \in [asked : 0..MaxScans, shown : [Tasks -> Inbox!Seen]]
    /\ dialog \in [task : Tasks, at : {"closed", "loading", "ready", "sending"}]
    /\ posts \subseteq PostRecord

\* The slots and the loads that wait for one: nothing is asked twice.
SameAsk(a, b) == a.of = b.of /\ a.task = b.task
Loads(run, q) == run \cup {q[k] : k \in DOMAIN q}
SlotsFit(run, q) ==
    /\ run \subseteq Inbox!Load /\ IsFiniteSet(run) /\ Cardinality(run) <= Slots
    /\ q \in Seq(Inbox!Load) /\ (q # <<>> => Cardinality(run) = Slots)
    /\ \A a, b \in run : SameAsk(a, b) => a = b
    /\ \A a \in run, k \in DOMAIN q : ~SameAsk(a, q[k])
    /\ \A k, m \in DOMAIN q : SameAsk(q[k], q[m]) => k = m
    /\ \A k \in DOMAIN q : q[k].seen = Inbox!Unread

\* What a read of a grant may have found, and what may be on the screen: its end is watched.
Found(until, at, got) ==
    \/ got = Inbox!Unreadable
    \/ got = 0 /\ until <= at
    \/ got > 0 /\ got = until
Kept(until, at, watched, got) == Found(until, at, got) /\ (got > 0 => 0 < watched /\ watched <= got)

Counts(ss, n) == ss[n].at = "reading" /\ ~ss[n].outdated
\* A load belongs to a scan that reads, or to a request that checks.
LoadsFit(ls, ss, ps) ==
    \A l \in ls :
        /\ l.of > 0 => ss[l.of].at = "reading" /\ l.task \notin ss[l.of].left
        /\ l.of < 0 => \E p \in ps : l.of = Inbox!ForPost(p.no) /\ p.task = l.task /\ p.at = "checking"
\* What a scan has read since the last change, and what it still reads.
LoadsFound(ls, ss, until, at) ==
    \A l \in ls : l.of > 0 /\ Counts(ss, l.of) /\ l.seen # Inbox!Unread => Found(until[l.task], at, l.seen)
ScansKept(ls, ss, until, at, watched) ==
    \A n \in 1..MaxScans : Counts(ss, n) =>
        \A t \in Tasks \ ss[n].left :
            (\A l \in ls : ~(l.of = n /\ l.task = t)) => Kept(until[t], at, watched, ss[n].seen[t])
ReviewFits(r, ss) ==
    /\ r.pending # 0 => Counts(ss, r.pending)
    /\ r.cache # 0 => ss[r.cache].at = "done"
AllKept(view, until, at, watched) == \A t \in Tasks : Kept(until[t], at, watched, view[t])
CacheKept(r, ss, until, at, watched) == r.cache # 0 => AllKept(ss[r.cache].seen, until, at, watched)
InboxFits(box, ss, until, at, watched) ==
    /\ box.asked = 0 => AllKept(box.shown, until, at, watched)
    /\ box.asked # 0 => Counts(ss, box.asked)
PostsApart(ps) == \A p, q \in ps : p.no = q.no => p = q

UnderWay == Loads(running, queued)
InboxInv ==
    /\ InboxTypes /\ SlotsFit(running, queued) /\ PostsApart(posts)
    /\ LoadsFit(UnderWay, scans, posts) /\ ReviewFits(review, scans)
    /\ ~update =>
          /\ LoadsFound(UnderWay, scans, grants.until, now)
          /\ ScansKept(UnderWay, scans, grants.until, now, timer)
          /\ CacheKept(review, scans, grants.until, now, timer)
    /\ ~update /\ ~refreshing => InboxFits(inbox, scans, grants.until, now, timer)

\* The scan a load starts is the first that is free, so there must be a least one.
LEMMA LeastScan ==
    ASSUME NEW S \in SUBSET Nat, S # {}
    PROVE  \E m \in S : \A y \in S : m <= y
<1>1. \E m \in S : \A y \in S : ~(<<y, m>> \in OpToRel(<, Nat))
  BY NatLessThanWellFounded, WFMin
<1>2. PICK m \in S : \A y \in S : ~(y < m)
  BY <1>1 DEF OpToRel
<1>3. \A y \in S : m <= y
  BY <1>2
<1> QED BY <1>3

LEMMA LoadTypes ==
    ASSUME InboxLimits
    PROVE  /\ Inbox!Unread \in Inbox!Seen /\ Inbox!Unreadable \in Inbox!Seen /\ 0..(MaxTime + 2) \subseteq Inbox!Seen
           /\ Inbox!Seen \subseteq Int /\ Inbox!Unread = -2 /\ Inbox!Unreadable = -1
           /\ \A of \in (-MaxPosts)..MaxScans, t \in Tasks, s \in Inbox!Seen :
                 /\ [of |-> of, task |-> t, seen |-> s] \in Inbox!Load
           /\ \A l \in Inbox!Load : /\ l.of \in Int /\ l.of <= MaxScans /\ l.task \in Tasks /\ l.seen \in Inbox!Seen
                                    /\ l.of > 0 => l.of \in 1..MaxScans
           /\ MaxScans \in Nat /\ MaxPosts \in Nat /\ MaxTime \in Nat /\ Slots \in Nat /\ MaxChanges \in Nat
  BY DEF InboxLimits, Inbox!Seen, Inbox!Unread, Inbox!Unreadable, Inbox!Load, Inbox!ForPost

LEMMA SameCardinality == \A S : Inbox!Cardinality(S) = Cardinality(S)
  BY DEF Cardinality, Inbox!Cardinality

LEMMA QueueParts ==
    ASSUME NEW S, NEW q \in Seq(S)
    PROVE  /\ Len(q) \in Nat /\ DOMAIN q = 1..Len(q) /\ \A k \in DOMAIN q : q[k] \in S
           /\ q # <<>> => /\ Tail(q) \in Seq(S) /\ Head(q) = q[1] /\ 1 \in DOMAIN q /\ Len(Tail(q)) = Len(q) - 1
                          /\ \A k \in DOMAIN Tail(q) : k + 1 \in DOMAIN q /\ Tail(q)[k] = q[k + 1] /\ k \in Nat /\ k > 0
                          /\ \A k \in DOMAIN q : k # 1 => k - 1 \in DOMAIN Tail(q) /\ Tail(q)[k - 1] = q[k]
           /\ \A x \in S : /\ Append(q, x) \in Seq(S) /\ Append(q, x)[Len(q) + 1] = x
                           /\ DOMAIN Append(q, x) = 1..(Len(q) + 1)
                           /\ \A k \in DOMAIN q : Append(q, x)[k] = q[k]
  OBVIOUS

\* A load takes a slot or a place in the queue.
LEMMA Acquires ==
    ASSUME InboxLimits, SlotsFit(running, queued), NEW l \in Inbox!Load, l.seen = Inbox!Unread,
           \A a \in UnderWay : ~SameAsk(a, l), Inbox!Acquire(l)
    PROVE  SlotsFit(running', queued') /\ UnderWay' = UnderWay \cup {l}
<1>1. /\ running \subseteq Inbox!Load /\ IsFiniteSet(running) /\ Cardinality(running) <= Slots
      /\ Cardinality(running) \in Nat /\ Slots \in Nat /\ l \notin running
  BY FS_CardinalityType DEF SlotsFit, InboxLimits, UnderWay, Loads, SameAsk
<1>2. CASE Cardinality(running) < Slots
  <2>1. running' = running \cup {l} /\ queued' = queued
    BY <1>2, SameCardinality DEF Inbox!Acquire
  <2>2. IsFiniteSet(running') /\ Cardinality(running') = Cardinality(running) + 1
    BY <1>1, <2>1, FS_AddElement
  <2>3. queued = <<>>
    BY <1>1, <1>2 DEF SlotsFit
  <2>4. DOMAIN queued = {}
    BY <2>3
  <2>5. \A a, b \in running' : SameAsk(a, b) => a = b
    BY <2>1 DEF SlotsFit, UnderWay, Loads, SameAsk
  <2>6. UnderWay' = UnderWay \cup {l}
    BY <2>1 DEF UnderWay, Loads
  <2> QED BY <1>1, <1>2, <2>1, <2>2, <2>3, <2>4, <2>5, <2>6 DEF SlotsFit
<1>3. CASE ~(Cardinality(running) < Slots)
  <2>1. running' = running /\ queued' = Append(queued, l) /\ Cardinality(running) = Slots
    BY <1>1, <1>3, SameCardinality DEF Inbox!Acquire
  <2>2. /\ queued' \in Seq(Inbox!Load) /\ DOMAIN queued' = 1..(Len(queued) + 1) /\ queued'[Len(queued) + 1] = l
        /\ \A k \in DOMAIN queued : queued'[k] = queued[k]
        /\ DOMAIN queued = 1..Len(queued) /\ Len(queued) \in Nat
    BY <2>1, QueueParts DEF SlotsFit
  <2>3. \A k \in DOMAIN queued' : (k \in DOMAIN queued /\ queued'[k] = queued[k]) \/ (k = Len(queued) + 1 /\ queued'[k] = l)
    BY <2>2
  <2>4. UnderWay' = UnderWay \cup {l}
    <3>1. {queued'[k] : k \in DOMAIN queued'} = {queued[k] : k \in DOMAIN queued} \cup {l}
      BY <2>2, <2>3
    <3> QED BY <2>1, <3>1 DEF UnderWay, Loads
  <2>5. \A k \in DOMAIN queued : ~SameAsk(queued[k], l) /\ ~SameAsk(l, queued[k])
    BY DEF UnderWay, Loads, SameAsk
  <2>6. \A k, m \in DOMAIN queued' : SameAsk(queued'[k], queued'[m]) => k = m
    BY <2>3, <2>5 DEF SlotsFit
  <2>7. \A a \in running', k \in DOMAIN queued' : ~SameAsk(a, queued'[k])
    BY <2>1, <2>3 DEF SlotsFit, UnderWay, Loads
  <2>8. \A k \in DOMAIN queued' : queued'[k].seen = Inbox!Unread
    BY <2>3 DEF SlotsFit
  <2>9. \A a, b \in running' : SameAsk(a, b) => a = b
    BY <2>1 DEF SlotsFit
  <2> QED BY <1>1, <2>1, <2>2, <2>4, <2>6, <2>7, <2>8, <2>9 DEF SlotsFit
<1> QED BY <1>2, <1>3

\* A load ends, and its slot goes to the next.
LEMMA Releases ==
    ASSUME InboxLimits, SlotsFit(running, queued), NEW l \in running, Inbox!Release(l)
    PROVE  SlotsFit(running', queued') /\ UnderWay' = UnderWay \ {l}
<1>1. /\ running \subseteq Inbox!Load /\ IsFiniteSet(running) /\ Cardinality(running) <= Slots
      /\ Cardinality(running) \in Nat /\ Slots \in Nat
      /\ IsFiniteSet(running \ {l}) /\ Cardinality(running \ {l}) = Cardinality(running) - 1
  BY FS_CardinalityType, FS_RemoveElement DEF SlotsFit, InboxLimits
<1>2. CASE queued = <<>>
  <2>1. running' = running \ {l} /\ queued' = queued /\ DOMAIN queued = {}
    BY <1>2 DEF Inbox!Release
  <2>2. UnderWay' = UnderWay \ {l}
    BY <2>1 DEF UnderWay, Loads
  <2> QED BY <1>1, <1>2, <2>1, <2>2 DEF SlotsFit
<1>3. CASE queued # <<>>
  <2> DEFINE h == Head(queued)
  <2>1. running' = (running \ {l}) \cup {h} /\ queued' = Tail(queued) /\ Cardinality(running) = Slots
    BY <1>3 DEF Inbox!Release, SlotsFit
  <2>2. /\ queued' \in Seq(Inbox!Load) /\ h = queued[1] /\ 1 \in DOMAIN queued /\ h \in Inbox!Load
        /\ \A k \in DOMAIN queued' : k + 1 \in DOMAIN queued /\ queued'[k] = queued[k + 1] /\ k \in Nat /\ k > 0
        /\ \A k \in DOMAIN queued : k # 1 => k - 1 \in DOMAIN queued' /\ queued'[k - 1] = queued[k]
    <3>1. queued \in Seq(Inbox!Load)
      BY DEF SlotsFit
    <3> QED BY <1>3, <2>1, <3>1, QueueParts
  <2> HIDE DEF h
  <2>3. \A a \in running : ~SameAsk(a, h) /\ ~SameAsk(h, a) /\ a # h
    BY <2>2 DEF SlotsFit, SameAsk
  <2>4. IsFiniteSet(running') /\ Cardinality(running') = Slots
    <3> DEFINE rest == running \ {l}
    <3>1. h \notin rest /\ running' = rest \cup {h}
      BY <2>1, <2>3
    <3>2. IsFiniteSet(rest) /\ Cardinality(rest) = Cardinality(running) - 1
      BY <1>1
    <3> HIDE DEF rest
    <3>3. IsFiniteSet(running') /\ Cardinality(running') = Cardinality(rest) + 1
      BY <3>1, <3>2, FS_AddElement
    <3> QED BY <1>1, <2>1, <3>2, <3>3
  <2>5. \A k \in DOMAIN queued' : ~SameAsk(h, queued'[k]) /\ queued'[k].seen = Inbox!Unread
    <3>1. \A k \in DOMAIN queued' : k + 1 # 1
      BY <2>2
    <3> QED BY <2>2, <3>1 DEF SlotsFit
  <2>6. \A k, m \in DOMAIN queued' : SameAsk(queued'[k], queued'[m]) => k = m
    <3>1. \A k, m \in DOMAIN queued' : SameAsk(queued'[k], queued'[m]) => k + 1 = m + 1 /\ k \in Nat /\ m \in Nat
      BY <2>2 DEF SlotsFit
    <3> QED BY <3>1
  <2>7. \A a \in running', k \in DOMAIN queued' : ~SameAsk(a, queued'[k])
    BY <2>1, <2>2, <2>5 DEF SlotsFit
  <2>8. \A a, b \in running' : SameAsk(a, b) => a = b
    BY <2>1, <2>3 DEF SlotsFit
  <2>9. UnderWay' = UnderWay \ {l}
    <3>1. {queued[k] : k \in DOMAIN queued} = {queued'[k] : k \in DOMAIN queued'} \cup {h}
      BY <2>2
    <3>2. \A k \in DOMAIN queued : queued[k] # l
      BY DEF SlotsFit, SameAsk
    <3>3. \A k \in DOMAIN queued' : queued'[k] # l
      BY <2>2, <3>2
    <3>4. h # l
      BY <2>3
    <3> QED BY <2>1, <3>1, <3>3, <3>4 DEF UnderWay, Loads
  <2>10. running' \subseteq Inbox!Load
    BY <1>1, <2>1, <2>2
  <2> QED BY <1>1, <2>2, <2>4, <2>5, <2>6, <2>7, <2>8, <2>9, <2>10 DEF SlotsFit
<1> QED BY <1>2, <1>3

\* A load finds something and keeps its slot.
LEMMA Finds ==
    ASSUME InboxLimits, SlotsFit(running, queued), NEW l \in running, NEW m \in Inbox!Load, SameAsk(l, m),
           running' = (running \ {l}) \cup {m}, queued' = queued
    PROVE  SlotsFit(running', queued') /\ UnderWay' = (UnderWay \ {l}) \cup {m}
<1>1. /\ running \subseteq Inbox!Load /\ IsFiniteSet(running) /\ Cardinality(running) <= Slots
      /\ Cardinality(running) \in Nat /\ Slots \in Nat
      /\ IsFiniteSet(running \ {l}) /\ Cardinality(running \ {l}) = Cardinality(running) - 1
  BY FS_CardinalityType, FS_RemoveElement DEF SlotsFit, InboxLimits
<1>2. m \notin running \ {l}
  BY DEF SlotsFit, SameAsk
<1>3. IsFiniteSet(running') /\ Cardinality(running') = Cardinality(running)
  <2> DEFINE rest == running \ {l}
  <2>1. m \notin rest /\ running' = rest \cup {m} /\ IsFiniteSet(rest) /\ Cardinality(rest) = Cardinality(running) - 1
    BY <1>1, <1>2
  <2> HIDE DEF rest
  <2>2. IsFiniteSet(running') /\ Cardinality(running') = Cardinality(rest) + 1
    BY <2>1, FS_AddElement
  <2> QED BY <1>1, <2>1, <2>2
<1>4. \A a, b \in running' : SameAsk(a, b) => a = b
  BY DEF SlotsFit, SameAsk
<1>5. \A a \in running', k \in DOMAIN queued : ~SameAsk(a, queued[k])
  BY DEF SlotsFit, SameAsk
<1>6. UnderWay' = (UnderWay \ {l}) \cup {m}
  <2>1. \A k \in DOMAIN queued : queued[k] # l
    BY DEF SlotsFit, SameAsk
  <2> QED BY <2>1 DEF UnderWay, Loads
<1>7. running' \subseteq Inbox!Load
  BY <1>1
<1> QED BY <1>1, <1>3, <1>4, <1>5, <1>6, <1>7 DEF SlotsFit

\* What was found stays so while time passes, and is watched as long as the timer goes down only.
LEMMA KeptLasts ==
    ASSUME NEW n1 \in Nat, NEW n2 \in Nat, n1 <= n2, NEW w1 \in Int, NEW w2 \in Int,
           0 < w1 => 0 < w2 /\ w2 <= w1
    PROVE  /\ \A u \in Int, s \in Int : Found(u, n1, s) => Found(u, n2, s)
           /\ \A u \in Int, s \in Int : Kept(u, n1, w1, s) => Kept(u, n2, w2, s)
  BY DEF Found, Kept

LEMMA InboxParts ==
    ASSUME InboxLimits, InboxTypes
    PROVE  /\ now \in Nat /\ timer \in Int /\ \A t \in Tasks : grants.until[t] \in Int
           /\ \A n \in 1..MaxScans : /\ scans[n] \in Inbox!Scan
                                     /\ \A t \in Tasks : scans[n].seen[t] \in Int
           /\ \A t \in Tasks : inbox.shown[t] \in Int
           /\ review.pending \in 0..MaxScans /\ review.cache \in 0..MaxScans /\ inbox.asked \in 0..MaxScans
           /\ \A n \in 0..MaxScans : n # 0 => n \in 1..MaxScans
<1>1. \A n \in 1..MaxScans : scans[n] \in Inbox!Scan
  BY DEF InboxTypes
<1>2. \A n \in 1..MaxScans : scans[n].seen \in [Tasks -> Inbox!Seen]
  BY <1>1 DEF Inbox!Scan
<1>3. inbox.shown \in [Tasks -> Inbox!Seen] /\ grants.until \in [Tasks -> 0..(MaxTime + 2)]
  BY DEF InboxTypes
<1>4. Inbox!Seen \subseteq Int /\ MaxTime \in Nat /\ MaxScans \in Nat
  BY LoadTypes
<1>5. /\ now \in Nat /\ timer \in Int
      /\ review.pending \in 0..MaxScans /\ review.cache \in 0..MaxScans /\ inbox.asked \in 0..MaxScans
  BY <1>4 DEF InboxTypes
<1>6. \A t \in Tasks : grants.until[t] \in Int /\ inbox.shown[t] \in Int
  <2>1. \A t \in Tasks : grants.until[t] \in 0..(MaxTime + 2)
    BY <1>3
  <2>2. \A t \in Tasks : inbox.shown[t] \in Inbox!Seen
    BY <1>3
  <2>3. \A t \in Tasks : grants.until[t] \in Int
    BY <1>4, <2>1
  <2>4. \A t \in Tasks : inbox.shown[t] \in Int
    BY <1>4, <2>2
  <2> QED BY <2>3, <2>4
<1>7. \A n \in 1..MaxScans, t \in Tasks : scans[n].seen[t] \in Int
  BY <1>2, <1>4
<1> QED BY <1>1, <1>4, <1>5, <1>6, <1>7

LEMMA UnderWayTypes ==
    ASSUME InboxLimits, SlotsFit(running, queued)
    PROVE  UnderWay \subseteq Inbox!Load /\ running \subseteq UnderWay
  BY QueueParts DEF SlotsFit, UnderWay, Loads

LEMMA InboxStart ==
    ASSUME InboxLimits, Inbox!Init
    PROVE  InboxInv
<1>1. /\ MaxTime \in Nat /\ MaxScans \in Nat /\ Slots \in Nat /\ MaxChanges \in Nat /\ MaxPosts \in Nat
      /\ 0 \in Inbox!Seen /\ Tasks # {}
  BY LoadTypes DEF InboxLimits
<1>2. Inbox!NoScan \in Inbox!Scan /\ Inbox!NoScan.at = "none" /\ Inbox!Never \in [Tasks -> Inbox!Seen]
  BY <1>1 DEF Inbox!NoScan, Inbox!Scan, Inbox!Never
<1>3. /\ now = 0 /\ running = {} /\ queued = <<>> /\ timer = 0 /\ update = FALSE /\ refreshing = TRUE
      /\ scans = [n \in 1..MaxScans |-> Inbox!NoScan] /\ review = [pending |-> 0, cache |-> 0]
      /\ inbox = [asked |-> 0, shown |-> Inbox!Never] /\ dialog = Inbox!Closed /\ posts = {}
      /\ \E until \in [Tasks -> 0..2] : grants = [until |-> until, changes |-> 0]
  BY DEF Inbox!Init
<1>4. grants \in [until : [Tasks -> 0..(MaxTime + 2)], changes : 0..MaxChanges]
  <2>1. PICK until \in [Tasks -> 0..2] : grants = [until |-> until, changes |-> 0]
    BY <1>3
  <2>2. until \in [Tasks -> 0..(MaxTime + 2)]
    BY <1>1, <2>1
  <2> QED BY <1>1, <2>1, <2>2
<1>5. dialog \in [task : Tasks, at : {"closed", "loading", "ready", "sending"}]
  <2>1. (CHOOSE t \in Tasks : TRUE) \in Tasks
    BY <1>1
  <2> QED BY <1>3, <2>1 DEF Inbox!Closed
<1>6. InboxTypes
  <2>1. scans \in [1..MaxScans -> Inbox!Scan]
    BY <1>2, <1>3
  <2>2. /\ review \in [pending : 0..MaxScans, cache : 0..MaxScans]
        /\ inbox \in [asked : 0..MaxScans, shown : [Tasks -> Inbox!Seen]]
    BY <1>1, <1>2, <1>3
  <2>3. now \in 0..MaxTime /\ timer \in 0..(MaxTime + 2) /\ posts \subseteq PostRecord
    BY <1>1, <1>3
  <2> QED BY <1>3, <1>4, <1>5, <2>1, <2>2, <2>3 DEF InboxTypes
<1>7. SlotsFit(running, queued) /\ UnderWay = {}
  <2>1. DOMAIN queued = {} /\ queued \in Seq(Inbox!Load)
    BY <1>3
  <2> QED BY <1>1, <1>3, <2>1, FS_EmptySet DEF SlotsFit, UnderWay, Loads
<1>8. \A n \in 1..MaxScans : ~Counts(scans, n)
  BY <1>2, <1>3 DEF Counts
<1> QED BY <1>3, <1>6, <1>7, <1>8 DEF InboxInv, PostsApart, LoadsFit, ReviewFits, LoadsFound, ScansKept, CacheKept

\* Steps that ask nothing and answer nothing.
LEMMA TickKeepsInbox ==
    ASSUME InboxLimits, InboxInv, Inbox!Tick
    PROVE  InboxInv'
<1>1. /\ now < MaxTime /\ now' = now + 1
      /\ UNCHANGED <<grants, running, queued, timer, scans, review, update, refreshing, inbox, dialog, posts>>
  BY DEF Inbox!Tick
<1>2. now \in Nat /\ now' \in Nat /\ now <= now' /\ MaxTime \in Nat /\ timer \in Int
  BY <1>1, LoadTypes, InboxParts DEF InboxInv
<1>3. InboxTypes'
  BY <1>1, <1>2 DEF InboxInv, InboxTypes
<1>4. /\ \A u \in Int, s \in Int : Found(u, now, s) => Found(u, now', s)
      /\ \A u \in Int, s \in Int : Kept(u, now, timer, s) => Kept(u, now', timer, s)
  BY <1>2, KeptLasts
<1>5. /\ \A t \in Tasks : grants.until[t] \in Int
      /\ \A n \in 1..MaxScans, t \in Tasks : scans[n].seen[t] \in Int
      /\ \A t \in Tasks : inbox.shown[t] \in Int
      /\ \A l \in UnderWay : l.seen \in Int /\ l.task \in Tasks
      /\ review.cache # 0 => review.cache \in 1..MaxScans
  <2>1. \A l \in UnderWay : l.seen \in Int /\ l.task \in Tasks
    BY LoadTypes, UnderWayTypes DEF InboxInv
  <2> QED BY <2>1, InboxParts DEF InboxInv
<1>6. UnderWay' = UnderWay
  BY <1>1 DEF UnderWay
<1>7. ASSUME ~update
      PROVE  /\ LoadsFound(UnderWay, scans, grants.until, now')
             /\ ScansKept(UnderWay, scans, grants.until, now', timer)
             /\ CacheKept(review, scans, grants.until, now', timer)
  <2>1. LoadsFound(UnderWay, scans, grants.until, now')
    BY <1>4, <1>5, <1>7 DEF InboxInv, LoadsFound
  <2>2. ScansKept(UnderWay, scans, grants.until, now', timer)
    BY <1>4, <1>5, <1>7 DEF InboxInv, ScansKept
  <2>3. CacheKept(review, scans, grants.until, now', timer)
    BY <1>4, <1>5, <1>7 DEF InboxInv, CacheKept, AllKept
  <2> QED BY <2>1, <2>2, <2>3
<1>8. ASSUME ~update, ~refreshing
      PROVE  InboxFits(inbox, scans, grants.until, now', timer)
  BY <1>4, <1>5, <1>8 DEF InboxInv, InboxFits, AllKept
<1> QED BY <1>1, <1>3, <1>6, <1>7, <1>8 DEF InboxInv

LEMMA TimerKeepsInbox ==
    ASSUME InboxLimits, InboxInv, Inbox!TimerFires
    PROVE  InboxInv'
<1>1. /\ timer' = 0 /\ update' = TRUE
      /\ UNCHANGED <<now, grants, running, queued, scans, review, refreshing, inbox, dialog, posts>>
  BY DEF Inbox!TimerFires
<1>2. InboxTypes'
  <2>1. timer' \in 0..(MaxTime + 2)
    BY <1>1, LoadTypes
  <2> QED BY <1>1, <2>1 DEF InboxInv, InboxTypes
<1>3. UnderWay' = UnderWay
  BY <1>1 DEF UnderWay
<1> QED BY <1>1, <1>2, <1>3 DEF InboxInv

LEMMA ElsewhereKeepsInbox ==
    ASSUME InboxLimits, InboxInv, NEW t \in Tasks, Inbox!Elsewhere(t)
    PROVE  InboxInv'
<1>1. PICK until \in {0, now + 1, now + 2} :
         grants' = [until |-> [grants.until EXCEPT ![t] = until], changes |-> grants.changes + 1]
  BY DEF Inbox!Elsewhere
<1>2. /\ grants.changes < MaxChanges /\ update' = TRUE
      /\ UNCHANGED <<now, running, queued, timer, scans, review, refreshing, inbox, dialog, posts>>
  BY DEF Inbox!Elsewhere
<1>3. /\ grants.until \in [Tasks -> 0..(MaxTime + 2)] /\ grants.changes \in 0..MaxChanges
      /\ now \in 0..MaxTime /\ MaxTime \in Nat /\ MaxChanges \in Nat
  BY LoadTypes DEF InboxInv, InboxTypes
<1>4. [grants.until EXCEPT ![t] = until] \in [Tasks -> 0..(MaxTime + 2)] /\ grants.changes + 1 \in 0..MaxChanges
  BY <1>1, <1>2, <1>3
<1>5. grants' \in [until : [Tasks -> 0..(MaxTime + 2)], changes : 0..MaxChanges]
  BY <1>1, <1>4
<1>6. InboxTypes'
  BY <1>2, <1>5 DEF InboxInv, InboxTypes
<1>7. UnderWay' = UnderWay
  BY <1>2 DEF UnderWay
<1> QED BY <1>2, <1>6, <1>7 DEF InboxInv

LEMMA CloseKeepsInbox ==
    ASSUME InboxLimits, InboxInv, Inbox!Close
    PROVE  InboxInv'
<1>1. /\ dialog' = Inbox!Closed /\ posts' = {[p EXCEPT !.mounted = FALSE] : p \in posts}
      /\ UNCHANGED <<now, grants, running, queued, timer, scans, review, update, refreshing, inbox>>
  BY DEF Inbox!Close
<1>2. \A p \in posts : /\ p \in PostRecord /\ [p EXCEPT !.mounted = FALSE] \in PostRecord
                       /\ [p EXCEPT !.mounted = FALSE].no = p.no /\ [p EXCEPT !.mounted = FALSE].at = p.at
                       /\ [p EXCEPT !.mounted = FALSE].task = p.task
  <2>1. \A p \in posts : p \in PostRecord
    BY DEF InboxInv, InboxTypes
  <2> QED BY <2>1 DEF PostRecord
<1>3. posts' \subseteq PostRecord /\ PostsApart(posts')
  <2>1. posts' \subseteq PostRecord
    BY <1>1, <1>2
  <2>2. ASSUME NEW a \in posts', NEW b \in posts', a.no = b.no PROVE a = b
    <3>1. PICK p \in posts : a = [p EXCEPT !.mounted = FALSE]
      BY <1>1
    <3>2. PICK q \in posts : b = [q EXCEPT !.mounted = FALSE]
      BY <1>1
    <3>3. p.no = q.no
      BY <1>2, <2>2, <3>1, <3>2
    <3>4. p = q
      BY <3>3 DEF InboxInv, PostsApart
    <3> QED BY <3>1, <3>2, <3>4
  <2> QED BY <2>1, <2>2 DEF PostsApart
<1>4. dialog' \in [task : Tasks, at : {"closed", "loading", "ready", "sending"}]
  <2>1. (CHOOSE t \in Tasks : TRUE) \in Tasks
    BY DEF InboxLimits
  <2> QED BY <1>1, <2>1 DEF Inbox!Closed
<1>5. UnderWay' = UnderWay
  BY <1>1 DEF UnderWay
<1>6. LoadsFit(UnderWay', scans', posts')
  <2>1. \A p \in posts : \E q \in posts' : q.no = p.no /\ q.at = p.at /\ q.task = p.task
    BY <1>1, <1>2
  <2>2. \A l \in UnderWay, p \in posts : l.of = Inbox!ForPost(p.no) /\ p.task = l.task /\ p.at = "checking"
          => \E q \in posts' : l.of = Inbox!ForPost(q.no) /\ q.task = l.task /\ q.at = "checking"
    BY <2>1 DEF Inbox!ForPost
  <2> QED BY <1>1, <1>5, <2>2 DEF InboxInv, LoadsFit
<1>7. InboxTypes'
  BY <1>1, <1>3, <1>4 DEF InboxInv, InboxTypes
<1> QED BY <1>1, <1>3, <1>5, <1>6, <1>7 DEF InboxInv

LEMMA LapseKeepsInbox ==
    ASSUME InboxLimits, InboxInv, Inbox!CacheLapses
    PROVE  InboxInv'
<1> DEFINE c == review.cache
<1>1. /\ c # 0 /\ review' = [review EXCEPT !.cache = 0] /\ scans' = [scans EXCEPT ![c] = Inbox!Spent]
      /\ UNCHANGED <<now, grants, running, queued, timer, update, refreshing, inbox, dialog, posts>>
  BY DEF Inbox!CacheLapses
<1>2. c \in 1..MaxScans /\ scans[c].at = "done" /\ scans \in [1..MaxScans -> Inbox!Scan]
  BY <1>1, InboxParts DEF InboxInv, ReviewFits, InboxTypes
<1>3. Inbox!Spent \in Inbox!Scan /\ Inbox!Spent.at = "done"
  <2>1. 0 \in Inbox!Seen
    BY LoadTypes DEF InboxLimits, Inbox!Seen
  <2> QED BY <2>1 DEF Inbox!Spent, Inbox!NoScan, Inbox!Scan, Inbox!Never
<1> HIDE DEF c
<1>4. /\ scans' \in [1..MaxScans -> Inbox!Scan] /\ scans'[c].at = "done"
      /\ \A n \in 1..MaxScans : n # c => scans'[n] = scans[n]
  BY <1>1, <1>2, <1>3
<1>5. review' \in [pending : 0..MaxScans, cache : 0..MaxScans] /\ review'.pending = review.pending /\ review'.cache = 0
  <2>1. review \in [pending : 0..MaxScans, cache : 0..MaxScans] /\ 0 \in 0..MaxScans
    BY LoadTypes DEF InboxInv, InboxTypes
  <2> QED BY <1>1, <2>1
<1>6. InboxTypes'
  BY <1>1, <1>4, <1>5 DEF InboxInv, InboxTypes
<1>7. \A n \in 1..MaxScans : scans[n].at = "reading" => scans'[n] = scans[n]
  BY <1>2, <1>4
<1>8. \A n \in 1..MaxScans : Counts(scans', n) => Counts(scans, n) /\ scans'[n] = scans[n]
  BY <1>4 DEF Counts
<1>9. \A n \in 1..MaxScans : Counts(scans, n) => Counts(scans', n)
  BY <1>7 DEF Counts
<1>10. UnderWay' = UnderWay /\ \A l \in UnderWay : l.of > 0 => l.of \in 1..MaxScans
  BY <1>1, LoadTypes, UnderWayTypes DEF UnderWay, InboxInv
<1>11. LoadsFit(UnderWay', scans', posts')
  BY <1>1, <1>7, <1>10 DEF InboxInv, LoadsFit
<1>12. ReviewFits(review', scans')
  BY <1>5, <1>9, InboxParts DEF InboxInv, ReviewFits
<1>13. ASSUME ~update
       PROVE  /\ LoadsFound(UnderWay, scans', grants.until, now)
              /\ ScansKept(UnderWay, scans', grants.until, now, timer)
              /\ CacheKept(review', scans', grants.until, now, timer)
  BY <1>5, <1>8, <1>10, <1>13 DEF InboxInv, LoadsFound, ScansKept, CacheKept
<1>14. ASSUME ~update, ~refreshing
       PROVE  InboxFits(inbox, scans', grants.until, now, timer)
  BY <1>9, <1>14, InboxParts DEF InboxInv, InboxFits
<1> QED BY <1>1, <1>6, <1>10, <1>11, <1>12, <1>13, <1>14 DEF InboxInv

\* A request without a read changes nothing of what the scans know.
LEMMA LoadAdds ==
    ASSUME NEW ls, NEW l, l.seen = Inbox!Unread, NEW ss, NEW until, NEW at, NEW watched
    PROVE  /\ LoadsFound(ls, ss, until, at) => LoadsFound(ls \cup {l}, ss, until, at)
           /\ ScansKept(ls, ss, until, at, watched) /\ ~(\E n \in 1..MaxScans : l.of = n) =>
                 ScansKept(ls \cup {l}, ss, until, at, watched)
<1>1. LoadsFound(ls, ss, until, at) => LoadsFound(ls \cup {l}, ss, until, at)
  BY DEF LoadsFound
<1>2. ScansKept(ls, ss, until, at, watched) /\ ~(\E n \in 1..MaxScans : l.of = n) =>
         ScansKept(ls \cup {l}, ss, until, at, watched)
  BY DEF ScansKept
<1> QED BY <1>1, <1>2

LEMMA OpenKeepsInbox ==
    ASSUME InboxLimits, InboxInv, NEW t \in Tasks, Inbox!Open(t)
    PROVE  InboxInv'
<1> DEFINE l == Inbox!New(Inbox!ForView, t)
<1>1. /\ \A a \in UnderWay : a.of # 0
      /\ dialog' = [task |-> t, at |-> "loading"] /\ Inbox!Acquire(l)
      /\ UNCHANGED <<now, grants, timer, scans, review, update, refreshing, inbox, posts>>
  BY DEF Inbox!Open, UnderWay, Loads, Inbox!ForView
<1>2. l \in Inbox!Load /\ l.seen = Inbox!Unread /\ l.of = 0
  <2>1. 0 \in (-MaxPosts)..MaxScans
    BY LoadTypes
  <2> QED BY <2>1, LoadTypes DEF Inbox!New, Inbox!ForView
<1> HIDE DEF l
<1>3. SlotsFit(running', queued') /\ UnderWay' = UnderWay \cup {l}
  BY <1>1, <1>2, Acquires DEF InboxInv, SameAsk
<1>4. InboxTypes'
  BY <1>1 DEF InboxInv, InboxTypes
<1>5. LoadsFit(UnderWay', scans', posts')
  BY <1>1, <1>2, <1>3 DEF InboxInv, LoadsFit
<1>6. ASSUME ~update
      PROVE  /\ LoadsFound(UnderWay', scans, grants.until, now)
             /\ ScansKept(UnderWay', scans, grants.until, now, timer)
  <2>1. ~(\E n \in 1..MaxScans : l.of = n)
    BY <1>2
  <2> QED BY <1>2, <1>3, <1>6, <2>1, LoadAdds DEF InboxInv
<1> QED BY <1>1, <1>3, <1>4, <1>5, <1>6 DEF InboxInv

LEMMA SubmitKeepsInbox ==
    ASSUME InboxLimits, InboxInv, NEW k \in 1..MaxPosts, Inbox!Submit(k)
    PROVE  InboxInv'
<1> DEFINE l == Inbox!New(Inbox!ForPost(k), dialog.task)
           p == [no |-> k, task |-> dialog.task, at |-> "checking", ok |-> FALSE, mounted |-> TRUE]
<1>1. /\ \A q \in posts : q.no # k
      /\ dialog' = [dialog EXCEPT !.at = "sending"] /\ posts' = posts \cup {p} /\ Inbox!Acquire(l)
      /\ UNCHANGED <<now, grants, timer, scans, review, update, refreshing, inbox>>
  BY DEF Inbox!Submit
<1>2. /\ dialog \in [task : Tasks, at : {"closed", "loading", "ready", "sending"}] /\ dialog.task \in Tasks
  BY DEF InboxInv, InboxTypes
<1>3. l \in Inbox!Load /\ l.seen = Inbox!Unread /\ l.of = -k /\ l.of < 0 /\ l.task = dialog.task
  <2>1. -k \in (-MaxPosts)..MaxScans
    BY LoadTypes
  <2> QED BY <1>2, <2>1, LoadTypes DEF Inbox!New, Inbox!ForPost
<1>4. p \in PostRecord /\ p.no = k /\ p.task = dialog.task /\ p.at = "checking"
  BY <1>2 DEF PostRecord
<1> HIDE DEF l, p
<1>5. \A a \in UnderWay : a.of # -k
  <2>1. \A a \in UnderWay : a.of < 0 => \E q \in posts : a.of = -q.no /\ q.no \in Nat
    BY DEF InboxInv, LoadsFit, Inbox!ForPost, InboxTypes, PostRecord
  <2> QED BY <1>1, <2>1
<1>6. SlotsFit(running', queued') /\ UnderWay' = UnderWay \cup {l}
  BY <1>1, <1>3, <1>5, Acquires DEF InboxInv, SameAsk
<1>7. InboxTypes' /\ PostsApart(posts')
  <2>1. dialog' \in [task : Tasks, at : {"closed", "loading", "ready", "sending"}]
    BY <1>1, <1>2
  <2> QED BY <1>1, <1>4, <2>1 DEF InboxInv, InboxTypes, PostsApart
<1>8. LoadsFit(UnderWay', scans', posts')
  <2>1. l.of = Inbox!ForPost(p.no)
    BY <1>3, <1>4 DEF Inbox!ForPost
  <2> QED BY <1>1, <1>3, <1>4, <1>6, <2>1 DEF InboxInv, LoadsFit
<1>9. ASSUME ~update
      PROVE  /\ LoadsFound(UnderWay', scans, grants.until, now)
             /\ ScansKept(UnderWay', scans, grants.until, now, timer)
  <2>1. ~(\E n \in 1..MaxScans : l.of = n)
    BY <1>3
  <2> QED BY <1>3, <1>6, <1>9, <2>1, LoadAdds DEF InboxInv
<1> QED BY <1>1, <1>6, <1>7, <1>8, <1>9 DEF InboxInv

\* An invalidate leaves no scan that counts.
LEMMA OutdatedScans ==
    ASSUME InboxLimits, InboxTypes
    PROVE  /\ Inbox!Outdated \in [1..MaxScans -> Inbox!Scan]
           /\ \A n \in 1..MaxScans : /\ ~Counts(Inbox!Outdated, n)
                                     /\ Inbox!Outdated[n].at = "none" => scans[n].at = "none"
                                     /\ scans[n].at = "reading" =>
                                           /\ Inbox!Outdated[n].at = "reading"
                                           /\ Inbox!Outdated[n].left = scans[n].left
<1> SUFFICES ASSUME NEW n \in 1..MaxScans
             PROVE  LET s == Inbox!Outdated[n]
                    IN  /\ s \in Inbox!Scan /\ (s.at = "reading" => s.outdated)
                        /\ s.at = "none" => scans[n].at = "none"
                        /\ scans[n].at = "reading" => s.at = "reading" /\ s.left = scans[n].left
  BY DEF Counts, Inbox!Outdated
<1>1. scans[n] \in Inbox!Scan /\ 0 \in Inbox!Seen
  <2>1. scans[n] \in Inbox!Scan
    BY DEF InboxTypes
  <2>2. 0 \in 0..(MaxTime + 2)
    BY LoadTypes
  <2> QED BY <2>1, <2>2, LoadTypes
<1>2. Inbox!Spent \in Inbox!Scan /\ Inbox!Spent.at = "done" /\ Inbox!NoScan \in Inbox!Scan /\ Inbox!NoScan.at = "none"
  BY <1>1 DEF Inbox!Spent, Inbox!NoScan, Inbox!Scan, Inbox!Never
<1>3. CASE scans[n].at = "reading"
  <2>1. Inbox!Outdated[n] = [scans[n] EXCEPT !.outdated = TRUE]
    BY <1>3 DEF Inbox!Outdated
  <2> QED BY <1>1, <1>3, <2>1 DEF Inbox!Scan
<1>4. CASE scans[n].at = "done"
  <2>1. Inbox!Outdated[n] = Inbox!Spent
    BY <1>4 DEF Inbox!Outdated
  <2> QED BY <1>2, <1>4, <2>1
<1>5. CASE scans[n].at = "none"
  <2>1. Inbox!Outdated[n] = Inbox!NoScan
    BY <1>5 DEF Inbox!Outdated
  <2> QED BY <1>2, <1>5, <2>1
<1> QED BY <1>1, <1>3, <1>4, <1>5 DEF Inbox!Scan

LEMMA AnnounceKeepsInbox ==
    ASSUME InboxLimits, InboxInv, Inbox!Announce
    PROVE  InboxInv'
<1>1. /\ update' = FALSE /\ refreshing' = TRUE /\ review' = Inbox!NoReview /\ scans' = Inbox!Outdated
      /\ UNCHANGED <<now, grants, running, queued, timer, inbox, dialog, posts>>
  BY DEF Inbox!Announce
<1>2. /\ scans' \in [1..MaxScans -> Inbox!Scan]
      /\ \A n \in 1..MaxScans : /\ ~Counts(scans', n)
                                /\ scans[n].at = "reading" => scans'[n].at = "reading" /\ scans'[n].left = scans[n].left
  BY <1>1, OutdatedScans DEF InboxInv
<1>3. review' \in [pending : 0..MaxScans, cache : 0..MaxScans] /\ review'.pending = 0 /\ review'.cache = 0
  BY <1>1, LoadTypes DEF Inbox!NoReview
<1>4. InboxTypes'
  BY <1>1, <1>2, <1>3 DEF InboxInv, InboxTypes
<1>5. UnderWay' = UnderWay /\ \A l \in UnderWay : l.of > 0 => l.of \in 1..MaxScans
  BY <1>1, LoadTypes, UnderWayTypes DEF UnderWay, InboxInv
<1>6. LoadsFit(UnderWay', scans', posts')
  BY <1>1, <1>2, <1>5 DEF InboxInv, LoadsFit
<1>7. /\ LoadsFound(UnderWay', scans', grants'.until, now')
      /\ ScansKept(UnderWay', scans', grants'.until, now', timer')
  BY <1>2, <1>5 DEF LoadsFound, ScansKept
<1> QED BY <1>1, <1>3, <1>4, <1>5, <1>6, <1>7 DEF InboxInv, ReviewFits, CacheKept

\* The inbox gets the cached summaries, or waits for a scan that counts.
LEMMA InboxAsks ==
    ASSUME InboxLimits, InboxTypes, NEW ss \in [1..MaxScans -> Inbox!Scan], NEW ls, ls \subseteq Inbox!Load,
           NEW r \in [pending : 0..MaxScans, cache : 0..MaxScans],
           LoadsFit(ls, ss, posts), ReviewFits(r, ss), Inbox!InboxLoads(r, ss),
           NEW until, NEW at, NEW watched,
           ~update => /\ LoadsFound(ls, ss, until, at)
                      /\ ScansKept(ls, ss, until, at, watched)
                      /\ CacheKept(r, ss, until, at, watched)
    PROVE  /\ scans' \in [1..MaxScans -> Inbox!Scan]
           /\ review' \in [pending : 0..MaxScans, cache : 0..MaxScans]
           /\ inbox' \in [asked : 0..MaxScans, shown : [Tasks -> Inbox!Seen]]
           /\ LoadsFit(ls, scans', posts) /\ ReviewFits(review', scans')
           /\ ~update => /\ LoadsFound(ls, scans', until, at)
                         /\ ScansKept(ls, scans', until, at, watched)
                         /\ CacheKept(review', scans', until, at, watched)
                         /\ InboxFits(inbox', scans', until, at, watched)
<1>1. /\ MaxScans \in Nat /\ inbox \in [asked : 0..MaxScans, shown : [Tasks -> Inbox!Seen]]
      /\ \A l \in ls : l.of > 0 => l.of \in 1..MaxScans
  BY LoadTypes DEF InboxTypes
<1>2. CASE r.cache # 0
  <2>1. inbox' = [asked |-> 0, shown |-> ss[r.cache].seen] /\ review' = r /\ scans' = ss
    BY <1>2 DEF Inbox!InboxLoads
  <2>2. r.cache \in 1..MaxScans
    BY <1>1, <1>2
  <2>3. ss[r.cache].seen \in [Tasks -> Inbox!Seen]
    BY <2>2 DEF Inbox!Scan
  <2>4. ~update => InboxFits(inbox', scans', until, at, watched)
    BY <1>2, <2>1 DEF InboxFits, CacheKept
  <2> QED BY <1>1, <2>1, <2>3, <2>4
<1>3. CASE r.cache = 0 /\ r.pending # 0
  <2>1. inbox' = [inbox EXCEPT !.asked = r.pending] /\ review' = r /\ scans' = ss
    BY <1>3 DEF Inbox!InboxLoads
  <2>2. /\ inbox' \in [asked : 0..MaxScans, shown : [Tasks -> Inbox!Seen]] /\ inbox'.asked = r.pending
    BY <1>1, <2>1
  <2>3. InboxFits(inbox', scans', until, at, watched)
    BY <1>3, <2>1, <2>2 DEF InboxFits, ReviewFits
  <2> QED BY <2>1, <2>2, <2>3
<1>4. CASE r.cache = 0 /\ r.pending = 0
  <2> DEFINE fresh == {n \in 1..MaxScans : ss[n].at = "none"}
             new == CHOOSE n \in fresh : \A m \in fresh : n <= m
             first == [at |-> "reading", outdated |-> FALSE, left |-> Tasks, seen |-> Inbox!Never]
  <2>1. /\ fresh # {} /\ inbox' = [inbox EXCEPT !.asked = new] /\ review' = [r EXCEPT !.pending = new]
        /\ scans' = [ss EXCEPT ![new] = first]
    BY <1>4 DEF Inbox!InboxLoads, Inbox!NoScan
  <2>2. new \in 1..MaxScans /\ ss[new].at = "none"
    <3>1. fresh \subseteq Nat
      BY <1>1
    <3>2. \E n \in fresh : \A m \in fresh : n <= m
      BY <2>1, <3>1, LeastScan
    <3>3. new \in fresh
      BY <3>2
    <3> QED BY <3>3
  <2>3. first \in Inbox!Scan /\ first.at = "reading" /\ ~first.outdated /\ first.left = Tasks
    <3>1. Inbox!Never \in [Tasks -> Inbox!Seen]
      BY LoadTypes DEF InboxLimits, Inbox!Never
    <3> QED BY <3>1 DEF Inbox!Scan
  <2> HIDE DEF fresh, new, first
  <2>4. /\ scans' \in [1..MaxScans -> Inbox!Scan] /\ scans'[new] = first
        /\ \A n \in 1..MaxScans : n # new => scans'[n] = ss[n]
    BY <2>1, <2>2, <2>3
  <2>5. /\ review' \in [pending : 0..MaxScans, cache : 0..MaxScans] /\ review'.pending = new /\ review'.cache = 0
        /\ inbox' \in [asked : 0..MaxScans, shown : [Tasks -> Inbox!Seen]] /\ inbox'.asked = new
    <3>1. new \in 0..MaxScans
      BY <1>1, <2>2
    <3>2. review' \in [pending : 0..MaxScans, cache : 0..MaxScans] /\ review'.pending = new /\ review'.cache = 0
      BY <1>4, <2>1, <3>1
    <3>3. inbox' \in [asked : 0..MaxScans, shown : [Tasks -> Inbox!Seen]] /\ inbox'.asked = new
      BY <1>1, <2>1, <3>1
    <3> QED BY <3>2, <3>3
  <2>6. \A l \in ls : l.of > 0 => l.of \in 1..MaxScans /\ l.of # new /\ scans'[l.of] = ss[l.of]
    BY <1>1, <2>2, <2>4 DEF LoadsFit
  <2>7. LoadsFit(ls, scans', posts)
    BY <2>6 DEF LoadsFit
  <2>8. Counts(scans', new)
    BY <2>3, <2>4 DEF Counts
  <2>9. ReviewFits(review', scans') /\ InboxFits(inbox', scans', until, at, watched)
    BY <2>2, <2>5, <2>8 DEF ReviewFits, InboxFits
  <2>10. ASSUME ~update
         PROVE  LoadsFound(ls, scans', until, at) /\ ScansKept(ls, scans', until, at, watched)
    <3>1. LoadsFound(ls, scans', until, at)
      BY <2>6, <2>10 DEF LoadsFound, Counts
    <3>2. \A n \in 1..MaxScans : n # new /\ Counts(scans', n) => Counts(ss, n) /\ scans'[n] = ss[n]
      BY <2>4 DEF Counts
    <3>3. Tasks \ scans'[new].left = {}
      BY <2>3, <2>4
    <3>4. ScansKept(ls, scans', until, at, watched)
      <4> SUFFICES ASSUME NEW n \in 1..MaxScans, Counts(scans', n), NEW t \in Tasks \ scans'[n].left,
                          \A l \in ls : ~(l.of = n /\ l.task = t)
                   PROVE  Kept(until[t], at, watched, scans'[n].seen[t])
        BY DEF ScansKept
      <4>1. n # new
        BY <3>3
      <4> QED BY <2>10, <3>2, <4>1 DEF ScansKept
    <3> QED BY <3>1, <3>4
  <2>11. CacheKept(review', scans', until, at, watched)
    BY <2>5 DEF CacheKept
  <2> QED BY <2>4, <2>5, <2>7, <2>9, <2>10, <2>11
<1> QED BY <1>2, <1>3, <1>4

LEMMA RefreshedKeepsInbox ==
    ASSUME InboxLimits, InboxInv, Inbox!Refreshed
    PROVE  InboxInv'
<1>1. /\ refreshing' = FALSE /\ Inbox!InboxLoads(review, scans)
      /\ UNCHANGED <<now, grants, running, queued, timer, update, dialog, posts>>
  BY DEF Inbox!Refreshed
<1>2. UnderWay' = UnderWay /\ UnderWay \subseteq Inbox!Load
  BY <1>1, UnderWayTypes DEF UnderWay, InboxInv
<1>3. scans \in [1..MaxScans -> Inbox!Scan] /\ review \in [pending : 0..MaxScans, cache : 0..MaxScans]
  BY DEF InboxInv, InboxTypes
<1>4. /\ InboxTypes /\ LoadsFit(UnderWay, scans, posts) /\ ReviewFits(review, scans)
      /\ ~update => /\ LoadsFound(UnderWay, scans, grants.until, now)
                    /\ ScansKept(UnderWay, scans, grants.until, now, timer)
                    /\ CacheKept(review, scans, grants.until, now, timer)
  BY DEF InboxInv
<1>5. /\ scans' \in [1..MaxScans -> Inbox!Scan]
      /\ review' \in [pending : 0..MaxScans, cache : 0..MaxScans]
      /\ inbox' \in [asked : 0..MaxScans, shown : [Tasks -> Inbox!Seen]]
      /\ LoadsFit(UnderWay, scans', posts) /\ ReviewFits(review', scans')
      /\ ~update => /\ LoadsFound(UnderWay, scans', grants.until, now)
                    /\ ScansKept(UnderWay, scans', grants.until, now, timer)
                    /\ CacheKept(review', scans', grants.until, now, timer)
                    /\ InboxFits(inbox', scans', grants.until, now, timer)
  BY <1>1, <1>2, <1>3, <1>4, InboxAsks
<1>6. InboxTypes'
  BY <1>1, <1>5 DEF InboxInv, InboxTypes
<1> QED BY <1>1, <1>2, <1>5, <1>6 DEF InboxInv

LEMMA AnswerKeepsInbox ==
    ASSUME InboxLimits, InboxInv, NEW p \in posts, Inbox!AnswerPost(p)
    PROVE  InboxInv'
<1>1. /\ p.at = "answering" /\ posts' = posts \ {p}
      /\ UNCHANGED <<now, grants, running, queued, timer, update, refreshing>>
  BY DEF Inbox!AnswerPost
<1>2. UnderWay' = UnderWay /\ UnderWay \subseteq Inbox!Load /\ \A l \in UnderWay : l.of > 0 => l.of \in 1..MaxScans
  BY <1>1, LoadTypes, UnderWayTypes DEF UnderWay, InboxInv
<1>3. posts' \subseteq PostRecord /\ PostsApart(posts') /\ LoadsFit(UnderWay, scans, posts')
  BY <1>1 DEF InboxInv, InboxTypes, PostsApart, LoadsFit
<1>4. CASE p.ok
  <2>1. dialog' = Inbox!Closed /\ Inbox!InboxLoads(Inbox!NoReview, Inbox!Outdated)
    BY <1>4 DEF Inbox!AnswerPost
  <2>2. /\ Inbox!Outdated \in [1..MaxScans -> Inbox!Scan]
        /\ \A n \in 1..MaxScans :
              /\ ~Counts(Inbox!Outdated, n)
              /\ scans[n].at = "reading" => Inbox!Outdated[n].at = "reading" /\ Inbox!Outdated[n].left = scans[n].left
    BY OutdatedScans DEF InboxInv
  <2>3. /\ Inbox!NoReview \in [pending : 0..MaxScans, cache : 0..MaxScans]
        /\ Inbox!NoReview.pending = 0 /\ Inbox!NoReview.cache = 0
    BY LoadTypes DEF Inbox!NoReview
  <2> DEFINE ss == Inbox!Outdated
             none == Inbox!NoReview
  <2>4. LoadsFit(UnderWay, ss, posts)
    BY <1>2, <2>2 DEF InboxInv, LoadsFit
  <2>5. /\ ReviewFits(none, ss) /\ LoadsFound(UnderWay, ss, grants.until, now)
        /\ ScansKept(UnderWay, ss, grants.until, now, timer) /\ CacheKept(none, ss, grants.until, now, timer)
    BY <1>2, <2>2, <2>3 DEF ReviewFits, LoadsFound, ScansKept, CacheKept
  <2>6. InboxTypes
    BY DEF InboxInv
  <2> HIDE DEF ss, none
  <2>7. /\ scans' \in [1..MaxScans -> Inbox!Scan]
        /\ review' \in [pending : 0..MaxScans, cache : 0..MaxScans]
        /\ inbox' \in [asked : 0..MaxScans, shown : [Tasks -> Inbox!Seen]]
        /\ LoadsFit(UnderWay, scans', posts) /\ ReviewFits(review', scans')
        /\ ~update => /\ LoadsFound(UnderWay, scans', grants.until, now)
                      /\ ScansKept(UnderWay, scans', grants.until, now, timer)
                      /\ CacheKept(review', scans', grants.until, now, timer)
                      /\ InboxFits(inbox', scans', grants.until, now, timer)
    <3>1. ss \in [1..MaxScans -> Inbox!Scan] /\ none \in [pending : 0..MaxScans, cache : 0..MaxScans]
      BY <2>2, <2>3 DEF ss, none
    <3>2. Inbox!InboxLoads(none, ss)
      BY <2>1 DEF ss, none
    <3> QED BY <1>2, <2>4, <2>5, <2>6, <3>1, <3>2, InboxAsks
  <2>8. dialog' \in [task : Tasks, at : {"closed", "loading", "ready", "sending"}]
    <3>1. (CHOOSE t \in Tasks : TRUE) \in Tasks
      BY DEF InboxLimits
    <3> QED BY <2>1, <3>1 DEF Inbox!Closed
  <2>9. LoadsFit(UnderWay, scans', posts')
    BY <1>1, <2>7 DEF LoadsFit
  <2>10. InboxTypes'
    BY <1>1, <1>3, <2>7, <2>8 DEF InboxInv, InboxTypes
  <2> QED BY <1>1, <1>2, <1>3, <2>7, <2>9, <2>10 DEF InboxInv
<1>5. CASE ~p.ok
  <2>1. /\ dialog' = IF p.mounted THEN [dialog EXCEPT !.at = "ready"] ELSE dialog
        /\ UNCHANGED <<review, scans, inbox>>
    BY <1>5 DEF Inbox!AnswerPost
  <2>2. dialog' \in [task : Tasks, at : {"closed", "loading", "ready", "sending"}]
    BY <2>1 DEF InboxInv, InboxTypes
  <2>3. InboxTypes'
    BY <1>1, <1>3, <2>1, <2>2 DEF InboxInv, InboxTypes
  <2> QED BY <1>1, <1>2, <1>3, <2>1, <2>3 DEF InboxInv
<1> QED BY <1>4, <1>5

LEMMA LoadKeepsInbox ==
    ASSUME InboxLimits, InboxInv, NEW n \in 1..MaxScans, NEW t \in Tasks, Inbox!LoadForScan(n, t)
    PROVE  InboxInv'
<1> DEFINE l == Inbox!New(n, t)
           now_ == [scans[n] EXCEPT !.left = @ \ {t}]
<1>1. /\ scans[n].at = "reading" /\ t \in scans[n].left /\ Inbox!Acquire(l)
      /\ scans' = [scans EXCEPT ![n].left = @ \ {t}]
      /\ UNCHANGED <<now, grants, timer, review, update, refreshing, inbox, dialog, posts>>
  BY DEF Inbox!LoadForScan
<1>2. scans \in [1..MaxScans -> Inbox!Scan] /\ scans[n] \in Inbox!Scan
  BY DEF InboxInv, InboxTypes
<1>3. /\ now_ \in Inbox!Scan /\ now_.at = "reading" /\ now_.outdated = scans[n].outdated
      /\ now_.left = scans[n].left \ {t} /\ now_.seen = scans[n].seen
  BY <1>1, <1>2 DEF Inbox!Scan
<1>4. scans' = [scans EXCEPT ![n] = now_]
  BY <1>1, <1>2
<1> HIDE DEF now_
<1>5. /\ scans' \in [1..MaxScans -> Inbox!Scan] /\ scans'[n] = now_
      /\ \A m \in 1..MaxScans : m # n => scans'[m] = scans[m]
  BY <1>2, <1>3, <1>4
<1>6. \A m \in 1..MaxScans : /\ scans'[m].at = scans[m].at /\ scans'[m].outdated = scans[m].outdated
                             /\ scans'[m].seen = scans[m].seen
                             /\ m # n => scans'[m].left = scans[m].left
                             /\ m = n => scans'[m].left = scans[m].left \ {t}
  BY <1>1, <1>3, <1>5
<1>7. l \in Inbox!Load /\ l.seen = Inbox!Unread /\ l.of = n /\ l.task = t
  <2>1. n \in (-MaxPosts)..MaxScans
    BY LoadTypes
  <2> QED BY <2>1, LoadTypes DEF Inbox!New
<1> HIDE DEF l
<1>8. SlotsFit(running', queued') /\ UnderWay' = UnderWay \cup {l}
  <2>1. \A a \in UnderWay : ~SameAsk(a, l)
    BY <1>1, <1>7 DEF InboxInv, LoadsFit, SameAsk
  <2> QED BY <1>1, <1>7, <2>1, Acquires DEF InboxInv
<1>9. InboxTypes'
  BY <1>1, <1>5 DEF InboxInv, InboxTypes
<1>10. \A a \in UnderWay : a.of > 0 => a.of \in 1..MaxScans
  BY LoadTypes, UnderWayTypes DEF InboxInv
<1>11. LoadsFit(UnderWay', scans', posts')
  <2>1. \A a \in UnderWay : a.of > 0 => scans'[a.of].at = "reading" /\ a.task \notin scans'[a.of].left
    BY <1>6, <1>10 DEF InboxInv, LoadsFit
  <2>2. l.of > 0 /\ ~(l.of < 0) /\ scans'[l.of].at = "reading" /\ l.task \notin scans'[l.of].left
    BY <1>1, <1>6, <1>7
  <2>3. \A a \in UnderWay : a.of < 0 => \E p \in posts : a.of = Inbox!ForPost(p.no) /\ p.task = a.task /\ p.at = "checking"
    BY DEF InboxInv, LoadsFit
  <2>4. posts' = posts
    BY <1>1
  <2> QED BY <1>8, <2>1, <2>2, <2>3, <2>4 DEF LoadsFit
<1>12. \A m \in 1..MaxScans : Counts(scans', m) <=> Counts(scans, m)
  BY <1>6 DEF Counts
<1>13. /\ ReviewFits(review', scans')
       /\ CacheKept(review, scans, grants.until, now, timer) => CacheKept(review', scans', grants.until, now, timer)
  BY <1>1, <1>6, <1>12, InboxParts DEF InboxInv, ReviewFits, CacheKept
<1>14. ASSUME ~update
       PROVE  /\ LoadsFound(UnderWay', scans', grants.until, now)
              /\ ScansKept(UnderWay', scans', grants.until, now, timer)
  <2>1. LoadsFound(UnderWay', scans', grants.until, now)
    BY <1>7, <1>8, <1>10, <1>12, <1>14 DEF InboxInv, LoadsFound
  <2>2. ScansKept(UnderWay', scans', grants.until, now, timer)
    <3> SUFFICES ASSUME NEW m \in 1..MaxScans, Counts(scans', m), NEW u \in Tasks \ scans'[m].left,
                        \A a \in UnderWay' : ~(a.of = m /\ a.task = u)
                 PROVE  Kept(grants.until[u], now, timer, scans'[m].seen[u])
      BY DEF ScansKept
    <3>1. Counts(scans, m) /\ ~(l.of = m /\ l.task = u) /\ \A a \in UnderWay : ~(a.of = m /\ a.task = u)
      BY <1>8, <1>12
    <3>2. u \notin scans[m].left
      BY <1>6, <1>7, <3>1
    <3> QED BY <1>6, <1>14, <3>1, <3>2 DEF InboxInv, ScansKept
  <2> QED BY <2>1, <2>2
<1>15. ASSUME ~update, ~refreshing PROVE InboxFits(inbox, scans', grants.until, now, timer)
  BY <1>12, <1>15, InboxParts DEF InboxInv, InboxFits
<1> QED BY <1>1, <1>8, <1>9, <1>11, <1>13, <1>14, <1>15 DEF InboxInv

LEMMA ReadKeepsInbox ==
    ASSUME InboxLimits, InboxInv, NEW l \in running, Inbox!Read(l)
    PROVE  InboxInv'
<1>1. PICK got \in {Inbox!Available(l.task), Inbox!Unreadable} :
         running' = (running \ {l}) \cup {[l EXCEPT !.seen = got]}
  BY DEF Inbox!Read
<1>2. UNCHANGED <<now, grants, queued, timer, scans, review, update, refreshing, inbox, dialog, posts>>
  BY DEF Inbox!Read
<1> DEFINE m == [l EXCEPT !.seen = got]
<1>3. l \in Inbox!Load /\ l.task \in Tasks /\ l \in UnderWay
  BY LoadTypes, UnderWayTypes DEF InboxInv
<1>4. /\ grants.until[l.task] \in 0..(MaxTime + 2) /\ now \in 0..MaxTime /\ MaxTime \in Nat
  BY <1>3, LoadTypes DEF InboxInv, InboxTypes
<1>5. got \in Inbox!Seen /\ Found(grants.until[l.task], now, got)
  <2>1. CASE got = Inbox!Unreadable
    BY <2>1, LoadTypes DEF Found
  <2>2. CASE got = Inbox!Available(l.task) /\ grants.until[l.task] > now
    BY <1>4, <2>2, LoadTypes DEF Inbox!Available, Found
  <2>3. CASE got = Inbox!Available(l.task) /\ ~(grants.until[l.task] > now)
    <3>1. got = 0 /\ 0 \in 0..(MaxTime + 2)
      BY <1>4, <2>3 DEF Inbox!Available
    <3> QED BY <1>4, <2>3, <3>1, LoadTypes DEF Found
  <2> QED BY <2>1, <2>2, <2>3
<1>6. m \in Inbox!Load /\ SameAsk(l, m) /\ m.seen = got /\ m.of = l.of /\ m.task = l.task
  BY <1>3, <1>5 DEF Inbox!Load, SameAsk
<1>7. running' = (running \ {l}) \cup {m}
  BY <1>1
<1> HIDE DEF m
<1>8. SlotsFit(running', queued') /\ UnderWay' = (UnderWay \ {l}) \cup {m}
  BY <1>2, <1>6, <1>7, Finds DEF InboxInv
<1>9. InboxTypes'
  BY <1>2 DEF InboxInv, InboxTypes
<1>10. LoadsFit(UnderWay', scans, posts)
  BY <1>3, <1>6, <1>8 DEF InboxInv, LoadsFit
<1>11. ASSUME ~update
       PROVE  /\ LoadsFound(UnderWay', scans, grants.until, now)
              /\ ScansKept(UnderWay', scans, grants.until, now, timer)
  <2>1. LoadsFound(UnderWay', scans, grants.until, now)
    BY <1>5, <1>6, <1>8, <1>11 DEF InboxInv, LoadsFound
  <2>2. ScansKept(UnderWay', scans, grants.until, now, timer)
    <3> SUFFICES ASSUME NEW n \in 1..MaxScans, Counts(scans, n), NEW u \in Tasks \ scans[n].left,
                        \A a \in UnderWay' : ~(a.of = n /\ a.task = u)
                 PROVE  Kept(grants.until[u], now, timer, scans[n].seen[u])
      BY DEF ScansKept
    <3>1. \A a \in UnderWay : ~(a.of = n /\ a.task = u)
      BY <1>6, <1>8
    <3> QED BY <1>11, <3>1 DEF InboxInv, ScansKept
  <2> QED BY <2>1, <2>2
<1> QED BY <1>2, <1>8, <1>9, <1>10, <1>11 DEF InboxInv

LEMMA GrantKeepsInbox ==
    ASSUME InboxLimits, InboxInv, NEW p \in posts, Inbox!Grant(p)
    PROVE  InboxInv'
<1>1. PICK ok \in BOOLEAN :
         /\ posts' = (posts \ {p}) \cup {[p EXCEPT !.at = "answering", !.ok = ok]}
         /\ IF ok
            THEN /\ grants.changes < MaxChanges
                 /\ grants' = [until |-> [grants.until EXCEPT ![p.task] = now + 1], changes |-> grants.changes + 1]
                 /\ update' = TRUE
            ELSE UNCHANGED <<grants, update>>
  BY DEF Inbox!Grant
<1>2. /\ p.at = "granting"
      /\ UNCHANGED <<now, running, queued, timer, scans, review, refreshing, inbox, dialog>>
  BY DEF Inbox!Grant
<1> DEFINE q == [p EXCEPT !.at = "answering", !.ok = ok]
<1>3. p \in PostRecord
  BY DEF InboxInv, InboxTypes
<1>4. q \in PostRecord /\ q.no = p.no /\ q.task = p.task
  BY <1>3 DEF PostRecord
<1>5. posts' = (posts \ {p}) \cup {q}
  BY <1>1
<1> HIDE DEF q
<1>6. posts' \subseteq PostRecord /\ PostsApart(posts')
  <2>1. \A a \in posts \ {p} : a.no # p.no
    BY DEF InboxInv, PostsApart
  <2> QED BY <1>4, <1>5, <2>1 DEF InboxInv, InboxTypes, PostsApart
<1>7. UnderWay' = UnderWay
  BY <1>2 DEF UnderWay
<1>8. LoadsFit(UnderWay', scans', posts')
  BY <1>2, <1>5, <1>7 DEF InboxInv, LoadsFit
<1>9. CASE ok
  <2>1. /\ grants.until \in [Tasks -> 0..(MaxTime + 2)] /\ grants.changes \in 0..MaxChanges
        /\ now \in 0..MaxTime /\ MaxTime \in Nat /\ MaxChanges \in Nat /\ p.task \in Tasks
    BY <1>3, LoadTypes DEF InboxInv, InboxTypes, PostRecord
  <2>2. /\ [grants.until EXCEPT ![p.task] = now + 1] \in [Tasks -> 0..(MaxTime + 2)]
        /\ grants.changes + 1 \in 0..MaxChanges
    BY <1>1, <1>9, <2>1
  <2>3. grants' \in [until : [Tasks -> 0..(MaxTime + 2)], changes : 0..MaxChanges] /\ update' = TRUE
    BY <1>1, <1>9, <2>2
  <2>4. InboxTypes'
    BY <1>2, <1>6, <2>3 DEF InboxInv, InboxTypes
  <2> QED BY <1>2, <1>6, <1>7, <1>8, <2>3, <2>4 DEF InboxInv
<1>10. CASE ~ok
  <2>1. UNCHANGED <<grants, update>>
    BY <1>1, <1>10
  <2>2. InboxTypes'
    BY <1>2, <1>6, <2>1 DEF InboxInv, InboxTypes
  <2> QED BY <1>2, <1>6, <1>7, <1>8, <2>1, <2>2 DEF InboxInv
<1> QED BY <1>9, <1>10

LEMMA ScanKeepsInbox ==
    ASSUME InboxLimits, InboxInv, NEW n \in 1..MaxScans, Inbox!ScanEnds(n)
    PROVE  InboxInv'
<1>1. /\ scans[n].at = "reading" /\ scans[n].left = {} /\ \A l \in UnderWay : l.of # n
      /\ scans' = IF Inbox!Filled(n) = n THEN [scans EXCEPT ![n].at = "done"] ELSE [scans EXCEPT ![n] = Inbox!Spent]
      /\ review' = [review EXCEPT !.cache = Inbox!Filled(n), !.pending = IF @ = n THEN 0 ELSE @]
      /\ inbox' = IF inbox.asked = n THEN [asked |-> 0, shown |-> scans[n].seen] ELSE inbox
      /\ UNCHANGED <<now, grants, running, queued, timer, update, refreshing, dialog, posts>>
  BY DEF Inbox!ScanEnds, Inbox!Loading, UnderWay, Loads
<1>2. scans \in [1..MaxScans -> Inbox!Scan] /\ scans[n] \in Inbox!Scan
  BY DEF InboxInv, InboxTypes
<1>3. Inbox!Spent \in Inbox!Scan /\ Inbox!Spent.at = "done"
  <2>1. Inbox!Never \in [Tasks -> Inbox!Seen]
    BY LoadTypes DEF InboxLimits, Inbox!Never
  <2> QED BY <2>1 DEF Inbox!Spent, Inbox!NoScan, Inbox!Scan
<1>4. /\ review = [pending |-> review.pending, cache |-> review.cache] /\ MaxScans \in Nat
      /\ review.pending \in 0..MaxScans /\ review.cache \in 0..MaxScans
  BY LoadTypes DEF InboxInv, InboxTypes
<1>5. review.cache # n
  BY <1>1 DEF InboxInv, ReviewFits
<1>6. Inbox!Filled(n) = IF scans[n].outdated THEN review.cache ELSE n
  BY DEF Inbox!Filled
<1> DEFINE x == scans'[n]
<1>7. /\ scans' \in [1..MaxScans -> Inbox!Scan] /\ x.at = "done"
      /\ \A m \in 1..MaxScans : m # n => scans'[m] = scans[m]
      /\ ~scans[n].outdated => x.seen = scans[n].seen
  <2>1. CASE scans[n].outdated
    <3>1. scans' = [scans EXCEPT ![n] = Inbox!Spent]
      BY <1>1, <1>5, <1>6, <2>1
    <3> QED BY <1>2, <1>3, <2>1, <3>1
  <2>2. CASE ~scans[n].outdated
    <3> DEFINE y == [scans[n] EXCEPT !.at = "done"]
    <3>1. y \in Inbox!Scan /\ y.at = "done" /\ y.seen = scans[n].seen
      BY <1>2 DEF Inbox!Scan
    <3>2. scans' = [scans EXCEPT ![n] = y]
      BY <1>1, <1>2, <1>6, <2>2
    <3> HIDE DEF y
    <3> QED BY <1>2, <2>2, <3>1, <3>2
  <2> QED BY <2>1, <2>2
<1>8. /\ review'.pending = IF review.pending = n THEN 0 ELSE review.pending
      /\ review'.cache = IF scans[n].outdated THEN review.cache ELSE n
      /\ review' \in [pending : 0..MaxScans, cache : 0..MaxScans]
  <2> DEFINE f == Inbox!Filled(n)
  <2>1. f \in 0..MaxScans /\ f = IF scans[n].outdated THEN review.cache ELSE n
    BY <1>4, <1>6
  <2>2. review' = [review EXCEPT !.cache = f, !.pending = IF @ = n THEN 0 ELSE @]
    BY <1>1
  <2> HIDE DEF f
  <2>3. review' = [pending |-> IF review.pending = n THEN 0 ELSE review.pending, cache |-> f]
    BY <1>4, <2>2
  <2> QED BY <1>4, <2>1, <2>3
<1> HIDE DEF x
<1>9. inbox' \in [asked : 0..MaxScans, shown : [Tasks -> Inbox!Seen]]
  <2>1. scans[n].seen \in [Tasks -> Inbox!Seen] /\ 0 \in 0..MaxScans
    BY <1>2, <1>4 DEF Inbox!Scan
  <2>2. inbox \in [asked : 0..MaxScans, shown : [Tasks -> Inbox!Seen]]
    BY DEF InboxInv, InboxTypes
  <2> QED BY <1>1, <2>1, <2>2
<1>10. InboxTypes'
  BY <1>1, <1>7, <1>8, <1>9 DEF InboxInv, InboxTypes
<1>11. UnderWay' = UnderWay /\ \A l \in UnderWay : l.of > 0 => l.of \in 1..MaxScans /\ l.of # n
  BY <1>1, LoadTypes, UnderWayTypes DEF UnderWay, InboxInv
<1>12. /\ ~Counts(scans', n) /\ \A m \in 1..MaxScans : m # n => (Counts(scans', m) <=> Counts(scans, m))
  BY <1>7 DEF Counts, x
<1>13. LoadsFit(UnderWay', scans', posts')
  BY <1>1, <1>7, <1>11 DEF InboxInv, LoadsFit
<1>14. ReviewFits(review', scans')
  <2>1. review'.pending # 0 => review'.pending \in 1..MaxScans /\ review'.pending # n /\ review'.pending = review.pending
    BY <1>4, <1>8
  <2>2. review'.pending # 0 => Counts(scans', review'.pending)
    BY <1>12, <2>1 DEF InboxInv, ReviewFits
  <2>3. review'.cache # 0 => scans'[review'.cache].at = "done"
    BY <1>4, <1>5, <1>7, <1>8 DEF InboxInv, ReviewFits, x
  <2> QED BY <2>2, <2>3 DEF ReviewFits
<1>15. ~update /\ ~scans[n].outdated => AllKept(scans[n].seen, grants.until, now, timer)
  BY <1>1 DEF InboxInv, ScansKept, Counts, AllKept
<1>16. ASSUME ~update
       PROVE  /\ LoadsFound(UnderWay', scans', grants.until, now)
              /\ ScansKept(UnderWay', scans', grants.until, now, timer)
              /\ CacheKept(review', scans', grants.until, now, timer)
  <2>1. LoadsFound(UnderWay', scans', grants.until, now)
    BY <1>11, <1>12, <1>16 DEF InboxInv, LoadsFound
  <2>2. ScansKept(UnderWay', scans', grants.until, now, timer)
    BY <1>7, <1>11, <1>12, <1>16 DEF InboxInv, ScansKept
  <2>3. CacheKept(review', scans', grants.until, now, timer)
    <3>1. CASE scans[n].outdated
      BY <1>4, <1>5, <1>7, <1>8, <1>16, <3>1 DEF InboxInv, CacheKept
    <3>2. CASE ~scans[n].outdated
      BY <1>7, <1>8, <1>15, <1>16, <3>2 DEF CacheKept, x
    <3> QED BY <3>1, <3>2
  <2> QED BY <2>1, <2>2, <2>3
<1>17. ASSUME ~update, ~refreshing PROVE InboxFits(inbox', scans', grants.until, now, timer)
  <2>1. InboxFits(inbox, scans, grants.until, now, timer)
    BY <1>17 DEF InboxInv
  <2>2. CASE inbox.asked = n
    <3>1. ~scans[n].outdated /\ inbox' = [asked |-> 0, shown |-> scans[n].seen]
      BY <1>1, <2>1, <2>2 DEF InboxFits, Counts
    <3> QED BY <1>15, <1>17, <3>1 DEF InboxFits
  <2>3. CASE inbox.asked # n
    <3>1. inbox' = inbox /\ inbox.asked \in 0..MaxScans
      BY <1>1, <2>3 DEF InboxInv, InboxTypes
    <3> QED BY <1>4, <1>12, <2>1, <2>3, <3>1 DEF InboxFits
  <2> QED BY <2>2, <2>3
<1> QED BY <1>1, <1>10, <1>11, <1>13, <1>14, <1>16, <1>17 DEF InboxInv

LEMMA EndKeepsInbox ==
    ASSUME InboxLimits, InboxInv, NEW l \in running, Inbox!EndLoad(l)
    PROVE  InboxInv'
<1> DEFINE ended == IF l.seen = 0 THEN "granting" ELSE "answering"
           moved(p) == IF l.of = Inbox!ForPost(p.no) THEN [p EXCEPT !.at = ended] ELSE p
<1>1. /\ l.seen # Inbox!Unread /\ timer' = Inbox!Watched(l.seen) /\ Inbox!Release(l)
      /\ scans' = IF l.of \in 1..MaxScans THEN [scans EXCEPT ![l.of].seen[l.task] = l.seen] ELSE scans
      /\ dialog' = IF l.of = Inbox!ForView /\ dialog = [task |-> l.task, at |-> "loading"] /\ l.seen = 0
                   THEN [dialog EXCEPT !.at = "ready"] ELSE dialog
      /\ posts' = {moved(p) : p \in posts}
      /\ UNCHANGED <<now, grants, review, update, refreshing, inbox>>
  BY DEF Inbox!EndLoad
<1>2. /\ l \in Inbox!Load /\ l.task \in Tasks /\ l.seen \in Inbox!Seen /\ l \in UnderWay
      /\ l.seen \in Int /\ l.of \in Int /\ (l.of > 0 => l.of \in 1..MaxScans) /\ (l.of \in 1..MaxScans => l.of > 0)
  BY LoadTypes, UnderWayTypes DEF InboxInv
<1>3. SlotsFit(running', queued') /\ UnderWay' = UnderWay \ {l}
  BY <1>1, Releases DEF InboxInv
<1>4. \A a \in UnderWay' : a \in UnderWay /\ ~SameAsk(a, l)
  <2>1. \A a \in UnderWay : SameAsk(a, l) => a = l
    BY DEF InboxInv, SlotsFit, UnderWay, Loads, SameAsk
  <2> QED BY <1>3, <2>1
<1>5. /\ timer' \in 0..(MaxTime + 2) /\ (0 < timer => 0 < timer' /\ timer' <= timer)
      /\ l.seen > 0 => 0 < timer' /\ timer' <= l.seen
  <2>1. timer \in 0..(MaxTime + 2) /\ MaxTime \in Nat /\ l.seen \in Int /\ l.seen <= MaxTime + 2
    BY <1>2, LoadTypes DEF InboxInv, InboxTypes, Inbox!Seen, Inbox!Unread
  <2>2. now \in Nat /\ ~(l.seen - now > MaxTimer)
    BY <2>1 DEF InboxInv, InboxTypes, InboxLimits
  <2> QED BY <1>1, <2>1, <2>2 DEF Inbox!Watched
<1>6. \A p \in posts : /\ p \in PostRecord /\ moved(p) \in PostRecord
                       /\ moved(p).no = p.no /\ moved(p).task = p.task
                       /\ l.of # Inbox!ForPost(p.no) => moved(p) = p
  <2>1. \A p \in posts : p \in PostRecord
    BY DEF InboxInv, InboxTypes
  <2>2. ended \in {"checking", "granting", "answering"}
    OBVIOUS
  <2> HIDE DEF ended
  <2>3. \A p \in posts : [p EXCEPT !.at = ended] \in PostRecord /\ [p EXCEPT !.at = ended].no = p.no
                         /\ [p EXCEPT !.at = ended].task = p.task
    BY <2>1, <2>2 DEF PostRecord
  <2> QED BY <2>1, <2>3
<1> HIDE DEF moved
<1>7. posts' \subseteq PostRecord /\ PostsApart(posts')
  <2>1. posts' \subseteq PostRecord
    BY <1>1, <1>6
  <2>2. ASSUME NEW a \in posts', NEW b \in posts', a.no = b.no PROVE a = b
    <3>1. PICK p \in posts : a = moved(p)
      BY <1>1
    <3>2. PICK q \in posts : b = moved(q)
      BY <1>1
    <3>3. p = q
      BY <1>6, <2>2, <3>1, <3>2 DEF InboxInv, PostsApart
    <3> QED BY <3>1, <3>2, <3>3
  <2> QED BY <2>1, <2>2 DEF PostsApart
<1>8. dialog' \in [task : Tasks, at : {"closed", "loading", "ready", "sending"}]
  <2>1. dialog \in [task : Tasks, at : {"closed", "loading", "ready", "sending"}]
    BY DEF InboxInv, InboxTypes
  <2> QED BY <1>1, <2>1
<1>9. /\ scans' \in [1..MaxScans -> Inbox!Scan]
      /\ \A m \in 1..MaxScans : /\ scans'[m].at = scans[m].at /\ scans'[m].outdated = scans[m].outdated
                                /\ scans'[m].left = scans[m].left
                                /\ \A t \in Tasks : ~(m = l.of /\ t = l.task) => scans'[m].seen[t] = scans[m].seen[t]
      /\ l.of \in 1..MaxScans => scans'[l.of].seen[l.task] = l.seen
      /\ \A m \in 1..MaxScans : m # l.of => scans'[m] = scans[m]
  <2>1. scans \in [1..MaxScans -> Inbox!Scan]
    BY DEF InboxInv, InboxTypes
  <2>2. CASE l.of \in 1..MaxScans
    <3> DEFINE s == scans[l.of]
               found == [s.seen EXCEPT ![l.task] = l.seen]
               x == [s EXCEPT !.seen = found]
    <3>1. s \in Inbox!Scan
      BY <2>1, <2>2
    <3>2. s.seen \in [Tasks -> Inbox!Seen]
      BY <3>1 DEF Inbox!Scan
    <3>3. /\ found \in [Tasks -> Inbox!Seen] /\ found[l.task] = l.seen
          /\ \A t \in Tasks : t # l.task => found[t] = s.seen[t]
      BY <1>2, <3>2
    <3>4. scans' = [scans EXCEPT ![l.of] = x]
      BY <1>1, <2>1, <2>2, <3>1 DEF Inbox!Scan
    <3> HIDE DEF found
    <3>5. x \in Inbox!Scan /\ x.at = s.at /\ x.outdated = s.outdated /\ x.left = s.left /\ x.seen = found
      BY <3>1, <3>3 DEF Inbox!Scan
    <3> HIDE DEF x
    <3>6. /\ scans' \in [1..MaxScans -> Inbox!Scan] /\ scans'[l.of] = x
          /\ \A m \in 1..MaxScans : m # l.of => scans'[m] = scans[m]
      BY <2>1, <2>2, <3>4, <3>5
    <3> QED BY <3>3, <3>5, <3>6
  <2>3. CASE l.of \notin 1..MaxScans
    BY <1>1, <2>1, <2>3
  <2> QED BY <2>2, <2>3
<1>10. InboxTypes'
  BY <1>1, <1>5, <1>7, <1>8, <1>9 DEF InboxInv, InboxTypes
<1>11. \A a \in UnderWay : a.of > 0 => a.of \in 1..MaxScans
  BY LoadTypes, UnderWayTypes DEF InboxInv
<1>12. LoadsFit(UnderWay', scans', posts')
  <2> SUFFICES ASSUME NEW a \in UnderWay'
               PROVE  /\ a.of > 0 => scans'[a.of].at = "reading" /\ a.task \notin scans'[a.of].left
                      /\ a.of < 0 => \E p \in posts' : a.of = Inbox!ForPost(p.no) /\ p.task = a.task /\ p.at = "checking"
    BY DEF LoadsFit
  <2>1. a.of > 0 => scans'[a.of].at = "reading" /\ a.task \notin scans'[a.of].left
    BY <1>4, <1>9, <1>11 DEF InboxInv, LoadsFit
  <2>2. ASSUME a.of < 0 PROVE \E p \in posts' : a.of = Inbox!ForPost(p.no) /\ p.task = a.task /\ p.at = "checking"
    <3>1. PICK p \in posts : a.of = Inbox!ForPost(p.no) /\ p.task = a.task /\ p.at = "checking"
      BY <1>4, <2>2 DEF InboxInv, LoadsFit
    <3>2. l.of # Inbox!ForPost(p.no)
      <4>1. SUFFICES ASSUME l.of = a.of PROVE FALSE
        BY <3>1
      <4>2. PICK q \in posts : l.of = Inbox!ForPost(q.no) /\ q.task = l.task /\ q.at = "checking"
        BY <1>2, <2>2, <4>1 DEF InboxInv, LoadsFit
      <4>3. p \in PostRecord /\ q \in PostRecord /\ p.no \in Int /\ q.no \in Int
        BY <1>6, LoadTypes DEF PostRecord
      <4>4. p.no = q.no
        BY <3>1, <4>1, <4>2, <4>3 DEF Inbox!ForPost
      <4>5. p = q
        BY <4>4 DEF InboxInv, PostsApart
      <4> QED BY <1>4, <3>1, <4>1, <4>2, <4>5 DEF SameAsk
    <3>3. p \in posts'
      BY <1>1, <1>6, <3>2
    <3> QED BY <3>1, <3>3
  <2> QED BY <2>1, <2>2
<1>13. \A m \in 1..MaxScans : Counts(scans', m) <=> Counts(scans, m)
  BY <1>9 DEF Counts
<1>14. /\ \A u \in Int, s \in Int : Kept(u, now, timer, s) => Kept(u, now, timer', s)
       /\ \A t \in Tasks : grants.until[t] \in Int
       /\ \A m \in 1..MaxScans, t \in Tasks : scans[m].seen[t] \in Int
       /\ \A t \in Tasks : inbox.shown[t] \in Int
  BY <1>5, InboxParts DEF InboxInv, Kept
<1>15. ReviewFits(review', scans')
  BY <1>1, <1>9, <1>13, InboxParts DEF InboxInv, ReviewFits
<1>16. ASSUME ~update
       PROVE  /\ LoadsFound(UnderWay', scans', grants.until, now)
              /\ ScansKept(UnderWay', scans', grants.until, now, timer')
              /\ CacheKept(review', scans', grants.until, now, timer')
  <2>1. LoadsFound(UnderWay', scans', grants.until, now)
    BY <1>4, <1>11, <1>13, <1>16 DEF InboxInv, LoadsFound
  <2>2. ScansKept(UnderWay', scans', grants.until, now, timer')
    <3> SUFFICES ASSUME NEW m \in 1..MaxScans, Counts(scans', m), NEW u \in Tasks \ scans'[m].left,
                        \A a \in UnderWay' : ~(a.of = m /\ a.task = u)
                 PROVE  Kept(grants.until[u], now, timer', scans'[m].seen[u])
      BY DEF ScansKept
    <3>1. Counts(scans, m) /\ u \notin scans[m].left
      BY <1>9, <1>13
    <3>2. CASE l.of = m /\ l.task = u
      <4>1. Found(grants.until[u], now, l.seen)
        BY <1>1, <1>2, <1>16, <3>1, <3>2 DEF InboxInv, LoadsFound
      <4> QED BY <1>5, <1>9, <3>2, <4>1 DEF Kept
    <3>3. CASE ~(l.of = m /\ l.task = u)
      <4>1. \A a \in UnderWay : ~(a.of = m /\ a.task = u)
        BY <1>3, <3>3
      <4>2. Kept(grants.until[u], now, timer, scans[m].seen[u])
        BY <1>16, <3>1, <4>1 DEF InboxInv, ScansKept
      <4> QED BY <1>9, <1>14, <3>3, <4>2
    <3> QED BY <3>2, <3>3
  <2>3. CacheKept(review', scans', grants.until, now, timer')
    <3> SUFFICES ASSUME review.cache # 0, NEW u \in Tasks
                 PROVE  Kept(grants.until[u], now, timer', scans'[review.cache].seen[u])
      BY <1>1 DEF CacheKept, AllKept
    <3>1. review.cache \in 1..MaxScans /\ scans[review.cache].at = "done"
      BY InboxParts DEF InboxInv, ReviewFits
    <3>2. review.cache # l.of
      BY <1>2, <3>1 DEF InboxInv, LoadsFit
    <3>3. Kept(grants.until[u], now, timer, scans[review.cache].seen[u])
      BY <1>16 DEF InboxInv, CacheKept, AllKept
    <3> QED BY <1>9, <1>14, <3>1, <3>2, <3>3
  <2> QED BY <2>1, <2>2, <2>3
<1>17. ASSUME ~update, ~refreshing PROVE InboxFits(inbox, scans', grants.until, now, timer')
  <2>1. InboxFits(inbox, scans, grants.until, now, timer)
    BY <1>17 DEF InboxInv
  <2>2. inbox.asked = 0 => AllKept(inbox.shown, grants.until, now, timer')
    BY <1>14, <2>1 DEF InboxFits, AllKept
  <2>3. inbox.asked # 0 => Counts(scans', inbox.asked)
    BY <1>13, <2>1, InboxParts DEF InboxFits, InboxInv
  <2> QED BY <2>2, <2>3 DEF InboxFits
<1> QED BY <1>1, <1>3, <1>7, <1>10, <1>12, <1>15, <1>16, <1>17 DEF InboxInv

LEMMA InboxNext ==
    ASSUME InboxLimits, InboxInv, [Inbox!Next]_Inbox!vars
    PROVE  InboxInv'
<1>1. CASE UNCHANGED Inbox!vars
  BY <1>1 DEF Inbox!vars, InboxInv, InboxTypes, UnderWay
<1>2. CASE Inbox!Next
  BY <1>2, TimerKeepsInbox, LapseKeepsInbox, AnnounceKeepsInbox, RefreshedKeepsInbox, CloseKeepsInbox,
     SubmitKeepsInbox, TickKeepsInbox, OpenKeepsInbox, ElsewhereKeepsInbox, LoadKeepsInbox, ScanKeepsInbox,
     ReadKeepsInbox, EndKeepsInbox, GrantKeepsInbox, AnswerKeepsInbox DEF Inbox!Next
<1> QED BY <1>1, <1>2

\* With nothing under way the inbox shows what the ledger says, or that it could not be read,
\* and a grant that runs out goes from the screen although no file changes; no more ruby
\* processes than slots (gateView.ts 152-155, reviewModel.ts 566-568).
THEOREM InboxFollowsLedgerHolds ==
    ASSUME InboxLimits
    PROVE  Inbox!Spec => []Inbox!InboxFollowsLedger
<1>1. ASSUME InboxInv PROVE Inbox!TypeOK
  <2>1. /\ running \subseteq Inbox!Load /\ Inbox!Cardinality(running) <= Slots /\ queued \in Seq(Inbox!Load)
        /\ queued # <<>> => Inbox!Cardinality(running) = Slots
    BY <1>1, SameCardinality DEF InboxInv, SlotsFit
  <2> QED BY <1>1, <2>1 DEF InboxInv, InboxTypes, PostRecord, Inbox!TypeOK
<1>2. ASSUME InboxInv, Inbox!Quiet, NEW t \in Tasks
      PROVE  \/ inbox.shown[t] \in {Inbox!Unreadable, Inbox!Available(t)}
             \/ inbox.shown[t] = grants.until[t] /\ 0 < timer /\ timer <= grants.until[t]
  <2>1. Kept(grants.until[t], now, timer, inbox.shown[t])
    BY <1>2 DEF Inbox!Quiet, InboxInv, InboxFits, AllKept
  <2>2. grants.until[t] \in Int /\ now \in Nat
    BY <1>2, InboxParts DEF InboxInv
  <2> QED BY <2>1, <2>2 DEF Kept, Found, Inbox!Available
<1>3. InboxInv => Inbox!InboxFollowsLedger
  BY <1>1, <1>2 DEF Inbox!InboxFollowsLedger
<1> QED BY <1>3, InboxStart, InboxNext, PTL DEF Inbox!Spec

-----------------------------------------------------------------------------
(* Numbers with a greatest *)

LEMMA LeastNat ==
    ASSUME NEW S \in SUBSET Nat, S # {}
    PROVE  \E m \in S : \A y \in S : m <= y
<1>1. \E m \in S : \A y \in S : ~(<<y, m>> \in OpToRel(<, Nat))
  BY NatLessThanWellFounded, WFMin
<1>2. PICK m \in S : \A y \in S : ~(y < m)
  BY <1>1 DEF OpToRel
<1>3. \A y \in S : m <= y
  BY <1>2
<1> QED BY <1>3

LEMMA SomeMax ==
    ASSUME NEW n \in Nat, NEW S \in SUBSET (0..n), S # {}
    PROVE  \E z \in S : \A y \in S : z >= y
<1> DEFINE T == {n - x : x \in S}
<1>1. T \subseteq Nat /\ T # {}
  <2>1. \A x \in S : n - x \in Nat
    OBVIOUS
  <2>2. PICK x \in S : TRUE
    OBVIOUS
  <2>3. n - x \in T
    OBVIOUS
  <2> QED BY <2>1, <2>3
<1> HIDE DEF T
<1>3. PICK m \in T : \A y \in T : m <= y
  BY <1>1, LeastNat
<1> USE DEF T
<1>4. PICK x \in S : m = n - x
  BY <1>3
<1>5. \A y \in S : x >= y
  BY <1>3, <1>4
<1> HIDE DEF T
<1> QED BY <1>5

-----------------------------------------------------------------------------
(* The first so many of a finite set that is in a strict order *)

\* Before[x] are those that come before x.
StrictOrder(S, Before) ==
    /\ IsFiniteSet(S) /\ Before \in [S -> SUBSET S]
    /\ \A x \in S : x \notin Before[x]
    /\ \A x, y \in S : x # y => x \in Before[y] \/ y \in Before[x]
    /\ \A x, y, z \in S : x \in Before[y] /\ y \in Before[z] => x \in Before[z]

\* Some member of a part comes after all others of it.
LEMMA LastOf ==
    ASSUME NEW S, NEW Before, StrictOrder(S, Before), NEW T \in SUBSET S, T # {}
    PROVE  \E x \in T : \A y \in T \ {x} : y \in Before[x]
<1>1. IsFiniteSet(S) /\ Cardinality(S) \in Nat
  BY FS_CardinalityType DEF StrictOrder
<1>2. ASSUME NEW x \in S
      PROVE  IsFiniteSet(Before[x]) /\ Cardinality(Before[x]) \in Nat /\ Cardinality(Before[x]) <= Cardinality(S)
  <2>1. Before[x] \in SUBSET S
    BY DEF StrictOrder
  <2>2. IsFiniteSet(Before[x])
    BY <1>1, <2>1, FS_Subset
  <2> QED BY <1>1, <2>1, <2>2, FS_Subset, FS_CardinalityType
<1> DEFINE Ranks == {Cardinality(Before[x]) : x \in T}
<1>3. Ranks \subseteq 0..Cardinality(S) /\ Ranks # {}
  <2>1. \A x \in T : Cardinality(Before[x]) \in 0..Cardinality(S)
    BY <1>1, <1>2
  <2>2. PICK x \in T : TRUE
    OBVIOUS
  <2>3. Cardinality(Before[x]) \in Ranks
    OBVIOUS
  <2> QED BY <2>1, <2>3
<1> HIDE DEF Ranks
<1>4. PICK r \in Ranks : \A q \in Ranks : r >= q
  BY <1>1, <1>3, SomeMax
<1>5. PICK x \in T : Cardinality(Before[x]) = r
  BY <1>4 DEF Ranks
<1>6. \A y \in T : Cardinality(Before[x]) >= Cardinality(Before[y])
  BY <1>4, <1>5 DEF Ranks
<1>7. ASSUME NEW y \in T \ {x}, y \notin Before[x] PROVE FALSE
  <2>1. x \in S /\ y \in S /\ x \in Before[y] /\ x \notin Before[x]
    BY <1>7 DEF StrictOrder
  <2>2. Before[x] \cup {x} \in SUBSET Before[y]
    BY <2>1 DEF StrictOrder
  <2>3. IsFiniteSet(Before[x] \cup {x}) /\ Cardinality(Before[x] \cup {x}) = Cardinality(Before[x]) + 1
    BY <1>2, <2>1, FS_AddElement
  <2>4. Cardinality(Before[x] \cup {x}) <= Cardinality(Before[y])
    BY <1>2, <2>1, <2>2, FS_Subset
  <2> QED BY <1>2, <1>6, <2>1, <2>3, <2>4
<1> QED BY <1>7

\* Those before the others, too.
LEMMA FirstOf ==
    ASSUME NEW S, NEW Before, StrictOrder(S, Before), NEW T \in SUBSET S, T # {}
    PROVE  \E x \in T : \A y \in T \ {x} : x \in Before[y]
<1> DEFINE After == [x \in S |-> {y \in S : x \in Before[y]}]
<1>1. StrictOrder(S, After)
  <2>1. After \in [S -> SUBSET S] /\ \A x, y \in S : y \in After[x] <=> x \in Before[y]
    OBVIOUS
  <2> HIDE DEF After
  <2> QED BY <2>1 DEF StrictOrder
<1>2. \A x, y \in S : y \in After[x] <=> x \in Before[y]
  OBVIOUS
<1> HIDE DEF After
<1>3. PICK x \in T : \A y \in T \ {x} : y \in After[x]
  BY <1>1, LastOf
<1> QED BY <1>2, <1>3

\* Members with fewer than n before them are at most n.
LEMMA FirstFew ==
    ASSUME NEW S, NEW Before, StrictOrder(S, Before), NEW n \in Nat
    PROVE  LET few == {x \in S : Cardinality(Before[x]) < n}
           IN  IsFiniteSet(few) /\ Cardinality(few) \in Nat /\ Cardinality(few) <= n
<1> DEFINE few == {x \in S : Cardinality(Before[x]) < n}
<1>1. IsFiniteSet(S) /\ few \in SUBSET S /\ \A x \in few : Cardinality(Before[x]) < n
  BY DEF StrictOrder
<1> HIDE DEF few
<1>2. IsFiniteSet(few) /\ Cardinality(few) \in Nat
  <2>1. IsFiniteSet(few)
    BY <1>1, FS_Subset
  <2> QED BY <2>1, FS_CardinalityType
<1>3. few = {} => Cardinality(few) <= n
  BY FS_EmptySet
<1>4. few # {} => Cardinality(few) <= n
  <2> SUFFICES ASSUME few # {} PROVE Cardinality(few) <= n
    OBVIOUS
  <2>1. PICK x \in few : \A y \in few \ {x} : y \in Before[x]
    BY <1>1, LastOf
  <2>2. Before[x] \in SUBSET S
    BY <1>1 DEF StrictOrder
  <2>3. IsFiniteSet(Before[x])
    BY <1>1, <2>2, FS_Subset
  <2>4. Cardinality(Before[x]) \in Nat
    BY <2>3, FS_CardinalityType
  <2>5. few \ {x} \in SUBSET Before[x]
    BY <2>1
  <2>6. Cardinality(few \ {x}) <= Cardinality(Before[x])
    BY <2>3, <2>5, FS_Subset
  <2>7. Cardinality(few \ {x}) = Cardinality(few) - 1
    BY <1>2, FS_RemoveElement
  <2>8. Cardinality(Before[x]) < n
    BY <1>1
  <2> QED BY <1>2, <2>4, <2>6, <2>7, <2>8
<1> QED BY <1>2, <1>3, <1>4 DEF few

\* So many for each of r rounds are no more than r rounds can take.
LEMMA CeilFits ==
    ASSUME NEW a \in Nat, NEW b \in Nat \ {0}, NEW r \in Nat, a <= r * b
    PROVE  (a + b - 1) \div b <= r
<1> DEFINE q == (a + b - 1) \div b
<1>1. q \in Int /\ q * b <= a + b - 1
  OBVIOUS
<1> HIDE DEF q
<1>2. ASSUME q >= r + 1 PROVE FALSE
  <2>1. q * b >= (r + 1) * b
    BY <1>1, <1>2
  <2>2. (r + 1) * b = r * b + b
    OBVIOUS
  <2>3. q * b \in Int /\ r * b \in Int /\ (r + 1) * b \in Int
    BY <1>1
  <2> QED BY <1>1, <2>1, <2>2, <2>3
<1> QED BY <1>1, <1>2 DEF q

-----------------------------------------------------------------------------
(* The findings that are open across all audits, and the answers to them: here ledger *)
(* is that of the answers, and now the time of the knowledge service.                 *)

CONSTANTS Findings, NoteOf, Priority, Human, InScope, Confirmed, MaxNotes, MaxFindings, MaxAnswers,
          Overtaking, Cooldown, MaxAudits, MaxDecisions
VARIABLES audits, answering, run, looked, runs

Review == INSTANCE KnowledgeFindings

ReviewLimits ==
    /\ IsFiniteSet(Findings) /\ Findings \subseteq Nat
    /\ NoteOf \in [Findings -> Nat] /\ Priority \in [Findings -> Nat]
    /\ Human \subseteq Findings /\ InScope \subseteq Findings
    /\ MaxNotes \in Nat \ {0} /\ MaxFindings \in Nat \ {0} /\ MaxAnswers \in Nat
    /\ MaxAudits \in Nat \ {0} /\ MaxDecisions \in Nat
    /\ MaxTime \in Nat /\ Cooldown \in 0..MaxTime

ReviewTypes ==
    /\ Review!TypeOK /\ IsFiniteSet(audits) /\ IsFiniteSet(answering)
    /\ Len(ledger) + Cardinality(answering) <= MaxDecisions

\* Nothing comes from the time ahead.
InTime == (\A a \in audits : a.at <= now) /\ (\A d \in DOMAIN ledger : ledger[d].at <= now)

\* Only what a human must close is answered, and a brief asks for none of it.
HumansAnswer ==
    /\ \A d \in DOMAIN ledger : ledger[d].of \in Human
    /\ \A p \in answering : p[1] \in Human
    /\ run.brief \cap Human = {}

\* Unless audits overtake answers: a run is told the latest answers of those it takes along.
ToldAlong == Overtaking \/ \A f \in run.answers : Review!LatestDecision(f) \in run.told

\* Unless they do: a finding that an audit reports after its latest answer, some audit was told
\* of that answer.
Heard ==
    Overtaking \/ \A a \in audits : \A f \in Findings : \A d \in DOMAIN ledger :
        /\ ledger[d].of = f /\ d = Review!LatestDecision(f)
        /\ a.status[f] # "absent" /\ a.at >= ledger[d].at
        => \E b \in audits : d \in b.told

ReviewInv == ReviewTypes /\ InTime /\ HumansAnswer /\ ToldAlong /\ Heard

LEMMA ReviewCardinality == \A S : Review!Cardinality(S) = Cardinality(S)
  BY DEF Review!Cardinality, Cardinality

LEMMA LatestIs ==
    ASSUME ReviewLimits, Review!TypeOK, NEW f, Review!Reporting(f) # {}
    PROVE  Review!Latest(f) \in Review!Reporting(f) /\ Review!LastReported(f) \in 0..MaxTime
<1> DEFINE R == Review!Reporting(f)
           Ats == {a.at : a \in R}
<1>1. R # {} /\ \A a \in R : a \in audits /\ a.at \in 0..MaxTime /\ a.id \in 1..MaxAudits
  BY DEF Review!Reporting, Review!TypeOK, Review!Audit
<1>2. MaxTime \in Nat /\ MaxAudits \in Nat
  BY DEF ReviewLimits
<1> HIDE DEF R
<1>3. Ats \subseteq 0..MaxTime /\ Ats # {}
  BY <1>1
<1> HIDE DEF Ats
<1>4. PICK t \in Ats : \A u \in Ats : t >= u
  BY <1>2, <1>3, SomeMax
<1> DEFINE Ids == {a.id : a \in {b \in R : b.at = t}}
<1>5. Ids \subseteq 0..MaxAudits /\ Ids # {}
  <2>1. PICK a \in R : a.at = t
    BY <1>4 DEF Ats
  <2>2. a.id \in Ids
    BY <2>1
  <2>3. \A x \in 1..MaxAudits : x \in 0..MaxAudits
    BY <1>2
  <2> QED BY <1>1, <2>2, <2>3
<1>6. \A a \in R : a.at = t => a.id \in Ids
  OBVIOUS
<1>7. \A i \in Ids : \E a \in R : a.at = t /\ a.id = i
  OBVIOUS
<1> HIDE DEF Ids
<1>8. PICK i \in Ids : \A j \in Ids : i >= j
  BY <1>2, <1>5, SomeMax
<1>9. PICK a \in R : a.at = t /\ a.id = i
  BY <1>7, <1>8
<1>10. \A b \in R : a.at > b.at \/ (a.at = b.at /\ a.id >= b.id)
  <2> TAKE b \in R
  <2>1. b.at \in Ats /\ t >= b.at /\ t \in 0..MaxTime /\ b.at \in 0..MaxTime
    BY <1>1, <1>3, <1>4 DEF Ats
  <2>2. CASE b.at = t
    <3>1. i >= b.id
      BY <1>6, <1>8, <2>2
    <3> QED BY <1>9, <2>2, <3>1
  <2>3. CASE b.at # t
    BY <1>9, <2>1, <2>3
  <2> QED BY <2>2, <2>3
<1>11. \E x \in R : \A b \in R : x.at > b.at \/ (x.at = b.at /\ x.id >= b.id)
  BY <1>10
<1>12. Review!Latest(f) \in R
  BY <1>11 DEF R, Review!Latest
<1> QED BY <1>1, <1>12 DEF R, Review!LastReported

LEMMA LedgerHas ==
    ASSUME ledger \in Seq(Review!Decision)
    PROVE  \A d \in DOMAIN ledger : ledger[d] \in Review!Decision /\ ledger[d].of \in Findings /\ ledger[d].at \in Int
<1>1. \A d \in DOMAIN ledger : ledger[d] \in Review!Decision
  OBVIOUS
<1> QED BY <1>1 DEF Review!Decision

LEMMA LargestIs ==
    ASSUME NEW n \in Nat, NEW D \in SUBSET (1..n), D # {}
    PROVE  Review!Max(D) \in D /\ \A d \in D : Review!Max(D) >= d
<1>1. D \subseteq 0..n
  OBVIOUS
<1>2. \E z \in D : \A y \in D : z >= y
  BY <1>1, SomeMax
<1> QED BY <1>2 DEF Review!Max

\* The latest answer of a finding, if it has any.
LEMMA LatestDecisionIs ==
    ASSUME ledger \in Seq(Review!Decision), NEW f
    PROVE  /\ Review!DecisionsOn(f) \subseteq DOMAIN ledger
           /\ Review!DecisionsOn(f) = {} => Review!LatestDecision(f) = 0
           /\ Review!DecisionsOn(f) # {} =>
                  /\ Review!LatestDecision(f) = Review!Max(Review!DecisionsOn(f))
                  /\ Review!LatestDecision(f) \in Review!DecisionsOn(f)
                  /\ \A d \in Review!DecisionsOn(f) : Review!LatestDecision(f) >= d
<1> DEFINE D == Review!DecisionsOn(f)
<1>1. DOMAIN ledger = 1..Len(ledger) /\ Len(ledger) \in Nat /\ D \subseteq DOMAIN ledger
  BY DEF Review!DecisionsOn
<1>2. D = {} => Review!LatestDecision(f) = 0
  BY DEF Review!LatestDecision
<1>3. ASSUME D # {}
      PROVE  /\ Review!LatestDecision(f) = Review!Max(D) /\ Review!LatestDecision(f) \in D
             /\ \A d \in D : Review!LatestDecision(f) >= d
  <2>1. Review!LatestDecision(f) = Review!Max(D)
    BY <1>3 DEF Review!LatestDecision
  <2> HIDE DEF D
  <2>2. Review!Max(D) \in D /\ \A d \in D : Review!Max(D) >= d
    BY <1>1, <1>3, LargestIs
  <2> QED BY <2>1, <2>2
<1> QED BY <1>1, <1>2, <1>3

\* A ledger that stays keeps the latest answers.
LEMMA LedgerStays ==
    ASSUME UNCHANGED ledger
    PROVE  \A f : /\ Review!DecisionsOn(f)' = Review!DecisionsOn(f)
                  /\ Review!LatestDecision(f)' = Review!LatestDecision(f)
  BY DEF Review!DecisionsOn, Review!LatestDecision

\* An answer that is appended becomes the latest of its finding, and of no other.
LEMMA LedgerGrows ==
    ASSUME ledger \in Seq(Review!Decision), NEW f \in Findings, NEW r \in Review!Decision, r.of = f,
           ledger' = Append(ledger, r)
    PROVE  /\ ledger' \in Seq(Review!Decision) /\ Len(ledger') = Len(ledger) + 1
           /\ DOMAIN ledger' = 1..(Len(ledger) + 1) /\ ledger'[Len(ledger) + 1] = r
           /\ \A d \in 1..Len(ledger) : ledger'[d] = ledger[d]
           /\ Review!LatestDecision(f)' = Len(ledger) + 1
           /\ \A g : g # f => Review!LatestDecision(g)' = Review!LatestDecision(g)
<1> DEFINE n == Len(ledger) + 1
<1>1. /\ Len(ledger) \in Nat /\ DOMAIN ledger = 1..Len(ledger)
      /\ ledger' \in Seq(Review!Decision) /\ Len(ledger') = n
      /\ DOMAIN ledger' = 1..n /\ ledger'[n] = r
      /\ \A d \in 1..Len(ledger) : ledger'[d] = ledger[d]
  OBVIOUS
<1>2. \A g : g # f => Review!DecisionsOn(g)' = Review!DecisionsOn(g)
  BY <1>1 DEF Review!DecisionsOn
<1>3. \A g : g # f => Review!LatestDecision(g)' = Review!LatestDecision(g)
  BY <1>2 DEF Review!LatestDecision
<1>4. n \in Review!DecisionsOn(f)' /\ \A d \in Review!DecisionsOn(f)' : d \in 1..n
  BY <1>1 DEF Review!DecisionsOn
<1>5. Review!LatestDecision(f)' = n
  <2>1. PICK D : D = Review!DecisionsOn(f)'
    OBVIOUS
  <2>2. n \in D /\ D \subseteq 1..n /\ n \in Nat
    BY <1>1, <1>4, <2>1
  <2>3. Review!LatestDecision(f)' = Review!Max(D)
    BY <2>1, <2>2 DEF Review!LatestDecision
  <2> HIDE DEF n
  <2>4. Review!Max(D) \in D /\ \A d \in D : Review!Max(D) >= d
    BY <2>2, LargestIs
  <2>5. Review!Max(D) = n
    <3>1. PICK m : m = Review!Max(D)
      OBVIOUS
    <3>2. m \in 1..n /\ m >= n /\ n \in Nat
      BY <2>2, <2>4, <3>1
    <3>3. m = n
      BY ONLY <3>2
    <3> QED BY <3>1, <3>3
  <2> QED BY <2>3, <2>5
<1> QED BY <1>1, <1>3, <1>5

\* The first audits, an empty ledger and no run.
LEMMA ReviewStarts ==
    ASSUME ReviewLimits, Review!Init
    PROVE  ReviewInv
<1> USE DEF Review!Init
<1> DEFINE first == [at |-> 0, id |-> 1, told |-> {}, status |-> [f \in Findings |-> "new"]]
<1>1. audits = {first} /\ ledger = <<>> /\ answering = {}
  OBVIOUS
<1>2. first \in Review!Audit /\ first.at = 0
  BY DEF Review!Audit, Review!Statuses, ReviewLimits
<1> HIDE DEF first
<1>3. Review!TypeOK
  <2>1. run \in [on : BOOLEAN, brief : SUBSET Findings, answers : SUBSET Findings,
                 told : SUBSET (1..MaxDecisions)]
    BY DEF Review!NoRun
  <2>2. looked \subseteq Findings /\ runs \in 0..MaxAudits /\ now \in 0..MaxTime
    BY DEF ReviewLimits
  <2> QED BY <1>1, <1>2, <2>1, <2>2 DEF Review!TypeOK
<1>4. ReviewTypes
  <2>1. IsFiniteSet(answering) /\ Cardinality(answering) = 0
    BY <1>1, FS_EmptySet
  <2>2. IsFiniteSet(audits)
    BY <1>1, FS_Singleton
  <2>3. Len(ledger) = 0
    BY <1>1
  <2> QED BY <1>3, <2>1, <2>2, <2>3 DEF ReviewTypes, ReviewLimits
<1>5. InTime
  BY <1>1, <1>2 DEF InTime, ReviewLimits
<1>6. HumansAnswer /\ ToldAlong /\ Heard
  BY <1>1 DEF HumansAnswer, ToldAlong, Heard, Review!NoRun
<1> QED BY <1>4, <1>5, <1>6 DEF ReviewInv

\* A new audit comes after every answer: those it reports, it was told of.
LEMMA AuditComes ==
    ASSUME ReviewLimits, ReviewInv, NEW X \in SUBSET Findings,
           NEW status \in [X -> Review!Statuses], NEW given \in SUBSET (1..MaxDecisions),
           Review!Audited(status, given), UNCHANGED <<ledger, answering>>,
           Overtaking \/ \A f \in X \cap Human : Review!LatestDecision(f) \in given
    PROVE  /\ audits' \subseteq Review!Audit /\ IsFiniteSet(audits') /\ now' \in 0..MaxTime
           /\ InTime' /\ Heard'
<1> DEFINE a == [at |-> now', id |-> Cardinality(audits) + 1, told |-> given,
                 status |-> [f \in Findings |-> IF f \in DOMAIN status THEN status[f] ELSE "absent"]]
<1>1. /\ now' = now + 1 /\ audits' = audits \cup {a} /\ now < MaxTime
      /\ Cardinality(audits) < MaxAudits
  BY ReviewCardinality DEF Review!Audited
<1>2. now \in Nat /\ now' \in 0..MaxTime /\ MaxTime \in Nat /\ MaxAudits \in Nat
  BY <1>1 DEF ReviewInv, ReviewTypes, Review!TypeOK, ReviewLimits
<1>3. Cardinality(audits) + 1 \in 1..MaxAudits
  BY <1>1, <1>2, FS_CardinalityType DEF ReviewInv, ReviewTypes
<1>4. /\ a \in Review!Audit /\ a.at = now' /\ a.told = given
      /\ \A f \in Findings : a.status[f] # "absent" => f \in X
  <2>1. [f \in Findings |-> IF f \in DOMAIN status THEN status[f] ELSE "absent"]
            \in [Findings -> Review!Statuses \cup {"absent"}]
    OBVIOUS
  <2>2. a \in Review!Audit
    BY <1>2, <1>3, <2>1 DEF Review!Audit
  <2>3. a.at = now' /\ a.told = given /\ \A f \in Findings : a.status[f] # "absent" => f \in X
    OBVIOUS
  <2> QED BY <2>2, <2>3
<1> HIDE DEF a
<1>5. audits' \subseteq Review!Audit /\ IsFiniteSet(audits')
  BY <1>1, <1>4, FS_AddElement DEF ReviewInv, ReviewTypes, Review!TypeOK
<1>6. InTime'
  <2>1. \A b \in audits : b.at \in Int /\ b.at <= now
    BY <1>2 DEF ReviewInv, ReviewTypes, Review!TypeOK, Review!Audit, InTime
  <2>2. \A b \in audits' : b.at <= now'
    BY <1>1, <1>2, <1>4, <2>1
  <2>3. \A d \in DOMAIN ledger : ledger[d].at \in Int /\ ledger[d].at <= now
    BY LedgerHas DEF ReviewInv, ReviewTypes, Review!TypeOK, InTime
  <2>4. \A d \in DOMAIN ledger' : ledger'[d].at <= now'
    BY <1>1, <1>2, <2>3
  <2> QED BY <2>2, <2>4 DEF InTime
<1>7. Heard'
  <2> SUFFICES ASSUME ~Overtaking PROVE Heard'
    BY DEF Heard
  <2>1. \A f : Review!LatestDecision(f)' = Review!LatestDecision(f)
    BY LedgerStays
  <2>2. ASSUME NEW b \in audits', NEW f \in Findings, NEW d \in DOMAIN ledger, ledger[d].of = f,
               d = Review!LatestDecision(f), b.status[f] # "absent", b.at >= ledger[d].at
        PROVE  \E c \in audits' : d \in c.told
    <3>1. CASE b \in audits
      <4>1. PICK c \in audits : d \in c.told
        BY <2>2, <3>1 DEF ReviewInv, Heard
      <4> QED BY <1>1, <4>1
    <3>2. CASE b = a
      <4>1. f \in Human
        BY <2>2 DEF ReviewInv, HumansAnswer
      <4>2. f \in X
        BY <1>4, <2>2, <3>2
      <4>3. d \in given
        BY <2>2, <4>1, <4>2
      <4> QED BY <1>1, <1>4, <4>3
    <3> QED BY <1>1, <3>1, <3>2
  <2> QED BY <2>1, <2>2 DEF Heard
<1> QED BY <1>2, <1>5, <1>6, <1>7

LEMMA PendingIs ==
    ASSUME Review!TypeOK, NEW f \in Review!PendingAnswers
    PROVE  f \in Findings /\ f \in Human /\ Review!LatestDecision(f) \in DOMAIN ledger
<1>1. f \in Review!OpenFindings /\ f \in Human /\ Review!Pending(f)
  BY DEF Review!PendingAnswers
<1>2. Review!LatestDecision(f) # 0
  BY <1>1 DEF Review!Pending
<1> QED BY <1>1, <1>2, LatestDecisionIs DEF Review!OpenFindings, Review!TypeOK

LEMMA PickedIs ==
    ASSUME NEW f \in Review!Picked
    PROVE  f \in Findings /\ f \notin Human
  BY DEF Review!Picked, Review!Considered, Review!OpenFindings

\* A run takes its brief along, with the latest answers.
LEMMA RunStarts ==
    ASSUME ReviewLimits, ReviewInv, Review!StartRun
    PROVE  ReviewInv'
<1> DEFINE r == [on |-> TRUE, brief |-> Review!Picked, answers |-> Review!PendingAnswers,
                 told |-> {Review!LatestDecision(f) : f \in Review!PendingAnswers}]
<1>1. /\ run' = r /\ looked' = looked \cup Review!Picked /\ runs < MaxAudits /\ runs' = runs + 1
      /\ UNCHANGED <<audits, ledger, answering, now>>
  BY DEF Review!StartRun
<1>2. /\ r.brief = Review!Picked /\ r.answers = Review!PendingAnswers
      /\ r.told = {Review!LatestDecision(f) : f \in Review!PendingAnswers}
  OBVIOUS
<1>3. Review!TypeOK /\ ledger \in Seq(Review!Decision) /\ Len(ledger) <= MaxDecisions
  <2>1. Cardinality(answering) \in Nat
    BY FS_CardinalityType DEF ReviewInv, ReviewTypes
  <2>2. Review!TypeOK /\ ledger \in Seq(Review!Decision)
    BY DEF ReviewInv, ReviewTypes, Review!TypeOK
  <2>3. Len(ledger) \in Nat
    BY <2>2
  <2> QED BY <2>1, <2>2, <2>3 DEF ReviewInv, ReviewTypes, ReviewLimits
<1>4. \A f \in Review!PendingAnswers : Review!LatestDecision(f) \in 1..MaxDecisions
  <2>1. DOMAIN ledger \subseteq 1..MaxDecisions
    BY <1>3 DEF ReviewLimits
  <2> QED BY <1>3, <2>1, PendingIs
<1>5. r \in [on : BOOLEAN, brief : SUBSET Findings, answers : SUBSET Findings,
             told : SUBSET (1..MaxDecisions)]
  <2>1. Review!Picked \subseteq Findings /\ Review!PendingAnswers \subseteq Findings
    BY <1>3, PendingIs, PickedIs
  <2>2. {Review!LatestDecision(f) : f \in Review!PendingAnswers} \subseteq 1..MaxDecisions
    BY <1>4
  <2> QED BY <2>1, <2>2
<1> HIDE DEF r
<1>6. looked' \subseteq Findings /\ runs' \in 0..MaxAudits
  <2>1. Review!Picked \subseteq Findings
    BY PickedIs
  <2>2. runs \in Nat /\ MaxAudits \in Nat /\ runs + 1 <= MaxAudits /\ looked \subseteq Findings
    BY <1>1, <1>3 DEF Review!TypeOK, ReviewLimits
  <2> QED BY <1>1, <2>1, <2>2
<1>7. ReviewTypes'
  BY <1>1, <1>5, <1>6 DEF ReviewInv, ReviewTypes, Review!TypeOK
<1>8. InTime' /\ Heard'
  <2>1. \A f : Review!LatestDecision(f)' = Review!LatestDecision(f)
    BY <1>1, LedgerStays
  <2> QED BY <1>1, <2>1 DEF ReviewInv, InTime, Heard
<1>9. HumansAnswer'
  BY <1>1, <1>2, PickedIs DEF ReviewInv, HumansAnswer
<1>10. ToldAlong'
  <2>1. \A f : Review!LatestDecision(f)' = Review!LatestDecision(f)
    BY <1>1, LedgerStays
  <2> QED BY <1>1, <1>2, <2>1 DEF ToldAlong
<1> QED BY <1>7, <1>8, <1>9, <1>10 DEF ReviewInv

LEMMA NoRunIs ==
    /\ Review!NoRun \in [on : BOOLEAN, brief : SUBSET Findings, answers : SUBSET Findings,
                         told : SUBSET (1..MaxDecisions)]
    /\ Review!NoRun.brief = {} /\ Review!NoRun.answers = {}
  BY DEF Review!NoRun

\* A run's audit reports its brief and the answers it was told.
LEMMA RunEnds ==
    ASSUME ReviewLimits, ReviewInv, Review!EndRun
    PROVE  ReviewInv'
<1>1. run' = Review!NoRun /\ UNCHANGED <<ledger, answering, looked, runs>>
  BY DEF Review!EndRun
<1>2. /\ audits' \subseteq Review!Audit /\ IsFiniteSet(audits') /\ now' \in 0..MaxTime
      /\ InTime' /\ Heard'
  <2>1. CASE UNCHANGED <<audits, now>>
    <3>1. \A f : Review!LatestDecision(f)' = Review!LatestDecision(f)
      BY <1>1, LedgerStays
    <3> QED BY <1>1, <2>1, <3>1 DEF ReviewInv, ReviewTypes, Review!TypeOK, InTime, Heard
  <2>2. ASSUME NEW s \in [run.brief \cup run.answers -> {"recurring", "resolved"}],
               Review!Audited(s, run.told)
        PROVE  /\ audits' \subseteq Review!Audit /\ IsFiniteSet(audits') /\ now' \in 0..MaxTime
               /\ InTime' /\ Heard'
    <3>1. /\ run.brief \cup run.answers \in SUBSET Findings /\ run.told \in SUBSET (1..MaxDecisions)
      BY DEF ReviewInv, ReviewTypes, Review!TypeOK
    <3>2. s \in [run.brief \cup run.answers -> Review!Statuses]
      BY DEF Review!Statuses
    <3>3. Overtaking \/ \A f \in (run.brief \cup run.answers) \cap Human : Review!LatestDecision(f) \in run.told
      BY DEF ReviewInv, HumansAnswer, ToldAlong
    <3> QED BY <1>1, <2>2, <3>1, <3>2, <3>3, AuditComes
  <2> QED BY <2>1, <2>2 DEF Review!EndRun
<1>3. ReviewTypes'
  BY <1>1, <1>2, NoRunIs DEF ReviewInv, ReviewTypes, Review!TypeOK
<1>4. HumansAnswer' /\ ToldAlong'
  BY <1>1, NoRunIs DEF ReviewInv, HumansAnswer, ToldAlong
<1> QED BY <1>2, <1>3, <1>4 DEF ReviewInv

LEMMA SessionAudits ==
    ASSUME ReviewLimits, ReviewInv, NEW f \in Findings, Review!SessionAudit(f)
    PROVE  ReviewInv'
<1>1. (f \in Human => Overtaking) /\ UNCHANGED <<ledger, answering, run, looked, runs>>
  BY DEF Review!SessionAudit
<1>2. PICK s \in [{f} -> {"recurring", "suppressed"}] : Review!Audited(s, {})
  BY DEF Review!SessionAudit
<1>3. s \in [{f} -> Review!Statuses]
  BY DEF Review!Statuses
<1>4. /\ {f} \in SUBSET Findings /\ {} \in SUBSET (1..MaxDecisions)
      /\ Overtaking \/ \A g \in {f} \cap Human : Review!LatestDecision(g) \in {}
  BY <1>1
<1>5. /\ audits' \subseteq Review!Audit /\ IsFiniteSet(audits') /\ now' \in 0..MaxTime
      /\ InTime' /\ Heard'
  BY <1>1, <1>2, <1>3, <1>4, AuditComes
<1>6. ReviewTypes'
  BY <1>1, <1>5 DEF ReviewInv, ReviewTypes, Review!TypeOK
<1>7. HumansAnswer' /\ ToldAlong'
  <2>1. \A g : Review!LatestDecision(g)' = Review!LatestDecision(g)
    BY <1>1, LedgerStays
  <2> QED BY <1>1, <2>1 DEF ReviewInv, HumansAnswer, ToldAlong
<1> QED BY <1>5, <1>6, <1>7 DEF ReviewInv

LEMMA AnswerAccepted ==
    ASSUME ReviewLimits, ReviewInv, NEW f \in Findings, NEW a \in Review!Answers, Review!AcceptAnswer(f, a)
    PROVE  ReviewInv'
<1>1. /\ f \in Human /\ Len(ledger) + Cardinality(answering) < MaxDecisions
      /\ answering' = answering \cup {<<f, a>>}
      /\ UNCHANGED <<audits, ledger, run, looked, runs, now>>
  BY ReviewCardinality DEF Review!AcceptAnswer
<1>2. /\ IsFiniteSet(answering')
      /\ Cardinality(answering') = IF <<f, a>> \in answering THEN Cardinality(answering) ELSE Cardinality(answering) + 1
      /\ Cardinality(answering) \in Nat
  BY <1>1, FS_AddElement, FS_CardinalityType DEF ReviewInv, ReviewTypes
<1>3. Len(ledger) \in Nat /\ MaxDecisions \in Nat
  BY DEF ReviewInv, ReviewTypes, Review!TypeOK, ReviewLimits
<1>4. Len(ledger') + Cardinality(answering') <= MaxDecisions
  BY <1>1, <1>2, <1>3
<1>5. ReviewTypes'
  BY <1>1, <1>2, <1>4 DEF ReviewInv, ReviewTypes, Review!TypeOK
<1>6. InTime' /\ HumansAnswer' /\ ToldAlong' /\ Heard'
  <2>1. \A g : Review!LatestDecision(g)' = Review!LatestDecision(g)
    BY <1>1, LedgerStays
  <2> QED BY <1>1, <2>1 DEF ReviewInv, InTime, HumansAnswer, ToldAlong, Heard
<1> QED BY <1>5, <1>6 DEF ReviewInv

LEMMA AnswerAppended ==
    ASSUME ReviewLimits, ReviewInv, NEW f \in Findings, NEW a \in Review!Answers,
           Review!AppendAnswer(f, a)
    PROVE  ReviewInv'
<1> DEFINE r == [of |-> f, answer |-> a, at |-> now']
           n == Len(ledger) + 1
<1>1. /\ <<f, a>> \in answering /\ now < MaxTime /\ now' = now + 1 /\ (f \in run.answers => Overtaking)
      /\ answering' = answering \ {<<f, a>>} /\ ledger' = Append(ledger, r)
      /\ UNCHANGED <<audits, run, looked, runs>>
  BY DEF Review!AppendAnswer
<1>2. now \in Nat /\ now' \in 0..MaxTime /\ ledger \in Seq(Review!Decision) /\ Len(ledger) \in Nat
  BY <1>1 DEF ReviewInv, ReviewTypes, Review!TypeOK, ReviewLimits
<1>3. r \in Review!Decision /\ r.of = f /\ r.at = now'
  BY <1>2 DEF Review!Decision
<1>4. f \in Human
  BY <1>1 DEF ReviewInv, HumansAnswer
<1> HIDE DEF r
<1>5. /\ ledger' \in Seq(Review!Decision) /\ Len(ledger') = n /\ DOMAIN ledger' = 1..n /\ ledger'[n] = r
      /\ \A d \in 1..Len(ledger) : ledger'[d] = ledger[d]
      /\ Review!LatestDecision(f)' = n
      /\ \A g : g # f => Review!LatestDecision(g)' = Review!LatestDecision(g)
  BY <1>1, <1>2, <1>3, LedgerGrows
<1>6. DOMAIN ledger = 1..Len(ledger) /\ \A d \in 1..n : d \in 1..Len(ledger) \/ d = n
  BY <1>2
<1>7. ReviewTypes'
  <2>1. IsFiniteSet(answering') /\ Cardinality(answering') = Cardinality(answering) - 1 /\ Cardinality(answering) \in Nat
    BY <1>1, FS_RemoveElement, FS_CardinalityType DEF ReviewInv, ReviewTypes
  <2>2. Len(ledger') + Cardinality(answering') <= MaxDecisions
    BY <1>2, <1>5, <2>1 DEF ReviewInv, ReviewTypes, ReviewLimits
  <2> QED BY <1>1, <1>2, <1>5, <2>1, <2>2 DEF ReviewInv, ReviewTypes, Review!TypeOK
<1>8. InTime'
  <2>1. \A b \in audits : b.at \in Int /\ b.at <= now
    BY <1>2 DEF ReviewInv, ReviewTypes, Review!TypeOK, Review!Audit, InTime
  <2>2. \A d \in 1..Len(ledger) : ledger[d].at \in Int /\ ledger[d].at <= now
    BY <1>2, <1>6, LedgerHas DEF ReviewInv, InTime
  <2>3. \A b \in audits' : b.at <= now'
    BY <1>1, <1>2, <2>1
  <2>4. \A d \in DOMAIN ledger' : ledger'[d].at <= now'
    BY <1>1, <1>2, <1>3, <1>5, <1>6, <2>2
  <2> QED BY <2>3, <2>4 DEF InTime
<1>9. HumansAnswer'
  <2>1. \A d \in DOMAIN ledger' : ledger'[d].of \in Human
    BY <1>3, <1>4, <1>5, <1>6 DEF ReviewInv, HumansAnswer
  <2> QED BY <1>1, <2>1 DEF ReviewInv, HumansAnswer
<1>10. ToldAlong'
  BY <1>1, <1>5 DEF ReviewInv, ToldAlong
<1>11. Heard'
  <2> SUFFICES ASSUME ~Overtaking PROVE Heard'
    BY DEF Heard
  <2>1. ASSUME NEW b \in audits, NEW g \in Findings, NEW d \in DOMAIN ledger', ledger'[d].of = g,
               d = Review!LatestDecision(g)', b.status[g] # "absent", b.at >= ledger'[d].at
        PROVE  \E c \in audits : d \in c.told
    <3>1. d # n
      <4>1. b.at \in Int /\ b.at <= now
        BY <1>2 DEF ReviewInv, ReviewTypes, Review!TypeOK, Review!Audit, InTime
      <4> QED BY <1>1, <1>2, <1>3, <1>5, <2>1, <4>1
    <3>2. d \in 1..Len(ledger) /\ ledger'[d] = ledger[d]
      BY <1>5, <1>6, <3>1
    <3>3. g # f
      BY <1>5, <2>1, <3>1
    <3>4. d = Review!LatestDecision(g) /\ ledger[d].of = g
      BY <1>5, <2>1, <3>2, <3>3
    <3> QED BY <1>6, <2>1, <3>2, <3>4 DEF ReviewInv, Heard
  <2> QED BY <1>1, <2>1 DEF Heard
<1> QED BY <1>7, <1>8, <1>9, <1>10, <1>11 DEF ReviewInv

LEMMA TimePasses ==
    ASSUME ReviewLimits, ReviewInv, Review!Tick \/ UNCHANGED Review!vars
    PROVE  ReviewInv'
<1>1. UNCHANGED <<audits, ledger, answering, run, looked, runs>> /\ ((now' = now + 1 /\ now < MaxTime) \/ now' = now)
  BY DEF Review!Tick, Review!vars
<1>2. now \in Nat /\ now' \in 0..MaxTime /\ now <= now'
  BY <1>1 DEF ReviewInv, ReviewTypes, Review!TypeOK, ReviewLimits
<1>3. ReviewTypes'
  BY <1>1, <1>2 DEF ReviewInv, ReviewTypes, Review!TypeOK
<1>4. InTime'
  <2>1. \A b \in audits : b.at \in Int /\ b.at <= now
    BY <1>2 DEF ReviewInv, ReviewTypes, Review!TypeOK, Review!Audit, InTime
  <2>2. \A d \in DOMAIN ledger : ledger[d].at \in Int /\ ledger[d].at <= now
    BY LedgerHas DEF ReviewInv, ReviewTypes, Review!TypeOK, InTime
  <2> QED BY <1>1, <1>2, <2>1, <2>2 DEF InTime
<1>5. HumansAnswer' /\ ToldAlong' /\ Heard'
  <2>1. \A g : Review!LatestDecision(g)' = Review!LatestDecision(g)
    BY <1>1, LedgerStays
  <2> QED BY <1>1, <2>1 DEF ReviewInv, HumansAnswer, ToldAlong, Heard
<1> QED BY <1>3, <1>4, <1>5 DEF ReviewInv

THEOREM ReviewInvHolds ==
    ASSUME ReviewLimits
    PROVE  Review!Spec => []ReviewInv
<1>1. ReviewInv /\ [Review!Next]_Review!vars => ReviewInv'
  <2> SUFFICES ASSUME ReviewInv, [Review!Next]_Review!vars PROVE ReviewInv'
    OBVIOUS
  <2>1. CASE Review!StartRun
    BY <2>1, RunStarts
  <2>2. CASE Review!EndRun
    BY <2>2, RunEnds
  <2>3. CASE Review!Tick \/ UNCHANGED Review!vars
    BY <2>3, TimePasses
  <2>4. ASSUME NEW f \in Findings, Review!SessionAudit(f) PROVE ReviewInv'
    BY <2>4, SessionAudits
  <2>5. ASSUME NEW f \in Findings, NEW a \in Review!Answers,
               Review!AcceptAnswer(f, a) \/ Review!AppendAnswer(f, a) PROVE ReviewInv'
    BY <2>5, AnswerAccepted, AnswerAppended
  <2> QED BY <2>1, <2>2, <2>3, <2>4, <2>5 DEF Review!Next
<1> QED BY <1>1, ReviewStarts, PTL DEF Review!Spec

\* An answer to an open finding waits until a run is told of it, unless it is a deferral or was
\* answered again (knowledgeDecisions.ts 12-14), when no audit overtakes an answer.
THEOREM AnswersReachARunHolds ==
    ASSUME ReviewLimits, ~Overtaking
    PROVE  Review!Spec => []Review!AnswersReachARun
<1>1. ASSUME ReviewInv PROVE Review!AnswersReachARun
  <2>1. ASSUME NEW f \in Review!OpenFindings, NEW d \in Review!DecisionsOn(f),
               ledger[d].answer # "defer", d = Review!Max(Review!DecisionsOn(f)), ~Review!Pending(f)
        PROVE  \E a \in audits : d \in a.told
    <3>1. Review!TypeOK /\ ledger \in Seq(Review!Decision)
      BY <1>1 DEF ReviewInv, ReviewTypes, Review!TypeOK
    <3>2. /\ d = Review!LatestDecision(f) /\ d \in DOMAIN ledger /\ ledger[d].of = f /\ d # 0
          /\ ledger[d].at \in Int
      <4>1. d \in DOMAIN ledger /\ ledger[d].of = f
        BY DEF Review!DecisionsOn
      <4>2. d = Review!LatestDecision(f)
        BY <2>1, <3>1, LatestDecisionIs
      <4>3. d \in 1..Len(ledger) /\ Len(ledger) \in Nat /\ ledger[d] \in Review!Decision
        BY <3>1, <4>1
      <4> QED BY <4>1, <4>2, <4>3 DEF Review!Decision
    <3>3. ~(ledger[d].at > Review!LastReported(f))
      BY <2>1, <3>2 DEF Review!Pending
    <3>4. Review!Latest(f) \in Review!Reporting(f) /\ Review!LastReported(f) \in 0..MaxTime
      BY <3>1, LatestIs DEF Review!OpenFindings, Review!IsOpen
    <3>5. PICK b \in audits : b = Review!Latest(f)
      BY <3>4 DEF Review!Reporting
    <3>6. b.status[f] # "absent" /\ b.at = Review!LastReported(f)
      BY <3>4, <3>5 DEF Review!Reporting, Review!LastReported
    <3>7. b.at >= ledger[d].at
      BY <3>2, <3>3, <3>4, <3>6
    <3>8. f \in Findings
      BY DEF Review!OpenFindings
    <3> QED BY <1>1, <3>2, <3>6, <3>7, <3>8 DEF ReviewInv, Heard
  <2>2. Review!TypeOK
    BY <1>1 DEF ReviewInv, ReviewTypes
  <2> QED BY <2>1, <2>2 DEF Review!AnswersReachARun
<1> QED BY <1>1, ReviewInvHolds, PTL

-----------------------------------------------------------------------------
(* How much a brief selects *)

\* Comparing by urgency comes to comparing numbers.
LEMMA UrgencyOrders ==
    ASSUME ReviewLimits, Review!TypeOK, NEW f \in Review!Considered, NEW g \in Review!Considered,
           NEW h \in Review!Considered
    PROVE  /\ ~Review!MoreUrgent(f, f)
           /\ Review!MoreUrgent(f, g) => ~Review!MoreUrgent(g, f)
           /\ Review!MoreUrgent(f, g) /\ Review!MoreUrgent(g, h) => Review!MoreUrgent(f, h)
           /\ Review!SameUrgency(f, g) /\ Review!MoreUrgent(g, h) => Review!MoreUrgent(f, h)
           /\ Review!MoreUrgent(f, g) /\ Review!SameUrgency(g, h) => Review!MoreUrgent(f, h)
           /\ Review!SameUrgency(f, g) /\ Review!SameUrgency(g, h) => Review!SameUrgency(f, h)
<1>1. \A x \in Review!Considered :
          /\ Review!Evidence(x) \in 0..1 /\ Priority[x] \in Nat /\ Review!LastReported(x) \in 0..MaxTime
  <2> TAKE x \in Review!Considered
  <2>1. x \in Findings /\ Review!Reporting(x) # {}
    BY DEF Review!Considered, Review!OpenFindings, Review!IsOpen
  <2>2. Review!LastReported(x) \in 0..MaxTime
    BY <2>1, LatestIs
  <2>3. Review!Evidence(x) \in 0..1
    BY DEF Review!Evidence
  <2> QED BY <2>1, <2>2, <2>3 DEF ReviewLimits
<1>2. \A x \in {f, g, h} : \E e \in Int, p \in Int, t \in Int :
          e = Review!Evidence(x) /\ p = Priority[x] /\ t = Review!LastReported(x)
  BY <1>1
<1>3. PICK e1 \in Int, p1 \in Int, t1 \in Int :
          e1 = Review!Evidence(f) /\ p1 = Priority[f] /\ t1 = Review!LastReported(f)
  BY <1>2
<1>4. PICK e2 \in Int, p2 \in Int, t2 \in Int :
          e2 = Review!Evidence(g) /\ p2 = Priority[g] /\ t2 = Review!LastReported(g)
  BY <1>2
<1>5. PICK e3 \in Int, p3 \in Int, t3 \in Int :
          e3 = Review!Evidence(h) /\ p3 = Priority[h] /\ t3 = Review!LastReported(h)
  BY <1>2
<1> QED BY <1>3, <1>4, <1>5 DEF Review!MoreUrgent, Review!SameUrgency


LEMMA ConsideredIs ==
    ASSUME ReviewLimits
    PROVE  Review!Considered \subseteq Findings /\ IsFiniteSet(Review!Considered)
<1>1. Review!Considered \in SUBSET Findings
  BY DEF Review!Considered, Review!OpenFindings
<1> QED BY <1>1, FS_Subset DEF ReviewLimits

LEMMA BeforeOrders ==
    ASSUME ReviewLimits, Review!TypeOK, NEW f \in Review!Considered, NEW g \in Review!Considered,
           NEW h \in Review!Considered
    PROVE  /\ ~Review!Before(f, f)
           /\ f # g => Review!Before(f, g) \/ Review!Before(g, f)
           /\ Review!Before(f, g) /\ Review!Before(g, h) => Review!Before(f, h)
<1>1. f \in Nat /\ g \in Nat /\ h \in Nat
  BY ConsideredIs DEF ReviewLimits
<1>2. ~Review!Before(f, f)
  BY <1>1, UrgencyOrders DEF Review!Before
<1>3. f # g => Review!Before(f, g) \/ Review!Before(g, f)
  <2>1. Review!MoreUrgent(f, g) \/ Review!MoreUrgent(g, f)
        \/ (Review!SameUrgency(f, g) /\ Review!SameUrgency(g, f))
    BY DEF Review!SameUrgency
  <2> QED BY <1>1, <2>1 DEF Review!Before
<1>4. Review!Before(f, g) /\ Review!Before(g, h) => Review!Before(f, h)
  <2>1. f < g /\ g < h => f < h
    BY <1>1
  <2> QED BY <2>1, UrgencyOrders DEF Review!Before
<1> QED BY <1>2, <1>3, <1>4

\* Every note has a most urgent finding.
LEMMA ForemostIs ==
    ASSUME ReviewLimits, Review!TypeOK, NEW n \in Review!Notes
    PROVE  Review!Foremost(n) \in Review!Considered
<1> DEFINE S == Review!OnNote(n)
           B == [f \in S |-> {g \in S : Review!Before(g, f)}]
<1>1. S # {} /\ S \in SUBSET Review!Considered
  BY DEF Review!OnNote, Review!Notes
<1>2. IsFiniteSet(S)
  BY <1>1, ConsideredIs, FS_Subset
<1>3. \A f, g, h \in S : /\ ~Review!Before(f, f)
                         /\ f # g => Review!Before(f, g) \/ Review!Before(g, f)
                         /\ Review!Before(f, g) /\ Review!Before(g, h) => Review!Before(f, h)
  BY <1>1, BeforeOrders
<1>4. B \in [S -> SUBSET S] /\ \A f, g \in S : g \in B[f] <=> Review!Before(g, f)
  OBVIOUS
<1> HIDE DEF S, B
<1>5. StrictOrder(S, B)
  BY <1>2, <1>3, <1>4 DEF StrictOrder
<1>6. PICK f \in S : \A g \in S \ {f} : f \in B[g]
  BY <1>1, <1>5, FirstOf
<1>7. \A g \in S \ {f} : Review!Before(f, g)
  BY <1>4, <1>6
<1>8. Review!Foremost(n) \in S
  BY <1>7 DEF S, Review!Foremost
<1> QED BY <1>1, <1>8

LEMMA NotesOrder ==
    ASSUME ReviewLimits, Review!TypeOK, NEW n \in Review!Notes, NEW m \in Review!Notes, NEW k \in Review!Notes
    PROVE  /\ ~Review!NoteBefore(n, n)
           /\ n # m => Review!NoteBefore(n, m) \/ Review!NoteBefore(m, n)
           /\ Review!NoteBefore(n, m) /\ Review!NoteBefore(m, k) => Review!NoteBefore(n, k)
<1>1. n \in Nat /\ m \in Nat /\ k \in Nat
  BY ConsideredIs DEF ReviewLimits, Review!Notes
<1>2. PICK f \in Review!Considered, g \in Review!Considered, h \in Review!Considered :
          f = Review!Foremost(n) /\ g = Review!Foremost(m) /\ h = Review!Foremost(k)
  BY ForemostIs
<1>3. ~Review!NoteBefore(n, n)
  BY <1>1, <1>2, UrgencyOrders DEF Review!NoteBefore
<1>4. n # m => Review!NoteBefore(n, m) \/ Review!NoteBefore(m, n)
  <2>1. Review!MoreUrgent(f, g) \/ Review!MoreUrgent(g, f)
        \/ (Review!SameUrgency(f, g) /\ Review!SameUrgency(g, f))
    BY DEF Review!SameUrgency
  <2> QED BY <1>1, <1>2, <2>1 DEF Review!NoteBefore
<1>5. Review!NoteBefore(n, m) /\ Review!NoteBefore(m, k) => Review!NoteBefore(n, k)
  <2>1. n < m /\ m < k => n < k
    BY <1>1
  <2> QED BY <1>2, <2>1, UrgencyOrders DEF Review!NoteBefore
<1> QED BY <1>3, <1>4, <1>5

LEMMA ListedOrders ==
    ASSUME ReviewLimits, Review!TypeOK, NEW f \in Review!Considered, NEW g \in Review!Considered,
           NEW h \in Review!Considered
    PROVE  /\ ~Review!Listed(f, f)
           /\ f # g => Review!Listed(f, g) \/ Review!Listed(g, f)
           /\ Review!Listed(f, g) /\ Review!Listed(g, h) => Review!Listed(f, h)
<1>1. NoteOf[f] \in Review!Notes /\ NoteOf[g] \in Review!Notes /\ NoteOf[h] \in Review!Notes
  BY DEF Review!Notes
<1>2. ~Review!Listed(f, f)
  BY BeforeOrders DEF Review!Listed
<1>3. f # g => Review!Listed(f, g) \/ Review!Listed(g, f)
  BY <1>1, BeforeOrders, NotesOrder DEF Review!Listed
<1>4. Review!Listed(f, g) /\ Review!Listed(g, h) => Review!Listed(f, h)
  <2> SUFFICES ASSUME Review!Listed(f, g), Review!Listed(g, h) PROVE Review!Listed(f, h)
    OBVIOUS
  <2>1. CASE NoteOf[f] = NoteOf[g] /\ NoteOf[g] = NoteOf[h]
    BY <2>1, BeforeOrders DEF Review!Listed
  <2>2. CASE NoteOf[f] = NoteOf[g] /\ NoteOf[g] # NoteOf[h]
    BY <2>2 DEF Review!Listed
  <2>3. CASE NoteOf[f] # NoteOf[g] /\ NoteOf[g] = NoteOf[h]
    BY <2>3 DEF Review!Listed
  <2>4. CASE NoteOf[f] # NoteOf[g] /\ NoteOf[g] # NoteOf[h]
    <3>1. Review!NoteBefore(NoteOf[f], NoteOf[g]) /\ Review!NoteBefore(NoteOf[g], NoteOf[h])
      BY <2>4 DEF Review!Listed
    <3>2. Review!NoteBefore(NoteOf[f], NoteOf[h])
      BY <1>1, <3>1, NotesOrder
    <3>3. NoteOf[f] # NoteOf[h]
      BY <1>1, <3>2, NotesOrder
    <3> QED BY <3>2, <3>3 DEF Review!Listed
  <2> QED BY <2>1, <2>2, <2>3, <2>4
<1> QED BY <1>2, <1>3, <1>4

NotesOf(S) == {NoteOf[f] : f \in S}

LEMMA NotesOfFinite ==
    ASSUME ReviewLimits, NEW S \in SUBSET Findings
    PROVE  IsFiniteSet(S) /\ IsFiniteSet(NotesOf(S)) /\ Cardinality(S) \in Nat /\ Cardinality(NotesOf(S)) \in Nat
<1>1. IsFiniteSet(S)
  BY FS_Subset DEF ReviewLimits
<1> DEFINE note == [f \in S |-> NoteOf[f]]
<1>2. note \in Surjection(S, NotesOf(S))
  BY DEF Surjection, NotesOf
<1>3. IsFiniteSet(NotesOf(S))
  BY <1>1, <1>2, FS_Surjection DEF ExistsSurjection
<1> QED BY <1>1, <1>3, FS_CardinalityType

\* A brief holds at most MaxFindings findings, of at most MaxNotes notes.
LEMMA BriefIsSmall ==
    ASSUME ReviewLimits, Review!TypeOK
    PROVE  /\ Review!Picked \in SUBSET Findings
           /\ Cardinality(Review!Picked) <= MaxFindings
           /\ Cardinality(NotesOf(Review!Picked)) <= MaxNotes
<1>1. Review!Considered \subseteq Findings /\ IsFiniteSet(Review!Considered)
  BY ConsideredIs
<1>2. MaxNotes \in Nat /\ MaxFindings \in Nat
  BY DEF ReviewLimits
<1> DEFINE whole == {f \in Review!Considered : NoteOf[f] \in Review!Taken}
<1>3. whole \in SUBSET Review!Considered
  OBVIOUS
<1>4. Review!Picked = {f \in whole : Cardinality({g \in whole : Review!Listed(g, f)}) < MaxFindings}
  BY ReviewCardinality DEF Review!Picked
<1> HIDE DEF whole
<1>5. Cardinality(Review!Picked) <= MaxFindings
  <2> DEFINE B == [f \in whole |-> {g \in whole : Review!Listed(g, f)}]
  <2>1. IsFiniteSet(whole)
    BY <1>1, <1>3, FS_Subset
  <2>2. B \in [whole -> SUBSET whole] /\ \A f, g \in whole : g \in B[f] <=> Review!Listed(g, f)
    OBVIOUS
  <2>3. Review!Picked = {f \in whole : Cardinality(B[f]) < MaxFindings}
    BY <1>4
  <2>4. \A f, g, h \in whole : /\ ~Review!Listed(f, f)
                               /\ f # g => Review!Listed(f, g) \/ Review!Listed(g, f)
                               /\ Review!Listed(f, g) /\ Review!Listed(g, h) => Review!Listed(f, h)
    BY <1>3, ListedOrders
  <2> HIDE DEF B
  <2>5. StrictOrder(whole, B)
    BY <2>1, <2>2, <2>4 DEF StrictOrder
  <2> QED BY <1>2, <2>3, <2>5, FirstFew
<1>6. Cardinality(NotesOf(Review!Picked)) <= MaxNotes
  <2> DEFINE N == Review!Notes
             B == [n \in N |-> {m \in N : Review!NoteBefore(m, n)}]
  <2>1. IsFiniteSet(N)
    <3>1. N = NotesOf(Review!Considered)
      BY DEF Review!Notes, NotesOf
    <3> QED BY <1>1, <3>1, NotesOfFinite
  <2>2. B \in [N -> SUBSET N] /\ \A n, m \in N : m \in B[n] <=> Review!NoteBefore(m, n)
    OBVIOUS
  <2>3. Review!Taken = {n \in N : Cardinality(B[n]) < MaxNotes}
    BY ReviewCardinality DEF Review!Taken
  <2>4. \A n, m, k \in N : /\ ~Review!NoteBefore(n, n)
                           /\ n # m => Review!NoteBefore(n, m) \/ Review!NoteBefore(m, n)
                           /\ Review!NoteBefore(n, m) /\ Review!NoteBefore(m, k) => Review!NoteBefore(n, k)
    BY NotesOrder
  <2> HIDE DEF N, B
  <2>5. StrictOrder(N, B)
    BY <2>1, <2>2, <2>4 DEF StrictOrder
  <2>6. IsFiniteSet(Review!Taken) /\ Cardinality(Review!Taken) \in Nat /\ Cardinality(Review!Taken) <= MaxNotes
    BY <1>2, <2>3, <2>5, FirstFew
  <2>7. NotesOf(Review!Picked) \in SUBSET Review!Taken
    BY <1>4 DEF NotesOf, whole
  <2>8. Cardinality(NotesOf(Review!Picked)) <= Cardinality(Review!Taken)
    BY <2>6, <2>7, FS_Subset
  <2>9. Cardinality(NotesOf(Review!Picked)) \in Nat
    BY <2>6, <2>7, FS_Subset, FS_CardinalityType
  <2> QED BY <1>2, <2>6, <2>8, <2>9
<1> QED BY <1>1, <1>3, <1>4, <1>5, <1>6

\* Each run looks at no more than a brief holds.
LookedAt ==
    /\ Cardinality(looked) <= runs * MaxFindings
    /\ Cardinality(NotesOf(looked)) <= runs * MaxNotes

LEMMA LookedAtStarts ==
    ASSUME ReviewLimits, Review!Init
    PROVE  LookedAt
<1>1. looked = {} /\ runs = 0
  BY DEF Review!Init
<1>2. NotesOf(looked) = {}
  BY <1>1 DEF NotesOf
<1>3. 0 * MaxFindings = 0 /\ 0 * MaxNotes = 0
  BY DEF ReviewLimits
<1>4. Cardinality(looked) = 0 /\ Cardinality(NotesOf(looked)) = 0
  BY <1>1, <1>2, FS_EmptySet
<1> QED BY <1>1, <1>3, <1>4 DEF LookedAt

LEMMA LookedAtStays ==
    ASSUME ReviewLimits, Review!TypeOK, LookedAt, [Review!Next]_Review!vars
    PROVE  LookedAt'
<1>1. CASE UNCHANGED <<looked, runs>>
  BY <1>1 DEF LookedAt
<1>2. CASE Review!StartRun
  <2> DEFINE P == Review!Picked
  <2>1. looked' = looked \cup P /\ runs' = runs + 1 /\ looked \in SUBSET Findings /\ runs \in Nat
    BY <1>2 DEF Review!StartRun, Review!TypeOK
  <2>2. P \in SUBSET Findings /\ Cardinality(P) <= MaxFindings /\ Cardinality(NotesOf(P)) <= MaxNotes
    BY BriefIsSmall
  <2> HIDE DEF P
  <2>3. /\ IsFiniteSet(P) /\ Cardinality(P) \in Nat
        /\ IsFiniteSet(NotesOf(P)) /\ Cardinality(NotesOf(P)) \in Nat
    BY <2>2, NotesOfFinite
  <2>4. /\ IsFiniteSet(looked) /\ Cardinality(looked) \in Nat
        /\ IsFiniteSet(NotesOf(looked)) /\ Cardinality(NotesOf(looked)) \in Nat
    BY <2>1, NotesOfFinite
  <2>5. NotesOf(looked') = NotesOf(looked) \cup NotesOf(P)
    BY <2>1 DEF NotesOf
  <2>6. \A S, T : IsFiniteSet(S) /\ IsFiniteSet(T) /\ Cardinality(S) \in Nat /\ Cardinality(T) \in Nat
                      => Cardinality(S \cup T) <= Cardinality(S) + Cardinality(T)
    <3> TAKE S, T
    <3> HAVE IsFiniteSet(S) /\ IsFiniteSet(T) /\ Cardinality(S) \in Nat /\ Cardinality(T) \in Nat
    <3>1. Cardinality(S \cup T) = Cardinality(S) + Cardinality(T) - Cardinality(S \cap T)
      BY FS_Union
    <3>2. Cardinality(S \cap T) \in Nat
      BY FS_Subset, FS_CardinalityType
    <3> QED BY <3>1, <3>2
  <2>7. /\ Cardinality(looked') <= Cardinality(looked) + Cardinality(P)
        /\ Cardinality(NotesOf(looked')) <= Cardinality(NotesOf(looked)) + Cardinality(NotesOf(P))
    <3>1. Cardinality(looked \cup P) <= Cardinality(looked) + Cardinality(P)
      BY <2>3, <2>4, <2>6
    <3>2. Cardinality(NotesOf(looked) \cup NotesOf(P)) <= Cardinality(NotesOf(looked)) + Cardinality(NotesOf(P))
      BY <2>3, <2>4, <2>6
    <3> QED BY <2>1, <2>5, <3>1, <3>2
  <2>8. looked' \in SUBSET Findings
    BY <2>1, <2>2
  <2>9. Cardinality(looked') \in Nat /\ Cardinality(NotesOf(looked')) \in Nat
    BY <2>8, NotesOfFinite
  <2>10. /\ MaxFindings \in Nat /\ MaxNotes \in Nat
         /\ runs * MaxFindings \in Nat /\ runs * MaxNotes \in Nat
         /\ runs' * MaxFindings = runs * MaxFindings + MaxFindings
         /\ runs' * MaxNotes = runs * MaxNotes + MaxNotes
    BY <2>1 DEF ReviewLimits
  <2>11. Cardinality(looked') <= runs' * MaxFindings
    BY <2>2, <2>3, <2>4, <2>7, <2>9, <2>10 DEF LookedAt
  <2>12. Cardinality(NotesOf(looked')) <= runs' * MaxNotes
    BY <2>2, <2>3, <2>4, <2>7, <2>9, <2>10 DEF LookedAt
  <2> QED BY <2>11, <2>12 DEF LookedAt
<1> QED BY <1>1, <1>2 DEF Review!Next, Review!vars, Review!EndRun, Review!Tick, Review!SessionAudit,
                          Review!AcceptAnswer, Review!AppendAnswer

\* Fewer runs than announced cannot look at every finding in scope (types.ts 702).
THEOREM ScopeTakesThatManyRunsHolds ==
    ASSUME ReviewLimits
    PROVE  Review!Spec => []Review!ScopeTakesThatManyRuns
<1>1. ASSUME Review!TypeOK, LookedAt PROVE Review!ScopeTakesThatManyRuns
  <2> DEFINE start == {f \in InScope : f \notin Human}
             a == Cardinality(start)
             b == Cardinality(NotesOf(start))
  <2>1. start \in SUBSET Findings /\ looked \in SUBSET Findings /\ runs \in Nat
    <3>1. start \in SUBSET Findings
      BY DEF ReviewLimits
    <3> HIDE DEF start
    <3>2. looked \in SUBSET Findings /\ runs \in Nat
      BY <1>1 DEF ReviewLimits, Review!TypeOK
    <3> QED BY <3>1, <3>2
  <2>2. Review!Covering(start) = Review!Max({Review!Ceil(a, MaxFindings), Review!Ceil(b, MaxNotes)})
    BY ReviewCardinality DEF Review!Covering, NotesOf
  <2> HIDE DEF start
  <2>3. SUFFICES ASSUME start \subseteq looked PROVE runs >= Review!Covering(start)
    BY DEF Review!ScopeTakesThatManyRuns, start
  <2>4. NotesOf(start) \in SUBSET NotesOf(looked)
    BY <2>3 DEF NotesOf
  <2>5. a \in Nat /\ b \in Nat /\ Cardinality(looked) \in Nat /\ Cardinality(NotesOf(looked)) \in Nat
    BY <2>1, NotesOfFinite
  <2>6. a <= Cardinality(looked) /\ b <= Cardinality(NotesOf(looked))
    <3>1. IsFiniteSet(looked) /\ IsFiniteSet(NotesOf(looked))
      BY <2>1, NotesOfFinite
    <3> QED BY <2>3, <2>4, <3>1, FS_Subset
  <2> HIDE DEF a, b
  <2>7. MaxFindings \in Nat \ {0} /\ MaxNotes \in Nat \ {0} /\ runs * MaxFindings \in Nat /\ runs * MaxNotes \in Nat
    BY <2>1 DEF ReviewLimits
  <2>8. a <= runs * MaxFindings /\ b <= runs * MaxNotes
    BY <1>1, <2>5, <2>6, <2>7 DEF LookedAt
  <2>9. /\ Review!Ceil(a, MaxFindings) \in Int /\ Review!Ceil(b, MaxNotes) \in Int
        /\ Review!Ceil(a, MaxFindings) <= runs /\ Review!Ceil(b, MaxNotes) <= runs
    <3>1. (a + MaxFindings - 1) \div MaxFindings <= runs /\ (b + MaxNotes - 1) \div MaxNotes <= runs
      BY <2>1, <2>5, <2>7, <2>8, CeilFits
    <3>2. (a + MaxFindings - 1) \div MaxFindings \in Int /\ (b + MaxNotes - 1) \div MaxNotes \in Int
      BY <2>5, <2>7
    <3> QED BY <3>1, <3>2 DEF Review!Ceil
  <2>10. \A x \in Int, y \in Int : Review!Max({x, y}) \in {x, y}
    <3> TAKE x \in Int, y \in Int
    <3>1. \E z \in {x, y} : \A w \in {x, y} : z >= w
      OBVIOUS
    <3> QED BY <3>1 DEF Review!Max
  <2>11. Review!Covering(start) \in {Review!Ceil(a, MaxFindings), Review!Ceil(b, MaxNotes)}
    BY <2>2, <2>9, <2>10
  <2> QED BY <2>1, <2>9, <2>11
<1>2. ReviewInv => Review!TypeOK
  BY DEF ReviewInv, ReviewTypes
<1>3. Review!Init => LookedAt
  BY LookedAtStarts
<1>4. Review!TypeOK /\ LookedAt /\ [Review!Next]_Review!vars => LookedAt'
  BY LookedAtStays
<1> QED BY <1>1, <1>2, <1>3, <1>4, ReviewInvHolds, PTL DEF Review!Spec

-----------------------------------------------------------------------------
(* How far the tasks of a product have been proven, as their gates and those of the *)
(* release trains that carry them say                                                *)

Ladder == INSTANCE ReleaseLadder

LadderRun == [gate : [Ladder!Names -> Ladder!Statuses], declared : BOOLEAN, readable : BOOLEAN,
              status : STRING, carries : SUBSET Nat, waits : BOOLEAN, wait : Nat, at : Int]

\* The runs of a product.
Product(product) ==
    /\ DOMAIN product \subseteq Nat \ {0} /\ IsFiniteSet(DOMAIN product)
    /\ product \in [DOMAIN product -> LadderRun]

LEMMA LadderCardinality == \A S : Ladder!Cardinality(S) = Cardinality(S)
  BY DEF Ladder!Cardinality, Cardinality

LEMMA RungNames ==
    /\ Ladder!Rungs = 1..5 /\ Ladder!ProdRungs = {4, 5} /\ Ladder!ProdRungs \subseteq Ladder!Rungs
    /\ \A i \in Ladder!Rungs : Ladder!RELEASE_LADDER[i] \in Ladder!Names
    /\ \A i \in Ladder!ProdRungs : i # 3
    /\ Ladder!Alias \in Ladder!Names
<1>1. Ladder!Rungs = 1..5
  BY DEF Ladder!Rungs, Ladder!RELEASE_LADDER
<1>2. \A i \in Ladder!Rungs : Ladder!RELEASE_LADDER[i] \in Ladder!Names
  BY DEF Ladder!Names
<1>3. Ladder!ProdRungs = {4, 5} /\ Ladder!ProdRungs \subseteq 1..5 /\ \A i \in Ladder!ProdRungs : i # 3
  BY DEF Ladder!ProdRungs
<1> QED BY <1>1, <1>2, <1>3 DEF Ladder!Names

LEMMA CellTypes ==
    ASSUME NEW entry \in LadderRun, NEW i \in Ladder!Rungs
    PROVE  Ladder!OwnCell(entry, i) \in Ladder!Statuses
<1>1. Ladder!Gates(entry) \in [Ladder!Names -> Ladder!Statuses]
  BY DEF Ladder!Gates, LadderRun, Ladder!Statuses
<1> QED BY <1>1, RungNames DEF Ladder!OwnCell

LEMMA ProductRun ==
    ASSUME NEW product, Product(product), NEW id \in DOMAIN product
    PROVE  /\ product[id] \in LadderRun /\ product[id].at \in Int /\ id \in Nat /\ id # 0
           /\ product[id].gate \in [Ladder!Names -> Ladder!Statuses]
<1>1. product[id] \in LadderRun /\ id \in Nat /\ id # 0
  BY DEF Product
<1> QED BY <1>1 DEF LadderRun

\* Among some runs there is a newest.
LEMMA NewestIs ==
    ASSUME NEW product, Product(product), NEW some \in SUBSET (DOMAIN product), some # {}
    PROVE  Ladder!Newest(product, some) \in some
<1> DEFINE S == DOMAIN product
           Later(t, u) == product[t].at > product[u].at \/ (product[t].at = product[u].at /\ t < u)
           B == [u \in S |-> {t \in S : Later(t, u)}]
<1>1. IsFiniteSet(S) /\ \A t \in S : t \in Nat /\ product[t].at \in Int
  BY ProductRun DEF Product
<1>2. \A t, u, v \in S : /\ ~Later(t, t)
                         /\ t # u => Later(t, u) \/ Later(u, t)
                         /\ Later(t, u) /\ Later(u, v) => Later(t, v)
  <2> SUFFICES ASSUME NEW t \in S, NEW u \in S, NEW v \in S
               PROVE  /\ ~Later(t, t)
                      /\ t # u => Later(t, u) \/ Later(u, t)
                      /\ Later(t, u) /\ Later(u, v) => Later(t, v)
    OBVIOUS
  <2>1. PICK a \in Int, b \in Int, c \in Int : a = product[t].at /\ b = product[u].at /\ c = product[v].at
    BY <1>1
  <2>2. t \in Nat /\ u \in Nat /\ v \in Nat
    BY <1>1
  <2> QED BY <2>1, <2>2
<1>3. B \in [S -> SUBSET S] /\ \A t, u \in S : t \in B[u] <=> Later(t, u)
  OBVIOUS
<1>4. some \in SUBSET S
  OBVIOUS
<1> HIDE DEF S, B, Later
<1>5. StrictOrder(S, B)
  BY <1>1, <1>2, <1>3 DEF StrictOrder
<1>6. PICK t \in some : \A u \in some \ {t} : t \in B[u]
  BY <1>4, <1>5, FirstOf
<1>7. \A u \in some \ {t} : Later(t, u)
  BY <1>3, <1>4, <1>6
<1> QED BY <1>7 DEF Ladder!Newest, Later

\* The train that speaks for a rung has the gate, and has it open if any of them has.
LEMMA SpeakerIs ==
    ASSUME NEW product, Product(product), NEW id, NEW i, NEW offered, offered = Ladder!Offered(product, id, i),
           offered # {}
    PROVE  LET s == Ladder!Speaker(product, offered, i)
           IN  /\ s \in offered /\ s \in DOMAIN product /\ s # 0
               /\ (\E t \in offered : Ladder!OwnCell(product[t], i) # "pass") => Ladder!OwnCell(product[s], i) # "pass"
<1> DEFINE open == {t \in offered : Ladder!OwnCell(product[t], i) # "pass"}
           some == IF open # {} THEN open ELSE offered
<1>1. offered \subseteq DOMAIN product
  BY DEF Ladder!Offered, Ladder!TrainsOf
<1>2. some \in SUBSET (DOMAIN product) /\ some # {} /\ some \subseteq offered
  BY <1>1
<1>3. Ladder!Speaker(product, offered, i) = Ladder!Newest(product, some)
  BY DEF Ladder!Speaker
<1>4. (\E t \in offered : Ladder!OwnCell(product[t], i) # "pass") => \A t \in some : Ladder!OwnCell(product[t], i) # "pass"
  OBVIOUS
<1> HIDE DEF some, open
<1>5. Ladder!Newest(product, some) \in some
  BY <1>2, NewestIs
<1>6. Ladder!Newest(product, some) # 0
  BY <1>1, <1>2, <1>5, ProductRun
<1> QED BY <1>1, <1>2, <1>3, <1>4, <1>5, <1>6

\* Where a cell is read.
LEMMA ViaIs ==
    ASSUME NEW product, Product(product), NEW id \in DOMAIN product, NEW i \in Ladder!Rungs
    PROVE  LET via == Ladder!Via(product, id, i) offered == Ladder!Offered(product, id, i)
           IN  /\ via = 0 => Ladder!Cell(product, id, i) = Ladder!OwnCell(product[id], i)
               /\ via # 0 => /\ i \in Ladder!ProdRungs /\ Ladder!OwnCell(product[id], i) = "absent"
                             /\ offered # {} /\ via = Ladder!Speaker(product, offered, i)
                             /\ Ladder!Cell(product, id, i) = Ladder!OwnCell(product[via], i)
               /\ i \in Ladder!ProdRungs /\ Ladder!OwnCell(product[id], i) = "absent" /\ offered # {}
                     => via = Ladder!Speaker(product, offered, i)
               /\ Ladder!Cell(product, id, i) \in Ladder!Statuses
<1> DEFINE via == Ladder!Via(product, id, i)
           offered == Ladder!Offered(product, id, i)
<1>1. via # 0 => /\ i \in Ladder!ProdRungs /\ Ladder!OwnCell(product[id], i) = "absent"
                 /\ offered # {} /\ via = Ladder!Speaker(product, offered, i)
  BY DEF Ladder!Via
<1>2. i \in Ladder!ProdRungs /\ Ladder!OwnCell(product[id], i) = "absent" /\ offered # {}
          => via = Ladder!Speaker(product, offered, i)
  BY DEF Ladder!Via
<1>3. via = 0 => Ladder!Cell(product, id, i) = Ladder!OwnCell(product[id], i)
  BY DEF Ladder!Cell
<1>4. via # 0 => Ladder!Cell(product, id, i) = Ladder!OwnCell(product[via], i)
  BY DEF Ladder!Cell
<1>5. via # 0 => via \in DOMAIN product
  BY <1>1, SpeakerIs
<1> HIDE DEF via, offered
<1>6. Ladder!Cell(product, id, i) \in Ladder!Statuses
  BY <1>3, <1>4, <1>5, ProductRun, CellTypes
<1> QED BY <1>1, <1>2, <1>3, <1>4, <1>6 DEF via, offered

\* How far a ladder reaches.
LEMMA HighestIs ==
    ASSUME NEW cells
    PROVE  /\ Ladder!Highest(cells) \in 0..5
           /\ \A i \in Ladder!Rungs : cells[i] = "pass" => i <= Ladder!Highest(cells)
           /\ Ladder!Highest(cells) # 0 => cells[Ladder!Highest(cells)] = "pass"
<1> DEFINE S == {0} \cup Ladder!Passed(cells)
<1>1. S \in SUBSET (0..5) /\ S # {}
  BY RungNames DEF Ladder!Passed
<1>2. \A y \in S : y # 0 => cells[y] = "pass"
  BY DEF Ladder!Passed
<1>3. \A i \in Ladder!Rungs : cells[i] = "pass" => i \in S
  BY DEF Ladder!Passed
<1>4. Ladder!Highest(cells) = Ladder!Max(S)
  BY DEF Ladder!Highest
<1> HIDE DEF S
<1>5. \E z \in S : \A y \in S : z >= y
  BY <1>1, SomeMax
<1>6. Ladder!Max(S) \in S /\ \A y \in S : Ladder!Max(S) >= y
  BY <1>5 DEF Ladder!Max
<1>7. \A y \in S : y \in 0..5
  BY <1>1
<1> QED BY <1>2, <1>3, <1>4, <1>6, <1>7

\* The least of 6 and some rungs.
LEMMA LeastRung ==
    ASSUME NEW T \in SUBSET Ladder!Rungs
    PROVE  /\ Ladder!Min({6} \cup T) \in {6} \cup T
           /\ \A y \in T : Ladder!Min({6} \cup T) <= y
           /\ T = {} => Ladder!Min({6} \cup T) = 6
<1> DEFINE S == {6} \cup T
<1>1. S \in SUBSET Nat /\ S # {}
  BY RungNames
<1> HIDE DEF S
<1>2. \E m \in S : \A y \in S : m <= y
  BY <1>1, LeastNat
<1>3. Ladder!Min(S) \in S /\ \A y \in S : Ladder!Min(S) <= y
  BY <1>2 DEF Ladder!Min
<1> QED BY <1>3 DEF S

LEMMA FirstOpenIs ==
    ASSUME NEW cells
    PROVE  LET f == Ladder!FirstOpen(cells)
           IN  /\ f # 6 => f \in Ladder!Rungs /\ cells[f] = "pending"
               /\ Ladder!Pending(cells) = {} => f = 6
               /\ f \in {6} \cup Ladder!Rungs
<1>1. Ladder!Pending(cells) \in SUBSET Ladder!Rungs
  BY DEF Ladder!Pending
<1>2. Ladder!FirstOpen(cells) = Ladder!Min({6} \cup Ladder!Pending(cells))
  BY DEF Ladder!FirstOpen
<1>3. \A y \in Ladder!Pending(cells) : cells[y] = "pending"
  BY DEF Ladder!Pending
<1> QED BY <1>1, <1>2, <1>3, LeastRung

\* Two disjoint parts of a finite set count as their sizes together.
LEMMA CountsAdd ==
    ASSUME NEW S, NEW T, IsFiniteSet(S), IsFiniteSet(T), S \cap T = {}
    PROVE  /\ IsFiniteSet(S \cup T) /\ Cardinality(S \cup T) = Cardinality(S) + Cardinality(T)
           /\ Cardinality(S) \in Nat /\ Cardinality(T) \in Nat
<1>1. Cardinality(S) \in Nat /\ Cardinality(T) \in Nat
  BY FS_CardinalityType
<1>2. /\ IsFiniteSet(S \cup T)
      /\ Cardinality(S \cup T) = Cardinality(S) + Cardinality(T) - Cardinality(S \cap T)
  BY FS_Union
<1>3. Cardinality(S \cap T) = 0
  BY FS_EmptySet
<1> QED BY <1>1, <1>2, <1>3

\* Every run of a product is counted once.
LEMMA EachRunCountsOnce ==
    ASSUME NEW product, Product(product)
    PROVE  LET tops == Ladder!ByHighest(product)
           IN  tops[0] + tops[1] + tops[2] + tops[3] + tops[4] + tops[5]
                 + Ladder!Cardinality(Ladder!Trains(product)) + Ladder!Cardinality(Ladder!Aborted(product))
                 + Ladder!Cardinality(Ladder!NoGates(product))
               = Ladder!Cardinality(DOMAIN product)
<1> DEFINE D == DOMAIN product
           At(i) == {id \in Ladder!Climbing(product) : Ladder!Highest(Ladder!Cells(product, id)) = i}
           A0 == At(0)  A1 == At(1)  A2 == At(2)  A3 == At(3)  A4 == At(4)  A5 == At(5)
           T == Ladder!Trains(product)  B == Ladder!Aborted(product)  N == Ladder!NoGates(product)
           C == Ladder!Climbing(product)
           tops == Ladder!ByHighest(product)
<1>1. /\ tops[0] = Cardinality(A0) /\ tops[1] = Cardinality(A1) /\ tops[2] = Cardinality(A2)
      /\ tops[3] = Cardinality(A3) /\ tops[4] = Cardinality(A4) /\ tops[5] = Cardinality(A5)
  BY LadderCardinality, RungNames DEF Ladder!ByHighest
<1>2. /\ IsFiniteSet(D) /\ T \subseteq D /\ B \subseteq D /\ N \subseteq D /\ C \subseteq D
      /\ D = C \cup T \cup B \cup N
      /\ C \cap T = {} /\ C \cap B = {} /\ C \cap N = {} /\ T \cap B = {} /\ T \cap N = {} /\ B \cap N = {}
  BY DEF Product, Ladder!Climbing, Ladder!Trains, Ladder!Listed, Ladder!Aborted, Ladder!NoGates
<1>3. C = A0 \cup A1 \cup A2 \cup A3 \cup A4 \cup A5
  <2>1. \A id \in C : Ladder!Highest(Ladder!Cells(product, id)) \in 0..5
    BY HighestIs
  <2> QED BY <2>1
<1>4. /\ A0 \cap A1 = {} /\ (A0 \cup A1) \cap A2 = {} /\ (A0 \cup A1 \cup A2) \cap A3 = {}
      /\ (A0 \cup A1 \cup A2 \cup A3) \cap A4 = {} /\ (A0 \cup A1 \cup A2 \cup A3 \cup A4) \cap A5 = {}
  OBVIOUS
<1>5. /\ Ladder!Cardinality(T) = Cardinality(T) /\ Ladder!Cardinality(B) = Cardinality(B)
      /\ Ladder!Cardinality(N) = Cardinality(N) /\ Ladder!Cardinality(D) = Cardinality(D)
  BY LadderCardinality
<1>6. /\ A0 \in SUBSET D /\ A1 \in SUBSET D /\ A2 \in SUBSET D /\ A3 \in SUBSET D /\ A4 \in SUBSET D
      /\ A5 \in SUBSET D /\ T \in SUBSET D /\ B \in SUBSET D /\ N \in SUBSET D
  BY <1>2
<1> HIDE DEF D, At, A0, A1, A2, A3, A4, A5, T, B, N, C, tops
<1>7. /\ IsFiniteSet(A0) /\ IsFiniteSet(A1) /\ IsFiniteSet(A2) /\ IsFiniteSet(A3) /\ IsFiniteSet(A4)
      /\ IsFiniteSet(A5) /\ IsFiniteSet(T) /\ IsFiniteSet(B) /\ IsFiniteSet(N)
  BY <1>2, <1>6, FS_Subset
<1>8. IsFiniteSet(A0 \cup A1) /\ Cardinality(A0 \cup A1) = Cardinality(A0) + Cardinality(A1)
  BY <1>4, <1>7, CountsAdd
<1>9. /\ IsFiniteSet(A0 \cup A1 \cup A2)
      /\ Cardinality(A0 \cup A1 \cup A2) = Cardinality(A0 \cup A1) + Cardinality(A2)
  BY <1>4, <1>7, <1>8, CountsAdd
<1>10. /\ IsFiniteSet(A0 \cup A1 \cup A2 \cup A3)
       /\ Cardinality(A0 \cup A1 \cup A2 \cup A3) = Cardinality(A0 \cup A1 \cup A2) + Cardinality(A3)
  BY <1>4, <1>7, <1>9, CountsAdd
<1>11. /\ IsFiniteSet(A0 \cup A1 \cup A2 \cup A3 \cup A4)
       /\ Cardinality(A0 \cup A1 \cup A2 \cup A3 \cup A4) = Cardinality(A0 \cup A1 \cup A2 \cup A3) + Cardinality(A4)
  BY <1>4, <1>7, <1>10, CountsAdd
<1>12. IsFiniteSet(C) /\ Cardinality(C) = Cardinality(A0 \cup A1 \cup A2 \cup A3 \cup A4) + Cardinality(A5)
  BY <1>3, <1>4, <1>7, <1>11, CountsAdd
<1>13. IsFiniteSet(C \cup T) /\ Cardinality(C \cup T) = Cardinality(C) + Cardinality(T)
  BY <1>2, <1>7, <1>12, CountsAdd
<1>14. (C \cup T) \cap B = {} /\ (C \cup T \cup B) \cap N = {}
  BY <1>2
<1>15. IsFiniteSet(C \cup T \cup B) /\ Cardinality(C \cup T \cup B) = Cardinality(C \cup T) + Cardinality(B)
  BY <1>7, <1>13, <1>14, CountsAdd
<1>16. Cardinality(D) = Cardinality(C \cup T \cup B) + Cardinality(N)
  BY <1>2, <1>7, <1>14, <1>15, CountsAdd
<1>17. /\ Cardinality(A0) \in Nat /\ Cardinality(A1) \in Nat /\ Cardinality(A2) \in Nat
       /\ Cardinality(A3) \in Nat /\ Cardinality(A4) \in Nat /\ Cardinality(A5) \in Nat
       /\ Cardinality(T) \in Nat /\ Cardinality(B) \in Nat /\ Cardinality(N) \in Nat
  BY <1>7, FS_CardinalityType
<1>18. Cardinality(D) = Cardinality(A0) + Cardinality(A1) + Cardinality(A2) + Cardinality(A3) + Cardinality(A4)
                        + Cardinality(A5) + Cardinality(T) + Cardinality(B) + Cardinality(N)
  BY <1>8, <1>9, <1>10, <1>11, <1>12, <1>13, <1>15, <1>16, <1>17
<1> QED BY <1>1, <1>5, <1>18 DEF D, T, B, N, tops

\* What waits on production is in one group, done only when it was accepted before it was
\* deployed, and in none of what else a production run would unblock.
LEMMA RunsAreCountedOnceHolds ==
    ASSUME NEW product, Product(product)
    PROVE  Ladder!RunsAreCountedOnce(product)
<1> DEFINE waiting == Ladder!Waiting(product)
           Group(ts) == [trains |-> ts, tasks |-> {id \in waiting : Ladder!PendingTrains(product, id) = ts}]
<1>1. Ladder!Card(product) = "none" => \A id \in DOMAIN product : product[id].status = "cancelled"
  BY DEF Ladder!Card, Ladder!Listed, Ladder!Aborted
<1>2. ASSUME NEW id \in waiting
      PROVE  Ladder!Cardinality({g \in Ladder!ProofGroups(product) : id \in g.tasks}) = 1
  <2> DEFINE ts == Ladder!PendingTrains(product, id)
  <2>1. Ladder!ProofGroups(product) = {Group(s) : s \in {Ladder!PendingTrains(product, u) : u \in waiting}}
    BY DEF Ladder!ProofGroups
  <2>2. \A s : Group(s).tasks = {u \in waiting : Ladder!PendingTrains(product, u) = s}
    OBVIOUS
  <2>3. \A s : id \in Group(s).tasks <=> s = ts
    BY <2>2
  <2>4. Group(ts) \in Ladder!ProofGroups(product)
    BY <2>1
  <2> HIDE DEF Group, ts
  <2>5. {g \in Ladder!ProofGroups(product) : id \in g.tasks} = {Group(ts)}
    BY <2>1, <2>3, <2>4
  <2> QED BY <2>5, LadderCardinality, FS_Singleton
<1>3. ASSUME NEW id \in waiting, Ladder!Complete(product, id)
      PROVE  Ladder!FirstOpen(Ladder!Cells(product, id)) = 4
  <2> DEFINE cells == Ladder!Cells(product, id)
             f == Ladder!FirstOpen(cells)
  <2>1. f \in Ladder!ProdRungs
    BY DEF Ladder!Waiting, Ladder!WaitingOnProd
  <2>2. f # 6 /\ f \in {4, 5}
    BY <2>1, RungNames
  <2>3. cells[5] = Ladder!Cell(product, id, 5)
    BY RungNames DEF Ladder!Cells
  <2>4. Ladder!Cell(product, id, 5) = "pass" \/ Ladder!Pending(cells) = {}
    BY <1>3 DEF Ladder!Complete
  <2> HIDE DEF cells
  <2>5. cells[f] = "pending" /\ Ladder!Pending(cells) # {}
    BY <2>2, FirstOpenIs
  <2> HIDE DEF f
  <2>6. f # 5
    BY <2>3, <2>4, <2>5
  <2>7. f = 4
    BY <2>2, <2>6
  <2> QED BY <2>7 DEF f, cells
<1>4. ASSUME NEW g \in Ladder!ProofGroups(product), g.trains # {}
      PROVE  g.tasks \cap Ladder!UnblockedByProdRun(product) = {}
  <2>1. PICK s : g = Group(s)
    BY DEF Ladder!ProofGroups
  <2>2. g.trains = s /\ \A id \in g.tasks : Ladder!PendingTrains(product, id) = s
    BY <2>1
  <2>3. \A id \in g.tasks : Ladder!PendingTrains(product, id) # {}
    BY <2>2, <1>4
  <2>4. \A id \in g.tasks : Ladder!TrainsOf(product, id) # {}
    BY <2>3 DEF Ladder!PendingTrains
  <2> QED BY <2>4 DEF Ladder!UnblockedByProdRun
<1> HIDE DEF waiting, Group
<1>5. \A id \in waiting : Ladder!Cardinality({g \in Ladder!ProofGroups(product) : id \in g.tasks}) = 1
  BY <1>2
<1>6. \A id \in waiting : Ladder!Complete(product, id) => Ladder!FirstOpen(Ladder!Cells(product, id)) = 4
  BY <1>3
<1>7. \A g \in Ladder!ProofGroups(product) : g.trains # {} => g.tasks \cap Ladder!UnblockedByProdRun(product) = {}
  BY <1>4
<1> QED BY <1>1, <1>5, <1>6, <1>7, EachRunCountsOnce DEF Ladder!RunsAreCountedOnce, waiting

\* A production rung read from trains is passed only when no train has it open.
LEMMA ProvenByEveryTrainHolds ==
    ASSUME NEW product, Product(product)
    PROVE  Ladder!ProvenByEveryTrain(product)
<1> SUFFICES ASSUME NEW id \in Ladder!Listed(product)
             PROVE  /\ \A i \in Ladder!ProdRungs :
                          (Ladder!Via(product, id, i) # 0 /\ Ladder!Cell(product, id, i) = "pass") =>
                             \A t \in Ladder!TrainsOf(product, id) : Ladder!OwnCell(product[t], i) \in {"pass", "absent"}
                    /\ Ladder!GateRungProgress(product[id]).reached
                         <= Ladder!RungProgress(Ladder!Cells(product, id)).reached
  BY DEF Ladder!ProvenByEveryTrain
<1>1. id \in DOMAIN product
  BY DEF Ladder!Listed
<1>2. ASSUME NEW i \in Ladder!ProdRungs, Ladder!Via(product, id, i) # 0, Ladder!Cell(product, id, i) = "pass",
             NEW t \in Ladder!TrainsOf(product, id), Ladder!OwnCell(product[t], i) \notin {"pass", "absent"}
      PROVE  FALSE
  <2> DEFINE offered == Ladder!Offered(product, id, i)
             s == Ladder!Speaker(product, offered, i)
  <2>1. i \in Ladder!Rungs
    BY RungNames
  <2>2. offered # {} /\ Ladder!Cell(product, id, i) = Ladder!OwnCell(product[s], i)
    BY <1>1, <1>2, <2>1, ViaIs
  <2>3. t \in offered /\ Ladder!OwnCell(product[t], i) # "pass"
    BY <1>2 DEF Ladder!Offered
  <2>4. Ladder!OwnCell(product[s], i) # "pass"
    BY <2>2, <2>3, SpeakerIs
  <2> QED BY <1>2, <2>2, <2>4
<1>3. Ladder!GateRungProgress(product[id]).reached <= Ladder!RungProgress(Ladder!Cells(product, id)).reached
  <2> DEFINE own == [i \in Ladder!Rungs |-> Ladder!OwnCell(product[id], i)]
             all == Ladder!Cells(product, id)
  <2>1. \A i \in Ladder!Rungs : own[i] = "pass" => all[i] = "pass"
    <3> SUFFICES ASSUME NEW i \in Ladder!Rungs, Ladder!OwnCell(product[id], i) = "pass"
                 PROVE  Ladder!Cell(product, id, i) = "pass"
      BY DEF Ladder!Cells
    <3>1. Ladder!Via(product, id, i) = 0
      BY DEF Ladder!Via
    <3> QED BY <1>1, <3>1, ViaIs
  <2>2. /\ Ladder!GateRungProgress(product[id]).reached = Ladder!Highest(own)
        /\ Ladder!RungProgress(all).reached = Ladder!Highest(all)
    BY DEF Ladder!GateRungProgress, Ladder!RungProgress
  <2> HIDE DEF own, all
  <2>3. /\ Ladder!Highest(own) \in 0..5 /\ Ladder!Highest(all) \in 0..5
        /\ Ladder!Highest(own) # 0 => own[Ladder!Highest(own)] = "pass"
        /\ \A i \in Ladder!Rungs : all[i] = "pass" => i <= Ladder!Highest(all)
    BY HighestIs
  <2>4. Ladder!Highest(own) # 0 => Ladder!Highest(own) \in Ladder!Rungs
    BY <2>3, RungNames
  <2>5. Ladder!Highest(own) <= Ladder!Highest(all)
    BY <2>1, <2>3, <2>4
  <2> QED BY <2>2, <2>5 DEF all
<1>4. \A i \in Ladder!ProdRungs :
         (Ladder!Via(product, id, i) # 0 /\ Ladder!Cell(product, id, i) = "pass") =>
             \A t \in Ladder!TrainsOf(product, id) : Ladder!OwnCell(product[t], i) \in {"pass", "absent"}
  BY <1>2
<1> QED BY <1>3, <1>4

\* Once the trains of a group have passed the rung its tasks wait for, each task has it.
LEMMA GroupWouldProveHolds ==
    ASSUME NEW product, Product(product)
    PROVE  Ladder!GroupWouldProve(product)
<1> SUFFICES ASSUME NEW id \in Ladder!Waiting(product), Ladder!PendingTrains(product, id) # {}
             PROVE  LET i == Ladder!NextProd(product, id)
                        after == [t \in DOMAIN product |->
                            IF t \in Ladder!PendingTrains(product, id)
                            THEN [product[t] EXCEPT !.gate[Ladder!RELEASE_LADDER[i]] = "pass"]
                            ELSE product[t]]
                    IN  Ladder!Cell(after, id, i) = "pass"
  BY DEF Ladder!GroupWouldProve
<1> DEFINE i == Ladder!NextProd(product, id)
           gate == Ladder!RELEASE_LADDER[i]
           P == Ladder!PendingTrains(product, id)
           after == [t \in DOMAIN product |->
                        IF t \in P THEN [product[t] EXCEPT !.gate[gate] = "pass"] ELSE product[t]]
           waits == {r \in Ladder!ProdRungs : Ladder!Cell(product, id, r) = "pending" /\ Ladder!Via(product, id, r) # 0}
<1>1. id \in DOMAIN product /\ product[id].carries = {}
  BY DEF Ladder!Waiting, Ladder!Listed
<1>2. i # 6
  BY DEF Ladder!PendingTrains
<1>3. i \in Ladder!ProdRungs /\ i \in Ladder!Rungs /\ Ladder!Via(product, id, i) # 0
  <2>1. waits \in SUBSET Ladder!Rungs
    BY RungNames
  <2>2. Ladder!Min({6} \cup waits) \in {6} \cup waits
    BY <2>1, LeastRung
  <2>3. i = Ladder!Min({6} \cup waits)
    BY DEF Ladder!NextProd
  <2>4. i \in waits
    BY <1>2, <2>2, <2>3
  <2> QED BY <2>1, <2>4
<1>4. P = {t \in Ladder!TrainsOf(product, id) : Ladder!OwnCell(product[t], i) \notin {"absent", "pass"}}
  BY <1>2 DEF Ladder!PendingTrains
<1>5. i # 3 /\ gate \in Ladder!Names
  BY <1>3, RungNames
<1> DEFINE Sailing(t) == /\ id \in product[t].carries /\ product[t].declared /\ product[t].readable
                         /\ product[t].status \notin {"cancelled", "failed"}
<1>6. Ladder!TrainsOf(product, id) = {t \in DOMAIN product : Sailing(t)}
  BY DEF Ladder!TrainsOf
<1>7. id \notin P
  BY <1>1, <1>4, <1>6
<1>8. DOMAIN after = DOMAIN product /\ after[id] = product[id]
  BY <1>1, <1>7
<1> HIDE DEF P, i, gate, waits
<1>9. ASSUME NEW t \in DOMAIN product
      PROVE  /\ after[t] \in LadderRun
             /\ after[t].carries = product[t].carries /\ after[t].declared = product[t].declared
             /\ after[t].readable = product[t].readable /\ after[t].status = product[t].status
             /\ t \in P => after[t].gate[gate] = "pass"
             /\ t \notin P => after[t] = product[t]
  <2>1. CASE t \notin P
    BY <2>1, <1>9, ProductRun
  <2>2. CASE t \in P
    <3> DEFINE r == product[t]
               g == [r.gate EXCEPT ![gate] = "pass"]
    <3>1. r \in LadderRun /\ r.gate \in [Ladder!Names -> Ladder!Statuses]
      BY <1>9, ProductRun
    <3>2. after[t] = [r EXCEPT !.gate = g]
      BY <2>2
    <3>3. g \in [Ladder!Names -> Ladder!Statuses] /\ g[gate] = "pass"
      BY <1>5, <3>1 DEF Ladder!Statuses
    <3> HIDE DEF r, g, after
    <3>4. /\ [r EXCEPT !.gate = g] \in LadderRun
          /\ [r EXCEPT !.gate = g].carries = r.carries /\ [r EXCEPT !.gate = g].declared = r.declared
          /\ [r EXCEPT !.gate = g].readable = r.readable /\ [r EXCEPT !.gate = g].status = r.status
          /\ [r EXCEPT !.gate = g].gate = g
      BY <3>1, <3>3 DEF LadderRun
    <3> QED BY <2>2, <3>2, <3>3, <3>4 DEF r
  <2> QED BY <2>1, <2>2
<1>10. Product(after)
  <2>1. \A t \in DOMAIN product : after[t] \in LadderRun
    BY <1>9
  <2> QED BY <1>8, <2>1 DEF Product
<1>11. Ladder!TrainsOf(after, id) = Ladder!TrainsOf(product, id)
  <2> HIDE DEF after
  <2>1. Ladder!TrainsOf(after, id) = {t \in DOMAIN after : /\ id \in after[t].carries
            /\ after[t].declared /\ after[t].readable /\ after[t].status \notin {"cancelled", "failed"}}
    BY DEF Ladder!TrainsOf
  <2>2. \A t \in DOMAIN product : Sailing(t) <=> /\ id \in after[t].carries /\ after[t].declared
            /\ after[t].readable /\ after[t].status \notin {"cancelled", "failed"}
    BY <1>9
  <2> HIDE DEF Sailing
  <2> QED BY <1>6, <1>8, <2>1, <2>2
<1>12. ASSUME NEW t \in Ladder!TrainsOf(product, id)
       PROVE  Ladder!OwnCell(after[t], i) = IF t \in P THEN "pass" ELSE Ladder!OwnCell(product[t], i)
  <2>1. t \in DOMAIN product /\ product[t].declared /\ product[t].readable
    BY <1>6
  <2>2. CASE t \in P
    <3> HIDE DEF after
    <3>1. after[t].gate[gate] = "pass" /\ after[t].declared /\ after[t].readable
      BY <2>1, <2>2, <1>9
    <3>2. Ladder!Gates(after[t]) = after[t].gate
      BY <3>1 DEF Ladder!Gates
    <3> QED BY <3>1, <3>2, <1>5, <2>2 DEF Ladder!OwnCell, gate
  <2>3. CASE t \notin P
    BY <2>1, <2>3
  <2> QED BY <2>2, <2>3
<1> HIDE DEF after
<1>13. Ladder!Offered(after, id, i) = Ladder!Offered(product, id, i)
  <2>1. \A t \in Ladder!TrainsOf(product, id) : Ladder!OwnCell(after[t], i) # "absent" <=> Ladder!OwnCell(product[t], i) # "absent"
    BY <1>4, <1>12
  <2> QED BY <1>11, <2>1 DEF Ladder!Offered
<1>14. \A t \in Ladder!Offered(after, id, i) : Ladder!OwnCell(after[t], i) = "pass"
  BY <1>4, <1>12, <1>13 DEF Ladder!Offered
<1>15. Ladder!OwnCell(product[id], i) = "absent" /\ Ladder!Offered(product, id, i) # {}
  BY <1>1, <1>3, ViaIs
<1> DEFINE offered == Ladder!Offered(after, id, i)
           s == Ladder!Speaker(after, offered, i)
<1>16. offered # {} /\ Ladder!OwnCell(after[id], i) = "absent"
  BY <1>8, <1>13, <1>15
<1>17. Ladder!Via(after, id, i) = s
  BY <1>1, <1>3, <1>8, <1>10, <1>16, ViaIs
<1>18. s \in offered /\ s # 0
  BY <1>10, <1>16, SpeakerIs
<1>19. Ladder!Cell(after, id, i) = Ladder!OwnCell(after[s], i)
  BY <1>17, <1>18 DEF Ladder!Cell
<1>20. Ladder!Cell(after, id, i) = "pass"
  BY <1>14, <1>18, <1>19
<1> QED BY <1>20 DEF after, i, P, gate

\* The ladder counts every run once, proves a production rung only by every train that has
\* it, and its groups name the trains that would prove it.
THEOREM LadderIsHonestHolds ==
    ASSUME NEW product, Product(product)
    PROVE  Ladder!LadderIsHonest(product)
BY RunsAreCountedOnceHolds, ProvenByEveryTrainHolds, GroupWouldProveHolds DEF Ladder!LadderIsHonest

-----------------------------------------------------------------------------
(* How fast work closes, as the histories of the runs say                            *)

CONSTANTS WindowDays, Fresh, Near

Flow == INSTANCE FlowInsights WITH Window <- WindowDays, FreshDays <- Fresh, NearStart <- Near

FlowField == {<<k, n>> : k \in {"day", "time"}, n \in Nat} \cup {Flow!None}
FlowRow == [at : FlowField, from : STRING, to : STRING, agent : STRING, operator : BOOLEAN]
FlowRun == [status : Flow!Statuses, startedAt : FlowField, updatedAt : FlowField, completedAt : FlowField,
            history : Seq(FlowRow), kind : {"none", "review", "stale"}, phase : STRING, idle : BOOLEAN]

\* The runs of the office.
Office(product) == IsFiniteSet(DOMAIN product) /\ product \in [DOMAIN product -> FlowRun]

LEMMA FlowConstants == Flow!Quarters = 4 /\ Flow!NoTime = -1
  BY DEF Flow!Quarters, Flow!NoTime

LEMMA FlowCardinality == \A S : Flow!Cardinality(S) = Cardinality(S)
  BY DEF Flow!Cardinality, Cardinality

\* A day has four quarters.
LEMMA DayIs ==
    /\ \A t \in Int : /\ Flow!LocalDay(t) \in Int
                      /\ 4 * Flow!LocalDay(t) <= t /\ t < 4 * Flow!LocalDay(t) + 4
    /\ \A t, k \in Int : Flow!LocalDay(t - k * 4) = Flow!LocalDay(t) - k
    /\ \A t, d \in Int : 4 * d <= t /\ t < 4 * d + 4 => Flow!LocalDay(t) = d
<1>1. \A t \in Int : Flow!LocalDay(t) = t \div 4
  BY FlowConstants DEF Flow!LocalDay
<1>2. \A t \in Int : t \div 4 \in Int /\ 4 * (t \div 4) <= t /\ t < 4 * (t \div 4) + 4
  OBVIOUS
<1>3. \A t, d \in Int : 4 * d <= t /\ t < 4 * d + 4 => t \div 4 = d
  BY <1>2
<1>4. \A t, k \in Int : (t - k * 4) \div 4 = (t \div 4) - k
  <2> SUFFICES ASSUME NEW t \in Int, NEW k \in Int
               PROVE  (t - k * 4) \div 4 = (t \div 4) - k
    OBVIOUS
  <2>1. PICK q \in Int : q = t \div 4
    BY <1>2
  <2>2. 4 * q <= t /\ t < 4 * q + 4
    BY <1>2, <2>1
  <2>3. PICK u \in Int : u = t - k * 4
    OBVIOUS
  <2>4. q - k \in Int /\ 4 * (q - k) <= u /\ u < 4 * (q - k) + 4
    BY <2>2, <2>3
  <2>5. u \div 4 = q - k
    BY <1>3, <2>3, <2>4
  <2> QED BY <2>1, <2>3, <2>5
<1>5. \A t, k \in Int : t - k * 4 \in Int
  OBVIOUS
<1>6. \A t, k \in Int : Flow!LocalDay(t - k * 4) = Flow!LocalDay(t) - k
  BY <1>1, <1>4, <1>5
<1> QED BY <1>1, <1>2, <1>3, <1>6

LEMMA FieldIs ==
    ASSUME NEW f \in FlowField
    PROVE  /\ Flow!OfficeMs(f) \in Nat \cup {-1}
           /\ Flow!OfficeMs(f) # -1 => Flow!DayOf(f) = Flow!LocalDay(Flow!OfficeMs(f))
           /\ \A d \in Nat : f = <<"day", d>> => Flow!OfficeMs(f) = 4 * d
           /\ Flow!OfficeMs(f) = -1 <=> f = Flow!None
<1>1. CASE f = Flow!None
  BY <1>1, FlowConstants DEF Flow!OfficeMs, Flow!None
<1>2. ASSUME NEW n \in Nat, f = <<"day", n>>
      PROVE  /\ Flow!OfficeMs(f) = 4 * n /\ Flow!DayOf(f) = n /\ f # Flow!None
             /\ \A d \in Nat : f = <<"day", d>> => d = n
  BY <1>2, FlowConstants DEF Flow!OfficeMs, Flow!DayOf, Flow!None
<1>3. ASSUME NEW n \in Nat, f = <<"time", n>>
      PROVE  /\ Flow!OfficeMs(f) = n /\ Flow!DayOf(f) = Flow!LocalDay(n) /\ f # Flow!None
             /\ \A d \in Nat : f # <<"day", d>>
  BY <1>3, FlowConstants DEF Flow!OfficeMs, Flow!DayOf, Flow!None
<1>4. \A n \in Nat : 4 * n \in Nat /\ n \in Int /\ Flow!LocalDay(4 * n) = n
  <2>1. \A n \in Nat : n \in Int /\ 4 * n \in Int /\ 4 * n \in Nat /\ 4 * n < 4 * n + 4
    OBVIOUS
  <2> QED BY <2>1, DayIs
<1>5. (\E n \in Nat : f = <<"day", n>>) \/ (\E n \in Nat : f = <<"time", n>>) \/ f = Flow!None
  BY DEF FlowField
<1>6. CASE \E n \in Nat : f = <<"day", n>>
  <2>1. PICK n \in Nat : f = <<"day", n>>
    BY <1>6
  <2>2. /\ Flow!OfficeMs(f) = 4 * n /\ Flow!DayOf(f) = n /\ f # Flow!None
        /\ \A d \in Nat : f = <<"day", d>> => d = n
    BY <1>2, <2>1
  <2> QED BY <1>4, <2>2
<1>7. CASE \E n \in Nat : f = <<"time", n>>
  BY <1>3, <1>7
<1> QED BY <1>1, <1>5, <1>6, <1>7

\* What a run of the office is.
LEMMA RunIs ==
    ASSUME NEW product, Office(product), NEW r \in DOMAIN product
    PROVE  /\ product[r] \in FlowRun
           /\ product[r].status \in Flow!Statuses
           /\ product[r].startedAt \in FlowField /\ product[r].updatedAt \in FlowField
           /\ product[r].completedAt \in FlowField
           /\ product[r].history \in Seq(FlowRow)
           /\ product[r].kind \in {"none", "review", "stale"} /\ product[r].idle \in BOOLEAN
<1>1. product[r] \in FlowRun
  BY DEF Office
<1> QED BY <1>1 DEF FlowRun

LEMMA FlowRowIs ==
    ASSUME NEW product, Office(product), NEW r \in DOMAIN product, NEW i \in DOMAIN product[r].history
    PROVE  LET row == product[r].history[i]
           IN  /\ row \in FlowRow /\ row.at \in FlowField /\ row.operator \in BOOLEAN
               /\ Flow!Timestamp(row) \in Nat \cup {-1}
               /\ Flow!Timestamp(row) # -1 => Flow!Timestamp(row) = Flow!OfficeMs(row.at)
               /\ i \in Nat
<1>1. product[r].history \in Seq(FlowRow)
  BY RunIs
<1>2. product[r].history[i] \in FlowRow /\ i \in Nat
  BY <1>1
<1> DEFINE row == product[r].history[i]
<1>3. row.at \in FlowField /\ row.operator \in BOOLEAN
  BY <1>2 DEF FlowRow
<1>4. Flow!Timestamp(row) # -1 => Flow!Timestamp(row) = Flow!OfficeMs(row.at)
  BY FlowConstants DEF Flow!Timestamp, Flow!OfficeMs
<1>5. Flow!Timestamp(row) = -1 \/ Flow!Timestamp(row) = Flow!OfficeMs(row.at)
  BY FlowConstants DEF Flow!Timestamp, Flow!OfficeMs
<1> HIDE DEF row
<1>6. Flow!Timestamp(row) \in Nat \cup {-1}
  BY <1>3, <1>5, FieldIs
<1> QED BY <1>2, <1>3, <1>4, <1>6 DEF row

\* The days of the window.
LEMMA WindowIs ==
    ASSUME WindowDays \in Nat \ {0}, NEW t0 \in Nat
    PROVE  /\ \A i \in 1..WindowDays : Flow!Days(t0)[i] = Flow!LocalDay(t0) - (WindowDays - i)
           /\ Flow!Cutoff(t0) = 4 * (Flow!LocalDay(t0) - (WindowDays - 1))
           /\ Flow!Cutoff(t0) > t0 - WindowDays * 4
           /\ Flow!LocalDay(t0) \in Int /\ 4 * Flow!LocalDay(t0) <= t0 /\ t0 < 4 * Flow!LocalDay(t0) + 4
<1>1. \A i \in 1..WindowDays : /\ WindowDays - i \in Int /\ t0 \in Int /\ WindowDays - 1 \in Int
                               /\ Flow!LocalDay(t0 - (WindowDays - i) * 4) = Flow!LocalDay(t0) - (WindowDays - i)
  <2>1. \A i \in 1..WindowDays : WindowDays - i \in Int /\ t0 \in Int /\ WindowDays - 1 \in Int
    OBVIOUS
  <2> QED BY <2>1, DayIs
<1>2. \A i \in 1..WindowDays : Flow!Days(t0)[i] = Flow!LocalDay(t0) - (WindowDays - i)
  BY <1>1, FlowConstants DEF Flow!Days
<1>3. t0 \in Int /\ WindowDays - 1 \in Int
  OBVIOUS
<1>4. Flow!LocalDay(t0 - (WindowDays - 1) * 4) = Flow!LocalDay(t0) - (WindowDays - 1)
  BY <1>3, DayIs
<1>5. Flow!LocalDay(t0) \in Int /\ 4 * Flow!LocalDay(t0) <= t0 /\ t0 < 4 * Flow!LocalDay(t0) + 4
  BY <1>3, DayIs
<1>6. PICK q \in Int : q = Flow!LocalDay(t0)
  BY <1>5
<1>7. Flow!Cutoff(t0) = (q - (WindowDays - 1)) * 4
  BY <1>4, <1>6, FlowConstants DEF Flow!Cutoff, Flow!OfficeMs
<1>8. (q - (WindowDays - 1)) * 4 = 4 * (q - (WindowDays - 1))
  OBVIOUS
<1>9. 4 * (q - (WindowDays - 1)) > t0 - WindowDays * 4
  BY <1>5, <1>6
<1> QED BY <1>2, <1>5, <1>6, <1>7, <1>8, <1>9

\* What is in the window is on one of its days; what is on one of them and not to come is in it.
LEMMA InWindowIs ==
    ASSUME WindowDays \in Nat \ {0}, NEW t0 \in Nat, NEW t \in Nat \cup {-1}
    PROVE  /\ Flow!InWindow(t, t0) =>
                 t # -1 /\ t <= t0 /\ \E i \in 1..WindowDays : Flow!LocalDay(t) = Flow!Days(t0)[i]
           /\ \A i \in 1..WindowDays : (t # -1 /\ t <= t0 /\ Flow!LocalDay(t) = Flow!Days(t0)[i])
                 => Flow!InWindow(t, t0) /\ 4 * Flow!LocalDay(t) >= Flow!Cutoff(t0)
           /\ Flow!InWindow(t, t0) => 4 * Flow!LocalDay(t) >= Flow!Cutoff(t0)
<1> DEFINE W == WindowDays
<1>1. PICK q \in Int : q = Flow!LocalDay(t0)
  BY WindowIs
<1>2. t \in Int
  OBVIOUS
<1>3. PICK d \in Int : d = Flow!LocalDay(t)
  BY <1>2, DayIs
<1>4. 4 * d <= t /\ t < 4 * d + 4
  BY <1>2, <1>3, DayIs
<1>5. /\ 4 * q <= t0 /\ t0 < 4 * q + 4
      /\ \A i \in 1..W : Flow!Days(t0)[i] = q - (W - i)
      /\ Flow!Cutoff(t0) = 4 * (q - (W - 1))
  BY <1>1, WindowIs
<1>6. Flow!InWindow(t, t0) <=> t # -1 /\ t >= 4 * (q - (W - 1)) /\ t <= t0
  BY <1>5, FlowConstants DEF Flow!InWindow
<1>7. ASSUME t >= 4 * (q - (W - 1)), t <= t0
      PROVE  /\ \E i \in 1..W : d = q - (W - i)
             /\ 4 * d >= 4 * (q - (W - 1))
  <2>1. d <= q /\ d >= q - (W - 1)
    BY <1>4, <1>5, <1>7
  <2>2. d - q + W \in 1..W /\ d = q - (W - (d - q + W))
    BY <2>1
  <2> QED BY <2>1, <2>2
<1>8. ASSUME NEW i \in 1..W, d = q - (W - i)
      PROVE  t >= 4 * (q - (W - 1)) /\ 4 * d >= 4 * (q - (W - 1))
  BY <1>4, <1>8
<1> QED BY <1>3, <1>5, <1>6, <1>7, <1>8

\* Runs are shared out among bars by the day each has.
LEMMA SharedByDay ==
    ASSUME WindowDays \in Nat \ {0}, NEW t0 \in Nat, NEW some, NEW bars, NEW k,
           DOMAIN bars = 1..WindowDays,
           \A i \in 1..WindowDays : bars[i][k] \subseteq some,
           \A r \in some : \E i \in 1..WindowDays : r \in bars[i][k],
           \A i, j \in 1..WindowDays : \A r : r \in bars[i][k] /\ r \in bars[j][k]
                => Flow!Days(t0)[i] = Flow!Days(t0)[j]
    PROVE  Flow!SharedOut(some, bars, k)
<1>1. some = UNION {bars[i][k] : i \in DOMAIN bars}
  OBVIOUS
<1>2. \A i, j \in 1..WindowDays : i # j => Flow!Days(t0)[i] # Flow!Days(t0)[j]
  <2>1. PICK q \in Int : q = Flow!LocalDay(t0)
    BY WindowIs
  <2>2. \A i \in 1..WindowDays : Flow!Days(t0)[i] = q - (WindowDays - i)
    BY <2>1, WindowIs
  <2>3. \A i, j \in 1..WindowDays : i # j => q - (WindowDays - i) # q - (WindowDays - j)
    OBVIOUS
  <2> QED BY <2>2, <2>3
<1>3. \A i, j \in DOMAIN bars : i # j => bars[i][k] \cap bars[j][k] = {}
  BY <1>2
<1> QED BY <1>1, <1>3 DEF Flow!SharedOut

\* The greatest of some rows.
LEMMA GreatestRow ==
    ASSUME NEW n \in Nat, NEW S \in SUBSET (0..n), S # {}
    PROVE  Flow!Max(S) \in S /\ \A y \in S : Flow!Max(S) >= y
<1>1. \E z \in S : \A y \in S : z >= y
  BY SomeMax
<1> QED BY <1>1 DEF Flow!Max

LEMMA LeastRow ==
    ASSUME NEW S, S \in SUBSET Nat, S # {}
    PROVE  Flow!Min(S) \in S /\ \A y \in S : Flow!Min(S) <= y
<1>1. \E z \in S : \A y \in S : z <= y
  BY LeastNat
<1> QED BY <1>1 DEF Flow!Min

\* A history with a row in the window is read, unless the row is on one of the first days and
\* the update date before them.
LEMMA WindowIsRead ==
    ASSUME WindowDays \in Nat \ {0}, NEW t0 \in Nat, NEW product, Office(product), NEW r \in DOMAIN product,
           NEW late \in 0..(WindowDays - 1), Flow!Behind(product[r], late),
           NEW i \in DOMAIN product[r].history, Flow!InWindow(Flow!OfficeMs(product[r].history[i].at), t0),
           Flow!LocalDay(Flow!OfficeMs(product[r].history[i].at)) >= Flow!Days(t0)[late + 1]
    PROVE  r \in Flow!Candidates(product, t0) /\ Flow!Read(product, r, t0) = product[r].history
<1> DEFINE t == Flow!OfficeMs(product[r].history[i].at)
           u == Flow!OfficeMs(product[r].updatedAt)
<1>1. t \in Nat \cup {-1} /\ u \in Nat \cup {-1} /\ (u # -1 => Flow!DayOf(product[r].updatedAt) = Flow!LocalDay(u))
  BY FlowRowIs, RunIs, FieldIs
<1>2. t # -1
  BY FlowConstants DEF Flow!InWindow
<1>3. u # -1 /\ Flow!LocalDay(u) >= Flow!LocalDay(t) - late
  BY <1>1, <1>2, FlowConstants DEF Flow!Behind
<1>4. Flow!LocalDay(t) >= Flow!Days(t0)[late + 1]
  OBVIOUS
<1> HIDE DEF t, u
<1>5. t \in Int /\ u \in Int /\ late \in Int /\ late + 1 \in 1..WindowDays
  BY <1>1
<1>6. PICK d \in Int, v \in Int : d = Flow!LocalDay(t) /\ v = Flow!LocalDay(u) /\ 4 * v <= u
  BY <1>5, DayIs
<1>7. PICK q \in Int : q = Flow!LocalDay(t0) /\ t0 < 4 * q + 4
  BY WindowIs
<1>8. Flow!Days(t0)[late + 1] = q - (WindowDays - (late + 1))
  BY <1>5, <1>7, WindowIs
<1>9. v >= q - (WindowDays - 1)
  BY <1>3, <1>4, <1>5, <1>6, <1>8
<1>10. u >= t0 - WindowDays * 4
  BY <1>5, <1>6, <1>7, <1>9
<1>11. r \in Flow!Candidates(product, t0)
  BY <1>3, <1>10, FlowConstants DEF Flow!Candidates, u
<1> QED BY <1>11 DEF Flow!Read

\* The last timed transition into a phase.
LEMMA LastIntoIs ==
    ASSUME NEW product, Office(product), NEW r \in DOMAIN product, NEW phases
    PROVE  LET h == product[r].history
               rows == Flow!Into(h, phases)
           IN  /\ Flow!LastInto(h, phases) \in Nat \cup {-1}
               /\ rows \subseteq DOMAIN h /\ rows \subseteq Nat
               /\ \A j \in rows : Flow!Timestamp(h[j]) # -1
               /\ \A j \in rows : (\A m \in rows : m <= j) => Flow!LastInto(h, phases) = Flow!Timestamp(h[j])
<1> DEFINE h == product[r].history
           rows == Flow!Into(h, phases)
<1>1. rows \subseteq DOMAIN h /\ \A j \in rows : Flow!Timestamp(h[j]) # -1
  BY FlowConstants DEF Flow!Into, Flow!Timed
<1>2. h \in Seq(FlowRow)
  BY RunIs
<1>3. Len(h) \in Nat /\ rows \in SUBSET (0..Len(h))
  BY <1>1, <1>2
<1>4. \A j \in DOMAIN h : Flow!Timestamp(h[j]) \in Nat \cup {-1}
  BY FlowRowIs
<1>5. Flow!LastInto(h, phases) = IF rows = {} THEN -1 ELSE Flow!Timestamp(h[Flow!Max(rows)])
  BY FlowConstants DEF Flow!LastInto
<1> HIDE DEF rows, h
<1>6. rows # {} => Flow!Max(rows) \in rows /\ \A y \in rows : Flow!Max(rows) >= y
  BY <1>3, GreatestRow
<1>7. Flow!LastInto(h, phases) \in Nat \cup {-1}
  BY <1>1, <1>4, <1>5, <1>6
<1>8. ASSUME NEW j \in rows, \A m \in rows : m <= j
      PROVE  Flow!LastInto(h, phases) = Flow!Timestamp(h[j])
  <2>0. Flow!Max(rows) \in rows /\ \A y \in rows : Flow!Max(rows) >= y
    BY <1>6, <1>8
  <2>1. Flow!Max(rows) >= j /\ Flow!Max(rows) <= j
    BY <2>0, <1>8
  <2>3. \A m \in rows : m \in Nat
    BY <1>3
  <2>2. Flow!Max(rows) = j
    BY <2>0, <2>1, <2>3, <1>8
  <2> QED BY <1>5, <2>2
<1>9. rows \subseteq Nat
  BY <1>3
<1> QED BY <1>1, <1>7, <1>8, <1>9 DEF rows, h

LEMMA NothingRead ==
    ASSUME NEW phases
    PROVE  Flow!LastInto(<<>>, phases) = -1
<1>1. Flow!Into(<<>>, phases) = {}
  BY DEF Flow!Into, Flow!Timed
<1> QED BY <1>1, FlowConstants DEF Flow!LastInto

LEMMA LastReadIs ==
    ASSUME NEW product, Office(product), NEW r \in DOMAIN product, NEW t0, NEW phases
    PROVE  Flow!LastInto(Flow!Read(product, r, t0), phases) \in Nat \cup {-1}
BY LastIntoIs, NothingRead DEF Flow!Read

LEMMA EndedIs ==
    ASSUME NEW product, Office(product), NEW r \in DOMAIN product, NEW t0
    PROVE  /\ Flow!Ended(product, r, t0) \in Nat \cup {-1}
           /\ product[r].status = "completed" =>
                LET last == Flow!LastInto(Flow!Read(product, r, t0), {"done"})
                IN  Flow!Ended(product, r, t0) = IF last # -1 THEN last ELSE Flow!OfficeMs(product[r].completedAt)
<1> DEFINE last(phases) == Flow!LastInto(Flow!Read(product, r, t0), phases)
           phases == IF product[r].status = "cancelled" THEN {"aborted"} ELSE {"done"}
<1>1. Flow!Ended(product, r, t0) = IF last(phases) # -1 THEN last(phases) ELSE Flow!OfficeMs(product[r].completedAt)
  BY FlowConstants DEF Flow!Ended, Flow!EndedAt
<1>2. last(phases) \in Nat \cup {-1}
  BY LastReadIs
<1>3. Flow!OfficeMs(product[r].completedAt) \in Nat \cup {-1}
  BY RunIs, FieldIs
<1>4. product[r].status = "completed" => phases = {"done"}
  OBVIOUS
<1> HIDE DEF phases
<1>5. Flow!Ended(product, r, t0) \in Nat \cup {-1}
  BY <1>1, <1>2, <1>3
<1> QED BY <1>1, <1>4, <1>5

\* The bars of the throughput card.
LEMMA BarIs ==
    ASSUME WindowDays \in Nat \ {0}, NEW t0, NEW product
    PROVE  LET bars == Flow!Bars(product, t0)
           IN  /\ DOMAIN bars = 1..WindowDays
               /\ \A i \in 1..WindowDays :
                    /\ bars[i].opened = {r \in Flow!Opened(product, t0) :
                                           Flow!DayOf(product[r].startedAt) = Flow!Days(t0)[i]}
                    /\ bars[i].closed = {r \in Flow!Closed(product, t0) :
                                           Flow!LocalDay(Flow!Ended(product, r, t0)) = Flow!Days(t0)[i]}
                    /\ bars[i].aborted = {r \in Flow!Aborted(product, t0) :
                                           Flow!LocalDay(Flow!Ended(product, r, t0)) = Flow!Days(t0)[i]}
BY DEF Flow!Bars

LEMMA BarsShareOut ==
    ASSUME WindowDays \in Nat \ {0}, NEW t0 \in Nat, NEW product, Office(product)
    PROVE  LET bars == Flow!Bars(product, t0)
           IN  /\ Flow!SharedOut(Flow!Opened(product, t0), bars, "opened")
               /\ Flow!SharedOut(Flow!Closed(product, t0), bars, "closed")
               /\ Flow!SharedOut(Flow!Aborted(product, t0), bars, "aborted")
<1> DEFINE bars == Flow!Bars(product, t0)
           D == DOMAIN product
           W == 1..WindowDays
           begun == [r \in D |-> Flow!DayOf(product[r].startedAt)]
           ended == [r \in D |-> Flow!LocalDay(Flow!Ended(product, r, t0))]
           opened == Flow!Opened(product, t0)
           closed == Flow!Closed(product, t0)
           aborted == Flow!Aborted(product, t0)
<1>1. opened \subseteq D /\ closed \subseteq D /\ aborted \subseteq D
  BY DEF Flow!Opened, Flow!Closed, Flow!Aborted
<1>2. /\ DOMAIN bars = W
      /\ \A i \in W : bars[i]["opened"] = {r \in opened : begun[r] = Flow!Days(t0)[i]}
  <2>1. \A i \in W : bars[i].opened = {r \in opened : Flow!DayOf(product[r].startedAt) = Flow!Days(t0)[i]}
    BY BarIs
  <2>2. DOMAIN bars = W
    BY BarIs
  <2> HIDE DEF bars, opened
  <2> QED BY <1>1, <2>1, <2>2
<1>3. /\ \A i \in W : bars[i]["closed"] = {r \in closed : ended[r] = Flow!Days(t0)[i]}
      /\ \A i \in W : bars[i]["aborted"] = {r \in aborted : ended[r] = Flow!Days(t0)[i]}
  <2>1. \A i \in W : bars[i].closed = {r \in closed : Flow!LocalDay(Flow!Ended(product, r, t0)) = Flow!Days(t0)[i]}
    BY BarIs
  <2>2. \A i \in W : bars[i].aborted = {r \in aborted : Flow!LocalDay(Flow!Ended(product, r, t0)) = Flow!Days(t0)[i]}
    BY BarIs
  <2> HIDE DEF bars, closed, aborted
  <2> QED BY <1>1, <2>1, <2>2
<1>4. \A r \in opened : \E i \in W : begun[r] = Flow!Days(t0)[i]
  <2> SUFFICES ASSUME NEW r \in opened
               PROVE  \E i \in W : Flow!DayOf(product[r].startedAt) = Flow!Days(t0)[i]
    BY <1>1
  <2>1. r \in D /\ Flow!InWindow(Flow!OfficeMs(product[r].startedAt), t0)
    BY DEF Flow!Opened
  <2>2. product[r].startedAt \in FlowField
    BY <2>1, RunIs
  <2>3. PICK t \in Nat \cup {-1} : t = Flow!OfficeMs(product[r].startedAt)
    BY <2>2, FieldIs
  <2>4. t # -1 /\ \E i \in W : Flow!LocalDay(t) = Flow!Days(t0)[i]
    BY <2>1, <2>3, InWindowIs
  <2>5. Flow!DayOf(product[r].startedAt) = Flow!LocalDay(t)
    BY <2>2, <2>3, <2>4, FieldIs
  <2> QED BY <2>4, <2>5
<1>5. \A r \in closed \cup aborted : \E i \in W : ended[r] = Flow!Days(t0)[i]
  <2> SUFFICES ASSUME NEW r \in closed \cup aborted
               PROVE  \E i \in W : Flow!LocalDay(Flow!Ended(product, r, t0)) = Flow!Days(t0)[i]
    BY <1>1
  <2>1. r \in D /\ Flow!InWindow(Flow!Ended(product, r, t0), t0)
    BY DEF Flow!Closed, Flow!Aborted
  <2>2. Flow!Ended(product, r, t0) \in Nat \cup {-1}
    BY <2>1, EndedIs
  <2> QED BY <2>1, <2>2, InWindowIs
<1>6. \A r \in closed : \E i \in W : ended[r] = Flow!Days(t0)[i]
  BY <1>5
<1>7. \A r \in aborted : \E i \in W : ended[r] = Flow!Days(t0)[i]
  BY <1>5
<1> HIDE DEF bars, begun, ended, opened, closed, aborted
<1>8. Flow!SharedOut(opened, bars, "opened")
  <2>1. PICK k : k = "opened"
    OBVIOUS
  <2>2. /\ DOMAIN bars = 1..WindowDays
        /\ \A i \in 1..WindowDays : \A r : r \in bars[i][k] <=> r \in opened /\ begun[r] = Flow!Days(t0)[i]
        /\ \A r \in opened : \E i \in 1..WindowDays : begun[r] = Flow!Days(t0)[i]
    BY <1>2, <1>4, <2>1
  <2>3. /\ \A i \in 1..WindowDays : bars[i][k] \subseteq opened
        /\ \A r \in opened : \E i \in 1..WindowDays : r \in bars[i][k]
        /\ \A i, j \in 1..WindowDays : \A r : r \in bars[i][k] /\ r \in bars[j][k]
             => Flow!Days(t0)[i] = Flow!Days(t0)[j]
    BY <2>2
  <2>4. Flow!SharedOut(opened, bars, k)
    BY ONLY WindowDays \in Nat \ {0}, t0 \in Nat, <2>2, <2>3, SharedByDay
  <2> QED BY <2>1, <2>4
<1>9. Flow!SharedOut(closed, bars, "closed")
  <2>1. PICK k : k = "closed"
    OBVIOUS
  <2>2. /\ DOMAIN bars = 1..WindowDays
        /\ \A i \in 1..WindowDays : \A r : r \in bars[i][k] <=> r \in closed /\ ended[r] = Flow!Days(t0)[i]
        /\ \A r \in closed : \E i \in 1..WindowDays : ended[r] = Flow!Days(t0)[i]
    BY <1>2, <1>3, <1>6, <2>1
  <2>3. /\ \A i \in 1..WindowDays : bars[i][k] \subseteq closed
        /\ \A r \in closed : \E i \in 1..WindowDays : r \in bars[i][k]
        /\ \A i, j \in 1..WindowDays : \A r : r \in bars[i][k] /\ r \in bars[j][k]
             => Flow!Days(t0)[i] = Flow!Days(t0)[j]
    BY <2>2
  <2>4. Flow!SharedOut(closed, bars, k)
    BY ONLY WindowDays \in Nat \ {0}, t0 \in Nat, <2>2, <2>3, SharedByDay
  <2> QED BY <2>1, <2>4
<1>10. Flow!SharedOut(aborted, bars, "aborted")
  <2>1. PICK k : k = "aborted"
    OBVIOUS
  <2>2. /\ DOMAIN bars = 1..WindowDays
        /\ \A i \in 1..WindowDays : \A r : r \in bars[i][k] <=> r \in aborted /\ ended[r] = Flow!Days(t0)[i]
        /\ \A r \in aborted : \E i \in 1..WindowDays : ended[r] = Flow!Days(t0)[i]
    BY <1>2, <1>3, <1>7, <2>1
  <2>3. /\ \A i \in 1..WindowDays : bars[i][k] \subseteq aborted
        /\ \A r \in aborted : \E i \in 1..WindowDays : r \in bars[i][k]
        /\ \A i, j \in 1..WindowDays : \A r : r \in bars[i][k] /\ r \in bars[j][k]
             => Flow!Days(t0)[i] = Flow!Days(t0)[j]
    BY <2>2
  <2>4. Flow!SharedOut(aborted, bars, k)
    BY ONLY WindowDays \in Nat \ {0}, t0 \in Nat, <2>2, <2>3, SharedByDay
  <2> QED BY <2>1, <2>4
<1> QED BY <1>8, <1>9, <1>10 DEF bars, opened, closed, aborted

LEMMA OpenedThatDay ==
    ASSUME WindowDays \in Nat \ {0}, NEW t0 \in Nat, NEW product, Office(product), NEW r \in DOMAIN product,
           NEW i \in 1..WindowDays, product[r].startedAt = <<"day", Flow!Days(t0)[i]>>
    PROVE  r \in Flow!Bars(product, t0)[i].opened
<1> DEFINE f == product[r].startedAt
<1>1. f \in FlowField
  BY RunIs
<1>2. PICK d : d = Flow!Days(t0)[i]
  OBVIOUS
<1>3. f = <<"day", d>>
  BY <1>2
<1> HIDE DEF f
<1>4. d \in Nat
  <2>1. f # Flow!None /\ \A n \in Nat : f # <<"time", n>>
    BY <1>3 DEF Flow!None
  <2>2. PICK n \in Nat : f = <<"day", n>>
    BY <1>1, <2>1 DEF FlowField
  <2>3. n = d
    BY <1>3, <2>2
  <2> QED BY <2>3
<1>5. Flow!OfficeMs(f) = 4 * d /\ Flow!DayOf(f) = Flow!LocalDay(4 * d)
  <2>1. Flow!OfficeMs(f) = 4 * d
    BY <1>1, <1>3, <1>4, FieldIs
  <2>2. 4 * d # -1
    BY <1>4
  <2> QED BY <1>1, <2>1, <2>2, FieldIs
<1>6. 4 * d \in Nat /\ 4 * d \in Int /\ 4 * d # -1 /\ d \in Int /\ 4 * d < 4 * d + 4
  BY <1>4
<1>7. Flow!LocalDay(4 * d) = d
  BY <1>6, DayIs
<1>8. 4 * d <= t0
  <2>1. PICK q \in Int : q = Flow!LocalDay(t0)
    BY WindowIs
  <2>2. d = q - (WindowDays - i) /\ 4 * q <= t0
    BY <1>2, <2>1, WindowIs
  <2> QED BY <1>4, <2>2
<1>9. Flow!InWindow(4 * d, t0)
  BY <1>2, <1>6, <1>7, <1>8, InWindowIs
<1>10. r \in Flow!Opened(product, t0)
  BY <1>5, <1>9 DEF Flow!Opened, f
<1> QED BY <1>2, <1>5, <1>7, <1>10, BarIs DEF f

LEMMA ClosedThatDay ==
    ASSUME WindowDays \in Nat \ {0}, NEW t0 \in Nat, NEW product, Office(product), NEW r \in DOMAIN product,
           NEW late \in 0..(WindowDays - 1), Flow!Behind(product[r], late),
           NEW i \in 1..WindowDays, NEW j \in Flow!Into(product[r].history, {"done"}),
           product[r].status = "completed", i > late,
           \A m \in Flow!Into(product[r].history, {"done"}) : m <= j,
           Flow!Timestamp(product[r].history[j]) <= t0,
           Flow!LocalDay(Flow!Timestamp(product[r].history[j])) = Flow!Days(t0)[i]
    PROVE  r \in Flow!Bars(product, t0)[i].closed
<1> DEFINE t == Flow!Timestamp(product[r].history[j])
<1>1. j \in DOMAIN product[r].history /\ t # -1
  BY LastIntoIs
<1>2. t \in Nat \cup {-1} /\ t = Flow!OfficeMs(product[r].history[j].at)
  BY <1>1, FlowRowIs
<1>3. t <= t0 /\ Flow!LocalDay(t) = Flow!Days(t0)[i]
  OBVIOUS
<1>4. Flow!InWindow(t, t0)
  <2> HIDE DEF t
  <2> QED BY <1>1, <1>2, <1>3, InWindowIs
<1>5. Flow!LocalDay(t) >= Flow!Days(t0)[late + 1]
  <2> HIDE DEF t
  <2>1. PICK q \in Int : q = Flow!LocalDay(t0)
    BY WindowIs
  <2>2. late + 1 \in 1..WindowDays /\ late \in Int
    OBVIOUS
  <2>3. /\ Flow!Days(t0)[i] = q - (WindowDays - i)
        /\ Flow!Days(t0)[late + 1] = q - (WindowDays - (late + 1))
    BY <2>1, <2>2, WindowIs
  <2>4. q - (WindowDays - i) >= q - (WindowDays - (late + 1))
    BY <2>2
  <2> QED BY <1>3, <2>3, <2>4
<1>9. Flow!Read(product, r, t0) = product[r].history
  BY <1>1, <1>2, <1>4, <1>5, WindowIsRead
<1>6. Flow!LastInto(product[r].history, {"done"}) = t
  BY LastIntoIs
<1>7. Flow!Ended(product, r, t0) = t
  BY <1>1, <1>9, <1>6, EndedIs
<1>8. r \in Flow!Closed(product, t0)
  BY <1>4, <1>7 DEF Flow!Closed
<1> QED BY <1>3, <1>7, <1>8, BarIs

LEMMA Positive ==
    ASSUME NEW x \in Int
    PROVE  Flow!Max({0, x}) \in Nat /\ Flow!Max({0, x}) = IF x >= 0 THEN x ELSE 0
<1> DEFINE S == {0, x}
<1>1. \E z \in S : \A y \in S : z >= y
  <2>1. CASE x >= 0
    BY <2>1
  <2>2. CASE ~(x >= 0)
    BY <2>2
  <2> QED BY <2>1, <2>2
<1>2. Flow!Max(S) \in S /\ \A y \in S : Flow!Max(S) >= y
  BY <1>1 DEF Flow!Max
<1>3. PICK m \in Int : m = Flow!Max(S)
  BY <1>2
<1>4. (m = 0 \/ m = x) /\ m >= 0 /\ m >= x
  BY <1>2, <1>3
<1>5. m \in Nat /\ m = IF x >= 0 THEN x ELSE 0
  BY <1>4
<1> QED BY <1>3, <1>5

\* The open-to-done span of a run that has a beginning and an end.
LEMMA SpanIs ==
    ASSUME NEW product, Office(product), NEW r \in DOMAIN product, NEW t0,
           product[r].status = "completed", Flow!OfficeMs(product[r].startedAt) # -1,
           Flow!Ended(product, r, t0) # -1
    PROVE  Flow!CycleSpan(product[r], Flow!Read(product, r, t0)) \in Nat
<1> DEFINE h == Flow!Read(product, r, t0)
           created == Flow!OfficeMs(product[r].startedAt)
           timed == Flow!Timed(h)
           first == IF timed = {} THEN -1 ELSE Flow!Timestamp(h[Flow!Min(timed)])
           fits == first # -1 /\ (created = -1 \/ first - created \in (-Near)..Near)
           start == IF fits THEN first ELSE created
           done == Flow!LastInto(h, {"done"})
           end == IF done # -1 THEN done ELSE Flow!OfficeMs(product[r].completedAt)
<1>1. Flow!CycleSpan(product[r], h) = IF start = -1 \/ end = -1 THEN -1 ELSE Flow!Max({0, end - start})
  BY FlowConstants DEF Flow!CycleSpan
<1>2. created \in Nat
  BY RunIs, FieldIs
<1>3. first \in Nat \cup {-1}
  <2>1. CASE timed = {}
    BY <2>1
  <2>2. CASE timed # {}
    <3>1. h = product[r].history
      BY <2>2 DEF Flow!Timed, Flow!Read
    <3>2. timed \subseteq DOMAIN h
      BY DEF Flow!Timed
    <3>3. timed \in SUBSET Nat
      BY <3>1, <3>2, FlowRowIs
    <3> DEFINE m == Flow!Min(timed)
    <3>4. m \in timed
      BY <2>2, <3>3, LeastRow
    <3>5. m \in DOMAIN product[r].history
      BY <3>1, <3>2, <3>4
    <3>6. Flow!Timestamp(product[r].history[m]) \in Nat \cup {-1}
      BY <3>5, FlowRowIs
    <3> QED BY <2>2, <3>1, <3>6
  <2> QED BY <2>1, <2>2
<1>4. end \in Nat
  <2>1. end = Flow!Ended(product, r, t0)
    BY EndedIs
  <2> QED BY <2>1, EndedIs
<1> HIDE DEF end, first, created
<1>5. start \in Nat
  BY <1>2, <1>3
<1> HIDE DEF start
<1>6. end - start \in Int /\ start # -1 /\ end # -1
  BY <1>4, <1>5
<1> QED BY <1>1, <1>6, Positive

LEMMA CycleHasTheClosed ==
    ASSUME Fresh \in Nat, NEW t0 \in Nat, NEW product, Office(product), NEW r \in Flow!Closed(product, t0),
           Flow!OfficeMs(product[r].startedAt) # -1
    PROVE  r \in Flow!Cycle(product, t0).fresh \cup Flow!Cycle(product, t0).backlog
<1> DEFINE span(u) == Flow!CycleSpan(product[u], Flow!Read(product, u, t0))
           sample == {u \in Flow!Closed(product, t0) : span(u) # -1}
<1>1. r \in DOMAIN product /\ product[r].status = "completed" /\ Flow!Ended(product, r, t0) # -1
  BY FlowConstants DEF Flow!Closed, Flow!InWindow
<1>2. span(r) \in Nat
  BY <1>1, SpanIs
<1>3. r \in sample /\ (span(r) <= Fresh * 4 \/ span(r) > Fresh * 4)
  BY <1>2
<1>4. /\ Flow!Cycle(product, t0).fresh = {u \in sample : span(u) <= Fresh * 4}
      /\ Flow!Cycle(product, t0).backlog = {u \in sample : span(u) > Fresh * 4}
  BY FlowConstants DEF Flow!Cycle
<1> QED BY <1>3, <1>4

LEMMA BarsAddUpHolds ==
    ASSUME WindowDays \in Nat \ {0}, Fresh \in Nat, NEW t0 \in Nat, NEW product, Office(product)
    PROVE  Flow!BarsAddUp(product, t0)
<1>1. \A r \in DOMAIN product, i \in 1..WindowDays :
         product[r].startedAt = <<"day", Flow!Days(t0)[i]>> => r \in Flow!Bars(product, t0)[i].opened
  BY OpenedThatDay
<1>2. \A r \in Flow!Closed(product, t0) : Flow!OfficeMs(product[r].startedAt) # Flow!NoTime =>
         r \in Flow!Cycle(product, t0).fresh \cup Flow!Cycle(product, t0).backlog
  BY CycleHasTheClosed, FlowConstants
<1> QED BY <1>1, <1>2, BarsShareOut DEF Flow!BarsAddUp

LEMMA EndIsShownHolds ==
    ASSUME WindowDays \in Nat \ {0}, NEW t0 \in Nat, NEW product, Office(product), NEW r \in DOMAIN product,
           NEW late \in 0..(WindowDays - 1), Flow!Behind(product[r], late)
    PROVE  Flow!EndIsShown(product, r, late, t0)
BY ClosedThatDay DEF Flow!EndIsShown

LEMMA MovesAreShownHolds ==
    ASSUME WindowDays \in Nat \ {0}, NEW t0 \in Nat, NEW product, Office(product), NEW r \in DOMAIN product,
           NEW late \in 0..(WindowDays - 1), Flow!Behind(product[r], late)
    PROVE  Flow!MovesAreShown(product, r, late, t0)
<1>1. ASSUME NEW i \in DOMAIN product[r].history,
             product[r].history[i].from \notin {"gate", "created", product[r].history[i].to},
             Flow!InWindow(Flow!OfficeMs(product[r].history[i].at), t0),
             Flow!LocalDay(Flow!OfficeMs(product[r].history[i].at)) >= Flow!Days(t0)[late + 1]
      PROVE  LET row == product[r].history[i]
             IN  /\ <<r, i>> \in Flow!Moves(product, t0)
                 /\ Flow!Lists(row) # {} /\ (row.operator => "conductors" \in Flow!Lists(row))
                 /\ (row.agent = "role" => "roles" \in Flow!Lists(row))
  <2> DEFINE row == product[r].history[i]
  <2>1. r \in Flow!Candidates(product, t0) /\ Flow!Read(product, r, t0) = product[r].history
    BY <1>1, WindowIsRead
  <2>2. <<r, i>> \in Flow!Rows(product, t0)
    BY <2>1 DEF Flow!Rows
  <2>3. Flow!RowAt(product, <<r, i>>) = row
    BY DEF Flow!RowAt
  <2>4. <<r, i>> \in Flow!Counted(product, t0)
    BY <1>1, <2>2, <2>3 DEF Flow!Counted
  <2>5. <<r, i>> \notin Flow!SamePhase(product, t0) /\ <<r, i>> \notin Flow!Openings(product, t0)
    BY <1>1, <2>3 DEF Flow!SamePhase, Flow!Openings
  <2>6. "conductors" \in Flow!Lists(row) <=> row.operator \/ row.agent = "operator"
    BY DEF Flow!Lists, Flow!RowOperator
  <2>7. "roles" \in Flow!Lists(row) <=> row.agent # "operator"
    BY DEF Flow!Lists
  <2> QED BY <2>4, <2>5, <2>6, <2>7 DEF Flow!Moves
<1> QED BY <1>1 DEF Flow!MovesAreShown

LEMMA HistoryIsShownHolds ==
    ASSUME WindowDays \in Nat \ {0}, NEW t0 \in Nat, NEW product, Office(product)
    PROVE  Flow!HistoryIsShown(product, t0)
<1>1. Flow!Conducted(product, t0) \subseteq Flow!Moved(product, t0)
  BY DEF Flow!Conducted, Flow!Moved
<1> QED BY <1>1, EndIsShownHolds, MovesAreShownHolds DEF Flow!HistoryIsShown

LEMMA CountsAgreeHolds ==
    ASSUME NEW product, Office(product)
    PROVE  Flow!CountsAgree(product)
<1> DEFINE D == DOMAIN product
           Of(some) == {r \in D : product[r].status \in some}
           A == Of(Flow!ActiveStatuses)  C == Of({"completed"})  X == Of({"cancelled"})  U == Of({"unknown"})
           counts == Flow!CountRuns(product)
<1>1. IsFiniteSet(D) /\ \A r \in D : product[r].status \in Flow!Statuses
  BY RunIs DEF Office
<1>2. /\ counts.total = Cardinality(Of(Flow!Statuses)) /\ counts.active = Cardinality(A)
      /\ counts.completed = Cardinality(C) /\ counts.cancelled = Cardinality(X)
      /\ counts.unreadable = Cardinality(U)
  BY FlowCardinality DEF Flow!CountRuns
<1>3. /\ Of(Flow!Statuses) = D /\ D = A \cup C \cup X \cup U
      /\ A \cap C = {} /\ (A \cup C) \cap X = {} /\ (A \cup C \cup X) \cap U = {}
      /\ A \in SUBSET D /\ C \in SUBSET D /\ X \in SUBSET D /\ U \in SUBSET D
  BY <1>1 DEF Flow!Statuses, Flow!ActiveStatuses
<1> HIDE DEF D, Of, A, C, X, U, counts
<1>4. IsFiniteSet(A) /\ IsFiniteSet(C) /\ IsFiniteSet(X) /\ IsFiniteSet(U)
  BY <1>1, <1>3, FS_Subset
<1>5. IsFiniteSet(A \cup C) /\ Cardinality(A \cup C) = Cardinality(A) + Cardinality(C)
  BY <1>3, <1>4, CountsAdd
<1>6. IsFiniteSet(A \cup C \cup X) /\ Cardinality(A \cup C \cup X) = Cardinality(A \cup C) + Cardinality(X)
  BY <1>3, <1>4, <1>5, CountsAdd
<1>7. Cardinality(D) = Cardinality(A \cup C \cup X) + Cardinality(U)
  BY <1>3, <1>4, <1>6, CountsAdd
<1>8. Cardinality(A) \in Nat /\ Cardinality(C) \in Nat /\ Cardinality(X) \in Nat /\ Cardinality(U) \in Nat
  BY <1>4, FS_CardinalityType
<1>9. /\ counts.total = Cardinality(D)
      /\ counts.total = counts.active + counts.completed + counts.cancelled + counts.unreadable
  BY <1>2, <1>3, <1>5, <1>6, <1>7, <1>8
<1>10. UNION {Flow!ByKind(product, k) : k \in {"review", "stale"}} = Flow!NeedsYou(product)
  <2>1. \A r \in DOMAIN product : product[r].kind \in {"none", "review", "stale"}
    BY RunIs
  <2> QED BY <2>1 DEF Flow!ByKind, Flow!NeedsYou
<1>11. UNION {Flow!Waits(product)[p] : p \in DOMAIN Flow!Waits(product)} = Flow!Open(product)
  <2> DEFINE phases == {product[r].phase : r \in Flow!Open(product)}
             waits == Flow!Waits(product)
  <2>1. waits = [p \in phases |-> {r \in Flow!Open(product) : product[r].phase = p}]
    BY DEF Flow!Waits
  <2>2. DOMAIN waits = phases /\ \A p \in phases : waits[p] = {r \in Flow!Open(product) : product[r].phase = p}
    BY <2>1
  <2> HIDE DEF waits
  <2> QED BY <2>2 DEF waits
<1>12. Flow!Health(product) = "ok" => Flow!Factors(product).failed <= 1
  <2> DEFINE F == {r \in Flow!Open(product) : product[r].status = "failed"}
             I == {r \in Flow!Open(product) : product[r].idle}
             B == {r \in Flow!Open(product) : product[r].status = "blocked"}
  <2>1. F \in SUBSET D /\ I \in SUBSET D /\ B \in SUBSET D
    BY DEF Flow!Open, D
  <2>2. /\ Flow!Factors(product).failed = Cardinality(F) /\ Flow!Factors(product).idle = Cardinality(I)
        /\ Flow!Factors(product).blocked = Cardinality(B)
        /\ Flow!Factors(product).unreadable = counts.unreadable
    BY FlowCardinality DEF Flow!Factors, counts
  <2> HIDE DEF F, I, B
  <2>3. Cardinality(F) \in Nat /\ Cardinality(I) \in Nat /\ Cardinality(B) \in Nat
    BY <1>1, <2>1, FS_Subset, FS_CardinalityType
  <2>4. PICK f \in Nat, d \in Nat, u \in Nat, b \in Nat :
            /\ f = Flow!Factors(product).failed /\ d = Flow!Factors(product).idle
            /\ u = Flow!Factors(product).unreadable /\ b = Flow!Factors(product).blocked
    BY <1>2, <1>8, <2>2, <2>3
  <2>5. PICK x \in Int : x = 100 - (f * 10 + d * 5 + u * 5 + b * 2)
    OBVIOUS
  <2>6. Flow!Score(product) = Flow!Max({0, Flow!Min({100, x})})
    BY <2>4, <2>5 DEF Flow!Score, Flow!HEALTH_PENALTY
  <2>7. PICK m \in Int : m = Flow!Min({100, x}) /\ m <= x
    <3>1. \E z \in {100, x} : \A y \in {100, x} : z <= y
      <4>1. CASE x <= 100
        BY <4>1
      <4>2. CASE ~(x <= 100)
        BY <4>2
      <4> QED BY <4>1, <4>2
    <3>2. Flow!Min({100, x}) \in {100, x} /\ \A y \in {100, x} : Flow!Min({100, x}) <= y
      BY <3>1 DEF Flow!Min
    <3> QED BY <3>2
  <2>8. Flow!Score(product) = IF m >= 0 THEN m ELSE 0
    BY <2>6, <2>7, Positive
  <2>9. ASSUME Flow!Health(product) = "ok" PROVE f <= 1
    <3>1. Flow!Score(product) >= 90
      BY <2>9 DEF Flow!Health
    <3>2. m >= 90
      BY <2>8, <3>1
    <3> QED BY <2>5, <2>7, <3>2
  <2> QED BY <2>4, <2>9
<1> QED BY <1>9, <1>10, <1>11, <1>12, FlowCardinality DEF Flow!CountsAgree, counts, D

\* The bars of the flow share out what was opened and ended in the window, the counts of the
\* cards agree, and although only the histories of recently updated runs are read, no end and
\* no move is left out but those of as many of the first days as the run's update date is
\* behind its history (no day, and one for a dispatch over a midnight), for any window and any
\* runs.
THEOREM FlowIsRightHolds ==
    ASSUME WindowDays \in Nat \ {0}, Fresh \in Nat, NEW t0 \in Nat, NEW product, Office(product)
    PROVE  Flow!FlowIsRight(product, t0)
BY BarsAddUpHolds, HistoryIsShownHolds, CountsAgreeHolds DEF Flow!FlowIsRight
=============================================================================
