------------------------- MODULE TaskOwnershipProofs -------------------------
(***************************************************************************)
(* What holds of the ownership register for any number of tasks, runs and   *)
(* checkouts, any lease and renewal interval, and any bound on lock waits.  *)
(***************************************************************************)
EXTENDS TaskOwnership, TLAPS

-----------------------------------------------------------------------------
(* Lemmas about the operators *)

\* A grant keeps the history or appends one row, the lapsed holder's.
LEMMA ArchivedType ==
    ASSUME TypeOK, NEW t \in Tasks, holder[t] # NoRun, NEW why \in EndReasons
    PROVE  /\ Archived(t, why) \in [Tasks -> Seq(HistoryRow)]
           /\ \A s \in Tasks \ {t} : Archived(t, why)[s] = history[s]
           /\ Len(Archived(t, why)[t]) = Len(history[t]) + 1
           /\ \A i \in 1..Len(history[t]) : Archived(t, why)[t][i] = history[t][i]
           /\ Archived(t, why)[t][Len(history[t]) + 1] =
                 [epoch |-> epoch[t], run |-> holder[t], ended_by |-> why]
<1> DEFINE row == [epoch |-> epoch[t], run |-> holder[t], ended_by |-> why]
<1>1. row \in HistoryRow
  BY DEF TypeOK, HistoryRow
<1>2. history[t] \in Seq(HistoryRow) /\ history \in [Tasks -> Seq(HistoryRow)]
  BY DEF TypeOK
<1>3. Archived(t, why) = [history EXCEPT ![t] = Append(@, row)]
  BY DEF Archived
<1> HIDE DEF row
<1>4. /\ Append(history[t], row) \in Seq(HistoryRow)
      /\ Len(Append(history[t], row)) = Len(history[t]) + 1
      /\ \A i \in 1..Len(history[t]) : Append(history[t], row)[i] = history[t][i]
      /\ Append(history[t], row)[Len(history[t]) + 1] = row
  BY <1>1, <1>2
<1> QED BY <1>2, <1>3, <1>4 DEF row

-----------------------------------------------------------------------------
(* Type correctness *)

LEMMA ConstantTypes ==
    /\ Lease \in Nat \ {0} /\ FenceLease \in Nat \ {0} /\ RenewInterval \in Nat \ {0}
    /\ MaxLag \in Nat /\ MaxWrites \in Nat
    /\ TaskOf \in [Runs -> Tasks] /\ NoRun \notin Runs
  BY OwnershipAssumption DEF OwnershipAssumption

LEMMA InitType == Init => TypeOK
  BY ConstantTypes DEF Init, TypeOK, StatusRow, Phases, Operations

LEMMA FinishType ==
    ASSUME TypeOK, NEW r \in Runs, Finish(r)
    PROVE  op' \in [Runs -> Operations] /\ lag' \in [Runs -> 0..MaxLag]
  BY ConstantTypes DEF TypeOK, Finish, Operations

LEMMA StepType == TypeOK /\ [Next]_vars => TypeOK'
<1> SUFFICES ASSUME TypeOK, [Next]_vars PROVE TypeOK'
  OBVIOUS
<1> USE ConstantTypes DEF TypeOK
<1>1. ASSUME NEW r \in Runs, BeginAcquire(r) PROVE TypeOK'
  BY <1>1 DEF BeginAcquire, Queue, record, Phases, Operations
<1>2. ASSUME NEW r \in Runs, Grant(r) PROVE TypeOK'
  <2>1. history' \in [Tasks -> Seq(HistoryRow)]
    BY <1>2, ArchivedType DEF Grant, HistoryAfterGrant, EndReasons
  <2>2. /\ epoch' \in [Tasks -> Nat] /\ credential' \in [Runs -> Nat]
        /\ lease' \in [Tasks -> Int] /\ holder' \in [Tasks -> Runs \cup {NoRun}]
    BY <1>2 DEF Grant, NextEpoch, Expiry
  <2>3. driver' \in [Runs -> Phases]
    BY <1>2 DEF Grant, Left, Phases
  <2>4. renewer' \in [Runs -> BOOLEAN]
    BY <1>2, Zenon DEF Grant
  <2>5. wake' \in [Runs -> 0..RenewInterval]
    BY <1>2 DEF Grant
  <2>6. op' \in [Runs -> Operations] /\ lag' \in [Runs -> 0..MaxLag]
    BY <1>2, FinishType DEF Grant
  <2> QED BY <1>2, <2>1, <2>2, <2>3, <2>4, <2>5, <2>6 DEF Grant
<1>3. ASSUME NEW r \in Runs, Refuse(r) PROVE TypeOK'
  <2>1. driver' \in [Runs -> Phases]
    BY <1>3 DEF Refuse, Left, Phases
  <2> QED BY <1>3, <2>1, FinishType DEF Refuse, record
<1>4. ASSUME NEW r \in Runs, RenewerWakes(r) PROVE TypeOK'
  BY <1>4 DEF RenewerWakes, Queue, record, process, Operations
<1>5. ASSUME NEW r \in Runs, RenewerQuits(r) PROVE TypeOK'
  <2>1. renewer' \in [Runs -> BOOLEAN]
    BY <1>5, Zenon DEF RenewerQuits
  <2> QED BY <1>5, <2>1 DEF RenewerQuits, record, pending
<1>6. ASSUME NEW r \in Runs, Renew(r) PROVE TypeOK'
  <2>1. renewer' \in [Runs -> BOOLEAN]
    BY <1>6, Zenon DEF Renew
  <2>2. lease' \in [Tasks -> Int] /\ wake' \in [Runs -> 0..RenewInterval]
    BY <1>6 DEF Renew, Expiry
  <2> QED BY <1>6, <2>1, <2>2, FinishType DEF Renew
<1>7. ASSUME NEW r \in Runs, OwnerWrite(r) PROVE TypeOK'
  <2>1. lease' \in [Tasks -> Int] /\ writes' \in [Runs -> 0..MaxWrites]
    BY <1>7 DEF OwnerWrite
  <2>2. status' \in [Tasks -> StatusRow]
    BY <1>7 DEF OwnerWrite, StatusRow
  <2> QED BY <1>7, <2>1, <2>2 DEF OwnerWrite, pending
<1>8. ASSUME NEW r \in Runs, BeginRelease(r) PROVE TypeOK'
  <2>1. renewer' \in [Runs -> BOOLEAN]
    BY <1>8, Zenon DEF BeginRelease
  <2> QED BY <1>8, <2>1 DEF BeginRelease, Queue, record, Phases, Operations
<1>9. ASSUME NEW r \in Runs, Release(r) PROVE TypeOK'
  <2>1. history' \in [Tasks -> Seq(HistoryRow)]
    <3>1. CASE holder[TaskOf[r]] = r
      <4>1. TaskOf[r] \in Tasks /\ holder[TaskOf[r]] # NoRun
        BY <3>1
      <4> QED BY <1>9, <3>1, <4>1, ArchivedType DEF Release, EndReasons
    <3>2. CASE holder[TaskOf[r]] # r
      BY <1>9, <3>2 DEF Release
    <3> QED BY <3>1, <3>2
  <2>2. /\ holder' \in [Tasks -> Runs \cup {NoRun}]
        /\ lease' \in [Tasks -> Int] /\ credential' \in [Runs -> Nat]
    BY <1>9 DEF Release
  <2>3. driver' \in [Runs -> Phases]
    BY <1>9 DEF Release, Left, Phases
  <2> QED BY <1>9, <2>1, <2>2, <2>3, FinishType DEF Release
<1>10. ASSUME NEW r \in Runs, InterruptAcquire(r) \/ Kill(r) PROVE TypeOK'
  <2>1. driver' \in [Runs -> Phases]
    BY <1>10 DEF InterruptAcquire, Kill, Phases
  <2>2. op' \in [Runs -> Operations] /\ lag' \in [Runs -> 0..MaxLag]
    BY <1>10, FinishType DEF InterruptAcquire, Kill, pending
  <2> QED BY <1>10, <2>1, <2>2 DEF InterruptAcquire, Kill, record
<1>11. ASSUME NEW t \in Tasks, OrchestratorWrite(t) PROVE TypeOK'
  <2>1. status' \in [Tasks -> StatusRow]
    BY <1>11 DEF OrchestratorWrite, StatusRow
  <2> QED BY <1>11, <2>1 DEF OrchestratorWrite, record, process, pending
<1>12. ASSUME NEW t \in Tasks, ForceRelease(t) PROVE TypeOK'
  <2>1. history' \in [Tasks -> Seq(HistoryRow)]
    BY <1>12, ArchivedType DEF ForceRelease, EndReasons
  <2>2. holder' \in [Tasks -> Runs \cup {NoRun}] /\ lease' \in [Tasks -> Int]
    BY <1>12 DEF ForceRelease
  <2>3. UNCHANGED <<epoch, status, driver, credential, writes, renewer, wake, op, lag>>
    BY <1>12 DEF ForceRelease, process, pending
  <2> QED BY <2>1, <2>2, <2>3
<1>13. ASSUME Tick PROVE TypeOK'
  <2>1. lease' \in [Tasks -> Int] /\ wake' \in [Runs -> 0..RenewInterval]
    BY <1>13 DEF Tick, Decrease
  <2>2. lag' \in [Runs -> 0..MaxLag]
    BY <1>13 DEF Tick
  <2> QED BY <1>13, <2>1, <2>2 DEF Tick
<1>14. ASSUME UNCHANGED vars PROVE TypeOK'
  BY <1>14 DEF vars, record, process, pending
<1> QED BY <1>1, <1>2, <1>3, <1>4, <1>5, <1>6, <1>7, <1>8, <1>9, <1>10, <1>11, <1>12,
           <1>13, <1>14 DEF Next, RunStep

\* Every variable keeps its type, whatever the constants.
THEOREM TypeCorrect == Spec => []TypeOK
  BY InitType, StepType, PTL DEF Spec

-----------------------------------------------------------------------------
(* The inductive invariant *)

LEMMA InitFencing == Init => Fencing
  BY InitType, ConstantTypes
     DEF Init, Fencing, TypeOK, AuditTrail, Ordered, Recorded, Ungranted, Quiet

\* The audit trail only depends on the record and the epochs presented.
LEMMA AuditFrame ==
    ASSUME AuditTrail, UNCHANGED <<epoch, holder, history, credential>>
    PROVE  AuditTrail'
  BY DEF AuditTrail, Ordered, Recorded

\* A grant archives the lapsed holder, so whoever presents its epoch finds it
\* in the history, and hands out an epoch nobody presents.
LEMMA GrantAudit ==
    ASSUME Fencing, NEW r \in Runs, Grant(r)
    PROVE  AuditTrail'
<1> DEFINE t == TaskOf[r]
<1>1. TypeOK /\ t \in Tasks /\ holder[t] # r /\ credential[r] = 0
  BY ConstantTypes DEF Fencing, Grant, Ungranted, TypeOK
<1>2. /\ epoch'[t] = epoch[t] + 1 /\ holder'[t] = r
      /\ \A s \in Tasks \ {t} : epoch'[s] = epoch[s] /\ holder'[s] = holder[s]
  BY <1>1 DEF Grant, NextEpoch, TypeOK
<1>3. \A q \in Runs \ {r} : credential'[q] = credential[q]
  BY <1>1 DEF Grant, TypeOK
<1>4. credential'[r] \in {0, epoch[t] + 1}
  BY <1>1 DEF Grant, NextEpoch, TypeOK
<1>5. /\ Len(history'[t]) = epoch[t]
      /\ \A i \in 1..Len(history[t]) : history'[t][i] = history[t][i]
      /\ holder[t] # NoRun => /\ Len(history[t]) = epoch[t] - 1
                             /\ history'[t][epoch[t]].run = holder[t]
                             /\ history'[t][epoch[t]].epoch = epoch[t]
      /\ holder[t] = NoRun => Len(history[t]) = epoch[t]
      /\ \A s \in Tasks \ {t} : history'[s] = history[s]
  <2>1. CASE holder[t] = NoRun
    BY <1>1, <2>1 DEF Grant, HistoryAfterGrant, Fencing, AuditTrail, Ordered, TypeOK
  <2>2. CASE holder[t] # NoRun
    <3>1. history' = Archived(t, "reclaimed")
      BY <1>1, <2>2 DEF Grant, HistoryAfterGrant
    <3>2. Len(history[t]) = epoch[t] - 1
      BY <1>1, <2>2 DEF Fencing, AuditTrail, Ordered
    <3>3. Len(history[t]) + 1 = epoch[t]
      BY <1>1, <3>2 DEF TypeOK
    <3>4. "reclaimed" \in EndReasons
      BY DEF EndReasons
    <3>5. /\ Len(history'[t]) = Len(history[t]) + 1
          /\ \A i \in 1..Len(history[t]) : history'[t][i] = history[t][i]
          /\ \A s \in Tasks \ {t} : history'[s] = history[s]
          /\ history'[t][Len(history[t]) + 1] =
                [epoch |-> epoch[t], run |-> holder[t], ended_by |-> "reclaimed"]
      <4> HIDE DEF t
      <4>1. /\ Len(Archived(t, "reclaimed")[t]) = Len(history[t]) + 1
            /\ \A i \in 1..Len(history[t]) : Archived(t, "reclaimed")[t][i] = history[t][i]
            /\ \A s \in Tasks \ {t} : Archived(t, "reclaimed")[s] = history[s]
            /\ Archived(t, "reclaimed")[t][Len(history[t]) + 1] =
                  [epoch |-> epoch[t], run |-> holder[t], ended_by |-> "reclaimed"]
        BY <1>1, <2>2, <3>4, ArchivedType
      <4> QED BY <3>1, <4>1
    <3> QED BY <2>2, <3>2, <3>3, <3>5
  <2> QED BY <2>1, <2>2
<1>6. ASSUME NEW s \in Tasks PROVE Ordered(s)'
  <2>1. CASE s = t
    <3>1. /\ epoch[t] \in Nat /\ r # NoRun
          /\ \A i \in 1..Len(history[t]) : history[t][i].epoch = i
      BY <1>1, ConstantTypes DEF TypeOK, Fencing, AuditTrail, Ordered
    <3>2. \A i \in 1..epoch[t] : history'[t][i].epoch = i
      <4>1. CASE holder[t] = NoRun
        BY <1>5, <3>1, <4>1
      <4>2. CASE holder[t] # NoRun
        <5>1. \A i \in 1..epoch[t] : i \in 1..Len(history[t]) \/ i = epoch[t]
          BY <1>5, <3>1, <4>2
        <5> QED BY <1>5, <3>1, <4>2, <5>1
      <4> QED BY <4>1, <4>2
    <3> QED BY <1>2, <1>5, <2>1, <3>1, <3>2 DEF Ordered
  <2>2. CASE s # t
    BY <1>2, <1>5, <2>2 DEF Ordered, Fencing, AuditTrail
  <2> QED BY <2>1, <2>2
<1>7. ASSUME NEW q \in Runs PROVE Recorded(q)'
  <2>1. CASE q = r
    BY <1>1, <1>2, <1>4, <1>5, <2>1 DEF Recorded, TypeOK
  <2>2. CASE q # r /\ TaskOf[q] = t
    <3>1. Recorded(q) /\ credential[q] <= epoch[t] /\ credential[q] \in Nat
      BY <2>2 DEF Fencing, AuditTrail, TypeOK
    <3>2. CASE credential[q] = 0
      BY <1>3, <2>2, <3>2 DEF Recorded
    <3>3. CASE /\ credential[q] # 0 /\ credential[q] <= Len(history[t])
               /\ history[t][credential[q]].run = q
      <4>1. credential[q] \in 1..Len(history[t])
        BY <1>1, <3>1, <3>3 DEF TypeOK
      <4>2. Len(history[t]) <= epoch[t] /\ Len(history[t]) \in Nat
        <5>1. epoch[t] \in Nat /\ history[t] \in Seq(HistoryRow)
          BY <1>1 DEF TypeOK
        <5>2. Len(history[t]) \in {epoch[t] - 1, epoch[t]}
          BY <1>5
        <5> QED BY <5>1, <5>2
      <4> QED BY <1>1, <1>3, <1>5, <2>2, <3>1, <3>3, <4>1, <4>2 DEF Recorded, TypeOK
    <3>4. CASE credential[q] > Len(history[t]) /\ holder[t] = q
      <4>1. holder[t] # NoRun /\ credential[q] = epoch[t]
        BY <1>1, <1>5, <2>2, <3>1, <3>4, ConstantTypes DEF TypeOK
      <4> QED BY <1>1, <1>3, <1>5, <2>2, <3>1, <3>4, <4>1 DEF Recorded, TypeOK
    <3> QED BY <2>2, <3>1, <3>2, <3>3, <3>4 DEF Recorded
  <2>3. CASE q # r /\ TaskOf[q] # t
    <3>1. Recorded(q) /\ TaskOf[q] \in Tasks \ {t}
      BY <2>3, ConstantTypes DEF Fencing, AuditTrail
    <3>2. /\ history'[TaskOf[q]] = history[TaskOf[q]]
          /\ holder'[TaskOf[q]] = holder[TaskOf[q]]
          /\ credential'[q] = credential[q]
      BY <1>2, <1>3, <1>5, <2>3, <3>1
    <3> QED BY <3>1, <3>2 DEF Recorded
  <2> QED BY <2>1, <2>2, <2>3
<1> QED BY <1>6, <1>7 DEF AuditTrail

\* A release archives the holder of the current epoch.
LEMMA EndAudit ==
    ASSUME Fencing, NEW t \in Tasks, holder[t] # NoRun, NEW why \in EndReasons,
           history' = Archived(t, why), holder' = [holder EXCEPT ![t] = NoRun],
           epoch' = epoch, \A q \in Runs : credential'[q] \in {0, credential[q]}
    PROVE  AuditTrail'
<1>1. /\ TypeOK /\ epoch[t] \in Nat /\ history[t] \in Seq(HistoryRow)
      /\ Len(history[t]) \in Nat /\ Len(history[t]) = epoch[t] - 1
  BY DEF Fencing, TypeOK, AuditTrail, Ordered
<1>2. /\ Len(history'[t]) = epoch[t]
      /\ \A i \in 1..Len(history[t]) : history'[t][i] = history[t][i]
      /\ history'[t][epoch[t]].run = holder[t] /\ history'[t][epoch[t]].epoch = epoch[t]
      /\ \A s \in Tasks \ {t} : history'[s] = history[s]
  <2>1. /\ Len(Archived(t, why)[t]) = Len(history[t]) + 1
        /\ \A i \in 1..Len(history[t]) : Archived(t, why)[t][i] = history[t][i]
        /\ \A s \in Tasks \ {t} : Archived(t, why)[s] = history[s]
        /\ Archived(t, why)[t][Len(history[t]) + 1] =
              [epoch |-> epoch[t], run |-> holder[t], ended_by |-> why]
    BY <1>1, ArchivedType
  <2>2. Len(history[t]) + 1 = epoch[t]
    BY <1>1
  <2> QED BY <2>1, <2>2
<1>3. ASSUME NEW s \in Tasks PROVE Ordered(s)'
  <2>1. CASE s = t
    <3>1. \A i \in 1..Len(history[t]) : history[t][i].epoch = i
      BY DEF Fencing, AuditTrail, Ordered
    <3>2. \A i \in 1..epoch[t] : i \in 1..Len(history[t]) \/ i = epoch[t]
      BY <1>1
    <3>3. holder'[t] = NoRun /\ epoch'[t] = epoch[t]
      BY <1>1 DEF TypeOK
    <3>4. \A i \in 1..epoch[t] : history'[t][i].epoch = i
      BY <1>2, <3>1, <3>2
    <3> QED BY <1>1, <1>2, <2>1, <3>3, <3>4 DEF Ordered
  <2>2. CASE s # t
    BY <1>1, <1>2, <2>2 DEF Ordered, Fencing, AuditTrail, TypeOK
  <2> QED BY <2>1, <2>2
<1>4. ASSUME NEW q \in Runs PROVE Recorded(q)'
  <2>1. /\ Recorded(q) /\ TaskOf[q] \in Tasks
        /\ credential[q] \in Nat /\ credential[q] <= epoch[TaskOf[q]]
    BY ConstantTypes DEF Fencing, AuditTrail, TypeOK
  <2>2. CASE credential'[q] = 0
    BY <2>2 DEF Recorded
  <2>3. CASE credential'[q] # 0 /\ TaskOf[q] # t
    BY <1>1, <1>2, <2>1, <2>3 DEF Recorded, TypeOK
  <2>4. CASE /\ credential'[q] # 0 /\ TaskOf[q] = t
             /\ credential[q] <= Len(history[t]) /\ history[t][credential[q]].run = q
    <3>1. credential[q] \in 1..Len(history[t]) /\ credential'[q] = credential[q]
      BY <1>1, <2>1, <2>4
    <3> QED BY <1>1, <1>2, <2>1, <2>4, <3>1 DEF Recorded
  <2>5. CASE /\ credential'[q] # 0 /\ TaskOf[q] = t
             /\ credential[q] > Len(history[t]) /\ holder[t] = q
    <3>1. credential[q] = epoch[t] /\ credential'[q] = credential[q]
      BY <1>1, <2>1, <2>5
    <3> QED BY <1>1, <1>2, <2>5, <3>1 DEF Recorded
  <2> QED BY <2>1, <2>2, <2>3, <2>4, <2>5 DEF Recorded
<1> QED BY <1>3, <1>4 DEF AuditTrail

\* Only a run that has started gets an operation or a renewer.
LEMMA StepQuiet ==
    TypeOK /\ (\A q \in Runs : Quiet(q)) /\ [Next]_vars => (\A q \in Runs : Quiet(q))'
<1> SUFFICES ASSUME TypeOK, \A q \in Runs : Quiet(q), [Next]_vars, NEW q \in Runs
             PROVE  Quiet(q)'
  OBVIOUS
<1>1. Quiet(q) /\ driver[q] \in Phases
  BY DEF TypeOK
<1>2. ASSUME UNCHANGED <<driver[q], op[q], renewer[q]>> PROVE Quiet(q)'
  BY <1>1, <1>2 DEF Quiet
<1>3. ASSUME NEW r \in Runs, RunStep(r), r # q PROVE UNCHANGED <<driver[q], op[q], renewer[q]>>
  BY <1>3 DEF RunStep, BeginAcquire, Grant, Refuse, RenewerWakes, RenewerQuits, Renew, OwnerWrite,
              BeginRelease, Release, InterruptAcquire, Kill, Queue, Finish, process, pending, TypeOK
<1>4. ASSUME RunStep(q), driver[q] = "idle" PROVE driver'[q] # "idle"
  BY <1>1, <1>4 DEF RunStep, BeginAcquire, Grant, Refuse, RenewerWakes, RenewerQuits, Renew,
                    OwnerWrite, BeginRelease, Release, InterruptAcquire, Kill, Quiet, TypeOK
<1>5. ASSUME RunStep(q), driver[q] # "idle" PROVE driver'[q] # "idle"
  BY <1>1, <1>5 DEF RunStep, BeginAcquire, Grant, Refuse, RenewerWakes, RenewerQuits, Renew,
                    OwnerWrite, BeginRelease, Release, InterruptAcquire, Kill, Queue, Left,
                    process, pending, Phases, TypeOK
<1>6. ASSUME RunStep(q) PROVE Quiet(q)'
  BY <1>4, <1>5, <1>6 DEF Quiet
<1>7. ASSUME NEW t \in Tasks, OrchestratorWrite(t) \/ ForceRelease(t) PROVE Quiet(q)'
  BY <1>2, <1>7 DEF OrchestratorWrite, ForceRelease, process, pending
<1>8. CASE Tick
  BY <1>2, <1>8 DEF Tick
<1>9. CASE UNCHANGED vars
  BY <1>2, <1>9 DEF vars, process, pending
<1> QED BY <1>2, <1>3, <1>6, <1>7, <1>8, <1>9 DEF Next

LEMMA StepFencing == Fencing /\ [Next]_vars => Fencing'
<1> SUFFICES ASSUME Fencing, [Next]_vars PROVE Fencing'
  OBVIOUS
<1>1. TypeOK /\ TypeOK' /\ (\A q \in Runs : Quiet(q))'
  BY StepType, StepQuiet DEF Fencing
<1> DEFINE Rest == /\ \A q \in Runs : Quiet(q)
                   /\ \A q \in Runs : Ungranted(q) => credential[q] = 0 /\ holder[TaskOf[q]] # q
                   /\ \A q \in Runs : credential[q] <= epoch[TaskOf[q]]
                   /\ \A s \in Tasks : status[s].epoch <= epoch[s]
<1>2. Rest
  BY DEF Fencing
<1>3. ASSUME UNCHANGED <<record, status, credential>>,
             \A q \in Runs : Ungranted(q)' => Ungranted(q)
      PROVE  Fencing'
  <2>1. UNCHANGED <<epoch, holder, history, credential, status>>
    BY <1>3 DEF record
  <2>2. AuditTrail'
    BY <2>1, AuditFrame DEF Fencing
  <2> QED BY <1>1, <1>2, <1>3, <2>1, <2>2 DEF Fencing
<1>4. ASSUME NEW r \in Runs, BeginAcquire(r) PROVE Fencing'
  BY <1>1, <1>3, <1>4 DEF BeginAcquire, Queue, Ungranted, TypeOK
<1>5. ASSUME NEW r \in Runs, Grant(r) PROVE Fencing'
  <2>1. AuditTrail'
    BY <1>5, GrantAudit
  <2>2. ASSUME NEW q \in Runs, Ungranted(q)'
        PROVE  credential'[q] = 0 /\ holder'[TaskOf[q]] # q
    <3>1. q # r
      <4>1. driver[r] # "idle" /\ op'[r] = "none" /\ driver'[r] # "acquiring"
        <5>1. op[r] = "acquire" /\ Quiet(r) /\ driver[r] \in Phases
          BY <1>1, <1>2, <1>5 DEF Grant, TypeOK
        <5>2. op'[r] = "none"
          BY <1>1, <1>5 DEF Grant, Finish, TypeOK
        <5>3. driver'[r] = IF driver[r] = "acquiring" THEN "working" ELSE Left(driver[r])
          BY <1>1, <1>5 DEF Grant, TypeOK
        <5> QED BY <5>1, <5>2, <5>3 DEF Quiet, Left
      <4>2. driver'[r] # "idle"
        BY <1>1, <1>5, <4>1 DEF Grant, Left, TypeOK
      <4> QED BY <2>2, <4>1, <4>2 DEF Ungranted
    <3>2. Ungranted(q) /\ credential'[q] = credential[q]
      BY <1>1, <1>5, <2>2, <3>1 DEF Grant, Ungranted, Finish, TypeOK
    <3> QED BY <1>1, <1>2, <1>5, <3>1, <3>2, ConstantTypes DEF Grant, TypeOK
  <2>3. ASSUME NEW s \in Tasks
        PROVE  epoch[s] <= epoch'[s] /\ epoch[s] \in Nat /\ epoch'[s] \in Nat
    <3>1. epoch' = [epoch EXCEPT ![TaskOf[r]] = epoch[TaskOf[r]] + 1]
      BY <1>5 DEF Grant, NextEpoch
    <3>2. epoch[s] \in Nat /\ epoch'[s] \in {epoch[s], epoch[s] + 1}
      BY <1>1, <3>1 DEF TypeOK
    <3> QED BY <3>2
  <2>4. epoch'[TaskOf[r]] = epoch[TaskOf[r]] + 1
    BY <1>1, <1>5, ConstantTypes DEF Grant, NextEpoch, TypeOK
  <2>5. ASSUME NEW q \in Runs PROVE credential'[q] <= epoch'[TaskOf[q]]
    <3>1. CASE credential'[q] = credential[q]
      <4>1. credential[q] <= epoch[TaskOf[q]] /\ credential[q] \in Nat /\ TaskOf[q] \in Tasks
        BY <1>1, <1>2, ConstantTypes DEF TypeOK
      <4> QED BY <2>3, <3>1, <4>1
    <3>2. CASE credential'[q] # credential[q]
      <4>1. q = r /\ credential'[r] = epoch[TaskOf[r]] + 1
        BY <1>1, <1>5, <3>2 DEF Grant, NextEpoch, TypeOK
      <4>2. TaskOf[q] = TaskOf[r] /\ TaskOf[r] \in Tasks
        BY <4>1, ConstantTypes
      <4> QED BY <2>3, <2>4, <4>1, <4>2
    <3> QED BY <3>1, <3>2
  <2>6. ASSUME NEW s \in Tasks PROVE status'[s].epoch <= epoch'[s]
    <3>1. status' = status /\ status[s].epoch \in Nat
      BY <1>1, <1>5 DEF Grant, TypeOK, StatusRow
    <3> QED BY <1>2, <2>3, <3>1
  <2> QED BY <1>1, <2>1, <2>2, <2>5, <2>6 DEF Fencing
<1>6. ASSUME NEW r \in Runs, Refuse(r) PROVE Fencing'
  BY <1>1, <1>3, <1>6 DEF Refuse, Finish, Left, Ungranted, TypeOK
<1>7. ASSUME NEW r \in Runs, RenewerWakes(r) \/ RenewerQuits(r) PROVE Fencing'
  BY <1>1, <1>3, <1>7 DEF RenewerWakes, RenewerQuits, Queue, process, pending, Ungranted, TypeOK
<1>8. ASSUME NEW r \in Runs, Renew(r) PROVE Fencing'
  <2>1. AuditTrail'
    BY <1>8, AuditFrame DEF Renew, Fencing
  <2>2. \A q \in Runs : Ungranted(q)' => Ungranted(q)
    BY <1>1, <1>8 DEF Renew, Finish, Ungranted, TypeOK
  <2> QED BY <1>1, <1>2, <1>8, <2>1, <2>2 DEF Renew, Fencing
<1>9. ASSUME NEW r \in Runs, OwnerWrite(r) PROVE Fencing'
  <2>1. AuditTrail'
    BY <1>9, AuditFrame DEF OwnerWrite, Fencing
  <2>2. \A q \in Runs : Ungranted(q)' => Ungranted(q)
    BY <1>9 DEF OwnerWrite, pending, Ungranted
  <2>3. ASSUME NEW s \in Tasks PROVE status'[s].epoch <= epoch'[s]
    BY <1>1, <1>2, <1>9, ConstantTypes DEF OwnerWrite, FenceAllows, TypeOK, StatusRow
  <2> QED BY <1>1, <1>2, <1>9, <2>1, <2>2, <2>3 DEF OwnerWrite, Fencing
<1>10. ASSUME NEW r \in Runs, BeginRelease(r) PROVE Fencing'
  BY <1>1, <1>3, <1>10 DEF BeginRelease, Queue, Ungranted, TypeOK
<1>11. ASSUME NEW r \in Runs, Release(r) PROVE Fencing'
  <2>1. \A q \in Runs : credential'[q] \in {0, credential[q]}
    BY <1>1, <1>11 DEF Release, TypeOK
  <2>2. AuditTrail'
    <3>1. CASE holder[TaskOf[r]] = r
      <4>1. TaskOf[r] \in Tasks /\ holder[TaskOf[r]] # NoRun /\ "released" \in EndReasons
        BY <3>1, ConstantTypes DEF EndReasons
      <4>2. /\ history' = Archived(TaskOf[r], "released") /\ epoch' = epoch
            /\ holder' = [holder EXCEPT ![TaskOf[r]] = NoRun]
        BY <1>11, <3>1 DEF Release
      <4> QED BY <2>1, <4>1, <4>2, EndAudit
    <3>2. CASE holder[TaskOf[r]] # r
      <4>1. UNCHANGED <<epoch, holder, history>>
        BY <1>1, <1>11, <3>2 DEF Release, TypeOK
      <4> QED BY <2>1, <4>1 DEF Fencing, AuditTrail, Ordered, Recorded
    <3> QED BY <3>1, <3>2
  <2>3. \A q \in Runs : Ungranted(q)' => Ungranted(q)
    BY <1>1, <1>11 DEF Release, Finish, Left, Ungranted, TypeOK
  <2>4. \A q \in Runs, s \in Tasks : holder[s] # q => holder'[s] # q
    BY <1>1, <1>11, ConstantTypes DEF Release, TypeOK
  <2>5. ASSUME NEW q \in Runs PROVE credential'[q] <= epoch'[TaskOf[q]]
    <3>1. epoch' = epoch /\ epoch[TaskOf[q]] \in Nat /\ credential'[q] \in {0, credential[q]}
      BY <1>1, <1>11, <2>1, ConstantTypes DEF Release, TypeOK
    <3> QED BY <1>2, <3>1
  <2>6. UNCHANGED <<epoch, status>>
    BY <1>11 DEF Release
  <2> QED BY <1>1, <1>2, <2>1, <2>2, <2>3, <2>4, <2>5, <2>6, ConstantTypes DEF Fencing
<1>12. ASSUME NEW r \in Runs, InterruptAcquire(r) \/ Kill(r) PROVE Fencing'
  BY <1>1, <1>3, <1>12 DEF InterruptAcquire, Kill, Finish, pending, Ungranted, TypeOK
<1>13. ASSUME NEW t \in Tasks, OrchestratorWrite(t) PROVE Fencing'
  <2>1. UNCHANGED <<epoch, holder, history, credential, driver, op>>
    BY <1>13 DEF OrchestratorWrite, record, process, pending
  <2>2. AuditTrail'
    BY <2>1, AuditFrame DEF Fencing
  <2>3. ASSUME NEW s \in Tasks PROVE status'[s].epoch <= epoch'[s]
    BY <1>1, <1>2, <1>13, <2>1 DEF OrchestratorWrite, TypeOK, StatusRow
  <2> QED BY <1>1, <1>2, <2>1, <2>2, <2>3 DEF Fencing, Ungranted
<1>14. ASSUME NEW t \in Tasks, ForceRelease(t) PROVE Fencing'
  <2>1. /\ UNCHANGED <<epoch, status, credential, driver, op>>
        /\ holder[t] # NoRun /\ holder' = [holder EXCEPT ![t] = NoRun]
        /\ history' = Archived(t, "superseded") /\ "superseded" \in EndReasons
    BY <1>14 DEF ForceRelease, process, pending, EndReasons
  <2>2. AuditTrail'
    BY <2>1, EndAudit
  <2>3. \A q \in Runs, s \in Tasks : holder[s] # q => holder'[s] # q
    BY <1>1, <2>1, ConstantTypes DEF TypeOK
  <2> QED BY <1>1, <1>2, <2>1, <2>2, <2>3, ConstantTypes DEF Fencing, Ungranted
<1>15. ASSUME Tick PROVE Fencing'
  <2>1. UNCHANGED <<epoch, holder, history, credential, status, driver, op>>
    BY <1>15 DEF Tick
  <2>2. AuditTrail'
    BY <2>1, AuditFrame DEF Fencing
  <2> QED BY <1>1, <1>2, <2>1, <2>2 DEF Fencing, Ungranted
<1>16. ASSUME UNCHANGED vars PROVE Fencing'
  BY <1>3, <1>16 DEF vars, process, pending, Ungranted
<1> QED BY <1>4, <1>5, <1>6, <1>7, <1>8, <1>9, <1>10, <1>11, <1>12, <1>13, <1>14,
           <1>15, <1>16 DEF Next, RunStep

\* The strengthening that makes the fence work is an invariant.
THEOREM FencingHolds == Spec => []Fencing
  BY InitFencing, StepFencing, PTL DEF Spec

\* Every grant stays accounted for, through reclaims and operators' releases.
THEOREM AuditTrailHolds == Spec => []AuditTrail
<1>1. Fencing => AuditTrail
  BY DEF Fencing
<1> QED BY <1>1, FencingHolds, PTL

\* The fence lets at most one run of a task write.
THEOREM OneFencedOwnerHolds == Spec => []OneFencedOwner
<1>1. Fencing => OneFencedOwner
  <2> SUFFICES ASSUME Fencing, NEW q1 \in Runs, NEW q2 \in Runs,
                      TaskOf[q1] = TaskOf[q2], MayWrite(q1), MayWrite(q2)
               PROVE  q1 = q2
    BY DEF OneFencedOwner
  <2> DEFINE t == TaskOf[q1]
  <2>1. /\ credential[q1] = epoch[t] /\ credential[q2] = epoch[t]
        /\ Recorded(q1) /\ Recorded(q2) /\ credential[q1] # 0
    BY DEF MayWrite, FenceAllows, Fencing, AuditTrail
  <2>2. epoch[t] \in Nat /\ Len(history[t]) \in Nat
    BY ConstantTypes DEF Fencing, TypeOK
  <2>3. CASE epoch[t] <= Len(history[t])
    BY <2>1, <2>2, <2>3 DEF Recorded
  <2>4. CASE epoch[t] > Len(history[t])
    BY <2>1, <2>2, <2>4 DEF Recorded
  <2> QED BY <2>2, <2>3, <2>4
<1> QED BY <1>1, FencingHolds, PTL

\* A stale owner never overwrites a newer owner's status.
THEOREM NoStaleOverwriteHolds == Spec => NoStaleOverwrite
<1>1. Fencing /\ [Next]_vars => [\A t \in Tasks : status'[t].epoch >= status[t].epoch]_vars
  <2> SUFFICES ASSUME Fencing, Next, NEW s \in Tasks
               PROVE  status'[s].epoch >= status[s].epoch
    OBVIOUS
  <2>1. TypeOK /\ status[s].epoch <= epoch[s] /\ status[s].epoch \in Nat
    BY DEF Fencing, TypeOK, StatusRow
  <2>2. CASE status' = status
    BY <2>1, <2>2
  <2>3. ASSUME NEW r \in Runs, OwnerWrite(r) PROVE status'[s].epoch >= status[s].epoch
    <3>1. TaskOf[r] \in Tasks /\ credential[r] = epoch[TaskOf[r]]
      BY <2>3, ConstantTypes DEF OwnerWrite, FenceAllows
    <3>2. status'[s] = status[s] \/ (s = TaskOf[r] /\ status'[s].epoch = epoch[s])
      BY <2>1, <2>3, <3>1 DEF OwnerWrite, TypeOK
    <3> QED BY <2>1, <3>2 DEF TypeOK
  <2>4. ASSUME NEW t \in Tasks, OrchestratorWrite(t) PROVE status'[s].epoch >= status[s].epoch
    BY <2>1, <2>4 DEF OrchestratorWrite, TypeOK, StatusRow
  <2> QED BY <2>2, <2>3, <2>4
          DEF Next, RunStep, BeginAcquire, Grant, Refuse, RenewerWakes, RenewerQuits, Renew,
              BeginRelease, Release, InterruptAcquire, Kill, ForceRelease, Tick
<1> QED BY <1>1, FencingHolds, PTL DEF Spec, NoStaleOverwrite

-----------------------------------------------------------------------------
(* What the lease is worth while renewals are on time *)

\* The shortest lease a renewal grants, and the lease a fenced write grants, last
\* until the next renewal.
LeaseOutlastsRenewal ==
    /\ Punctual
    /\ RenewInterval + MaxLag < Lease
    /\ RenewInterval < FenceLease

\* Why a working dispatch keeps its task: its renewer runs, and the lease it
\* holds ends later than the renewer's sleep.
HeldByRenewals ==
    /\ TypeOK
    /\ \A r \in Runs : driver[r] = "working" => op[r] \in {"none", "renew"}
    /\ \A r \in Runs : driver[r] = "working" /\ holder[TaskOf[r]] = r =>
                          renewer[r] /\ wake[r] < lease[TaskOf[r]]

\* A caller that read the clock earlier finds such a lease live as well.
LEMMA WorkingIsLive ==
    ASSUME HeldByRenewals, NEW r \in Runs, driver[r] = "working", holder[TaskOf[r]] = r
    PROVE  /\ LiveDispatchNotReclaimable /\ Live(TaskOf[r])
           /\ \A q \in Runs : LiveAt(TaskOf[r], lag[q])
<1>1. /\ TypeOK /\ \A q \in Runs : driver[q] = "working" /\ holder[TaskOf[q]] = q =>
                                   wake[q] < lease[TaskOf[q]]
  BY DEF HeldByRenewals
<1>2. \A q \in Runs : wake[q] \in 0..RenewInterval /\ lag[q] \in 0..MaxLag /\ TaskOf[q] \in Tasks
  BY <1>1, ConstantTypes DEF TypeOK
<1>3. \A t \in Tasks : lease[t] \in Int
  BY <1>1 DEF TypeOK
<1> QED BY <1>1, <1>2, <1>3, ConstantTypes DEF LiveDispatchNotReclaimable, Live, LiveAt

\* No other run is granted the task of a working dispatch or writes its status,
\* and no orchestrator does.
LEMMA OthersKeepOff ==
    ASSUME HeldByRenewals, NEW r \in Runs, driver[r] = "working", holder[TaskOf[r]] = r
    PROVE  /\ ~Grant(r) /\ ~Release(r) /\ ~OrchestratorWrite(TaskOf[r])
           /\ \A q \in Runs : q # r /\ TaskOf[q] = TaskOf[r] => ~Grant(q) /\ ~OwnerWrite(q)
<1>1. /\ Live(TaskOf[r]) /\ op[r] \in {"none", "renew"} /\ r # NoRun
      /\ \A q \in Runs : LiveAt(TaskOf[r], lag[q])
  BY WorkingIsLive, ConstantTypes DEF HeldByRenewals
<1> QED BY <1>1 DEF Grant, Refused, Release, OrchestratorWrite, OwnerWrite, FenceAllows

\* A run's step changes who holds a task and until when only of its own task, by a
\* grant, and as the holder.
LEMMA RecordMoves ==
    ASSUME TypeOK, NEW q \in Runs, RunStep(q), NEW t \in Tasks
    PROVE  /\ \/ holder'[t] = holder[t]
              \/ t = TaskOf[q] /\ Grant(q) /\ holder'[t] = q
              \/ t = TaskOf[q] /\ Release(q) /\ holder[t] = q /\ holder'[t] = NoRun
           /\ \/ lease'[t] = lease[t]
              \/ t = TaskOf[q] /\ (Grant(q) \/ OwnerWrite(q) \/ holder[t] = q)
<1> USE ConstantTypes
<1>1. holder \in [Tasks -> Runs \cup {NoRun}] /\ lease \in [Tasks -> Int] /\ TaskOf[q] \in Tasks
  BY DEF TypeOK
<1>2. CASE Grant(q)
  BY <1>1, <1>2 DEF Grant
<1>3. CASE Renew(q)
  BY <1>1, <1>3 DEF Renew
<1>4. CASE OwnerWrite(q)
  BY <1>1, <1>4 DEF OwnerWrite
<1>5. CASE Release(q)
  BY <1>1, <1>5 DEF Release
<1>6. CASE \/ BeginAcquire(q) \/ Refuse(q) \/ RenewerWakes(q) \/ RenewerQuits(q)
           \/ BeginRelease(q) \/ InterruptAcquire(q) \/ Kill(q)
  BY <1>6 DEF BeginAcquire, Refuse, RenewerWakes, RenewerQuits, BeginRelease,
              InterruptAcquire, Kill, record
<1> QED BY <1>2, <1>3, <1>4, <1>5, <1>6 DEF RunStep

LEMMA StepHeld ==
    ASSUME LeaseOutlastsRenewal, HeldByRenewals, [Next]_vars
    PROVE  HeldByRenewals'
<1>1. /\ TypeOK /\ TypeOK' /\ Punctual
      /\ \A r \in Runs : TaskOf[r] \in Tasks /\ r # NoRun
      /\ RenewInterval \in Nat /\ MaxLag \in Nat /\ Lease \in Nat /\ FenceLease \in Nat
      /\ RenewInterval + MaxLag < Lease /\ RenewInterval < FenceLease
  BY StepType, ConstantTypes DEF HeldByRenewals, LeaseOutlastsRenewal
<1> DEFINE Held(r) ==
       /\ driver[r] = "working" => op[r] \in {"none", "renew"}
       /\ driver[r] = "working" /\ holder[TaskOf[r]] = r =>
             renewer[r] /\ wake[r] < lease[TaskOf[r]]
<1> SUFFICES ASSUME NEW r \in Runs PROVE Held(r)'
  BY <1>1 DEF HeldByRenewals
<1> DEFINE t == TaskOf[r]
<1>2. /\ Held(r) /\ t \in Tasks /\ wake[r] \in 0..RenewInterval /\ lag[r] \in 0..MaxLag
      /\ lease[t] \in Int
  BY <1>1 DEF HeldByRenewals, TypeOK
<1>3. ASSUME driver'[r] = "working" => driver[r] = "working" /\ op'[r] = op[r],
             driver[r] = "working" /\ holder'[t] = r =>
                holder[t] = r /\ renewer'[r] = renewer[r] /\ wake'[r] = wake[r]
                /\ lease'[t] = lease[t]
      PROVE  Held(r)'
  BY <1>2, <1>3
<1>4. CASE Grant(r)
  <2>1. /\ driver'[r] = "working" => driver[r] \in {"acquiring", "working"}
        /\ op'[r] = "none" /\ lease'[t] = Lease - lag[r]
    BY <1>1, <1>2, <1>4 DEF Grant, Finish, Expiry, Left, TypeOK
  <2>2. driver[r] # "working"
    BY <1>2, <1>4 DEF Grant
  <2>3. driver[r] = "acquiring" => renewer'[r] /\ wake'[r] = RenewInterval
    BY <1>1, <1>4 DEF Grant, TypeOK
  <2> QED BY <1>1, <1>2, <2>1, <2>2, <2>3
<1>5. CASE Refuse(r) \/ InterruptAcquire(r) \/ Kill(r) \/ BeginAcquire(r) \/ BeginRelease(r)
  <2>1. driver[r] = "working" => op[r] # "acquire"
    BY <1>2
  <2>2. driver'[r] # "working"
    BY <1>1, <1>5, <2>1 DEF Refuse, InterruptAcquire, Kill, BeginAcquire, BeginRelease, Left, TypeOK
  <2> QED BY <2>2
<1>6. CASE RenewerWakes(r)
  <2>1. op'[r] = "renew"
    BY <1>1, <1>6 DEF RenewerWakes, Queue, TypeOK
  <2> QED BY <1>2, <1>6, <2>1 DEF RenewerWakes, record, process
<1>7. CASE RenewerQuits(r) \/ Release(r)
  <2>1. driver'[r] # "working"
    BY <1>1, <1>2, <1>7 DEF RenewerQuits, Release, Left, TypeOK
  <2> QED BY <2>1
<1>8. CASE Renew(r)
  <2>1. driver' = driver /\ holder' = holder /\ op'[r] = "none"
    BY <1>1, <1>8 DEF Renew, Finish, TypeOK
  <2>2. holder[t] = r => renewer'[r] /\ wake'[r] = RenewInterval /\ lease'[t] = Lease - lag[r]
    BY <1>1, <1>2, <1>8 DEF Renew, Expiry, TypeOK
  <2> QED BY <1>1, <1>2, <2>1, <2>2
<1>9. CASE OwnerWrite(r)
  <2>1. holder[t] = r => lease'[t] = FenceLease
    BY <1>1, <1>2, <1>9 DEF OwnerWrite, TypeOK
  <2> QED BY <1>1, <1>2, <1>9, <2>1 DEF OwnerWrite, pending
<1>10. ASSUME NEW q \in Runs, q # r, RunStep(q) PROVE Held(r)'
  <2>1. UNCHANGED <<driver[r], op[r], renewer[r], wake[r]>>
    BY <1>1, <1>10
    DEF RunStep, BeginAcquire, Grant, Refuse, RenewerWakes, RenewerQuits, Renew, OwnerWrite,
        BeginRelease, Release, InterruptAcquire, Kill, Queue, Finish, process, pending, TypeOK
  <2>2. holder'[t] = r => holder[t] = r
    BY <1>1, <1>2, <1>10, RecordMoves
  <2>3. driver[r] = "working" /\ holder[t] = r => lease'[t] = lease[t]
    <3> SUFFICES ASSUME driver[r] = "working", holder[t] = r PROVE lease'[t] = lease[t]
      OBVIOUS
    <3>1. TaskOf[q] = t => ~Grant(q) /\ ~OwnerWrite(q)
      BY <1>10, OthersKeepOff
    <3> QED BY <1>1, <1>2, <1>10, <3>1, RecordMoves
  <2> QED BY <1>3, <2>1, <2>2, <2>3
<1>11. ASSUME NEW s \in Tasks, OrchestratorWrite(s) \/ ForceRelease(s) PROVE Held(r)'
  <2>1. UNCHANGED <<driver, op, renewer, wake>>
    BY <1>11 DEF OrchestratorWrite, ForceRelease, process, pending
  <2>2. holder'[t] = r => holder[t] = r /\ lease'[t] = lease[t]
    <3>1. CASE OrchestratorWrite(s)
      BY <3>1 DEF OrchestratorWrite, record
    <3>2. CASE ForceRelease(s)
      BY <1>1, <1>2, <3>2 DEF ForceRelease, TypeOK
    <3> QED BY <1>11, <3>1, <3>2
  <2> QED BY <1>3, <2>1, <2>2
<1>12. CASE Tick
  <2>1. /\ lease'[t] = Decrease(lease[t], -MaxLag) /\ wake'[r] = Decrease(wake[r], 0)
        /\ UNCHANGED <<driver, op, renewer, holder>> /\ ~Overdue(r)
    BY <1>1, <1>2, <1>12 DEF Tick
  <2>2. driver[r] = "working" /\ renewer[r] => wake[r] # 0
    BY <2>1 DEF Overdue
  <2> QED BY <1>1, <1>2, <2>1, <2>2 DEF Decrease
<1>13. CASE UNCHANGED vars
  BY <1>2, <1>13 DEF vars, record, process, pending
<1> QED BY <1>4, <1>5, <1>6, <1>7, <1>8, <1>9, <1>10, <1>11, <1>12, <1>13 DEF Next, RunStep

LEMMA InitHeld == Init => HeldByRenewals
  BY InitType DEF Init, HeldByRenewals

\* A dispatch whose renewals are on time never becomes reclaimable while it works:
\* with any number of them, killed, interrupted and orphaned ones included, and
\* whatever the operations waited for the lock, as long as that wait and the
\* renewal interval together fit into the lease.
THEOREM LiveDispatchHolds == LeaseOutlastsRenewal => (Spec => []LiveDispatchNotReclaimable)
<1> SUFFICES ASSUME LeaseOutlastsRenewal PROVE Spec => []LiveDispatchNotReclaimable
  OBVIOUS
<1>1. HeldByRenewals => LiveDispatchNotReclaimable
  BY WorkingIsLive DEF LiveDispatchNotReclaimable
<1>2. HeldByRenewals /\ [Next]_vars => HeldByRenewals'
  BY StepHeld
<1> QED BY <1>1, <1>2, InitHeld, PTL DEF Spec

\* Nobody but itself and an operator ends its lease, nobody else writes its status.
THEOREM WorkingOwnerHolds == LeaseOutlastsRenewal => (Spec => WorkingOwnerUndisturbed)
<1> SUFFICES ASSUME LeaseOutlastsRenewal PROVE Spec => WorkingOwnerUndisturbed
  OBVIOUS
<1> DEFINE Undisturbed ==
       \A r \in Runs :
          LET t == TaskOf[r] IN
          driver[r] = "working" /\ holder[t] = r =>
              /\ holder'[t] \in {r, NoRun}
              /\ status'[t] \in {status[t], [by |-> r, epoch |-> credential[r]]}
<1>1. HeldByRenewals /\ [Next]_vars => [Undisturbed]_vars
  <2> SUFFICES ASSUME HeldByRenewals, Next, NEW r \in Runs,
                      driver[r] = "working", holder[TaskOf[r]] = r
               PROVE  /\ holder'[TaskOf[r]] \in {r, NoRun}
                      /\ status'[TaskOf[r]] \in
                            {status[TaskOf[r]], [by |-> r, epoch |-> credential[r]]}
    OBVIOUS
  <2> DEFINE t == TaskOf[r]
  <2>1. /\ TypeOK /\ t \in Tasks /\ r # NoRun /\ \A q \in Runs : TaskOf[q] \in Tasks
    BY ConstantTypes DEF HeldByRenewals
  <2>2. /\ ~Grant(r) /\ ~Release(r) /\ ~OrchestratorWrite(t)
        /\ \A q \in Runs : q # r /\ TaskOf[q] = t => ~Grant(q) /\ ~OwnerWrite(q)
    BY OthersKeepOff
  <2>3. ASSUME NEW q \in Runs, RunStep(q)
        PROVE  /\ holder'[t] = holder[t]
               /\ status'[t] \in {status[t], [by |-> r, epoch |-> credential[r]]}
    <3>1. CASE OwnerWrite(q)
      <4>1. status' = [status EXCEPT ![TaskOf[q]] = [by |-> q, epoch |-> credential[q]]]
        BY <3>1 DEF OwnerWrite
      <4>2. status \in [Tasks -> StatusRow]
        BY <2>1 DEF TypeOK
      <4>3. status'[t] \in {status[t], [by |-> r, epoch |-> credential[r]]}
        BY <2>1, <2>2, <3>1, <4>1, <4>2
      <4>4. holder'[t] = holder[t]
        BY <2>1, <2>2, <2>3, RecordMoves
      <4> QED BY <4>3, <4>4
    <3>2. CASE ~OwnerWrite(q)
      <4>1. status' = status
        BY <2>3, <3>2
        DEF RunStep, BeginAcquire, Grant, Refuse, RenewerWakes, RenewerQuits, Renew,
            BeginRelease, Release, InterruptAcquire, Kill
      <4> QED BY <2>1, <2>2, <2>3, <4>1, RecordMoves
    <3>3. holder'[t] = holder[t]
      BY <2>1, <2>2, <2>3, RecordMoves
    <3> QED BY <3>1, <3>2, <3>3
  <2>4. ASSUME NEW s \in Tasks, OrchestratorWrite(s) \/ ForceRelease(s)
        PROVE  holder'[t] \in {r, NoRun} /\ status'[t] = status[t]
    BY <2>1, <2>2, <2>4 DEF OrchestratorWrite, ForceRelease, record, TypeOK
  <2>5. Tick => UNCHANGED <<holder, status>>
    BY DEF Tick
  <2> QED BY <2>3, <2>4, <2>5 DEF Next
<1>2. HeldByRenewals /\ [Next]_vars => HeldByRenewals'
  BY StepHeld
<1> QED BY <1>1, <1>2, InitHeld, PTL DEF Spec, WorkingOwnerUndisturbed

\* Two such dispatches never work in one checkout, though only the scan at grant
\* time relates their tasks.
THEOREM KeepApartHolds ==
    LeaseOutlastsRenewal /\ WorktreeExclusive => (Spec => []PunctualDispatchesKeepApart)
<1> SUFFICES ASSUME LeaseOutlastsRenewal, WorktreeExclusive
             PROVE  Spec => []PunctualDispatchesKeepApart
  OBVIOUS
<1>1. Init => PunctualDispatchesKeepApart
  BY DEF Init, PunctualDispatchesKeepApart
<1>2. HeldByRenewals /\ PunctualDispatchesKeepApart /\ [Next]_vars
         => PunctualDispatchesKeepApart'
  <2> SUFFICES ASSUME HeldByRenewals, PunctualDispatchesKeepApart, [Next]_vars,
                      NEW q1 \in Runs, NEW q2 \in Runs,
                      driver'[q1] = "working", driver'[q2] = "working", Clash(q1, q2)'
               PROVE  FALSE
    BY DEF PunctualDispatchesKeepApart
  <2>1. TypeOK /\ \A q \in Runs : TaskOf[q] \in Tasks /\ q # NoRun
    BY ConstantTypes DEF HeldByRenewals
  \* What works and holds its task after a step did before, or is granted it now.
  <2>2. ASSUME NEW q \in Runs, driver'[q] = "working", holder'[TaskOf[q]] = q
        PROVE  Grant(q) \/ (driver[q] = "working" /\ holder[TaskOf[q]] = q)
    <3>1. ASSUME NEW p \in Runs, RunStep(p)
          PROVE  Grant(q) \/ (driver[q] = "working" /\ holder[TaskOf[q]] = q)
      <4>1. holder[TaskOf[q]] = q \/ Grant(q)
        BY <2>1, <2>2, <3>1, RecordMoves
      <4>2. driver[q] = "working" \/ Grant(q)
        <5>1. driver \in [Runs -> Phases]
          BY <2>1 DEF TypeOK
        <5>2. CASE Grant(p)
          BY <2>2, <5>1, <5>2 DEF Grant, Left
        <5>3. CASE Refuse(p) \/ Release(p)
          BY <2>2, <5>1, <5>3 DEF Refuse, Release, Left
        <5>4. CASE \/ BeginAcquire(p) \/ RenewerWakes(p) \/ RenewerQuits(p) \/ Renew(p)
                   \/ OwnerWrite(p) \/ BeginRelease(p) \/ InterruptAcquire(p) \/ Kill(p)
          BY <2>2, <5>1, <5>4
          DEF BeginAcquire, RenewerWakes, RenewerQuits, Renew, OwnerWrite, BeginRelease,
              InterruptAcquire, Kill, process
        <5> QED BY <3>1, <5>2, <5>3, <5>4 DEF RunStep
      <4> QED BY <4>1, <4>2
    <3>2. ASSUME NEW s \in Tasks, OrchestratorWrite(s) \/ ForceRelease(s)
          PROVE  driver[q] = "working" /\ holder[TaskOf[q]] = q
      BY <2>1, <2>2, <3>2 DEF OrchestratorWrite, ForceRelease, record, process, TypeOK
    <3>3. Tick \/ UNCHANGED vars => UNCHANGED <<driver, holder>>
      BY DEF Tick, vars, record, process
    <3> QED BY <2>2, <3>1, <3>2, <3>3 DEF Next
  \* A grant next to a working dispatch in the same checkout is refused.
  <2>3. ASSUME NEW p \in Runs, NEW q \in Runs, Grant(p), Clash(p, q)', driver'[q] = "working"
        PROVE  FALSE
    <3>1. /\ p # q /\ p \notin SharedMode /\ q \notin SharedMode
          /\ CheckoutOf[p] = CheckoutOf[q] /\ CheckoutOf[p] # NoCheckout
          /\ holder'[TaskOf[p]] = p /\ holder'[TaskOf[q]] = q
      BY <2>3 DEF Clash
    <3>2. TaskOf[p] # TaskOf[q]
      BY <3>1
    <3>3. driver[q] = "working" /\ holder[TaskOf[q]] = q
      BY <2>1, <2>3, <3>1, <3>2 DEF Grant, TypeOK
    <3>4. LiveAt(TaskOf[q], lag[p])
      BY <3>3, WorkingIsLive
    <3>5. CheckoutClash(p)
      BY <2>1, <3>1, <3>2, <3>3, <3>4 DEF CheckoutClash
    <3> QED BY <2>3, <3>5 DEF Grant, Refused
  <2>4. Clash(q2, q1)' /\ holder'[TaskOf[q1]] = q1 /\ holder'[TaskOf[q2]] = q2
    BY DEF Clash
  <2>5. ~Clash(q1, q2) => ~(holder[TaskOf[q1]] = q1 /\ holder[TaskOf[q2]] = q2)
    BY DEF Clash
  <2> QED BY <2>2, <2>3, <2>4, <2>5 DEF PunctualDispatchesKeepApart
<1>3. HeldByRenewals /\ [Next]_vars => HeldByRenewals'
  BY StepHeld
<1> QED BY <1>1, <1>2, <1>3, InitHeld, PTL DEF Spec

-----------------------------------------------------------------------------
(* The register implements the fenced register *)

LEMMA RegisterInit == Init => Register!Init
  BY DEF Init, Register!Init

LEMMA RegisterStep == Fencing /\ [Next]_vars => [Register!Next]_Register!vars
<1> SUFFICES ASSUME Fencing, [Next]_vars PROVE [Register!Next]_Register!vars
  OBVIOUS
<1> USE ConstantTypes
<1> DEFINE wroteAt == [t \in Tasks |-> status[t].epoch]
<1>1. TypeOK
  BY DEF Fencing
<1>2. ASSUME UNCHANGED <<epoch, holder, credential, status>> PROVE UNCHANGED Register!vars
  BY <1>2 DEF Register!vars
<1>3. ASSUME NEW r \in Runs, Grant(r) PROVE Register!Grant(r)
  <2>1. credential[r] = 0
    BY <1>3 DEF Grant, Fencing, Ungranted
  <2>2. credential' \in {credential, [credential EXCEPT ![r] = epoch[TaskOf[r]] + 1]}
    BY <1>1, <1>3 DEF Grant, NextEpoch, TypeOK
  <2> QED BY <1>3, <2>1, <2>2 DEF Grant, NextEpoch, Register!Grant
<1>4. ASSUME NEW r \in Runs, OwnerWrite(r) PROVE Register!OwnerWrite(r)
  <2>1. wroteAt' = [wroteAt EXCEPT ![TaskOf[r]] = credential[r]]
    BY <1>1, <1>4 DEF OwnerWrite, TypeOK
  <2> QED BY <1>4, <2>1 DEF OwnerWrite, FenceAllows, Register!OwnerWrite
<1>5. ASSUME NEW r \in Runs, Release(r) PROVE Register!Retire(r)
  BY <1>1, <1>5 DEF Release, TypeOK, Register!Retire
<1>6. ASSUME NEW t \in Tasks, OrchestratorWrite(t) PROVE Register!OverseerWrite(t)
  <2>1. wroteAt' = [wroteAt EXCEPT ![t] = epoch[t]]
    BY <1>1, <1>6 DEF OrchestratorWrite, TypeOK
  <2> QED BY <1>6, <2>1 DEF OrchestratorWrite, record, process, Register!OverseerWrite
<1>7. ASSUME NEW t \in Tasks, ForceRelease(t) PROVE Register!Evict(t)
  BY <1>7 DEF ForceRelease, process, Register!Evict
<1>8. ASSUME NEW r \in Runs,
             \/ BeginAcquire(r) \/ Refuse(r) \/ RenewerWakes(r) \/ RenewerQuits(r)
             \/ Renew(r) \/ BeginRelease(r) \/ InterruptAcquire(r) \/ Kill(r)
      PROVE  UNCHANGED <<epoch, holder, credential, status>>
  BY <1>8 DEF BeginAcquire, Refuse, RenewerWakes, RenewerQuits, Renew, BeginRelease,
              InterruptAcquire, Kill, record, process
<1>9. Tick \/ UNCHANGED vars => UNCHANGED <<epoch, holder, credential, status>>
  BY DEF Tick, vars, record, process
<1> QED BY <1>2, <1>3, <1>4, <1>5, <1>6, <1>7, <1>8, <1>9 DEF Next, RunStep, Register!Next

\* Whatever the timing, crashes and lock waits: every grant hands out a fresh
\* token and the status is written under the newest one only.
THEOREM Implementation == Spec => RegisterSpec
  BY RegisterInit, RegisterStep, FencingHolds, PTL DEF Spec, RegisterSpec, Register!Spec
=============================================================================
