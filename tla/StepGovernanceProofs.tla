------------------------- MODULE StepGovernanceProofs -------------------------
(***************************************************************************)
(* What holds around a task's steps for any number of steps, of restarts    *)
(* and of other servers; and what holds only while there are none of these. *)
(***************************************************************************)
EXTENDS StepGovernance, TLAPS

Stages == {"none", "renew", "check", "sync", "ran sync", "commit", "ran commit",
           "release", "save"}

-----------------------------------------------------------------------------
(* Lemmas about the operators *)

LEMMA Constants ==
    /\ MaxSteps \in Nat /\ MaxCrashes \in Nat /\ Own \in Servers
    /\ NoRun \notin Steps /\ Dispatch \notin Steps
<1>1. Steps \subseteq 0..MaxSteps
  BY StepAssumption DEF StepAssumption, Steps
<1> QED BY <1>1, StepAssumption DEF StepAssumption, Servers

\* A finalize moves its own row of work, and keeps or sets its fields.
LEMMA GoesMoves ==
    ASSUME TypeOK, NEW s \in Servers, NEW x \in Steps, NEW stage \in Stages, Goes(s, x, stage)
    PROVE  /\ work' \in [Servers -> [Steps -> Work]]
           /\ work'[s][x].stage = stage /\ work'[s][x].done = work[s][x].done
           /\ \A r \in Servers, y \in Steps : r # s \/ y # x => work'[r][y] = work[r][y]
<1>1. work \in [Servers -> [Steps -> Work]] /\ work[s][x] \in Work
  BY DEF TypeOK
<1> DEFINE w == [work[s][x] EXCEPT !.stage = stage]
<1>2. w \in Work /\ w.stage = stage /\ w.done = work[s][x].done
  BY <1>1 DEF Work, Stages
<1>3. work' = [work EXCEPT ![s] = [work[s] EXCEPT ![x] = w]]
  BY <1>1 DEF Goes
<1> HIDE DEF w
<1> QED BY <1>1, <1>2, <1>3

LEMMA CompletesMoves ==
    ASSUME TypeOK, NEW s \in Servers, NEW x \in Steps, NEW verdict \in Results,
           Completes(s, x, verdict)
    PROVE  /\ work' \in [Servers -> [Steps -> Work]]
           /\ work'[s][x].stage \in {"release", "save"} /\ work'[s][x].done = work[s][x].done
           /\ \A r \in Servers, y \in Steps : r # s \/ y # x => work'[r][y] = work[r][y]
<1>1. work \in [Servers -> [Steps -> Work]] /\ work[s][x] \in Work
  BY DEF TypeOK
<1> DEFINE stage == IF verdict = "lease lost" THEN "save" ELSE "release"
           w == [work[s][x] EXCEPT !.stage = stage, !.verdict = verdict]
<1>2. w \in Work /\ w.stage \in {"release", "save"} /\ w.done = work[s][x].done
  BY <1>1 DEF Work
<1>3. work' = [work EXCEPT ![s] = [work[s] EXCEPT ![x] = w]]
  BY <1>1 DEF Completes
<1> HIDE DEF w
<1> QED BY <1>1, <1>2, <1>3

LEMMA ProgressesMoves ==
    ASSUME TypeOK, NEW s \in Servers, NEW x \in Steps, NEW done \in Done, NEW stage \in Stages,
           Progresses(s, x, done, stage)
    PROVE  /\ work' \in [Servers -> [Steps -> Work]]
           /\ work'[s][x].stage = stage /\ work'[s][x].done = done
           /\ \A r \in Servers, y \in Steps : r # s \/ y # x => work'[r][y] = work[r][y]
<1>1. work \in [Servers -> [Steps -> Work]] /\ work[s][x] \in Work
  BY DEF TypeOK
<1> DEFINE w == [work[s][x] EXCEPT !.stage = stage, !.done = done]
<1>2. w \in Work /\ w.stage = stage /\ w.done = done
  BY <1>1 DEF Work, Stages
<1>3. work' = [work EXCEPT ![s] = [work[s] EXCEPT ![x] = w]]
  BY <1>1 DEF Progresses
<1> HIDE DEF w
<1> QED BY <1>1, <1>2, <1>3

\* Taking a step up, and putting it down again.
LEMMA FinalizeMoves ==
    ASSUME TypeOK, NEW s \in Servers, NEW x \in Steps, Finalize(s, x)
    PROVE  /\ work' \in [Servers -> [Steps -> Work]]
           /\ work'[s][x].stage = IF launch[x] \in {"succeeded", "tampered"} THEN "renew"
                                  ELSE "release"
           /\ work'[s][x].done = progress[x]
           /\ \A r \in Servers, y \in Steps : r # s \/ y # x => work'[r][y] = work[r][y]
<1>1. work \in [Servers -> [Steps -> Work]] /\ progress[x] \in Done
  BY DEF TypeOK, Finalize, OnRecord
<1> DEFINE w == IF launch[x] \in {"succeeded", "tampered"}
                THEN [stage |-> "renew", done |-> progress[x], verdict |-> "verified"]
                ELSE [stage |-> "release", done |-> progress[x], verdict |-> "unsuccessful"]
<1>2. /\ w \in Work /\ w.done = progress[x]
      /\ w.stage = IF launch[x] \in {"succeeded", "tampered"} THEN "renew" ELSE "release"
  BY <1>1 DEF Work, Results
<1>3. work' = [work EXCEPT ![s] = [work[s] EXCEPT ![x] = w]]
  BY <1>1 DEF Finalize
<1> HIDE DEF w
<1> QED BY <1>1, <1>2, <1>3

LEMMA IdleWork == Idle \in Work /\ Idle.stage = "none" /\ Idle.done = "begun"
  BY DEF Idle, Work, Done, Results

LEMMA SaveResultMoves ==
    ASSUME TypeOK, NEW s \in Servers, NEW x \in Steps, SaveResult(s, x)
    PROVE  /\ work' \in [Servers -> [Steps -> Work]] /\ work'[s][x] = Idle
           /\ \A r \in Servers, y \in Steps : r # s \/ y # x => work'[r][y] = work[r][y]
<1>1. work' = [work EXCEPT ![s] = [work[s] EXCEPT ![x] = Idle]]
  BY DEF SaveResult
<1> QED BY <1>1, IdleWork DEF TypeOK

LEMMA RestartMoves ==
    ASSUME TypeOK, (\E s \in Servers : Crash(s)) \/ MachineRestart
    PROVE  /\ work' \in [Servers -> [Steps -> Work]]
           /\ \A s \in Servers, x \in Steps : work'[s][x] \in {work[s][x], Idle}
           /\ MachineRestart => \A s \in Servers, x \in Steps : work'[s][x] = Idle
  BY IdleWork DEF TypeOK, Crash, MachineRestart

\* What a record may be saved as.
LEMMA SaveType ==
    ASSUME TypeOK, NEW x \in Steps, NEW done \in Done, NEW outcome \in {"none"} \cup Results,
           Save(x, done, outcome)
    PROVE  /\ progress' \in [Steps -> {"none"} \cup Done] /\ progress'[x] = done
           /\ result' \in [Steps -> {"none"} \cup Results]
           /\ \A y \in Steps \ {x} : progress'[y] = progress[y] /\ result'[y] = result[y]
  BY DEF TypeOK, Save

LEMMA ReleaseType ==
    ASSUME TypeOK, NEW x \in Steps, ReleasedBy(x)
    PROVE  /\ holder' \in Steps \cup {NoRun, Dispatch} /\ lapsed' \in BOOLEAN
           /\ grantee' \in Steps \cup {NoRun, Dispatch}
<1>1. holder' \in Steps \cup {NoRun, Dispatch} /\ grantee' \in Steps \cup {NoRun, Dispatch}
  BY DEF TypeOK, ReleasedBy
<1>2. lapsed' \in BOOLEAN
  BY Zenon DEF ReleasedBy
<1> QED BY <1>1, <1>2

-----------------------------------------------------------------------------
(* Type correctness *)

LEMMA InitType == Init => TypeOK
<1> SUFFICES ASSUME Init PROVE TypeOK
  OBVIOUS
<1>1. work \in [Servers -> [Steps -> Work]]
  BY IdleWork DEF Init
<1>2. /\ tried \in 0..MaxSteps /\ (start # "idle" => tried \in Steps)
      /\ crashes \in 0..MaxCrashes /\ commits \in [Steps -> Nat]
  BY Constants DEF Init
<1> QED BY <1>1, <1>2 DEF Init, TypeOK

LEMMA StartType == TypeOK /\ (Call \/ StartStep) => TypeOK'
<1> SUFFICES ASSUME TypeOK, Call \/ StartStep PROVE TypeOK'
  OBVIOUS
<1> USE Constants DEF lease, record, effects
<1>1. ASSUME Call PROVE TypeOK'
  BY <1>1 DEF TypeOK, Call, Steps
<1>2. ASSUME CallRefused \/ Spawn \/ Abort PROVE TypeOK'
  BY <1>2 DEF TypeOK, CallRefused, Spawn, Abort
<1>3. ASSUME Acquire PROVE TypeOK'
  <2>1. tried \in Steps
    BY <1>3 DEF TypeOK, Acquire
  <2> QED BY <1>3, <2>1 DEF TypeOK, Acquire
<1>4. ASSUME SnapshotFails \/ AbortReleases PROVE TypeOK'
  <2>1. tried \in Steps /\ ReleasedBy(tried)
    BY <1>4 DEF TypeOK, SnapshotFails, AbortReleases
  <2>2. /\ holder' \in Steps \cup {NoRun, Dispatch} /\ lapsed' \in BOOLEAN
        /\ grantee' \in Steps \cup {NoRun, Dispatch}
    BY <2>1, ReleaseType
  <2> QED BY <1>4, <2>1, <2>2 DEF TypeOK, SnapshotFails, AbortReleases
<1>5. ASSUME SaveRecord \/ Attach \/ AbortSaves PROVE TypeOK'
  <2>1. tried \in Steps
    BY <1>5 DEF TypeOK, SaveRecord, Attach, AbortSaves
  <2>2. \E outcome \in {"none"} \cup Results : Save(tried, "begun", outcome)
    BY <1>5 DEF SaveRecord, Attach, AbortSaves, Results
  <2>3. progress' \in [Steps -> {"none"} \cup Done] /\ result' \in [Steps -> {"none"} \cup Results]
    BY <2>1, <2>2, SaveType DEF Done
  <2> QED BY <1>5, <2>1, <2>3 DEF TypeOK, SaveRecord, Attach, AbortSaves
<1> QED BY <1>1, <1>2, <1>3, <1>4, <1>5 DEF StartStep

LEMMA FinalizeType ==
    ASSUME TypeOK, NEW s \in Servers, NEW x \in Steps, Finalize(s, x) \/ FinalizeStep(s, x)
    PROVE  TypeOK'
<1> USE DEF lease, record, effects
<1>1. ASSUME Finalize(s, x) PROVE TypeOK'
  <2>1. UNCHANGED <<lease, tried, launch, record, effects, start, crashes>>
    BY <1>1 DEF Finalize
  <2> QED BY <1>1, <2>1, FinalizeMoves DEF TypeOK
<1>2. ASSUME Renew(s, x) PROVE TypeOK'
  <2>1. lapsed' \in BOOLEAN
    BY <1>2, Zenon DEF Renew
  <2>2. work' \in [Servers -> [Steps -> Work]]
    BY <1>2, GoesMoves, CompletesMoves DEF Renew, Stages, Results
  <2> QED BY <1>2, <2>1, <2>2 DEF TypeOK, Renew
<1>3. ASSUME Check(s, x) PROVE TypeOK'
  <2>1. CASE Goes(s, x, "sync") /\ UNCHANGED record
    BY <1>3, <2>1, GoesMoves DEF TypeOK, Check, Stages
  <2>2. CASE Progresses(s, x, "checked", "sync")
    <3>1. Save(x, "checked", "none")
      BY <2>2 DEF Progresses
    <3>2. "checked" \in Done
      BY DEF Done
    <3> QED BY <1>3, <2>2, <3>1, <3>2, ProgressesMoves, SaveType DEF TypeOK, Check, Stages
  <2>3. CASE Completes(s, x, "unverified") /\ UNCHANGED record
    BY <1>3, <2>3, CompletesMoves DEF TypeOK, Check, Results
  <2> QED BY <1>3, <2>1, <2>2, <2>3 DEF Check
<1>4. ASSUME Sync(s, x) PROVE TypeOK'
  <2>1. work' \in [Servers -> [Steps -> Work]]
    BY <1>4, GoesMoves, CompletesMoves DEF Sync, Stages, Results
  <2>2. synced' \in [Steps -> BOOLEAN]
    BY <1>4 DEF TypeOK, Sync
  <2> QED BY <1>4, <2>1, <2>2 DEF TypeOK, Sync
<1>5. ASSUME SaveSync(s, x) PROVE TypeOK'
  <2>1. Save(x, "synced", "none") /\ Progresses(s, x, "synced", "commit")
    BY <1>5 DEF SaveSync, Progresses
  <2>2. "synced" \in Done
    BY DEF Done
  <2> QED BY <1>5, <2>1, <2>2, ProgressesMoves, SaveType DEF TypeOK, SaveSync, Stages
<1>6. ASSUME Commit(s, x) PROVE TypeOK'
  <2>1. work' \in [Servers -> [Steps -> Work]]
    BY <1>6, GoesMoves, CompletesMoves DEF Commit, Stages, Results
  <2>2. commits' = commits \/ commits' = [commits EXCEPT ![x] = @ + 1]
    BY <1>6 DEF Commit
  <2>3. commits' \in [Steps -> Nat]
    BY <2>2 DEF TypeOK
  <2> QED BY <1>6, <2>1, <2>3 DEF TypeOK, Commit
<1>7. ASSUME SaveCommit(s, x) PROVE TypeOK'
  <2>1. PICK saved \in {work[s][x].done, "committed"} : Save(x, saved, "none")
    BY <1>7 DEF SaveCommit
  <2>2. saved \in Done
    <3>1. work[s][x] \in Work
      BY DEF TypeOK
    <3> QED BY <3>1 DEF Work, Done
  <2>3. work' \in [Servers -> [Steps -> Work]]
    BY <1>7, CompletesMoves DEF SaveCommit, Results
  <2> QED BY <1>7, <2>1, <2>2, <2>3, SaveType DEF TypeOK, SaveCommit
<1>8. ASSUME Release(s, x) PROVE TypeOK'
  <2>1. ReleasedBy(x) /\ Goes(s, x, "save")
    BY <1>8 DEF Release
  <2>2. work' \in [Servers -> [Steps -> Work]]
    BY <2>1, GoesMoves DEF Stages
  <2> QED BY <1>8, <2>1, <2>2, ReleaseType DEF TypeOK, Release
<1>9. ASSUME SaveResult(s, x) PROVE TypeOK'
  <2>1. Save(x, work[s][x].done, work[s][x].verdict)
    BY <1>9 DEF SaveResult
  <2>2. work[s][x].done \in Done /\ work[s][x].verdict \in {"none"} \cup Results
    <3>1. work[s][x] \in Work
      BY DEF TypeOK
    <3> QED BY <3>1 DEF Work
  <2>3. work' \in [Servers -> [Steps -> Work]]
    BY <1>9, SaveResultMoves
  <2> QED BY <1>9, <2>1, <2>2, <2>3, SaveType DEF TypeOK, SaveResult
<1> QED BY <1>1, <1>2, <1>3, <1>4, <1>5, <1>6, <1>7, <1>8, <1>9 DEF FinalizeStep

LEMMA StepType == TypeOK /\ [Next]_vars => TypeOK'
<1> SUFFICES ASSUME TypeOK, [Next]_vars PROVE TypeOK'
  OBVIOUS
<1> USE DEF lease, record, effects
<1>1. ASSUME NEW x \in Steps, LaunchEnds(x) PROVE TypeOK'
  BY <1>1 DEF TypeOK, LaunchEnds
<1>2. ASSUME Lapse \/ DispatchAcquires \/ DispatchReleases PROVE TypeOK'
  BY <1>2 DEF TypeOK, Lapse, DispatchAcquires, DispatchReleases
<1>3. ASSUME (\E s \in Servers : Crash(s)) \/ MachineRestart PROVE TypeOK'
  <2>1. crashes' \in 0..MaxCrashes
    BY <1>3, Constants DEF TypeOK, Crash, MachineRestart
  <2>2. start' \in {start, "idle"} /\ UNCHANGED <<lease, tried, record, effects>>
    BY <1>3 DEF Crash, MachineRestart
  <2>3. launch' \in [Steps -> {"none", "running", "succeeded", "tampered", "failed"}]
    BY <1>3 DEF TypeOK, Crash, MachineRestart
  <2> QED BY <1>3, <2>1, <2>2, <2>3, RestartMoves DEF TypeOK
<1>4. ASSUME UNCHANGED vars PROVE TypeOK'
  BY <1>4 DEF TypeOK, vars
<1> QED BY <1>1, <1>2, <1>3, <1>4, StartType, FinalizeType DEF Next

\* Every variable keeps its type: every interruption leaves a step, a record and
\* a finalize in one of the stages the code knows.
THEOREM TypeCorrect == Spec => []TypeOK
  BY InitType, StepType, PTL DEF Spec

-----------------------------------------------------------------------------
(* One commit, and only after the sync *)

LEMMA InitClaims == Init => SyncClaimsHold
<1> SUFFICES ASSUME Init PROVE SyncClaimsHold
  OBVIOUS
<1>1. \A s \in Servers, x \in Steps : work[s][x] = Idle
  BY DEF Init
<1>2. \A s \in Servers, x \in Steps : work[s][x].stage = "none" /\ work[s][x].done = "begun"
  BY <1>1, IdleWork
<1>3. \A x \in Steps : commits[x] = 0 /\ synced[x] = FALSE /\ progress[x] = "none"
  BY DEF Init
<1>4. CommittedOnceAfterSync
  BY <1>3 DEF CommittedOnceAfterSync
<1> QED BY <1>2, <1>3, <1>4, InitType DEF SyncClaimsHold, AfterSync

\* A finalize claims the sync only once the step is synced.
LEMMA FinalizeClaims ==
    ASSUME SyncClaimsHold, NEW s \in Servers, NEW x \in Steps,
           Finalize(s, x) \/ FinalizeStep(s, x)
    PROVE  SyncClaimsHold'
<1> DEFINE Claims == work'[s][x].done \in {"synced", "committed"} \/ work'[s][x].stage \in AfterSync
           Recorded == progress'[x] \in {"synced", "committed"}
           Others == /\ \A r \in Servers, y \in Steps :
                           r # s \/ y # x => work'[r][y] = work[r][y]
                     /\ \A y \in Steps \ {x} : progress'[y] = progress[y]
<1>1. TypeOK /\ TypeOK' /\ work[s][x] \in Work
  BY FinalizeType DEF SyncClaimsHold, TypeOK
<1>2. /\ work[s][x].done \in {"synced", "committed"} => synced[x]
      /\ work[s][x].stage \in AfterSync => synced[x]
      /\ progress[x] \in {"synced", "committed"} => synced[x]
  BY DEF SyncClaimsHold
<1>3. ASSUME Claims => synced'[x], Recorded => synced'[x], Others,
             \A y \in Steps : synced[y] => synced'[y],
             \A y \in Steps : commits'[y] <= IF synced'[y] THEN 1 ELSE 0
      PROVE  SyncClaimsHold'
  <2>1. \A y \in Steps : progress'[y] \in {"synced", "committed"} => synced'[y]
    BY <1>3 DEF SyncClaimsHold
  <2>2. \A r \in Servers, y \in Steps :
           work'[r][y].done \in {"synced", "committed"} \/ work'[r][y].stage \in AfterSync
           => synced'[y]
    BY <1>3 DEF SyncClaimsHold
  <2> QED BY <1>1, <1>3, <2>1, <2>2 DEF SyncClaimsHold, CommittedOnceAfterSync
<1> HIDE DEF Claims, Recorded, Others
<1>4. \A y \in Steps : commits[y] <= IF synced[y] THEN 1 ELSE 0
  BY DEF SyncClaimsHold, CommittedOnceAfterSync
<1>5. ASSUME UNCHANGED effects, Claims => synced[x], Recorded => synced[x], Others
      PROVE  SyncClaimsHold'
  BY <1>3, <1>4, <1>5 DEF effects
<1>6. ASSUME Finalize(s, x) PROVE SyncClaimsHold'
  <2>1. Claims => synced[x]
    BY <1>1, <1>2, <1>6, FinalizeMoves DEF Claims, AfterSync
  <2>2. UNCHANGED effects /\ UNCHANGED record
    BY <1>6 DEF Finalize
  <2> QED BY <1>1, <1>2, <1>5, <1>6, <2>1, <2>2, FinalizeMoves DEF Recorded, Others, record
<1>7. ASSUME Renew(s, x) PROVE SyncClaimsHold'
  <2>1. UNCHANGED effects /\ UNCHANGED record
    BY <1>7 DEF Renew
  <2>2. CASE Goes(s, x, "check")
    BY <1>1, <1>2, <1>5, <2>1, <2>2, GoesMoves
       DEF Claims, Recorded, Others, record, Stages, AfterSync
  <2>3. CASE Completes(s, x, "lease lost")
    BY <1>1, <1>2, <1>5, <2>1, <2>3, CompletesMoves
       DEF Claims, Recorded, Others, record, Results, AfterSync
  <2> QED BY <1>7, <2>2, <2>3 DEF Renew
<1>8. ASSUME Check(s, x) PROVE SyncClaimsHold'
  <2>1. UNCHANGED effects
    BY <1>8 DEF Check
  <2>2. CASE Goes(s, x, "sync") /\ UNCHANGED record
    BY <1>1, <1>2, <1>5, <2>1, <2>2, GoesMoves
       DEF Claims, Recorded, Others, record, Stages, AfterSync
  <2>3. CASE Completes(s, x, "unverified") /\ UNCHANGED record
    BY <1>1, <1>2, <1>5, <2>1, <2>3, CompletesMoves
       DEF Claims, Recorded, Others, record, Results, AfterSync
  <2>4. CASE Progresses(s, x, "checked", "sync")
    <3>1. Save(x, "checked", "none")
      BY <2>4 DEF Progresses
    <3>2. "checked" \in Done /\ "sync" \in Stages
      BY DEF Done, Stages
    <3>3. work'[s][x].stage = "sync" /\ work'[s][x].done = "checked" /\ progress'[x] = "checked"
          /\ Others
      BY <1>1, <2>4, <3>1, <3>2, ProgressesMoves, SaveType DEF Others
    <3> QED BY <1>5, <2>1, <3>3 DEF Claims, Recorded, AfterSync
  <2> QED BY <1>8, <2>2, <2>3, <2>4 DEF Check
<1>9. ASSUME Sync(s, x) PROVE SyncClaimsHold'
  <2>1. UNCHANGED record /\ UNCHANGED commits
    BY <1>9 DEF Sync
  <2>2. CASE PassedBefore(s, x, "synced") /\ Goes(s, x, "commit") /\ UNCHANGED synced
    <3>1. synced[x]
      BY <1>2, <2>2 DEF PassedBefore
    <3>2. Others
      BY <1>1, <2>1, <2>2, GoesMoves DEF Others, record, Stages
    <3> QED BY <1>5, <2>1, <2>2, <3>1, <3>2 DEF effects
  <2>3. CASE synced' = [synced EXCEPT ![x] = TRUE] /\ Goes(s, x, "ran sync")
    <3>1. synced'[x] /\ \A y \in Steps : synced[y] => synced'[y]
      BY <1>1, <2>3 DEF TypeOK
    <3>2. Others
      BY <1>1, <2>1, <2>3, GoesMoves DEF Others, record, Stages
    <3>3. \A y \in Steps : commits'[y] <= IF synced'[y] THEN 1 ELSE 0
      BY <1>1, <1>4, <2>1, <3>1 DEF TypeOK
    <3> QED BY <1>3, <3>1, <3>2, <3>3
  <2>4. CASE Completes(s, x, "unverified") /\ UNCHANGED synced
    <3>1. Claims => synced[x]
      BY <1>1, <1>2, <2>4, CompletesMoves DEF Claims, Results, AfterSync
    <3>2. Others
      BY <1>1, <2>1, <2>4, CompletesMoves DEF Others, record, Results
    <3> QED BY <1>2, <1>5, <2>1, <2>4, <3>1, <3>2 DEF effects, Recorded, record
  <2> QED BY <1>9, <2>2, <2>3, <2>4 DEF Sync
<1>10. ASSUME SaveSync(s, x) PROVE SyncClaimsHold'
  <2>1. UNCHANGED effects /\ At(s, x, "ran sync") /\ Progresses(s, x, "synced", "commit")
        /\ Save(x, "synced", "none")
    BY <1>10 DEF SaveSync, Progresses
  <2>2. synced[x]
    BY <1>2, <2>1 DEF At, AfterSync
  <2>3. "synced" \in Done /\ "commit" \in Stages
    BY DEF Done, Stages
  <2>4. Others
    BY <1>1, <2>1, <2>3, ProgressesMoves, SaveType DEF Others
  <2> QED BY <1>5, <2>1, <2>2, <2>4
<1>11. ASSUME Commit(s, x) PROVE SyncClaimsHold'
  <2>1. synced[x] /\ UNCHANGED record /\ UNCHANGED synced
    BY <1>2, <1>11 DEF Commit, At, AfterSync
  <2>2. Others
    BY <1>1, <1>11, <2>1, GoesMoves, CompletesMoves DEF Commit, Others, record, Stages, Results
  <2>3. commits' = commits \/ (commits[x] = 0 /\ commits' = [commits EXCEPT ![x] = @ + 1])
    BY <1>11 DEF Commit, ToCommit
  <2>4. \A y \in Steps : commits'[y] <= IF synced'[y] THEN 1 ELSE 0
    BY <1>1, <1>4, <2>1, <2>3 DEF TypeOK
  <2> QED BY <1>3, <2>1, <2>2, <2>4
<1>12. ASSUME SaveCommit(s, x) PROVE SyncClaimsHold'
  <2>1. UNCHANGED effects /\ synced[x] /\ Completes(s, x, "verified")
    BY <1>2, <1>12 DEF SaveCommit, At, AfterSync
  <2>2. PICK saved \in {work[s][x].done, "committed"} : Save(x, saved, "none")
    BY <1>12 DEF SaveCommit
  <2>3. saved \in Done
    BY <1>1 DEF Work, Done
  <2>4. Others
    BY <1>1, <2>1, <2>2, <2>3, CompletesMoves, SaveType DEF Others, Results
  <2> QED BY <1>5, <2>1, <2>4
<1>13. ASSUME Release(s, x) PROVE SyncClaimsHold'
  <2>1. UNCHANGED effects /\ UNCHANGED record /\ Goes(s, x, "save")
    BY <1>13 DEF Release
  <2>2. Others /\ (Claims => synced[x])
    BY <1>1, <1>2, <2>1, GoesMoves DEF Others, Claims, record, Stages, AfterSync
  <2> QED BY <1>2, <1>5, <2>1, <2>2 DEF Recorded, record
<1>14. ASSUME SaveResult(s, x) PROVE SyncClaimsHold'
  <2>1. UNCHANGED effects /\ Save(x, work[s][x].done, work[s][x].verdict)
    BY <1>14 DEF SaveResult
  <2>2. work[s][x].done \in Done /\ work[s][x].verdict \in {"none"} \cup Results
    BY <1>1 DEF Work
  <2>3. progress'[x] = work[s][x].done /\ Others /\ work'[s][x] = Idle
    BY <1>1, <1>14, <2>1, <2>2, SaveResultMoves, SaveType DEF Others
  <2>4. Recorded => synced[x]
    BY <1>2, <2>3 DEF Recorded
  <2>5. ~Claims
    BY <2>3, IdleWork DEF Claims, AfterSync
  <2> QED BY <1>5, <2>1, <2>3, <2>4, <2>5
<1> QED BY <1>6, <1>7, <1>8, <1>9, <1>10, <1>11, <1>12, <1>13, <1>14 DEF FinalizeStep

LEMMA StepClaims == SyncClaimsHold /\ [Next]_vars => SyncClaimsHold'
<1> SUFFICES ASSUME SyncClaimsHold, [Next]_vars PROVE SyncClaimsHold'
  OBVIOUS
<1>1. TypeOK /\ TypeOK'
  BY StepType DEF SyncClaimsHold
<1>2. ASSUME UNCHANGED <<effects, progress, work>> PROVE SyncClaimsHold'
  BY <1>1, <1>2 DEF SyncClaimsHold, CommittedOnceAfterSync, effects
<1>3. ASSUME SaveRecord \/ Attach \/ AbortSaves PROVE SyncClaimsHold'
  <2>1. tried \in Steps
    BY <1>1, <1>3 DEF TypeOK, SaveRecord, Attach, AbortSaves
  <2>2. \E outcome \in {"none"} \cup Results : Save(tried, "begun", outcome)
    BY <1>3 DEF SaveRecord, Attach, AbortSaves, Results
  <2>3. UNCHANGED effects /\ UNCHANGED work
    BY <1>3 DEF SaveRecord, Attach, AbortSaves
  <2>4. \A x \in Steps : progress'[x] \in {progress[x], "begun"}
    BY <1>1, <2>1, <2>2, SaveType DEF Done
  <2> QED BY <1>1, <2>3, <2>4 DEF SyncClaimsHold, CommittedOnceAfterSync, effects
<1>4. ASSUME (\E s \in Servers : Crash(s)) \/ MachineRestart PROVE SyncClaimsHold'
  <2>1. UNCHANGED <<record, effects>>
    BY <1>4 DEF Crash, MachineRestart
  <2>2. \A s \in Servers, x \in Steps : work'[s][x] \in {work[s][x], Idle}
    BY <1>1, <1>4, RestartMoves
  <2>3. \A s \in Servers, x \in Steps :
           work'[s][x].done \in {"synced", "committed"} \/ work'[s][x].stage \in AfterSync
           => synced[x]
    BY <2>2, IdleWork DEF SyncClaimsHold, AfterSync
  <2> QED BY <1>1, <2>1, <2>3 DEF SyncClaimsHold, CommittedOnceAfterSync, record, effects
<1>5. ASSUME NEW x \in Steps, LaunchEnds(x) PROVE SyncClaimsHold'
  BY <1>2, <1>5 DEF LaunchEnds, record
<1>6. ASSUME Lapse \/ DispatchAcquires \/ DispatchReleases PROVE SyncClaimsHold'
  BY <1>2, <1>6 DEF Lapse, DispatchAcquires, DispatchReleases, record
<1>7. ASSUME \/ Call \/ CallRefused \/ Acquire \/ SnapshotFails \/ Spawn
             \/ Abort \/ AbortReleases
      PROVE  SyncClaimsHold'
  BY <1>2, <1>7 DEF Call, CallRefused, Acquire, SnapshotFails, Spawn, Abort, AbortReleases, record
<1>8. ASSUME UNCHANGED vars PROVE SyncClaimsHold'
  BY <1>2, <1>8 DEF vars, record
<1> QED BY <1>3, <1>4, <1>5, <1>6, <1>7, <1>8, FinalizeClaims DEF Next, StartStep

\* Whatever says that a step was synced is right, in every server and on disk,
\* at whatever await the servers were interrupted.
THEOREM SyncClaims == Spec => []SyncClaimsHold
  BY InitClaims, StepClaims, PTL DEF Spec

\* A step's diff is committed at most once and only after its sync: for any number
\* of restarts, and even while other servers finalize the same step.
THEOREM CommittedOnce == Spec => []CommittedOnceAfterSync
<1>1. SyncClaimsHold => CommittedOnceAfterSync
  BY DEF SyncClaimsHold
<1> QED BY <1>1, SyncClaims, PTL

-----------------------------------------------------------------------------
(* The lease, while one server looks at the records *)

LEMMA InitLease == Init => LeaseInPlace
<1> SUFFICES ASSUME Init PROVE LeaseInPlace
  OBVIOUS
<1>1. \A s \in Servers, x \in Steps : work[s][x].stage = "none"
  BY IdleWork DEF Init
<1>2. \A x \in Steps : launch[x] = "none" /\ progress[x] = "none"
  BY DEF Init
<1>3. start = "idle"
  BY DEF Init
<1> QED BY <1>1, <1>2, <1>3, InitType DEF LeaseInPlace, UntriedUntouched, RunningHolds,
           StartHolds, FinalizedAfterEnd, WorkHolds, At, Working

\* Every step of a start keeps the lease in place.
LEMMA StartLease == LeaseInPlace /\ (Call \/ StartStep) => LeaseInPlace'
<1> SUFFICES ASSUME LeaseInPlace, Call \/ StartStep PROVE LeaseInPlace'
  OBVIOUS
<1>1. TypeOK /\ TypeOK'
  BY StartType DEF LeaseInPlace
<1>2. UNCHANGED work
  BY DEF StartStep, Call, CallRefused, Acquire, SnapshotFails, SaveRecord, Attach, Spawn, Abort,
         AbortReleases, AbortSaves
<1> USE DEF lease, record, effects, At
<1>3. ASSUME Call PROVE LeaseInPlace'
  <2>1. /\ tried' = tried + 1 /\ start' = "called" /\ tried' \in Steps
        /\ UNCHANGED <<holder, lapsed, launch, progress>>
    BY <1>1, <1>3, Constants DEF Call, TypeOK, Steps
  <2>2. launch[tried'] = "none" /\ progress[tried'] = "none"
        /\ \A s \in Servers : work[s][tried'].stage = "none"
    BY <1>1, <2>1 DEF LeaseInPlace, UntriedUntouched, TypeOK
  <2>3. \A x \in Steps : x > tried' => x > tried
    BY <1>1, <2>1 DEF TypeOK, Steps
  <2> QED BY <1>1, <1>2, <2>1, <2>2, <2>3 DEF LeaseInPlace, UntriedUntouched, RunningHolds,
             StartHolds, FinalizedAfterEnd, WorkHolds
<1>4. ASSUME CallRefused \/ Abort PROVE LeaseInPlace'
  BY <1>1, <1>2, <1>4 DEF CallRefused, Abort, LeaseInPlace, UntriedUntouched, RunningHolds,
     StartHolds, FinalizedAfterEnd, WorkHolds
<1>5. ASSUME Acquire PROVE LeaseInPlace'
  <2>1. /\ holder' = tried /\ lapsed' = FALSE /\ start' = "leased" /\ tried \in Steps
        /\ holder = NoRun \/ lapsed
        /\ UNCHANGED <<tried, launch, progress>>
    BY <1>1, <1>5 DEF Acquire, TypeOK
  <2>2. \A x \in Steps : ~(holder = x /\ ~lapsed)
    BY <2>1, Constants
  <2> QED BY <1>1, <1>2, <1>5, <2>1, <2>2 DEF LeaseInPlace, UntriedUntouched, RunningHolds,
             StartHolds, FinalizedAfterEnd, WorkHolds, Acquire
<1>6. ASSUME SnapshotFails \/ AbortReleases PROVE LeaseInPlace'
  <2>1. /\ start' \in {"idle", "aborted"} /\ tried \in Steps /\ launch[tried] = "none"
        /\ UNCHANGED <<tried, launch, progress>>
        /\ holder # tried => UNCHANGED <<holder, lapsed>>
    BY <1>1, <1>6, Zenon DEF SnapshotFails, AbortReleases, ReleasedBy, TypeOK, LeaseInPlace,
       StartHolds
  <2> QED BY <1>1, <1>2, <2>1 DEF LeaseInPlace, UntriedUntouched, RunningHolds,
             StartHolds, FinalizedAfterEnd, WorkHolds
<1>7. ASSUME SaveRecord \/ Attach \/ AbortSaves PROVE LeaseInPlace'
  <2>1. \E outcome \in {"none"} \cup Results : Save(tried, "begun", outcome)
    BY <1>7 DEF SaveRecord, Attach, AbortSaves, Results
  <2>2. /\ tried \in Steps /\ UNCHANGED <<holder, lapsed, tried, launch>>
        /\ \/ start' = "begun" /\ start = "leased"
           \/ start' = "attached" /\ start = "begun"
           \/ start' = "idle"
    <3>1. start # "idle"
      BY <1>7 DEF SaveRecord, Attach, AbortSaves
    <3> QED BY <1>1, <1>7, <3>1 DEF TypeOK, SaveRecord, Attach, AbortSaves
  <2>3. \A x \in Steps : x # tried => progress'[x] = progress[x]
    BY <1>1, <2>1, <2>2, SaveType DEF Done
  <2>4. \A x \in Steps : x > tried => x # tried
    BY <1>1 DEF TypeOK, Steps
  <2> QED BY <1>1, <1>2, <2>2, <2>3, <2>4 DEF LeaseInPlace, UntriedUntouched, RunningHolds,
             StartHolds, FinalizedAfterEnd, WorkHolds
<1>8. ASSUME Spawn PROVE LeaseInPlace'
  <2>1. /\ tried \in Steps /\ holder = tried /\ ~lapsed /\ start = "attached" /\ start' = "idle"
        /\ UNCHANGED <<holder, lapsed, tried, progress>>
        /\ launch' = [launch EXCEPT ![tried] = "running"]
    BY <1>1, <1>8 DEF Spawn, TypeOK, LeaseInPlace, StartHolds
  <2>2. /\ launch'[tried] = "running"
        /\ \A x \in Steps : x # tried => launch'[x] = launch[x]
        /\ \A x \in Steps : x > tried => x # tried
    BY <1>1, <2>1 DEF TypeOK, Steps
  <2>3. \A s \in Servers : work[s][tried].stage = "none"
    BY <2>1 DEF LeaseInPlace, FinalizedAfterEnd
  <2> QED BY <1>1, <1>2, <2>1, <2>2, <2>3 DEF LeaseInPlace, UntriedUntouched, RunningHolds,
             StartHolds, FinalizedAfterEnd, WorkHolds, Working
<1> QED BY <1>3, <1>4, <1>5, <1>6, <1>7, <1>8 DEF StartStep

\* What is left of the invariant when one finalize step of the only server is taken.
LEMMA FinalizeFrame ==
    ASSUME LeaseInPlace, TypeOK', Strangers = {}, NEW s \in Servers, NEW x \in Steps,
           UNCHANGED <<tried, launch, start>>,
           \A y \in Steps : y # x => progress'[y] = progress[y],
           \A r \in Servers, y \in Steps : r # s \/ y # x => work'[r][y] = work[r][y],
           x <= tried,
           launch[x] # "running",
           ~(x = tried /\ start \in {"called", "leased", "begun", "attached"}),
           work'[s][x].stage \in Working \cup {"renew"} => launch[x] \in {"succeeded", "tampered"},
           work'[s][x].stage \in Working => holder' = x /\ ~lapsed',
           holder # x => UNCHANGED <<holder, lapsed>>
    PROVE  LeaseInPlace'
<1>1. \A r \in Servers : r = s
  BY DEF Servers
<1>2. \A y \in Steps : y > tried => y # x
  BY DEF LeaseInPlace, TypeOK, Steps
<1>3. UntriedUntouched' /\ RunningHolds'
  BY <1>1, <1>2 DEF LeaseInPlace, UntriedUntouched, RunningHolds, At
<1>4. StartHolds'
  BY DEF LeaseInPlace, StartHolds, TypeOK
<1>5. FinalizedAfterEnd'
  BY <1>1 DEF LeaseInPlace, FinalizedAfterEnd, At
<1>6. WorkHolds'
  BY <1>1 DEF LeaseInPlace, WorkHolds
<1> QED BY <1>3, <1>4, <1>5, <1>6 DEF LeaseInPlace

\* A step somebody finalizes, or has on record, was tried.
LEMMA FinalizedWasTried ==
    ASSUME LeaseInPlace, NEW s \in Servers, NEW x \in Steps, OnRecord(x) \/ ~At(s, x, "none")
    PROVE  x <= tried
<1>1. x \in Int /\ tried \in Int
  BY Constants DEF LeaseInPlace, TypeOK, Steps
<1> QED BY <1>1 DEF LeaseInPlace, UntriedUntouched, OnRecord

LEMMA FinalizeLease ==
    ASSUME LeaseInPlace, Strangers = {}, NEW s \in Servers, NEW x \in Steps,
           Finalize(s, x) \/ FinalizeStep(s, x)
    PROVE  LeaseInPlace'
<1>1. TypeOK /\ TypeOK' /\ work[s][x] \in Work
  BY FinalizeType DEF LeaseInPlace, TypeOK
<1>2. s = Own
  BY DEF Servers
<1>3. x <= tried
  BY FinalizedWasTried DEF Finalize, FinalizeStep, Renew, Check, Sync, SaveSync, Commit,
     SaveCommit, Release, SaveResult, At
<1>4. UNCHANGED <<tried, launch, start>>
  BY DEF Finalize, FinalizeStep, Renew, Check, Sync, SaveSync, Commit, SaveCommit, Release,
         SaveResult
<1>5. launch[x] # "running"
  BY DEF LeaseInPlace, FinalizedAfterEnd, Finalize, Ended, FinalizeStep, Renew, Check, Sync,
         SaveSync, Commit, SaveCommit, Release, SaveResult, At
<1>6. ~(x = tried /\ start \in {"called", "leased", "begun", "attached"})
  <2>1. CASE Finalize(s, x)
    BY <1>2, <2>1 DEF Finalize, NotStarting, OnRecord, LeaseInPlace, StartHolds
  <2>2. CASE FinalizeStep(s, x)
    BY <2>2 DEF LeaseInPlace, FinalizedAfterEnd, FinalizeStep, Renew, Check, Sync, SaveSync,
                Commit, SaveCommit, Release, SaveResult, At
  <2> QED BY <2>1, <2>2
<1>7. work[s][x].stage \in Working \cup {"renew"} => launch[x] \in {"succeeded", "tampered"}
  BY DEF LeaseInPlace, WorkHolds
<1>8. work[s][x].stage \in Working => holder = x /\ ~lapsed
  BY DEF LeaseInPlace, WorkHolds
<1> DEFINE Rest == /\ \A y \in Steps : y # x => progress'[y] = progress[y]
                   /\ \A r \in Servers, y \in Steps : r # s \/ y # x => work'[r][y] = work[r][y]
<1>9. ASSUME Rest, work'[s][x].stage \notin Working \cup {"renew"},
             holder # x => UNCHANGED <<holder, lapsed>>
      PROVE  LeaseInPlace'
  BY <1>1, <1>3, <1>4, <1>5, <1>6, <1>9, FinalizeFrame
<1>10. ASSUME Rest, work[s][x].stage \in Working, UNCHANGED <<holder, lapsed>>
       PROVE  LeaseInPlace'
  BY <1>1, <1>3, <1>4, <1>5, <1>6, <1>7, <1>8, <1>10, FinalizeFrame
<1> USE DEF lease, record
<1>11. ASSUME Finalize(s, x) PROVE LeaseInPlace'
  <2>1. Rest /\ UNCHANGED <<holder, lapsed>>
    BY <1>1, <1>11, FinalizeMoves DEF Finalize
  <2>2. \/ work'[s][x].stage = "renew" /\ launch[x] \in {"succeeded", "tampered"}
        \/ work'[s][x].stage = "release"
    BY <1>1, <1>11, FinalizeMoves
  <2>3. work'[s][x].stage \notin Working
    BY <2>2 DEF Working
  <2> QED BY <1>1, <1>3, <1>4, <1>5, <1>6, <2>1, <2>2, <2>3, FinalizeFrame DEF Working
<1>12. ASSUME Renew(s, x) PROVE LeaseInPlace'
  <2>1. work[s][x].stage = "renew" /\ UNCHANGED progress
    BY <1>12 DEF Renew, At
  <2>2. CASE holder = x /\ Goes(s, x, "check")
    <3>1. holder' = x /\ ~lapsed'
      BY <1>12, <2>2, Zenon DEF Renew
    <3>2. Rest
      BY <1>1, <2>1, <2>2, GoesMoves DEF Stages
    <3> QED BY <1>1, <1>3, <1>4, <1>5, <1>6, <1>7, <2>1, <2>2, <3>1, <3>2, FinalizeFrame
  <2>3. CASE holder # x /\ Completes(s, x, "lease lost")
    <3>1. UNCHANGED <<holder, lapsed>>
      BY <1>1, <1>12, <2>3 DEF Renew, TypeOK
    <3>2. Rest /\ work'[s][x].stage \notin Working \cup {"renew"}
      BY <1>1, <2>1, <2>3, CompletesMoves DEF Results, Working
    <3> QED BY <1>9, <3>1, <3>2
  <2> QED BY <1>12, <2>2, <2>3 DEF Renew
<1>13. ASSUME Check(s, x) PROVE LeaseInPlace'
  <2>1. work[s][x].stage \in Working /\ UNCHANGED <<holder, lapsed>>
    BY <1>13 DEF Check, At, Working
  <2>2. Rest
    <3>1. CASE (Goes(s, x, "sync") \/ Completes(s, x, "unverified")) /\ UNCHANGED record
      BY <1>1, <3>1, GoesMoves, CompletesMoves DEF Stages, Results
    <3>2. CASE Progresses(s, x, "checked", "sync")
      <4>1. Save(x, "checked", "none") /\ "checked" \in Done /\ "sync" \in Stages
        BY <3>2 DEF Progresses, Done, Stages
      <4> QED BY <1>1, <3>2, <4>1, ProgressesMoves, SaveType
    <3> QED BY <1>13, <3>1, <3>2 DEF Check
  <2> QED BY <1>10, <2>1, <2>2
<1>14. ASSUME Sync(s, x) PROVE LeaseInPlace'
  <2>1. work[s][x].stage \in Working /\ UNCHANGED <<holder, lapsed>> /\ UNCHANGED progress
    BY <1>14 DEF Sync, At, Working
  <2>2. Rest
    BY <1>1, <1>14, <2>1, GoesMoves, CompletesMoves DEF Sync, Stages, Results
  <2> QED BY <1>10, <2>1, <2>2
<1>15. ASSUME SaveSync(s, x) PROVE LeaseInPlace'
  <2>1. /\ work[s][x].stage \in Working /\ UNCHANGED <<holder, lapsed>>
        /\ Progresses(s, x, "synced", "commit") /\ Save(x, "synced", "none")
        /\ "synced" \in Done /\ "commit" \in Stages
    BY <1>15 DEF SaveSync, At, Working, Progresses, Done, Stages
  <2>2. Rest
    BY <1>1, <2>1, ProgressesMoves, SaveType
  <2> QED BY <1>10, <2>1, <2>2
<1>16. ASSUME Commit(s, x) PROVE LeaseInPlace'
  <2>1. work[s][x].stage \in Working /\ UNCHANGED <<holder, lapsed>> /\ UNCHANGED progress
    BY <1>16 DEF Commit, At, Working
  <2>2. Rest
    BY <1>1, <1>16, <2>1, GoesMoves, CompletesMoves DEF Commit, Stages, Results
  <2> QED BY <1>10, <2>1, <2>2
<1>17. ASSUME SaveCommit(s, x) PROVE LeaseInPlace'
  <2>1. /\ work[s][x].stage \in Working /\ UNCHANGED <<holder, lapsed>>
        /\ Completes(s, x, "verified")
    BY <1>17 DEF SaveCommit, At, Working
  <2>2. PICK saved \in {work[s][x].done, "committed"} : Save(x, saved, "none")
    BY <1>17 DEF SaveCommit
  <2>3. saved \in Done
    BY <1>1 DEF Work, Done
  <2>4. Rest
    BY <1>1, <2>1, <2>2, <2>3, CompletesMoves, SaveType DEF Results
  <2> QED BY <1>10, <2>1, <2>4
<1>18. ASSUME Release(s, x) PROVE LeaseInPlace'
  <2>1. ReleasedBy(x) /\ Goes(s, x, "save") /\ UNCHANGED progress
    BY <1>18 DEF Release
  <2>2. holder # x => UNCHANGED <<holder, lapsed>>
    BY <1>1, <2>1 DEF ReleasedBy, TypeOK
  <2>3. Rest /\ work'[s][x].stage \notin Working \cup {"renew"}
    BY <1>1, <2>1, GoesMoves DEF Stages, Working
  <2> QED BY <1>9, <2>2, <2>3
<1>19. ASSUME SaveResult(s, x) PROVE LeaseInPlace'
  <2>1. Save(x, work[s][x].done, work[s][x].verdict) /\ UNCHANGED <<holder, lapsed>>
    BY <1>19 DEF SaveResult
  <2>2. work[s][x].done \in Done /\ work[s][x].verdict \in {"none"} \cup Results
    BY <1>1 DEF Work
  <2>3. Rest /\ work'[s][x].stage = "none"
    BY <1>1, <1>19, <2>1, <2>2, SaveResultMoves, SaveType, IdleWork
  <2> QED BY <1>9, <2>1, <2>3 DEF Working
<1> QED BY <1>11, <1>12, <1>13, <1>14, <1>15, <1>16, <1>17, <1>18, <1>19 DEF FinalizeStep

LEMMA StepLease == Strangers = {} /\ LeaseInPlace /\ [Next]_vars => LeaseInPlace'
<1> SUFFICES ASSUME Strangers = {}, LeaseInPlace, [Next]_vars PROVE LeaseInPlace'
  OBVIOUS
<1>1. TypeOK /\ TypeOK'
  BY StepType DEF LeaseInPlace
<1>0. "none" \notin Working \cup {"renew"}
  BY DEF Working
<1> USE DEF lease, record, LeaseInPlace, UntriedUntouched, RunningHolds, StartHolds,
            FinalizedAfterEnd, WorkHolds, At
<1>2. ASSUME NEW x \in Steps, LaunchEnds(x) PROVE LeaseInPlace'
  <2>1. PICK how \in {"succeeded", "tampered", "failed"} : launch' = [launch EXCEPT ![x] = how]
    BY <1>2 DEF LaunchEnds
  <2>2. /\ launch[x] = "running" /\ launch'[x] = how
        /\ \A y \in Steps : y # x => launch'[y] = launch[y]
        /\ UNCHANGED <<holder, lapsed, tried, progress, start, work>>
    BY <1>1, <1>2, <2>1 DEF LaunchEnds, TypeOK
  <2>3. \A s \in Servers : work[s][x].stage = "none"
    BY <2>2
  <2>4. start # "idle" => tried # x
    BY <2>2
  <2>5. UntriedUntouched' /\ RunningHolds'
    BY <2>2
  <2>6. StartHolds'
    BY <1>1, <2>2, <2>4 DEF TypeOK
  <2>7. FinalizedAfterEnd'
    BY <2>2, <2>3
  <2>8. WorkHolds'
    BY <1>0, <2>2, <2>3
  <2> QED BY <1>1, <2>5, <2>6, <2>7, <2>8
<1>3. ASSUME Lapse PROVE LeaseInPlace'
  <2>1. \A x \in Steps : holder = x => launch[x] # "running" /\ ~(x = tried /\ start # "idle")
                                       /\ \A s \in Servers : work[s][x].stage = "none"
    BY <1>3 DEF Lapse
  <2>2. UNCHANGED <<holder, tried, launch, progress, start, work>>
    BY <1>3 DEF Lapse
  <2> QED BY <1>1, <2>1, <2>2 DEF TypeOK, Working
<1>4. ASSUME DispatchAcquires \/ DispatchReleases PROVE LeaseInPlace'
  <2>1. \A x \in Steps : ~(holder = x /\ ~lapsed)
    BY <1>4, Constants DEF DispatchAcquires, DispatchReleases
  <2>2. UNCHANGED <<tried, launch, progress, start, work>>
    BY <1>4 DEF DispatchAcquires, DispatchReleases
  <2> QED BY <1>1, <2>1, <2>2 DEF TypeOK
<1>5. ASSUME (\E s \in Servers : Crash(s)) \/ MachineRestart PROVE LeaseInPlace'
  <2>1. \A s \in Servers, x \in Steps : work'[s][x].stage = "none"
    BY <1>1, <1>5, IdleWork DEF Crash, MachineRestart, Servers, TypeOK
  <2>2. start' = "idle" /\ UNCHANGED <<holder, lapsed, tried, progress>>
    BY <1>5 DEF Crash, MachineRestart, Servers
  <2>3. \A x \in Steps : /\ launch'[x] = "running" => launch[x] = "running"
                         /\ launch[x] = "none" => launch'[x] = "none"
    BY <1>1, <1>5 DEF Crash, MachineRestart, TypeOK
  <2>4. WorkHolds'
    BY <1>0, <2>1
  <2>5. UntriedUntouched'
    BY <2>1, <2>2, <2>3
  <2>6. RunningHolds'
    BY <2>2, <2>3
  <2>7. StartHolds'
    BY <2>2
  <2>8. FinalizedAfterEnd'
    BY <2>1
  <2> QED BY <1>1, <2>4, <2>5, <2>6, <2>7, <2>8
<1>6. ASSUME UNCHANGED vars PROVE LeaseInPlace'
  BY <1>1, <1>6 DEF vars
<1> QED BY <1>2, <1>3, <1>4, <1>5, <1>6, StartLease, FinalizeLease DEF Next

\* While one server looks at the records, a start that may still spawn, a running
\* launch and a finalize past its renewal all hold the lease, across any number of
\* restarts of that server and of the machine.
THEOREM LeaseStaysInPlace == ASSUME Strangers = {} PROVE Spec => []LeaseInPlace
<1>1. LeaseInPlace /\ [Next]_vars => LeaseInPlace'
  BY StepLease
<1> QED BY <1>1, InitLease, PTL DEF Spec

\* Nobody else can own the task while the agent of one of its steps runs.
THEOREM LeaseProtectsRunningStep == ASSUME Strangers = {} PROVE Spec => []RunningStepHoldsLease
<1>1. LeaseInPlace => RunningStepHoldsLease
  BY DEF LeaseInPlace, RunningHolds, RunningStepHoldsLease
<1> QED BY <1>1, LeaseStaysInPlace, PTL

\* A step whose lease was lost is neither synced nor committed, however late its
\* finalize resumes.
THEOREM LostLeaseIsInert == ASSUME Strangers = {} PROVE Spec => LostLeaseChangesNothing
<1> DEFINE Effect == \A x \in Steps : synced'[x] # synced[x] \/ commits'[x] # commits[x] =>
                         holder = x /\ ~lapsed
<1>1. LeaseInPlace /\ [Next]_vars => [Effect]_vars
  <2> SUFFICES ASSUME LeaseInPlace, [Next]_vars, NEW y \in Steps,
                      synced'[y] # synced[y] \/ commits'[y] # commits[y]
               PROVE  holder = y /\ ~lapsed
    OBVIOUS
  <2>1. PICK s \in Servers, x \in Steps : Sync(s, x) \/ Commit(s, x)
    BY DEF Next, Call, StartStep, CallRefused, Acquire, SnapshotFails, SaveRecord, Attach, Spawn,
           Abort, AbortReleases, AbortSaves, Finalize, FinalizeStep, Renew, Check, SaveSync,
           SaveCommit, Release, SaveResult, LaunchEnds, Lapse, DispatchAcquires, DispatchReleases,
           Crash, MachineRestart, vars, effects
  <2>2. x = y
    BY <2>1 DEF Sync, Commit, LeaseInPlace, TypeOK
  <2>3. work[s][x].stage \in Working
    BY <2>1 DEF Sync, Commit, At, Working
  <2> QED BY <2>2, <2>3 DEF LeaseInPlace, WorkHolds
<1> QED BY <1>1, LeaseStaysInPlace, PTL DEF Spec, LostLeaseChangesNothing
=============================================================================
