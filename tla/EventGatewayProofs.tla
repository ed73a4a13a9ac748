------------------------- MODULE EventGatewayProofs -------------------------
(***************************************************************************)
(* An outside event runs once, in its reference's own task, for any number of *)
(* processes, deliveries and references (EventGateway).                       *)
(***************************************************************************)
EXTENDS EventGateway, TLAPS

\* The constants are what EventGateway says they are.
Limits ==
    /\ Events \subseteq [Deliveries -> [ref : Refs, role : {"pm", "dev", "none"}]]
    /\ "none" \notin Deliveries
    /\ MaxIds \in Nat /\ MaxKills \in Nat /\ MaxLosses \in Nat

\* A process without a delivery is idle, and a task is known where one is dispatched to.
Sane(r) ==
    /\ r \in Process
    /\ r.at = "idle" => r = Idle
    /\ r.at # "idle" => r.d \in Deliveries
    /\ r.at \in {"lookup", "dispatch", "running", "finalize", "mirror"} => r.task # 0

\* TypeOK of all but the processes.
FilesOK ==
    /\ event \in [Deliveries -> [ref : Refs, role : {"pm", "dev", "none"}]]
    /\ ledger \in [Deliveries -> [outcome : Outcomes, old : BOOLEAN]]
    /\ mapping \in [Refs -> 0..MaxIds]
    /\ dirs \subseteq Ids
    /\ mirror \in [Ids -> [Deliveries -> Outcomes]]
    /\ torn \subseteq Ids
    /\ runs \in [Deliveries -> Nat] /\ killed \in [Deliveries -> Nat]
    /\ kills \in 0..MaxKills /\ losses \in 0..MaxLosses

ProcsOK == proc \in [Procs -> Process] /\ \A p \in Procs : Sane(proc[p])

Base == FilesOK /\ ProcsOK

-----------------------------------------------------------------------------
(* Types *)

LEMMA BaseType == Base => TypeOK
BY DEF Base, FilesOK, ProcsOK, TypeOK

LEMMA InitBase == ASSUME Limits, Init PROVE Base
<1>1. FilesOK BY DEF Limits, Init, FilesOK, NoRow, Ids, Outcomes, Terminal
<1>2. Sane(Idle) BY DEF Limits, Sane, Idle, Process, Outcomes, Terminal
<1>3. ProcsOK BY <1>2 DEF Init, ProcsOK, Sane
<1> QED BY <1>1, <1>3 DEF Base

\* A process that moves to a sane place.
LEMMA MovesSane ==
    ASSUME ProcsOK, NEW p \in Procs, NEW to, Sane(to), Moves(p, to)
    PROVE  ProcsOK'
<1>1. to \in Process BY DEF Sane
<1>2. proc' \in [Procs -> Process] BY <1>1 DEF ProcsOK, Moves
<1>3. ASSUME NEW q \in Procs PROVE Sane(proc'[q])
  <2>1. proc'[q] = IF q = p THEN to ELSE proc[q] BY DEF ProcsOK, Moves
  <2> QED BY <2>1 DEF ProcsOK
<1>4. ASSUME NEW q \in Procs PROVE Sane(proc[q])' BY <1>3 DEF Sane, Process, Idle, Outcomes, Terminal
<1> QED BY <1>2, <1>4 DEF ProcsOK, Process, Outcomes, Terminal

LEMMA EndsSane == ASSUME Limits, ProcsOK, NEW p \in Procs, Ends(p) PROVE ProcsOK'
<1>1. Sane(Idle) BY DEF Limits, Sane, Idle, Process, Outcomes, Terminal
<1> QED BY <1>1, MovesSane DEF Ends

LEMMA GoesSane ==
    ASSUME Limits, ProcsOK, NEW p \in Procs, proc[p].at # "idle",
           NEW at \in {"command", "resolve", "lookup", "preflight", "mint",
                       "dispatch", "running", "finalize", "mirror"},
           at \in {"lookup", "dispatch", "running", "finalize", "mirror"} => proc[p].task # 0,
           GoesTo(p, at)
    PROVE  ProcsOK'
<1>1. Sane([proc[p] EXCEPT !.at = at]) BY DEF ProcsOK, Sane, Process
<1> QED BY <1>1, MovesSane DEF GoesTo

LEMMA RowType ==
    ASSUME FilesOK, NEW d \in Deliveries, NEW outcome \in Outcomes, Row(d, outcome)
    PROVE  ledger' \in [Deliveries -> [outcome : Outcomes, old : BOOLEAN]]
BY DEF FilesOK, Row

LEMMA NextBase == ASSUME Limits, Base, [Next]_vars PROVE Base'
<1> USE DEF Base
<1>a. \A p \in Procs : proc[p].at # "idle" => proc[p].d \in Deliveries BY DEF ProcsOK, Sane
<1>b. \A p \in Procs : proc[p] \in Process BY DEF ProcsOK, Sane
<1>1. ASSUME NEW p \in Procs, NEW d \in Deliveries, Reserve(p, d) PROVE Base'
  <2>1. Sane([at |-> "command", d |-> d, task |-> 0, outcome |-> "none"])
        BY DEF Limits, Sane, Process, Outcomes, Terminal
  <2>2. ProcsOK' BY <1>1, <2>1, MovesSane DEF Reserve
  <2>3. FilesOK' BY <1>1 DEF Reserve, FilesOK, Outcomes
  <2> QED BY <2>2, <2>3
<1>2. ASSUME NEW p \in Procs, Command(p) PROVE Base'
  <2>1. ProcsOK' BY <1>2, EndsSane, GoesSane DEF Command
  <2>2. FilesOK' BY <1>2, <1>a, RowType DEF Command, FilesOK, Outcomes
  <2> QED BY <2>1, <2>2
<1>3. ASSUME NEW p \in Procs, Resolve(p) PROVE Base'
  <2> DEFINE task == mapping[event[proc[p].d].ref]
  <2>1. proc[p].at = "resolve" /\ proc[p].d \in Deliveries BY <1>3, <1>a DEF Resolve
  <2>2. CASE task \in dirs
    <3>0. task \in 1..MaxIds BY <2>2 DEF FilesOK, Ids
    <3>1. task # 0 /\ task \in 0..MaxIds BY <3>0 DEF Limits
    <3>2. Sane([proc[p] EXCEPT !.at = "lookup", !.task = task]) BY <2>1, <3>1 DEF ProcsOK, Sane, Process
    <3>3. Moves(p, [proc[p] EXCEPT !.at = "lookup", !.task = task]) BY <1>3, <2>2 DEF Resolve
    <3> QED BY <3>2, <3>3, MovesSane, <1>3, <2>1, <2>2, RowType DEF Resolve, FilesOK, Outcomes
  <2>3. CASE task \notin dirs
    <3>1. ProcsOK' BY <1>3, <2>1, <2>3, EndsSane, GoesSane DEF Resolve
    <3>2. FilesOK' BY <1>3, <2>1, <2>3, RowType DEF Resolve, FilesOK, Outcomes
    <3> QED BY <3>1, <3>2
  <2> QED BY <2>2, <2>3
<1>4. ASSUME NEW p \in Procs, Lookup(p) PROVE Base'
  <2>1. ProcsOK' BY <1>4, EndsSane, GoesSane DEF Lookup
  <2>2. FilesOK' BY <1>4, <1>a, RowType DEF Lookup, FilesOK, Outcomes
  <2> QED BY <2>1, <2>2
<1>5. ASSUME NEW p \in Procs, NEW allowed \in BOOLEAN, Preflight(p, allowed) PROVE Base'
  <2>1. ProcsOK' BY <1>5, EndsSane, GoesSane DEF Preflight
  <2>2. FilesOK' BY <1>5, <1>a, RowType DEF Preflight, FilesOK, Outcomes, Terminal
  <2> QED BY <2>1, <2>2
<1>6. ASSUME NEW p \in Procs, NEW id \in Ids, Mint(p, id) PROVE Base'
  <2>1. id # 0 /\ id \in 0..MaxIds BY DEF Ids, Limits
  <2>2. Sane([proc[p] EXCEPT !.at = "dispatch", !.task = id])
        BY <1>6, <2>1 DEF Mint, ProcsOK, Sane, Process
  <2>3. ProcsOK' BY <1>6, <2>2, MovesSane DEF Mint
  <2>4. FilesOK' BY <1>6, <1>a, <2>1, RowType DEF Mint, FilesOK, Outcomes
  <2> QED BY <2>3, <2>4
<1>7. ASSUME NEW p \in Procs, Run(p) PROVE Base'
  <2>1. proc[p].task \in Ids BY <1>7, <1>b DEF Run, ProcsOK, Sane, Process, Ids, Limits
  <2>2. ProcsOK' BY <1>7, GoesSane DEF Run, ProcsOK, Sane
  <2>3. FilesOK' BY <1>7, <1>a, <2>1 DEF Run, FilesOK
  <2> QED BY <2>2, <2>3
<1>8. ASSUME NEW p \in Procs, RunRefused(p) PROVE Base'
  <2>1. proc[p].task \in Ids BY <1>8, <1>b DEF RunRefused, ProcsOK, Sane, Process, Ids, Limits
  <2>2. Sane([proc[p] EXCEPT !.at = "finalize", !.outcome = "dispatch_failed"])
        BY <1>8 DEF RunRefused, ProcsOK, Sane, Process, Outcomes, Terminal
  <2>3. ProcsOK' BY <1>8, <2>2, MovesSane DEF RunRefused
  <2>4. FilesOK' BY <1>8, <2>1 DEF RunRefused, FilesOK
  <2> QED BY <2>3, <2>4
<1>9. ASSUME NEW p \in Procs, NEW outcome \in Terminal, RunEnds(p, outcome) PROVE Base'
  <2>1. Sane([proc[p] EXCEPT !.at = "finalize", !.outcome = outcome])
        BY <1>9 DEF RunEnds, ProcsOK, Sane, Process, Outcomes, Terminal
  <2>2. ProcsOK' BY <1>9, <2>1, MovesSane DEF RunEnds
  <2>3. FilesOK' BY <1>9 DEF RunEnds, FilesOK
  <2> QED BY <2>2, <2>3
<1>10. ASSUME NEW p \in Procs, Finalize(p) PROVE Base'
  <2>1. ProcsOK' BY <1>10, GoesSane DEF Finalize, ProcsOK, Sane
  <2>2. proc[p].outcome \in Outcomes BY <1>b DEF Process
  <2>3. FilesOK' BY <1>10, <1>a, <2>2, RowType DEF Finalize, FilesOK
  <2> QED BY <2>1, <2>3
<1>11. ASSUME NEW p \in Procs, Mirror(p) PROVE Base'
  <2>1. ProcsOK' BY <1>11, EndsSane DEF Mirror
  <2>2. FilesOK' BY <1>11, <1>a DEF Mirror, FilesOK
  <2> QED BY <2>1, <2>2
<1>12. ASSUME NEW p \in Procs, Kill(p) PROVE Base'
  <2>1. ProcsOK' BY <1>12, EndsSane DEF Kill
  <2>2. FilesOK' BY <1>12, <1>a DEF Kill, FilesOK, Limits
  <2> QED BY <2>1, <2>2
<1>13. ASSUME NEW d \in Deliveries, Ages(d) PROVE Base'
  <2>1. ProcsOK' BY <1>13 DEF Ages, ProcsOK, Sane, Process, Idle, Outcomes, Terminal
  <2>2. FilesOK' BY <1>13 DEF Ages, FilesOK
  <2> QED BY <2>1, <2>2
<1>14. ASSUME LoseLedger PROVE Base'
  <2>1. ProcsOK' BY <1>14 DEF LoseLedger, ProcsOK, Sane, Process, Idle, Outcomes, Terminal
  <2>2. FilesOK' BY <1>14 DEF LoseLedger, FilesOK, NoRow, Outcomes, Limits
  <2> QED BY <2>1, <2>2
<1>15. CASE UNCHANGED vars
  <2>1. ProcsOK' BY <1>15 DEF vars, ProcsOK, Sane, Process, Idle, Outcomes, Terminal
  <2>2. FilesOK' BY <1>15 DEF vars, FilesOK, Outcomes, Terminal, Ids
  <2> QED BY <2>1, <2>2
<1> QED BY <1>1, <1>2, <1>3, <1>4, <1>5, <1>6, <1>7, <1>8, <1>9, <1>10, <1>11, <1>12,
           <1>13, <1>14, <1>15 DEF Next

-----------------------------------------------------------------------------
(* The invariant *)

\* A delivery has one process at work, and its row is there and young meanwhile: only a row
\* that is missing or stale is reserved again.
Alone ==
    \A p, q \in Procs : proc[p].d = proc[q].d /\ proc[p].d # "none" => p = q

Fresh ==
    \A p \in Procs : proc[p].at # "idle" =>
        ledger[proc[p].d].outcome # "none" /\ ~ledger[proc[p].d].old

\* What is mirrored is an outcome.
Ended ==
    \A p \in Procs :
        /\ proc[p].at = "finalize" => proc[p].outcome \in Terminal
        /\ proc[p].at = "mirror" => ledger[proc[p].d].outcome \in Terminal

Home(d) == mapping[event[d].ref]

\* Mirrors are in directories, and what ran left the one of its task.
Filed ==
    /\ torn = {}
    /\ \A t \in Ids, d \in Deliveries : mirror[t][d] # "none" => t \in dirs
    /\ \A d \in Deliveries : runs[d] > 0 => Home(d) \in dirs

\* What has run is on record in its task, unless a process is still to see to that ...
OnRecord(d) == Home(d) # 0 /\ mirror[Home(d)][d] \in Terminal

Ending(d) ==
    \E p \in Procs : proc[p].d = d /\ proc[p].at \in {"running", "finalize", "mirror"}

Counted ==
    \A d \in Deliveries :
        /\ runs[d] <= 1 + killed[d]
        /\ runs[d] = 1 + killed[d] => Ending(d) \/ OnRecord(d)

\* ... and whoever takes up what is on record finds it there before it comes to dispatch.
Caught ==
    \A p \in Procs :
        proc[p].at # "idle" /\ OnRecord(proc[p].d) => proc[p].at \in {"command", "resolve", "lookup"}

OnceInv ==
    /\ Base /\ TasksOfTheirOwn
    /\ Alone /\ Fresh /\ Ended /\ Filed /\ Counted /\ Caught

LEMMA InitOnce == ASSUME Limits, Init PROVE OnceInv
<1>1. Base BY InitBase
<1>2. TasksOfTheirOwn BY DEF Init, TasksOfTheirOwn, Idle
<1>3. Alone /\ Fresh /\ Ended /\ Caught BY DEF Init, Alone, Fresh, Ended, Caught, Idle
<1>4. Filed
  <2>1. \A t \in Ids, d \in Deliveries : mirror[t][d] = "none" BY DEF Init
  <2> QED BY <2>1 DEF Init, Filed
<1>5. Counted BY DEF Init, Counted
<1> QED BY <1>1, <1>2, <1>3, <1>4, <1>5 DEF OnceInv

-----------------------------------------------------------------------------
(* Each task is of one reference *)

LEMMA MovesRow ==
    ASSUME ProcsOK, NEW p \in Procs, NEW to, Moves(p, to)
    PROVE  proc'[p] = to /\ \A q \in Procs : q # p => proc'[q] = proc[q]
BY DEF ProcsOK, Moves

LEMMA OwnMoves ==
    ASSUME Base, TasksOfTheirOwn, NEW p \in Procs, NEW to, Moves(p, to),
           mapping' = mapping, event' = event,
           to.task # 0 => to.task = mapping[event[to.d].ref]
    PROVE  TasksOfTheirOwn'
BY MovesRow DEF Base, TasksOfTheirOwn

LEMMA NextOwn == ASSUME Limits, Base, TasksOfTheirOwn, [Next]_vars PROVE TasksOfTheirOwn'
<1>a. \A p \in Procs : Sane(proc[p]) BY DEF Base, ProcsOK
<1>b. \A p \in Procs : proc[p].at # "idle" => proc[p].d \in Deliveries BY <1>a DEF Sane
<1>c. \A p \in Procs : proc[p].task # 0 => proc[p].task = mapping[event[proc[p].d].ref]
      BY DEF TasksOfTheirOwn
<1>d. Idle.task = 0 BY DEF Idle
<1>e. ASSUME NEW p \in Procs, NEW at PROVE
        /\ [proc[p] EXCEPT !.at = at].task = proc[p].task
        /\ [proc[p] EXCEPT !.at = at].d = proc[p].d
      BY <1>a DEF Sane, Process
<1>f. ASSUME NEW p \in Procs, NEW at, mapping' = mapping, event' = event,
             Ends(p) \/ GoesTo(p, at)
      PROVE  TasksOfTheirOwn'
      BY <1>c, <1>d, <1>e, <1>f, OwnMoves DEF Ends, GoesTo
<1>1. ASSUME NEW p \in Procs, NEW d \in Deliveries, Reserve(p, d) PROVE TasksOfTheirOwn'
      BY <1>1, OwnMoves DEF Reserve
<1>2. ASSUME NEW p \in Procs, Command(p) \/ Lookup(p) PROVE TasksOfTheirOwn'
      BY <1>2, <1>f DEF Command, Lookup
<1>3. ASSUME NEW p \in Procs, Resolve(p) PROVE TasksOfTheirOwn'
  <2> DEFINE task == mapping[event[proc[p].d].ref]
  <2>1. CASE task \in dirs
    <3> DEFINE to == [proc[p] EXCEPT !.at = "lookup", !.task = task]
    <3>1. Moves(p, to) BY <1>3, <2>1 DEF Resolve
    <3>2. to.task = task /\ to.d = proc[p].d BY <1>a DEF Sane, Process
    <3> HIDE DEF to
    <3> QED BY <1>3, <3>1, <3>2, OwnMoves DEF Resolve
  <2>2. CASE task \notin dirs BY <1>3, <2>2, <1>f DEF Resolve
  <2> QED BY <2>1, <2>2
<1>4. ASSUME NEW p \in Procs, NEW allowed \in BOOLEAN, Preflight(p, allowed) PROVE TasksOfTheirOwn'
      BY <1>4, <1>f DEF Preflight
<1>5. ASSUME NEW p \in Procs, NEW id \in Ids, Mint(p, id) PROVE TasksOfTheirOwn'
  <2> DEFINE ref == event[proc[p].d].ref
             to == [proc[p] EXCEPT !.at = "dispatch", !.task = id]
  <2>1. ref \in Refs /\ proc[p].d \in Deliveries BY <1>5, <1>b DEF Mint, Base, FilesOK
  <2>2. to.task = id /\ to.d = proc[p].d BY <1>a DEF Sane, Process
  <2>3. proc'[p] = to /\ \A q \in Procs : q # p => proc'[q] = proc[q]
        BY <1>5, MovesRow DEF Mint, Base
  <2>4. mapping'[ref] = id /\ \A r \in Refs : r # ref => mapping'[r] = mapping[r]
        BY <1>5, <2>1 DEF Mint, Base, FilesOK
  <2>5. CASE mapping[ref] # 0
    <3>1. \A r \in Refs : mapping'[r] = mapping[r] BY <1>5, <2>4, <2>5 DEF Mint
    <3>2. ASSUME NEW q \in Procs, proc'[q].task # 0
          PROVE  proc'[q].task = mapping'[event[proc'[q].d].ref]
      <4>1. CASE q = p BY <4>1, <2>2, <2>3, <2>4
      <4>2. CASE q # p
        <5>1. proc[q].task # 0 /\ proc[q].at # "idle" BY <4>2, <3>2, <2>3, <1>a, <1>d DEF Sane
        <5>2. event[proc[q].d].ref \in Refs BY <5>1, <1>b DEF Base, FilesOK
        <5> QED BY <5>1, <5>2, <4>2, <2>3, <3>1, <1>c
      <4> QED BY <4>1, <4>2
    <3> QED BY <1>5, <3>1, <3>2 DEF TasksOfTheirOwn, Mint
  <2>6. CASE mapping[ref] = 0
    <3>1. \A r \in Refs : mapping[r] # id
      <4>1. \A t \in Taken : t < id BY <1>5, <2>6 DEF Mint
      <4>2. ASSUME NEW r \in Refs PROVE mapping[r] < id BY <4>1 DEF Taken
      <4> QED BY <4>2 DEF Base, FilesOK, Limits, Ids
    <3>2. \A r, s \in Refs : mapping'[r] # 0 /\ mapping'[r] = mapping'[s] => r = s
          BY <2>4, <3>1 DEF TasksOfTheirOwn
    <3>3. ASSUME NEW q \in Procs, proc'[q].task # 0
          PROVE  proc'[q].task = mapping'[event[proc'[q].d].ref]
      <4>1. CASE q = p BY <4>1, <2>2, <2>3, <2>4
      <4>2. CASE q # p
        <5>1. proc[q].task # 0 /\ proc[q].at # "idle" BY <4>2, <3>3, <2>3, <1>a, <1>d DEF Sane
        <5>2. event[proc[q].d].ref \in Refs BY <5>1, <1>b DEF Base, FilesOK
        <5>3. event[proc[q].d].ref # ref BY <5>1, <2>6, <1>c
        <5> QED BY <5>1, <5>2, <5>3, <4>2, <2>3, <2>4, <1>c
      <4> QED BY <4>1, <4>2
    <3> QED BY <1>5, <3>2, <3>3 DEF TasksOfTheirOwn, Mint
  <2> QED BY <2>5, <2>6
<1>6. ASSUME NEW p \in Procs, Run(p) \/ Finalize(p) \/ Mirror(p) \/ Kill(p) PROVE TasksOfTheirOwn'
      BY <1>6, <1>f DEF Run, Finalize, Mirror, Kill
<1>7. ASSUME NEW p \in Procs, NEW outcome, RunRefused(p) \/ RunEnds(p, outcome) PROVE TasksOfTheirOwn'
  <2>1. \A o : /\ [proc[p] EXCEPT !.at = "finalize", !.outcome = o].task = proc[p].task
               /\ [proc[p] EXCEPT !.at = "finalize", !.outcome = o].d = proc[p].d
        BY <1>a DEF Sane, Process
  <2> QED BY <1>7, <2>1, <1>c, OwnMoves DEF RunRefused, RunEnds
<1>8. ASSUME NEW d \in Deliveries, Ages(d) PROVE TasksOfTheirOwn'
      BY <1>8 DEF Ages, TasksOfTheirOwn
<1>9. ASSUME LoseLedger PROVE TasksOfTheirOwn'
      BY <1>9 DEF LoseLedger, TasksOfTheirOwn
<1>10. CASE UNCHANGED vars BY <1>10 DEF vars, TasksOfTheirOwn
<1> QED BY <1>1, <1>2, <1>3, <1>4, <1>5, <1>6, <1>7, <1>8, <1>9, <1>10 DEF Next

\* Files and processes hold what TypeOK lists, whatever is killed or lost.
THEOREM TypesHold == ASSUME Limits PROVE Spec => []TypeOK
<1>1. Init => Base BY InitBase
<1>2. Base /\ [Next]_vars => Base' BY NextBase
<1> QED BY <1>1, <1>2, BaseType, PTL DEF Spec

\* event-gateway.rb 431-456, 492-502: no two references share a task, and a delivery is
\* dispatched to its reference's, also with ids handed out before their directories are there.
THEOREM TasksOfTheirOwnHolds == ASSUME Limits PROVE Spec => []TasksOfTheirOwn
<1>1. Init => Base /\ TasksOfTheirOwn BY InitOnce DEF OnceInv
<1>2. Base /\ TasksOfTheirOwn /\ [Next]_vars => (Base /\ TasksOfTheirOwn)' BY NextBase, NextOwn
<1> QED BY <1>1, <1>2, PTL DEF Spec

-----------------------------------------------------------------------------
(* What a process at work leaves alone *)

\* Neither a process nor the ledger changes beneath a delivery.
Calm == SlowDispatch = FALSE /\ LossInFlight = FALSE

Works(p) ==
    /\ proc[p].at # "idle" /\ event' = event
    /\ \A q \in Procs : q # p => proc'[q] = proc[q]
    /\ proc'[p] = Idle \/ (proc'[p].d = proc[p].d /\ proc'[p].at # "idle")
    /\ \A d \in Deliveries :
          /\ d # proc[p].d => ledger'[d] = ledger[d]
          /\ ledger'[d].old = ledger[d].old
          /\ ledger[d].outcome # "none" => ledger'[d].outcome # "none"

\* A process that ends, or goes on with its delivery; the others stay where they are.
OthersStay(p) == \A q \in Procs : q # p => proc'[q] = proc[q]
GoesOn(p, at, outcome) ==
    /\ OthersStay(p)
    /\ proc'[p].d = proc[p].d /\ proc'[p].at = at /\ proc'[p].outcome = outcome
Leaves(p) == OthersStay(p) /\ proc'[p] = Idle

LEMMA RowFacts ==
    ASSUME FilesOK, NEW e \in Deliveries, NEW outcome \in Outcomes \ {"none"}, Row(e, outcome)
    PROVE  /\ \A d \in Deliveries :
                 /\ d # e => ledger'[d] = ledger[d]
                 /\ ledger'[d].old = ledger[d].old
                 /\ ledger[d].outcome # "none" => ledger'[d].outcome # "none"
           /\ ledger[e].outcome # "none" => ledger'[e].outcome = outcome
BY DEF FilesOK, Row

LEMMA WorksRow ==
    ASSUME Base, NEW p \in Procs, proc[p].at # "idle", event' = event,
           Leaves(p) \/ \E at, outcome : at # "idle" /\ GoesOn(p, at, outcome),
           ledger' = ledger \/ \E outcome \in Outcomes \ {"none"} : Row(proc[p].d, outcome)
    PROVE  Works(p)
<1>1. proc[p].d \in Deliveries BY DEF Base, ProcsOK, Sane
<1>2. \A d \in Deliveries :
          /\ d # proc[p].d => ledger'[d] = ledger[d]
          /\ ledger'[d].old = ledger[d].old
          /\ ledger[d].outcome # "none" => ledger'[d].outcome # "none"
      BY <1>1, RowFacts DEF Base
<1> QED BY <1>2 DEF Works, Leaves, GoesOn, OthersStay

LEMMA Goes ==
    ASSUME Base, NEW p \in Procs, NEW at, NEW more
    PROVE  /\ Ends(p) => Leaves(p)
           /\ GoesTo(p, at) => GoesOn(p, at, proc[p].outcome)
           /\ Moves(p, [proc[p] EXCEPT !.at = at, !.task = more]) => GoesOn(p, at, proc[p].outcome)
           /\ Moves(p, [proc[p] EXCEPT !.at = at, !.outcome = more]) => GoesOn(p, at, more)
<1>1. proc[p] \in Process BY DEF Base, ProcsOK
<1>2. \A to : Moves(p, to) => OthersStay(p) /\ proc'[p] = to BY MovesRow DEF Base, OthersStay
<1>3. Ends(p) => Leaves(p) BY <1>2 DEF Ends, Leaves
<1>4. GoesTo(p, at) => GoesOn(p, at, proc[p].outcome) BY <1>1, <1>2 DEF GoesTo, GoesOn, Process
<1>5. Moves(p, [proc[p] EXCEPT !.at = at, !.task = more]) => GoesOn(p, at, proc[p].outcome)
  <2> DEFINE to == [proc[p] EXCEPT !.at = at, !.task = more]
  <2>1. to.d = proc[p].d /\ to.at = at /\ to.outcome = proc[p].outcome BY <1>1 DEF Process
  <2> HIDE DEF to
  <2>2. Moves(p, to) => GoesOn(p, at, proc[p].outcome) BY <1>2, <2>1 DEF GoesOn
  <2> QED BY <2>2 DEF to
<1>6. Moves(p, [proc[p] EXCEPT !.at = at, !.outcome = more]) => GoesOn(p, at, more)
  <2> DEFINE to == [proc[p] EXCEPT !.at = at, !.outcome = more]
  <2>1. to.d = proc[p].d /\ to.at = at /\ to.outcome = more BY <1>1 DEF Process
  <2> HIDE DEF to
  <2>2. Moves(p, to) => GoesOn(p, at, more) BY <1>2, <2>1 DEF GoesOn
  <2> QED BY <2>2 DEF to
<1> QED BY <1>3, <1>4, <1>5, <1>6

\* At work, each action but Reserve.
Working(p) ==
    \/ Command(p) \/ Resolve(p) \/ Lookup(p)
    \/ \E allowed \in BOOLEAN : Preflight(p, allowed)
    \/ \E id \in Ids : Mint(p, id)
    \/ Run(p) \/ RunRefused(p)
    \/ \E outcome \in Terminal : RunEnds(p, outcome)
    \/ Finalize(p) \/ Mirror(p) \/ Kill(p)

\* Where each action takes its process.
Along(p) ==
    \/ Leaves(p)
    \/ GoesOn(p, "resolve", proc[p].outcome) \/ GoesOn(p, "lookup", proc[p].outcome)
    \/ GoesOn(p, "preflight", proc[p].outcome)

LEMMA Paths ==
    ASSUME Base, NEW p \in Procs
    PROVE  /\ Command(p) \/ Resolve(p) \/ Lookup(p) => Along(p)
           /\ Preflight(p, TRUE) => GoesOn(p, "mint", proc[p].outcome)
                                    \/ GoesOn(p, "dispatch", proc[p].outcome)
           /\ Preflight(p, FALSE) => Leaves(p) \/ GoesOn(p, "mirror", proc[p].outcome)
           /\ \A id \in Ids : Mint(p, id) => GoesOn(p, "dispatch", proc[p].outcome)
           /\ Run(p) => GoesOn(p, "running", proc[p].outcome)
           /\ RunRefused(p) => GoesOn(p, "finalize", "dispatch_failed")
           /\ \A outcome \in Terminal : RunEnds(p, outcome) => GoesOn(p, "finalize", outcome)
           /\ Finalize(p) => GoesOn(p, "mirror", proc[p].outcome)
           /\ Mirror(p) \/ Kill(p) => Leaves(p)
<1>1. Command(p) \/ Resolve(p) \/ Lookup(p) => Along(p)
      BY Goes DEF Command, Resolve, Lookup, Along
<1>2. /\ Preflight(p, TRUE) => GoesOn(p, "mint", proc[p].outcome)
                               \/ GoesOn(p, "dispatch", proc[p].outcome)
      /\ Preflight(p, FALSE) => Leaves(p) \/ GoesOn(p, "mirror", proc[p].outcome)
      BY Goes DEF Preflight
<1>3. \A id \in Ids : Mint(p, id) => GoesOn(p, "dispatch", proc[p].outcome) BY Goes DEF Mint
<1>4. Run(p) => GoesOn(p, "running", proc[p].outcome) BY Goes DEF Run
<1>5. RunRefused(p) => GoesOn(p, "finalize", "dispatch_failed") BY Goes DEF RunRefused
<1>6. \A outcome \in Terminal : RunEnds(p, outcome) => GoesOn(p, "finalize", outcome)
      BY Goes DEF RunEnds
<1>7. Finalize(p) => GoesOn(p, "mirror", proc[p].outcome) BY Goes DEF Finalize
<1>8. Mirror(p) \/ Kill(p) => Leaves(p) BY Goes DEF Mirror, Kill
<1> QED BY <1>1, <1>2, <1>3, <1>4, <1>5, <1>6, <1>7, <1>8

LEMMA WorkingWorks ==
    ASSUME Base, Ended, NEW p \in Procs, Working(p)
    PROVE  Works(p)
<1>a. Along(p) => Leaves(p) \/ \E at, outcome : at # "idle" /\ GoesOn(p, at, outcome) BY DEF Along
<1>1. CASE Command(p) BY <1>1, <1>a, Paths, WorksRow DEF Command, Outcomes
<1>2. CASE Resolve(p)
  <2>1. \E outcome \in Outcomes \ {"none"} : Row(proc[p].d, outcome) BY <1>2 DEF Resolve, Outcomes
  <2> QED BY <1>2, <1>a, <2>1, Paths, WorksRow DEF Resolve
<1>3. CASE Lookup(p) BY <1>3, <1>a, Paths, WorksRow DEF Lookup, Outcomes
<1>4. ASSUME NEW allowed \in BOOLEAN, Preflight(p, allowed) PROVE Works(p)
      BY <1>4, Paths, WorksRow DEF Preflight, Outcomes, Terminal
<1>5. ASSUME NEW id \in Ids, Mint(p, id) PROVE Works(p) BY <1>5, Paths, WorksRow DEF Mint, Outcomes
<1>6. CASE Run(p) \/ RunRefused(p) BY <1>6, Paths, WorksRow DEF Run, RunRefused
<1>7. ASSUME NEW outcome \in Terminal, RunEnds(p, outcome) PROVE Works(p)
      BY <1>7, Paths, WorksRow DEF RunEnds
<1>8. CASE Finalize(p)
  <2>1. proc[p].outcome \in Outcomes \ {"none"} BY <1>8 DEF Finalize, Ended, Outcomes, Terminal
  <2> QED BY <1>8, <2>1, Paths, WorksRow DEF Finalize
<1>9. CASE Mirror(p) \/ Kill(p) BY <1>9, Paths, WorksRow DEF Mirror, Kill
<1> QED BY <1>1, <1>2, <1>3, <1>4, <1>5, <1>6, <1>7, <1>8, <1>9 DEF Working

\* A step is a process at work, one that takes a delivery up, time, a loss, or nothing.
LEMMA NextCases ==
    ASSUME [Next]_vars
    PROVE  \/ \E p \in Procs : Working(p)
           \/ \E p \in Procs, d \in Deliveries : Reserve(p, d)
           \/ \E d \in Deliveries : Ages(d)
           \/ LoseLedger
           \/ UNCHANGED vars
BY DEF Next, Working

-----------------------------------------------------------------------------
(* One process for a delivery, whose row stays there and young *)

LEMMA NextAlone ==
    ASSUME Limits, Calm, Base, Ended, Alone, Fresh, [Next]_vars
    PROVE  Alone' /\ Fresh'
<1>a. \A p \in Procs : /\ proc[p].at # "idle" => proc[p].d \in Deliveries
                       /\ proc[p].at = "idle" => proc[p] = Idle
      BY DEF Base, ProcsOK, Sane
<1>b. Idle.at = "idle" /\ Idle.d = "none" /\ "none" \notin Deliveries BY DEF Idle, Limits
<1>1. ASSUME NEW p \in Procs, Works(p) PROVE Alone' /\ Fresh'
  <2>1. \A q \in Procs : proc'[q].d # "none" => proc'[q].d = proc[q].d
        BY <1>1, <1>b DEF Works
  <2>2. Alone' BY <2>1 DEF Alone
  <2>3. ASSUME NEW q \in Procs, proc'[q].at # "idle"
        PROVE  ledger'[proc'[q].d].outcome # "none" /\ ~ledger'[proc'[q].d].old
    <3>1. proc[q].at # "idle" /\ proc'[q].d = proc[q].d BY <1>1, <2>3, <1>b DEF Works
    <3>2. proc[q].d \in Deliveries BY <3>1, <1>a
    <3> QED BY <1>1, <3>1, <3>2 DEF Works, Fresh
  <2>4. Fresh' BY <2>3 DEF Fresh
  <2> QED BY <2>2, <2>4
<1>2. ASSUME NEW p \in Procs, NEW d \in Deliveries, Reserve(p, d) PROVE Alone' /\ Fresh'
  <2>1. proc'[p] = [at |-> "command", d |-> d, task |-> 0, outcome |-> "none"]
        /\ \A q \in Procs : q # p => proc'[q] = proc[q]
        BY <1>2, MovesRow DEF Reserve, Base
  <2>2. ASSUME NEW q \in Procs PROVE proc[q].d # d
        BY <1>2, <1>a, <1>b DEF Reserve, Stale, Fresh
  <2>3. Alone' BY <2>1, <2>2 DEF Alone
  <2>4. \A e \in Deliveries : /\ e # d => ledger'[e] = ledger[e]
                              /\ e = d => ledger'[e] = [outcome |-> "in_progress", old |-> FALSE]
        BY <1>2 DEF Reserve, Base, FilesOK
  <2>5. ASSUME NEW q \in Procs, proc'[q].at # "idle"
        PROVE  ledger'[proc'[q].d].outcome # "none" /\ ~ledger'[proc'[q].d].old
    <3>1. CASE q = p BY <3>1, <2>1, <2>4
    <3>2. CASE q # p BY <3>2, <2>1, <2>2, <2>4, <2>5, <1>a DEF Fresh
    <3> QED BY <3>1, <3>2
  <2>6. Fresh' BY <2>5 DEF Fresh
  <2> QED BY <2>3, <2>6
<1>3. ASSUME NEW d \in Deliveries, Ages(d) PROVE Alone' /\ Fresh'
  <2>1. Alone' BY <1>3 DEF Ages, Alone
  <2>2. \A e \in Deliveries : e # d => ledger'[e] = ledger[e] BY <1>3 DEF Ages, Base, FilesOK
  <2>3. \A q \in Procs : proc[q].d # d BY <1>3 DEF Ages, Calm
  <2>4. Fresh' BY <1>3, <2>2, <2>3, <1>a DEF Ages, Fresh
  <2> QED BY <2>1, <2>4
<1>4. ASSUME LoseLedger PROVE Alone' /\ Fresh'
      BY <1>4, <1>b DEF LoseLedger, Calm, Alone, Fresh
<1>5. CASE UNCHANGED vars BY <1>5 DEF vars, Alone, Fresh
<1> QED BY <1>1, <1>2, <1>3, <1>4, <1>5, NextCases, WorkingWorks

-----------------------------------------------------------------------------
(* Only outcomes are mirrored *)

LEMMA NextEnded ==
    ASSUME Limits, Calm, Base, Ended, Alone, Fresh, [Next]_vars
    PROVE  Ended'
<1>a. \A p \in Procs : /\ proc[p].at # "idle" => proc[p].d \in Deliveries
                       /\ proc[p].at = "idle" => proc[p] = Idle
      BY DEF Base, ProcsOK, Sane
<1>b. Idle.at = "idle" /\ Idle.d = "none" /\ "none" \notin Deliveries BY DEF Idle, Limits
<1>1. ASSUME NEW p \in Procs, Working(p) PROVE Ended'
  <2> DEFINE Own == /\ proc'[p].at = "finalize" => proc'[p].outcome \in Terminal
                    /\ proc'[p].at = "mirror" => ledger'[proc'[p].d].outcome \in Terminal
  <2>1. Works(p) BY <1>1, WorkingWorks
  <2>2. proc[p].d \in Deliveries /\ ledger[proc[p].d].outcome # "none"
        BY <2>1, <1>a DEF Works, Fresh
  <2>3. \A outcome \in Outcomes \ {"none"} :
            Row(proc[p].d, outcome) => ledger'[proc[p].d].outcome = outcome
        BY <2>2, RowFacts DEF Base
  <2>4. Own
    <3>1. CASE Command(p) \/ Resolve(p) \/ Lookup(p)
          BY <3>1, Paths, <1>b DEF Along, GoesOn, Leaves
    <3>2. ASSUME NEW allowed \in BOOLEAN, Preflight(p, allowed) PROVE Own
      <4>1. CASE allowed BY <3>2, <4>1, Paths DEF GoesOn
      <4>2. CASE ~allowed
        <5>1. ledger'[proc[p].d].outcome \in Terminal
              BY <3>2, <4>2, <2>3 DEF Preflight, Outcomes, Terminal
        <5> QED BY <3>2, <4>2, <5>1, Paths, <1>b DEF GoesOn, Leaves
      <4> QED BY <4>1, <4>2
    <3>3. ASSUME NEW id \in Ids, Mint(p, id) PROVE Own BY <3>3, Paths DEF GoesOn
    <3>4. CASE Run(p) BY <3>4, Paths DEF GoesOn
    <3>5. CASE RunRefused(p) BY <3>5, Paths DEF GoesOn, Terminal
    <3>6. ASSUME NEW outcome \in Terminal, RunEnds(p, outcome) PROVE Own BY <3>6, Paths DEF GoesOn
    <3>7. CASE Finalize(p)
      <4>1. proc[p].outcome \in Terminal BY <3>7 DEF Finalize, Ended
      <4>2. ledger'[proc[p].d].outcome \in Terminal
            BY <3>7, <4>1, <2>3 DEF Finalize, Outcomes, Terminal
      <4> QED BY <3>7, <4>2, Paths DEF GoesOn
    <3>8. CASE Mirror(p) \/ Kill(p) BY <3>8, Paths, <1>b DEF Leaves
    <3> QED BY <1>1, <3>1, <3>2, <3>3, <3>4, <3>5, <3>6, <3>7, <3>8 DEF Working
  <2>5. ASSUME NEW q \in Procs, q # p, proc[q].at # "idle"
        PROVE  proc'[q] = proc[q] /\ ledger'[proc[q].d] = ledger[proc[q].d]
    <3>1. proc[q].d # proc[p].d BY <2>1, <2>5, <1>a, <1>b DEF Alone, Works
    <3> QED BY <2>1, <2>5, <3>1, <1>a DEF Works
  <2>6. ASSUME NEW q \in Procs
        PROVE  /\ proc'[q].at = "finalize" => proc'[q].outcome \in Terminal
               /\ proc'[q].at = "mirror" => ledger'[proc'[q].d].outcome \in Terminal
    <3>1. CASE q = p BY <3>1, <2>4
    <3>2. CASE q # p
      <4>1. CASE proc[q].at = "idle" BY <4>1, <3>2, <2>1 DEF Works
      <4>2. CASE proc[q].at # "idle" BY <4>2, <3>2, <2>5 DEF Ended
      <4> QED BY <4>1, <4>2
    <3> QED BY <3>1, <3>2
  <2> QED BY <2>6 DEF Ended, Terminal
<1>2. ASSUME NEW p \in Procs, NEW d \in Deliveries, Reserve(p, d) PROVE Ended'
  <2>1. proc'[p] = [at |-> "command", d |-> d, task |-> 0, outcome |-> "none"]
        /\ \A q \in Procs : q # p => proc'[q] = proc[q]
        BY <1>2, MovesRow DEF Reserve, Base
  <2>2. ASSUME NEW q \in Procs PROVE proc[q].d # d
        BY <1>2, <1>a, <1>b DEF Reserve, Stale, Fresh
  <2>3. \A e \in Deliveries : e # d => ledger'[e] = ledger[e] BY <1>2 DEF Reserve, Base, FilesOK
  <2>4. ASSUME NEW q \in Procs
        PROVE  /\ proc'[q].at = "finalize" => proc'[q].outcome \in Terminal
               /\ proc'[q].at = "mirror" => ledger'[proc'[q].d].outcome \in Terminal
        BY <2>1, <2>2, <2>3, <1>a DEF Ended
  <2> QED BY <2>4 DEF Ended, Terminal
<1>3. ASSUME NEW d \in Deliveries, Ages(d) PROVE Ended'
  <2>1. \A e \in Deliveries : ledger'[e].outcome = ledger[e].outcome
        BY <1>3 DEF Ages, Base, FilesOK
  <2> QED BY <1>3, <2>1, <1>a DEF Ages, Ended, Terminal
<1>4. ASSUME LoseLedger PROVE Ended'
      BY <1>4, <1>b DEF LoseLedger, Calm, Ended, Terminal
<1>5. CASE UNCHANGED vars BY <1>5 DEF vars, Ended, Terminal
<1> QED BY <1>1, <1>2, <1>3, <1>4, <1>5, NextCases

-----------------------------------------------------------------------------
(* Where mirrors are *)

\* A reference gets its task once, and one without a directory.
LEMMA HomeMoves ==
    ASSUME Limits, Base, [Next]_vars, NEW d \in Deliveries
    PROVE  Home(d)' = Home(d) \/ (Home(d) = 0 /\ Home(d)' \in Ids \ dirs)
<1>1. ASSUME NEW p \in Procs, NEW id \in Ids, Mint(p, id)
      PROVE  Home(d)' = Home(d) \/ (Home(d) = 0 /\ Home(d)' \in Ids \ dirs)
  <2> DEFINE ref == event[proc[p].d].ref
  <2>1. ref \in Refs BY <1>1 DEF Mint, Base, FilesOK, ProcsOK, Sane
  <2>2. event' = event /\ mapping' = [mapping EXCEPT ![ref] = id] BY <1>1 DEF Mint
  <2>3. event[d].ref \in Refs BY DEF Base, FilesOK
  <2>4. CASE mapping[ref] # 0
    <3>1. id = mapping[ref] BY <1>1, <2>4 DEF Mint
    <3>2. mapping'[event[d].ref] = mapping[event[d].ref] BY <2>1, <2>2, <2>3, <3>1 DEF Base, FilesOK
    <3> QED BY <2>2, <3>2 DEF Home
  <2>5. CASE mapping[ref] = 0
    <3>1. \A t \in Taken : t < id BY <1>1, <2>5 DEF Mint
    <3>2. id \notin dirs BY <3>1 DEF Taken, Ids
    <3>3. \/ mapping'[event[d].ref] = mapping[event[d].ref]
          \/ mapping[event[d].ref] = 0 /\ mapping'[event[d].ref] = id
          BY <2>1, <2>2, <2>3, <2>5 DEF Base, FilesOK
    <3> QED BY <2>2, <3>2, <3>3 DEF Home
  <2> QED BY <2>4, <2>5
<1>2. CASE event' = event /\ mapping' = mapping BY <1>2 DEF Home
<1>3. (\E p \in Procs, id \in Ids : Mint(p, id)) \/ (event' = event /\ mapping' = mapping)
      BY DEF Next, Reserve, Command, Resolve, Lookup, Preflight, Run, RunRefused, RunEnds,
             Finalize, Mirror, Kill, Ages, LoseLedger, vars
<1> QED BY <1>1, <1>2, <1>3

\* What the mirrors of a process's own delivery are.
LEMMA AtHome ==
    ASSUME Base, TasksOfTheirOwn, NEW p \in Procs,
           proc[p].at \in {"lookup", "dispatch", "running", "finalize", "mirror"}
    PROVE  /\ proc[p].d \in Deliveries
           /\ proc[p].task = Home(proc[p].d) /\ proc[p].task \in Ids /\ proc[p].task # 0
<1>1. Sane(proc[p]) BY DEF Base, ProcsOK
<1>2. proc[p].d \in Deliveries /\ proc[p].task # 0 /\ proc[p].task \in 0..MaxIds
      BY <1>1 DEF Sane, Process
<1>3. proc[p].task = Home(proc[p].d) BY <1>2 DEF TasksOfTheirOwn, Home
<1>4. mapping[event[proc[p].d].ref] \in 0..MaxIds BY <1>2 DEF Base, FilesOK
<1> QED BY <1>2, <1>3, <1>4 DEF Ids, Home

\* A mirror changes only where its delivery's process ends, to an outcome and in a directory.
LEMMA MirrorMoves ==
    ASSUME Base, TasksOfTheirOwn, Ended, Fresh, Filed, NEW p \in Procs, Mirror(p)
    PROVE  LET d == proc[p].d
           IN  /\ d \in Deliveries /\ torn' = torn
               /\ Home(d) \in dirs => mirror'[Home(d)][d] \in Terminal
               /\ \A t \in Ids, e \in Deliveries :
                     mirror'[t][e] = mirror[t][e]
                     \/ (t = Home(d) /\ e = d /\ t \in dirs /\ mirror'[t][e] \in Terminal)
<1> DEFINE d == proc[p].d
           task == proc[p].task
<1>1. proc[p].at = "mirror" BY DEF Mirror
<1>2. d \in Deliveries /\ task = Home(d) /\ task \in Ids BY <1>1, AtHome
<1>3. ledger[d].outcome \in Terminal /\ ledger[d].outcome # "none" BY <1>1 DEF Ended, Fresh, Terminal
<1>4. torn' = torn BY <1>3 DEF Mirror
<1>5. mirror' = IF task \in dirs THEN [mirror EXCEPT ![task][d] = ledger[d].outcome] ELSE mirror
      BY <1>3 DEF Mirror, Filed
<1>6. \A t \in Ids, e \in Deliveries :
          mirror'[t][e] = IF t = task /\ e = d /\ task \in dirs THEN ledger[d].outcome ELSE mirror[t][e]
      BY <1>2, <1>5 DEF Base, FilesOK
<1>7. Home(d) \in dirs => mirror'[Home(d)][d] \in Terminal BY <1>2, <1>3, <1>6
<1>8. ASSUME NEW t \in Ids, NEW e \in Deliveries
      PROVE  mirror'[t][e] = mirror[t][e]
             \/ (t = Home(d) /\ e = d /\ t \in dirs /\ mirror'[t][e] \in Terminal)
  <2>1. CASE t = task /\ e = d /\ task \in dirs BY <2>1, <1>2, <1>3, <1>6
  <2>2. CASE ~(t = task /\ e = d /\ task \in dirs) BY <2>2, <1>6
  <2> QED BY <2>1, <2>2
<1> QED BY <1>2, <1>4, <1>7, <1>8

LEMMA NextFiled ==
    ASSUME Limits, Base, TasksOfTheirOwn, Ended, Fresh, Filed, [Next]_vars
    PROVE  Filed'
<1>a. \A d \in Deliveries : Home(d)' = Home(d) \/ (Home(d) = 0 /\ Home(d)' \in Ids \ dirs)
      BY HomeMoves
<1>b. 0 \notin dirs BY DEF Base, FilesOK, Ids
<1>1. CASE torn' = torn /\ mirror' = mirror /\ dirs \subseteq dirs' /\ runs' = runs
      BY <1>1, <1>a, <1>b DEF Filed
<1>2. ASSUME NEW p \in Procs, Run(p) PROVE Filed'
  <2>1. proc[p].d \in Deliveries /\ proc[p].task = Home(proc[p].d) BY <1>2, AtHome DEF Run
  <2>2. \A d \in Deliveries : Home(d)' = Home(d) BY <1>2 DEF Run, Home
  <2>3. dirs' = dirs \cup {proc[p].task} BY <1>2 DEF Run
  <2>4. \A d \in Deliveries : d # proc[p].d => runs'[d] = runs[d] BY <1>2 DEF Run, Base, FilesOK
  <2> QED BY <1>2, <2>1, <2>2, <2>3, <2>4 DEF Filed, Run
<1>3. ASSUME NEW p \in Procs, Mirror(p) PROVE Filed'
  <2>1. \A d \in Deliveries : Home(d)' = Home(d) BY <1>3 DEF Mirror, Home
  <2>2. torn' = torn /\ \A t \in Ids, e \in Deliveries : mirror'[t][e] = mirror[t][e] \/ t \in dirs
        BY <1>3, MirrorMoves
  <2> QED BY <1>3, <2>1, <2>2 DEF Filed, Mirror
<1>4. ASSUME NEW p \in Procs, RunRefused(p) PROVE Filed'
      BY <1>4, <1>1 DEF RunRefused
<1>5. \/ torn' = torn /\ mirror' = mirror /\ dirs \subseteq dirs' /\ runs' = runs
      \/ \E p \in Procs : Run(p) \/ Mirror(p) \/ RunRefused(p)
      BY DEF Next, Reserve, Command, Resolve, Lookup, Preflight, Mint, RunEnds,
             Finalize, Kill, Ages, LoseLedger, vars
<1> QED BY <1>1, <1>2, <1>3, <1>4, <1>5

\* What is on record stays so, and only the delivery's own process puts it there.
LEMMA NextOnRecord ==
    ASSUME Limits, Base, TasksOfTheirOwn, Ended, Fresh, Filed, [Next]_vars, NEW d \in Deliveries
    PROVE  /\ OnRecord(d) => OnRecord(d)'
           /\ OnRecord(d)' => OnRecord(d) \/ \E p \in Procs : Mirror(p) /\ proc[p].d = d
<1>a. Home(d)' = Home(d) \/ (Home(d) = 0 /\ Home(d)' \in Ids \ dirs) BY HomeMoves
<1>b. Home(d) = 0 \/ Home(d) \in Ids BY DEF Home, Base, FilesOK, Ids
<1>1. CASE mirror' = mirror
  <2>1. CASE Home(d)' = Home(d) BY <1>1, <2>1 DEF OnRecord, Terminal
  <2>2. CASE Home(d) = 0 /\ Home(d)' \in Ids \ dirs
    <3>1. mirror[Home(d)'][d] = "none" BY <2>2 DEF Filed
    <3> QED BY <1>1, <2>2, <3>1 DEF OnRecord, Terminal
  <2> QED BY <1>a, <2>1, <2>2
<1>2. ASSUME NEW p \in Procs, Mirror(p)
      PROVE  /\ OnRecord(d) => OnRecord(d)'
             /\ OnRecord(d)' => OnRecord(d) \/ (Mirror(p) /\ proc[p].d = d)
  <2>1. Home(d)' = Home(d) BY <1>2 DEF Mirror, Home
  <2>2. ASSUME Home(d) \in Ids
        PROVE  mirror'[Home(d)][d] = mirror[Home(d)][d]
               \/ (d = proc[p].d /\ mirror'[Home(d)][d] \in Terminal)
        BY <1>2, <2>2, MirrorMoves
  <2> QED BY <1>2, <1>b, <2>1, <2>2 DEF OnRecord, Terminal
<1>3. mirror' = mirror \/ \E p \in Procs : Mirror(p)
      BY DEF Next, Reserve, Command, Resolve, Lookup, Preflight, Mint, Run, RunRefused, RunEnds,
             Finalize, Kill, Ages, LoseLedger, vars
<1> QED BY <1>1, <1>2, <1>3

-----------------------------------------------------------------------------
(* What is on record is not dispatched again *)

LEMMA NextCaught == ASSUME Limits, Calm, OnceInv, [Next]_vars PROVE Caught'
<1> DEFINE There == {"command", "resolve", "lookup"}
           Recorded(d) == Home(d)' # 0 /\ mirror'[Home(d)'][d] \in Terminal
<1>a. \A p \in Procs : /\ proc[p].at # "idle" => proc[p].d \in Deliveries
                       /\ proc[p].at = "idle" => proc[p] = Idle
      BY DEF OnceInv, Base, ProcsOK, Sane
<1>b. Idle.at = "idle" /\ Idle.d = "none" /\ "none" \notin Deliveries BY DEF Idle, Limits
<1>c. \A d \in Deliveries : Recorded(d) => OnRecord(d) \/ \E p \in Procs : Mirror(p) /\ proc[p].d = d
      BY NextOnRecord DEF OnceInv, OnRecord, Terminal
<1>1. ASSUME NEW q \in Procs, proc'[q].at # "idle", NEW d \in Deliveries, proc[q].d = d, Recorded(d)
      PROVE  OnRecord(d)
  <2>1. ASSUME NEW r \in Procs, Mirror(r), proc[r].d = d PROVE FALSE
    <3>1. r = q BY <1>1, <1>b, <2>1 DEF OnceInv, Alone
    <3>2. proc'[q] = Idle BY <2>1, <3>1, Paths DEF OnceInv, Leaves
    <3> QED BY <1>1, <3>2, <1>b
  <2> QED BY <1>1, <1>c, <2>1
<1>2. ASSUME NEW p \in Procs, Working(p), proc'[p].at # "idle", OnRecord(proc[p].d)
      PROVE  proc'[p].at \in There
  <2>a. proc[p].at \in There BY <1>2, WorkingWorks DEF OnceInv, Caught, Works
  <2>1. CASE Command(p) BY <2>1, <1>2, <1>b, <2>a, Goes DEF Command, OnceInv, Leaves, GoesOn
  <2>2. CASE Resolve(p)
    <3>1. proc[p].d \in Deliveries BY <2>2, <1>a DEF Resolve
    <3>2. Home(proc[p].d) \in Ids
          BY <1>2, <3>1 DEF OnceInv, Base, FilesOK, OnRecord, Home, Ids, Limits
    <3>3. Home(proc[p].d) \in dirs BY <1>2, <3>1, <3>2 DEF OnceInv, Filed, OnRecord, Terminal
    <3>4. \E more : Moves(p, [proc[p] EXCEPT !.at = "lookup", !.task = more])
          BY <2>2, <3>3 DEF Resolve, Home
    <3>5. GoesOn(p, "lookup", proc[p].outcome) BY <3>4, Goes DEF OnceInv
    <3> QED BY <3>5 DEF GoesOn
  <2>3. CASE Lookup(p)
    <3>1. proc[p].task = Home(proc[p].d) BY <2>3, AtHome DEF Lookup, OnceInv
    <3>2. Recovered(proc[p].task, proc[p].d) BY <1>2, <3>1 DEF OnRecord, Recovered
    <3>3. Ends(p) BY <2>3, <3>2 DEF Lookup
    <3>4. proc'[p] = Idle BY <3>3, Goes DEF OnceInv, Leaves
    <3> QED BY <1>2, <3>4, <1>b
  <2>4. CASE Kill(p) BY <2>4, <1>2, <1>b, Paths DEF OnceInv, Leaves
  <2> QED BY <1>2, <2>a, <2>1, <2>2, <2>3, <2>4
          DEF Working, Preflight, Mint, Run, RunRefused, RunEnds, Finalize, Mirror
<1>3. ASSUME NEW q \in Procs, proc'[q].at # "idle", proc'[q].at \notin There
      PROVE  /\ proc[q].at # "idle" /\ proc'[q].d = proc[q].d
             /\ ~OnRecord(proc[q].d)
  <2>1. ASSUME NEW p \in Procs, Working(p)
        PROVE  /\ proc[q].at # "idle" /\ proc'[q].d = proc[q].d
               /\ ~OnRecord(proc[q].d)
    <3>1. Works(p) BY <2>1, WorkingWorks DEF OnceInv
    <3>2. CASE q = p BY <1>2, <1>3, <2>1, <3>1, <3>2, <1>b DEF Works
    <3>3. CASE q # p BY <1>3, <3>1, <3>3 DEF Works, OnceInv, Caught
    <3> QED BY <3>2, <3>3
  <2>2. ASSUME NEW p \in Procs, NEW d \in Deliveries, Reserve(p, d)
        PROVE  /\ proc[q].at # "idle" /\ proc'[q].d = proc[q].d
               /\ ~OnRecord(proc[q].d)
    <3>1. proc'[p].at = "command" /\ \A r \in Procs : r # p => proc'[r] = proc[r]
          BY <2>2, MovesRow DEF Reserve, OnceInv, Base
    <3>2. proc'[q] = proc[q] BY <1>3, <3>1
    <3> QED BY <1>3, <3>2 DEF OnceInv, Caught
  <2>3. CASE proc' = proc BY <1>3, <2>3 DEF OnceInv, Caught
  <2> QED BY <2>1, <2>2, <2>3, NextCases DEF Ages, LoseLedger, vars
<1>4. ASSUME NEW q \in Procs, proc'[q].at # "idle", proc'[q].at \notin There,
             NEW d \in Deliveries, proc[q].d = d
      PROVE  proc'[q].d = d /\ ~Recorded(d)
      BY <1>1, <1>3, <1>4
<1>5. ASSUME NEW q \in Procs, proc'[q].at # "idle", proc'[q].at \notin There
      PROVE  ~(OnRecord(proc[q].d)')
  <2>1. proc[q].d \in Deliveries BY <1>3, <1>5, <1>a
  <2>2. \A d \in Deliveries : proc[q].d = d => proc'[q].d = d /\ ~Recorded(d) BY <1>4, <1>5
  <2> QED BY <2>1, <2>2 DEF OnRecord, Home
<1> QED BY <1>5 DEF Caught

-----------------------------------------------------------------------------
(* Each run but those whose process was killed is on record *)

LEMMA NextCounted == ASSUME Limits, Calm, OnceInv, [Next]_vars PROVE Counted'
<1> SUFFICES ASSUME NEW d \in Deliveries
             PROVE  /\ runs'[d] <= 1 + killed'[d]
                    /\ runs'[d] = 1 + killed'[d] => Ending(d)' \/ OnRecord(d)'
    BY DEF Counted
<1> DEFINE Last == {"running", "finalize", "mirror"}
           Good == /\ runs'[d] <= 1 + killed'[d]
                   /\ runs'[d] = 1 + killed'[d] => Ending(d)' \/ OnRecord(d)'
<1>a. /\ runs[d] \in Nat /\ killed[d] \in Nat
      /\ runs[d] <= 1 + killed[d]
      /\ runs[d] = 1 + killed[d] => Ending(d) \/ OnRecord(d)
      BY DEF OnceInv, Base, FilesOK, Counted
<1>b. Idle.at = "idle" /\ Idle.d = "none" /\ "none" \notin Deliveries BY DEF Idle, Limits
<1>c. OnRecord(d) => OnRecord(d)' BY NextOnRecord DEF OnceInv
<1>d. ASSUME runs'[d] = runs[d], killed'[d] = killed[d], Ending(d) => Ending(d)' PROVE Good
      BY <1>a, <1>c, <1>d
<1>e. ASSUME NEW p \in Procs, proc'[p].d = d, proc'[p].at \in Last PROVE Ending(d)'
      BY <1>e DEF Ending
<1>1. ASSUME NEW p \in Procs, Working(p), proc[p].d # d PROVE Good
  <2>1. Works(p) BY <1>1, WorkingWorks DEF OnceInv
  <2>2. Ending(d) => Ending(d)' BY <1>1, <2>1 DEF Ending, Works
  <2>3. runs'[d] = runs[d] /\ killed'[d] = killed[d]
        BY <1>1 DEF Working, Command, Resolve, Lookup, Preflight, Mint, Run, RunRefused, RunEnds,
                    Finalize, Mirror, Kill, OnceInv, Base, FilesOK
  <2> QED BY <1>d, <2>2, <2>3
<1>2. ASSUME NEW p \in Procs, Working(p), proc[p].d = d PROVE Good
  <2>a. ASSUME proc[p].at \notin Last PROVE ~Ending(d)
        BY <1>2, <1>b, <2>a DEF Ending, OnceInv, Alone
  <2>1. CASE runs' = runs /\ killed' = killed /\ (proc[p].at \in Last => proc'[p].d = d /\ proc'[p].at \in Last)
        BY <1>d, <1>e, <2>a, <2>1
  <2>2. CASE Run(p)
    <3>1. ~Ending(d) BY <2>2, <2>a DEF Run
    <3>2. ~OnRecord(d) BY <1>2, <2>2 DEF Run, OnceInv, Caught
    <3>3. runs'[d] = runs[d] + 1 /\ killed'[d] = killed[d]
          BY <1>2, <2>2 DEF Run, OnceInv, Base, FilesOK
    <3>4. Ending(d)' BY <1>2, <2>2, <1>e, Paths DEF OnceInv, GoesOn
    <3> QED BY <1>a, <3>1, <3>2, <3>3, <3>4
  <2>3. CASE Mirror(p)
    <3>1. runs'[d] = runs[d] /\ killed'[d] = killed[d] BY <2>3 DEF Mirror
    <3>2. ASSUME runs[d] > 0 PROVE OnRecord(d)'
      <4>1. Home(d) \in dirs /\ 0 \notin dirs BY <3>2 DEF OnceInv, Filed, Base, FilesOK, Ids
      <4>2. mirror'[Home(d)][d] \in Terminal BY <1>2, <2>3, <4>1, MirrorMoves DEF OnceInv
      <4>3. Home(d)' = Home(d) BY <2>3 DEF Mirror, Home
      <4> QED BY <4>1, <4>2, <4>3 DEF OnRecord, Terminal
    <3> QED BY <1>a, <3>1, <3>2
  <2>4. CASE Kill(p) /\ proc[p].at \in Last
    <3>1. runs'[d] = runs[d] /\ killed'[d] = killed[d] + 1
          BY <1>2, <2>4 DEF Kill, OnceInv, Base, FilesOK
    <3> QED BY <1>a, <3>1
  <2>5. CASE Kill(p) /\ proc[p].at \notin Last BY <2>1, <2>5 DEF Kill
  <2>6. CASE Finalize(p) \/ \E outcome \in Terminal : RunEnds(p, outcome)
    <3>1. proc'[p].d = d /\ proc'[p].at \in Last BY <1>2, <2>6, Paths DEF OnceInv, GoesOn
    <3> QED BY <2>1, <2>6, <3>1 DEF Finalize, RunEnds
  <2>7. CASE \/ Command(p) \/ Resolve(p) \/ Lookup(p)
             \/ \E allowed \in BOOLEAN : Preflight(p, allowed)
             \/ \E id \in Ids : Mint(p, id)
             \/ RunRefused(p)
        BY <2>1, <2>7 DEF Command, Resolve, Lookup, Preflight, Mint, RunRefused
  <2> QED BY <1>2, <2>2, <2>3, <2>4, <2>5, <2>6, <2>7 DEF Working
<1>3. ASSUME NEW p \in Procs, NEW e \in Deliveries, Reserve(p, e) PROVE Good
  <2>1. \A q \in Procs : q # p => proc'[q] = proc[q] BY <1>3, MovesRow DEF Reserve, OnceInv, Base
  <2>2. Ending(d) => Ending(d)' BY <1>3, <2>1 DEF Ending, Reserve
  <2> QED BY <1>3, <1>d, <2>2 DEF Reserve
<1>4. CASE UNCHANGED <<proc, runs, killed>> BY <1>4, <1>d DEF Ending
<1> QED BY <1>1, <1>2, <1>3, <1>4, NextCases DEF Ages, LoseLedger, vars

\* event-gateway.rb 291-298, 376-392: however often an event is delivered, at once or after the
\* ledger was lost, it runs once and again only for each process killed in or after its run,
\* when no process outlives RESERVATION_STALE_SECONDS and no ledger is lost in mid-delivery.
THEOREM RunsOnceHolds == ASSUME Limits, Calm PROVE Spec => []RunsOnce
<1>1. Init => OnceInv BY InitOnce
<1>2. OnceInv /\ [Next]_vars => OnceInv'
      BY NextBase, NextOwn, NextAlone, NextEnded, NextFiled, NextCaught, NextCounted DEF OnceInv
<1>3. OnceInv => RunsOnce BY DEF OnceInv, Counted, RunsOnce
<1> QED BY <1>1, <1>2, <1>3, PTL DEF Spec
=============================================================================
