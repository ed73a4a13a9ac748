------------------------------- MODULE NewTask -------------------------------
(***************************************************************************)
(* dashboard/server/src/services/newTask.ts and its routes in launch.ts: a    *)
(* task opened from the dashboard.  A request claims the next id with         *)
(* open-task.rb while other lanes claim ids in the same checkout, records the *)
(* task and queues its pm step; the operator reads task.md and confirms,      *)
(* redoes or closes.                                                         *)
(***************************************************************************)
EXTENDS Integers, Sequences, FiniteSets, FiniteSetsExt, SequencesExt

CONSTANTS
    Requests,       \* New task requests
    MaxAttempts,    \* ids tried for one request
    Keep,           \* records kept
    SlowProbe,      \* whether anything may come while Redo probes the CLI
    MaxIds, MaxItems, MaxRestarts    \* bounds

VARIABLES
    dirs,       \* who made the directory of each id of the prefix
    line,       \* requests that wait for the claim before theirs, in order
    reqs,       \* the requests
    records,    \* the records file, newest first
    items,      \* the pm steps in the Run queue, each with its launch and result
    redos,      \* tasks whose Redo waits for the probe of the CLI
    restarts

vars == <<dirs, line, reqs, records, items, redos, restarts>>

Ids == 1..MaxIds
Makers == Requests \cup {"free", "lane"}

Request == [at : {"idle", "listing", "opening", "opened", "done", "refused"},
            id : 0..MaxIds, tries : 0..MaxAttempts]

\* item 0: the pm step could not be queued.  kept is pmOutcome.
Record == [id : Ids, item : 0..MaxItems, kept : {"none", "ok", "bad"},
           confirmed : BOOLEAN, closed : BOOLEAN]

\* An ended item may be dropped by the queue, an ended launch pruned with its result.
Item == [task : Ids, state : {"waiting", "starting", "started", "failed", "cancelled", "gone"},
         run : {"none", "running", "verifying", "ok", "bad", "gone"}]

TypeOK ==
    /\ dirs \in [Ids -> Makers]
    /\ line \in Seq(Requests) /\ reqs \in [Requests -> Request]
    /\ records \in Seq(Record) /\ Len(records) <= Keep
    /\ items \in Seq(Item) /\ redos \subseteq Ids
    /\ restarts \in 0..MaxRestarts

Init ==
    /\ dirs = [i \in Ids |-> "free"]
    /\ line = <<>> /\ reqs = [r \in Requests |-> [at |-> "idle", id |-> 0, tries |-> 0]]
    /\ records = <<>> /\ items = <<>> /\ redos = {} /\ restarts = 0

-----------------------------------------------------------------------------
(* Claiming an id *)

\* parseNewTask: a title and a request, a prefix one may use, and gate presets or
\* a reason for none, not both.  presets: none chosen, known and distinct, or not.
Forms == [title : BOOLEAN, request : BOOLEAN, prefix : BOOLEAN,
          presets : {"none", "known", "unknown"}, reason : BOOLEAN]
Usable(f) == /\ f.title /\ f.request /\ f.prefix
             /\ \/ f.presets = "known" /\ ~f.reason
                \/ f.presets = "none" /\ f.reason

\* create, up to the claim: the requests' claims come one after the other.
Create(r) ==
    /\ reqs[r].at = "idle"
    /\ \E f \in Forms :
          IF Usable(f) THEN /\ reqs' = [reqs EXCEPT ![r].at = "listing"]
                            /\ line' = Append(line, r)
                       ELSE /\ reqs' = [reqs EXCEPT ![r].at = "refused"]
                            /\ UNCHANGED line
    /\ UNCHANGED <<dirs, records, items, redos, restarts>>

NextFree == Max({0} \cup {i \in Ids : dirs[i] # "free"}) + 1

\* nextTaskId, never an id this request has lost already or a lower one.
List(r) ==
    /\ reqs[r].at = "listing" /\ Head(line) = r
    /\ LET id == Max({NextFree, reqs[r].id + 1})
       IN  id \in Ids /\ reqs' = [reqs EXCEPT ![r].at = "opening", ![r].id = id]
    /\ UNCHANGED <<dirs, line, records, items, redos, restarts>>

\* open-task.rb: the directory is made (0), exists (4), or nothing is left of it.
OpenTask(r) ==
    /\ reqs[r].at = "opening"
    /\ \/ /\ dirs[reqs[r].id] = "free"
          /\ dirs' = [dirs EXCEPT ![reqs[r].id] = r]
          /\ reqs' = [reqs EXCEPT ![r].at = "opened"]
          /\ line' = Tail(line)
       \/ /\ dirs[reqs[r].id] # "free"
          /\ LET last == reqs[r].tries + 1 = MaxAttempts
             IN  /\ reqs' = [reqs EXCEPT ![r].at = IF last THEN "refused" ELSE "listing",
                                         ![r].tries = @ + 1]
                 /\ line' = IF last THEN Tail(line) ELSE line
          /\ UNCHANGED dirs
       \/ /\ reqs' = [reqs EXCEPT ![r].at = "refused"]
          /\ line' = Tail(line) /\ UNCHANGED dirs
    /\ UNCHANGED <<records, items, redos, restarts>>

LaneClaims ==
    /\ NextFree \in Ids
    /\ dirs' = [dirs EXCEPT ![NextFree] = "lane"]
    /\ UNCHANGED <<line, reqs, records, items, redos, restarts>>

-----------------------------------------------------------------------------
(* The pm step *)

InFlight(i) == \/ items[i].state \in {"waiting", "starting"}
               \/ items[i].run \in {"running", "verifying"}

\* The queue refuses a second open item of a task.
Pending(t) == \E i \in DOMAIN items : items[i].task = t /\ items[i].state \in {"waiting", "starting"}

NewItem(t) == [task |-> t, state |-> "waiting", run |-> "none"]

\* create, after the claim: the record and its pm step (nothing else knows the task).
AddRecord(r) ==
    /\ reqs[r].at = "opened" /\ Len(items) < MaxItems
    /\ reqs' = [reqs EXCEPT ![r].at = "done"]
    /\ LET new == [id |-> reqs[r].id, item |-> Len(items) + 1, kept |-> "none",
                   confirmed |-> FALSE, closed |-> FALSE]
           all == <<new>> \o records
       IN  records' = SubSeq(all, 1, Min({Keep, Len(all)}))
    /\ items' = Append(items, NewItem(reqs[r].id))
    /\ UNCHANGED <<dirs, line, redos, restarts>>

\* A step of the task in flight keeps the next one waiting.
PmSteps(i) ==
    /\ \/ items[i].state = "waiting" /\ items' = [items EXCEPT ![i].state = "cancelled"]
       \/ /\ items[i].state = "waiting"
          /\ \A j \in DOMAIN items : items[j].task = items[i].task => items[j].run \notin {"running", "verifying"}
          /\ items' = [items EXCEPT ![i].state = "starting"]
       \/ /\ items[i].state = "starting"
          /\ \/ items' = [items EXCEPT ![i].state = "failed"]
             \/ items' = [items EXCEPT ![i].state = "started", ![i].run = "running"]
       \/ items[i].run = "running" /\ items' = [items EXCEPT ![i].run = "verifying"]
       \/ items[i].run = "verifying" /\ \E o \in {"ok", "bad"} : items' = [items EXCEPT ![i].run = o]
    /\ UNCHANGED <<dirs, line, reqs, records, redos, restarts>>

\* Old entries go, never while the step runs: fewer items end meanwhile than are kept.
Dropped(i) ==
    /\ \/ /\ items[i].state \in {"started", "failed", "cancelled"}
          /\ items[i].run \notin {"running", "verifying"}
          /\ items' = [items EXCEPT ![i].state = "gone"]
       \/ items[i].run \in {"ok", "bad"} /\ items' = [items EXCEPT ![i].run = "gone"]
    /\ UNCHANGED <<dirs, line, reqs, records, redos, restarts>>

-----------------------------------------------------------------------------
(* The operator's view of it *)

Kept(rec) == CASE rec.kept = "ok" -> "verified" [] rec.kept = "bad" -> "failed"

\* pmStepStatus; "open" stands for queued, starting, running and verifying.
PmStatus(rec) ==
    IF rec.item = 0 THEN "not started"
    ELSE CASE items[rec.item].state = "gone" -> IF rec.kept = "none" THEN "not started" ELSE Kept(rec)
           [] items[rec.item].state \in {"waiting", "starting"} -> "open"
           [] items[rec.item].state \in {"failed", "cancelled"} -> "not started"
           [] items[rec.item].state = "started" ->
                CASE items[rec.item].run \in {"running", "verifying"} -> "open"
                  [] items[rec.item].run = "ok" -> "verified"
                  [] items[rec.item].run = "bad" -> "failed"
                  [] items[rec.item].run = "gone" -> IF rec.kept = "none" THEN "failed" ELSE Kept(rec)

\* The final outcomes that view keeps on the record.
Final(rec) ==
    /\ rec.item # 0
    /\ \/ items[rec.item].state \in {"failed", "cancelled"}
       \/ /\ items[rec.item].state = "started"
          /\ \/ items[rec.item].run \in {"ok", "bad"}
             \/ items[rec.item].run = "gone" /\ rec.kept = "none"

Viewed(rec) == IF Final(rec) THEN [rec EXCEPT !.kept = IF PmStatus(rec) = "verified" THEN "ok" ELSE "bad"]
                             ELSE rec

State(rec) ==
    CASE rec.closed -> "closed"
      [] rec.confirmed /\ ~rec.closed -> "confirmed"
      [] ~rec.confirmed /\ ~rec.closed ->
            CASE PmStatus(rec) = "verified" -> "review"
              [] PmStatus(rec) \in {"failed", "not started"} -> "pm-failed"
              [] PmStatus(rec) = "open" -> "pm"

Listed == {records[k].id : k \in DOMAIN records}
Rec(t) == records[CHOOSE k \in DOMAIN records : records[k].id = t]
Put(rec) == [k \in DOMAIN records |-> IF records[k].id = rec.id THEN rec ELSE records[k]]

View(t) ==
    /\ records' = Put(Viewed(Rec(t)))
    /\ UNCHANGED <<dirs, line, reqs, items, redos, restarts>>

\* Slip: a failed pm step may be confirmed as well.
ConfirmAnyhow(t) ==
    /\ State(Rec(t)) \in {"review", "confirmed", "pm-failed"}
    /\ records' = Put([Viewed(Rec(t)) EXCEPT !.confirmed = TRUE])
    /\ UNCHANGED <<dirs, line, reqs, items, redos, restarts>>

Confirm(t) ==
    /\ State(Rec(t)) \in {"review", "confirmed"}
    /\ records' = Put([Viewed(Rec(t)) EXCEPT !.confirmed = TRUE])
    /\ UNCHANGED <<dirs, line, reqs, items, redos, restarts>>

Close(t) ==
    /\ State(Rec(t)) # "pm"
    /\ records' = Put([Viewed(Rec(t)) EXCEPT !.closed = TRUE])
    /\ UNCHANGED <<dirs, line, reqs, items, redos, restarts>>

MayRedo(rec) == State(rec) \in {"pm-failed", "review"}

\* redo checks the state, awaits the probe of the CLI and queues another pm step.
BeginRedo(t) ==
    /\ t \notin redos /\ Len(items) + Cardinality(redos) < MaxItems
    /\ MayRedo(Rec(t))
    /\ SlowProbe \/ redos = {}
    /\ redos' = redos \cup {t}
    /\ records' = Put(Viewed(Rec(t)))
    /\ UNCHANGED <<dirs, line, reqs, items, restarts>>

\* setPmStep; with SlowProbe the record may be gone by now, which throws after the enqueue.
SetPmStep(t, item) ==
    records' = [k \in DOMAIN records |->
                   IF records[k].id = t THEN [records[k] EXCEPT !.item = item, !.kept = "none"] ELSE records[k]]

FinishRedo(t) ==
    /\ t \in redos
    /\ redos' = redos \ {t}
    /\ IF Pending(t) THEN SetPmStep(t, 0) /\ UNCHANGED items
                     ELSE SetPmStep(t, Len(items) + 1) /\ items' = Append(items, NewItem(t))
    /\ UNCHANGED <<dirs, line, reqs, restarts>>

\* Requests are lost, also between the claim and the record.
Restart ==
    /\ restarts < MaxRestarts
    /\ restarts' = restarts + 1
    /\ line' = <<>> /\ redos' = {}
    /\ reqs' = [r \in Requests |-> IF reqs[r].at \in {"listing", "opening", "opened"}
                                   THEN [reqs[r] EXCEPT !.at = "refused"] ELSE reqs[r]]
    /\ UNCHANGED <<dirs, records, items>>

Operator(t) == View(t) \/ Confirm(t) \/ Close(t) \/ BeginRedo(t)

Next ==
    \/ \E t \in redos : FinishRedo(t)
    \/ /\ SlowProbe \/ redos = {}
       /\ \/ \E r \in Requests : Create(r) \/ List(r) \/ OpenTask(r) \/ AddRecord(r)
          \/ LaneClaims \/ Restart
          \/ \E i \in DOMAIN items : PmSteps(i) \/ Dropped(i)
          \/ \E t \in Listed : Operator(t)

Spec == Init /\ [][Next]_vars

-----------------------------------------------------------------------------

\* newTask.ts 23-26, 306: what the operator confirmed is verified and final: no pm
\* step of the task is out that could still rewrite its task.md, and none comes.
ConfirmedIsFinal ==
    TypeOK /\ \A t \in Listed : Rec(t).confirmed =>
        /\ Rec(t).kept = "ok"
        /\ \A i \in DOMAIN items : items[i].task = t => ~InFlight(i)

\* types.ts 1379: once seen, a verified pm step stays so while the queue forgets its
\* item and its launch is pruned, until it is redone.
OutcomeKept ==
    [][\A t \in Listed :
          /\ Rec(t).kept = "ok"
          /\ (t \in Listed)' /\ (Rec(t).item)' = Rec(t).item
          => (Rec(t).kept = "ok" /\ State(Rec(t)) \in {"review", "confirmed", "closed"})']_vars
=============================================================================
