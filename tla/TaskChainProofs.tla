---------------------------- MODULE TaskChainProofs ----------------------------
(***************************************************************************)
(* What holds of the role chains of a task for any requests, caps, numbers   *)
(* of chains and items, and restarts.                                       *)
(***************************************************************************)
EXTENDS TaskChain, FiniteSetTheorems, SequenceTheorems, TLAPS

-----------------------------------------------------------------------------
(* The inductive invariant *)

\* The item of a chain's last step.
LastItem(c) == chains[c].steps[Len(chains[c].steps)].item

\* An item has a launch only once its start spawned one, and a verified launch
\* only once it is started.
ItemsInShape ==
    \A i \in DOMAIN items :
        /\ items[i].state \in {"waiting", "failed", "cancelled"} => items[i].step = "none"
        /\ items[i].step \in {"ok", "bad"} => items[i].state = "started"

OneOpenItem ==
    \A i, j \in DOMAIN items : items[i].state \in Open /\ items[j].state \in Open => i = j

\* Each step has an item of its own chain, queued after those of the steps before.
StepsHaveItems ==
    \A c \in DOMAIN chains :
        LET steps == chains[c].steps IN
        /\ Len(steps) >= 1
        /\ \A k \in DOMAIN steps :
              /\ steps[k].item \in DOMAIN items /\ items[steps[k].item].chain = c
              /\ steps[k].launched => items[steps[k].item].state = "started"
              /\ k <= steps[k].item
              /\ \A l \in DOMAIN steps : k < l => steps[k].item < steps[l].item

\* Each item of a chain is the item of one of its steps, the open one of the last.
ItemsHaveSteps ==
    \A i \in DOMAIN items :
        LET c == items[i].chain IN
        c # 0 => /\ c \in DOMAIN chains
                 /\ \E k \in DOMAIN chains[c].steps : chains[c].steps[k].item = i
                 /\ items[i].state \in Open => i = LastItem(c)

StoppedNotWaiting ==
    \A c \in DOMAIN chains :
        chains[c].ended = "operator" => items[LastItem(c)].state # "waiting"

\* What the timer and the requests work on is on file.
OnFile ==
    /\ \A p \in Procs : procs[p].at \in {"queueing", "advance", "deciding", "preflight"} =>
          procs[p].chain \in DOMAIN chains
    /\ \A n \in DOMAIN todo : todo[n].chain \in DOMAIN chains

FilesFit ==
    /\ ItemsInShape /\ OneOpenItem /\ StepsHaveItems /\ ItemsHaveSteps
    /\ StoppedNotWaiting

ChainInv == TypeOK /\ FilesFit /\ OnFile

\* A start is over before its step is verified: only the timer goes on from it.
StartsStayBehind ==
    \A r \in Requests :
        /\ procs[r].at \notin {"deciding", "preflight"}
        /\ procs[r].at \in {"queueing", "advance"} =>
              LET c == procs[r].chain IN
              Len(chains[c].steps) = 1 /\ items[LastItem(c)].step \notin {"ok", "bad"}

\* Between the decision and the next step, the last one is a verified one.
GoesOnFromVerified ==
    LET t == procs["timer"]
        n == Len(chains[t.chain].steps)
    IN  t.at \in {"deciding", "preflight"} =>
           /\ chains[t.chain].steps[n].launched /\ items[LastItem(t.chain)].step = "ok"
           /\ t.at = "deciding" => t.length = n
           /\ t.at = "preflight" => n < Cap

\* All steps but the last were verified.
OthersVerified ==
    \A c \in DOMAIN chains :
        LET steps == chains[c].steps
            n     == Len(steps)
        IN  /\ n <= Cap
            /\ \A k \in DOMAIN steps : k < n => steps[k].launched /\ items[steps[k].item].step = "ok"

OrderInv == ChainInv /\ StartsStayBehind /\ GoesOnFromVerified /\ OthersVerified

-----------------------------------------------------------------------------
(* Lemmas about sequences *)

\* A function with the right domain and values is a sequence.
LEMMA SeqMade ==
    ASSUME NEW S, NEW n \in Nat, NEW f, f = [i \in 1..n |-> f[i]],
           \A i \in 1..n : f[i] \in S
    PROVE  f \in Seq(S) /\ Len(f) = n /\ DOMAIN f = 1..n
<1>1. f \in [1..n -> S]
  OBVIOUS
<1> QED BY <1>1

LEMMA SeqParts ==
    ASSUME NEW S, NEW s \in Seq(S)
    PROVE  /\ Len(s) \in Nat /\ DOMAIN s = 1..Len(s)
           /\ \A i \in DOMAIN s : s[i] \in S
           /\ s = [i \in 1..Len(s) |-> s[i]]
  OBVIOUS

LEMMA SeqExcept ==
    ASSUME NEW S, NEW s \in Seq(S), NEW i \in DOMAIN s, NEW x \in S
    PROVE  LET t == [s EXCEPT ![i] = x] IN
           /\ t \in Seq(S) /\ Len(t) = Len(s) /\ DOMAIN t = DOMAIN s
           /\ t[i] = x /\ \A j \in DOMAIN s : j # i => t[j] = s[j]
<1> DEFINE t == [s EXCEPT ![i] = x]
<1>1. DOMAIN t = DOMAIN s /\ t[i] = x /\ \A j \in DOMAIN s : j # i => t[j] = s[j]
  OBVIOUS
<1>2. Len(s) \in Nat /\ DOMAIN s = 1..Len(s) /\ \A j \in DOMAIN s : s[j] \in S
  BY SeqParts
<1>3. t = [j \in 1..Len(s) |-> t[j]]
  BY <1>2
<1> HIDE DEF t
<1>4. \A j \in 1..Len(s) : t[j] \in S
  BY <1>1, <1>2
<1>5. t \in [1..Len(s) -> S]
  BY <1>3, <1>4
<1>6. t \in Seq(S) /\ Len(t) = Len(s)
  BY <1>2, <1>5
<1> QED BY <1>1, <1>6 DEF t

LEMMA SeqAppend ==
    ASSUME NEW S, NEW s \in Seq(S), NEW x \in S
    PROVE  LET t == Append(s, x) IN
           /\ t \in Seq(S) /\ Len(t) = Len(s) + 1 /\ DOMAIN t = DOMAIN s \cup {Len(s) + 1}
           /\ t[Len(s) + 1] = x /\ \A j \in DOMAIN s : t[j] = s[j]
  OBVIOUS

-----------------------------------------------------------------------------
(* How a step may change the items and the chains that are on file *)

ItemMoves(i) ==
    /\ items'[i] \in Item /\ items'[i].chain = items[i].chain
    /\ items[i].state = "started" => items'[i].state = "started"
    /\ items'[i].state \in Open => items[i].state \in Open
    /\ items'[i].state = "waiting" => items[i].state = "waiting"
    /\ items'[i].state \in {"waiting", "failed", "cancelled"} => items'[i].step = "none"
    /\ items'[i].step \in {"ok", "bad"} => items'[i].state = "started"
    /\ items[i].step = "ok" => items'[i].step = "ok"
    /\ items'[i].step \in {"ok", "bad"} => items[i].step = items'[i].step \/ Verified(i)

ItemsMove ==
    /\ items' \in Seq(Item) /\ Len(items') = Len(items) /\ DOMAIN items' = DOMAIN items
    /\ \A i \in DOMAIN items : ItemMoves(i)

ChainMoves(c) ==
    LET old == chains[c].steps
        new == chains'[c].steps
    IN
    /\ DOMAIN new = DOMAIN old /\ Len(new) = Len(old)
    /\ \A k \in DOMAIN old :
          /\ new[k].item = old[k].item
          /\ old[k].launched => new[k].launched
          /\ new[k].launched => old[k].launched \/ items'[old[k].item].state = "started"
    /\ chains[c].ended # "no" => chains'[c].ended = chains[c].ended
    /\ chains'[c].ended = "operator" =>
          chains[c].ended = "operator" \/ items'[LastItem(c)].state # "waiting"

ChainsMove ==
    /\ chains' \in Seq(Chain) /\ Len(chains') = Len(chains) /\ DOMAIN chains' = DOMAIN chains
    /\ \A c \in DOMAIN chains : ChainMoves(c)

LEMMA FileTypes ==
    ASSUME TypeOK
    PROVE  /\ Len(items) \in Nat /\ DOMAIN items = 1..Len(items)
           /\ \A i \in DOMAIN items : items[i] \in Item
           /\ Len(chains) \in Nat /\ DOMAIN chains = 1..Len(chains)
           /\ \A c \in DOMAIN chains :
                 /\ chains[c] \in Chain /\ chains[c].steps \in Seq(Step)
                 /\ Len(chains[c].steps) \in Nat
                 /\ DOMAIN chains[c].steps = 1..Len(chains[c].steps)
                 /\ \A k \in DOMAIN chains[c].steps : chains[c].steps[k] \in Step
<1>1. items \in Seq(Item) /\ chains \in Seq(Chain)
  BY DEF TypeOK
<1>2. /\ Len(items) \in Nat /\ DOMAIN items = 1..Len(items)
      /\ \A i \in DOMAIN items : items[i] \in Item
  BY <1>1, SeqParts
<1>3. /\ Len(chains) \in Nat /\ DOMAIN chains = 1..Len(chains)
      /\ \A c \in DOMAIN chains : chains[c] \in Chain
  BY <1>1, SeqParts
<1>4. ASSUME NEW c \in DOMAIN chains
      PROVE  /\ chains[c].steps \in Seq(Step) /\ Len(chains[c].steps) \in Nat
             /\ DOMAIN chains[c].steps = 1..Len(chains[c].steps)
             /\ \A k \in DOMAIN chains[c].steps : chains[c].steps[k] \in Step
  <2>1. chains[c].steps \in Seq(Step)
    BY <1>3 DEF Chain
  <2> QED BY <2>1, SeqParts
<1> QED BY <1>2, <1>3, <1>4

\* The last step of a chain and its item.
LEMMA LastStep ==
    ASSUME TypeOK, StepsHaveItems, NEW c \in DOMAIN chains
    PROVE  LET n == Len(chains[c].steps) IN
           /\ n \in DOMAIN chains[c].steps /\ n <= Len(items)
           /\ chains[c].steps[n] \in Step /\ LastItem(c) = chains[c].steps[n].item
           /\ LastItem(c) \in DOMAIN items /\ items[LastItem(c)].chain = c
           /\ chains[c].steps[n].launched => items[LastItem(c)].state = "started"
           /\ Last(chains[c].steps) = chains[c].steps[n]
<1> DEFINE n == Len(chains[c].steps)
<1>1. n \in Nat /\ n >= 1 /\ n \in DOMAIN chains[c].steps /\ chains[c].steps[n] \in Step
  BY FileTypes DEF StepsHaveItems
<1>2. /\ LastItem(c) = chains[c].steps[n].item
      /\ LastItem(c) \in DOMAIN items /\ items[LastItem(c)].chain = c
      /\ chains[c].steps[n].launched => items[LastItem(c)].state = "started"
      /\ n <= LastItem(c)
  BY <1>1 DEF StepsHaveItems, LastItem
<1>3. n <= Len(items)
  BY <1>1, <1>2, FileTypes
<1> QED BY <1>1, <1>2, <1>3 DEF Last

\* Moves of what is on file keep it fitting.
LEMMA MovesFit ==
    ASSUME TypeOK, FilesFit, ItemsMove, ChainsMove
    PROVE  FilesFit'
<1>1. /\ ItemsInShape /\ OneOpenItem /\ StepsHaveItems /\ ItemsHaveSteps /\ StoppedNotWaiting
      /\ DOMAIN items' = DOMAIN items /\ DOMAIN chains' = DOMAIN chains
  BY DEF FilesFit, ItemsMove, ChainsMove
<1>2. ItemsInShape' /\ OneOpenItem'
  BY <1>1 DEF ItemsMove, ItemMoves, ItemsInShape, OneOpenItem
<1>3. \A c \in DOMAIN chains :
         /\ DOMAIN chains'[c].steps = DOMAIN chains[c].steps
         /\ Len(chains'[c].steps) = Len(chains[c].steps)
         /\ \A k \in DOMAIN chains[c].steps : chains'[c].steps[k].item = chains[c].steps[k].item
  BY DEF ChainsMove, ChainMoves
<1>4. \A c \in DOMAIN chains : LastItem(c)' = LastItem(c)
  <2> SUFFICES ASSUME NEW c \in DOMAIN chains PROVE LastItem(c)' = LastItem(c)
    OBVIOUS
  <2>1. Len(chains[c].steps) \in DOMAIN chains[c].steps
    BY <1>1, LastStep
  <2> QED BY <1>3, <2>1 DEF LastItem
<1>5. StepsHaveItems'
  <2> SUFFICES ASSUME NEW c \in DOMAIN chains
               PROVE  LET steps == chains'[c].steps IN
                      /\ Len(steps) >= 1
                      /\ \A k \in DOMAIN steps :
                            /\ steps[k].item \in DOMAIN items
                            /\ items'[steps[k].item].chain = c
                            /\ steps[k].launched => items'[steps[k].item].state = "started"
                            /\ k <= steps[k].item
                            /\ \A l \in DOMAIN steps : k < l => steps[k].item < steps[l].item
    BY <1>1 DEF StepsHaveItems
  <2>1. Len(chains'[c].steps) >= 1
    BY <1>1, <1>3 DEF StepsHaveItems
  <2>2. ASSUME NEW k \in DOMAIN chains[c].steps
        PROVE  LET i == chains[c].steps[k].item IN
               /\ i \in DOMAIN items /\ items'[i].chain = c
               /\ chains'[c].steps[k].launched => items'[i].state = "started"
               /\ k <= i /\ \A l \in DOMAIN chains[c].steps : k < l => i < chains[c].steps[l].item
    <3> DEFINE i == chains[c].steps[k].item
    <3>1. /\ i \in DOMAIN items /\ items[i].chain = c /\ k <= i
          /\ chains[c].steps[k].launched => items[i].state = "started"
          /\ \A l \in DOMAIN chains[c].steps : k < l => i < chains[c].steps[l].item
      BY <1>1 DEF StepsHaveItems
    <3>2. ItemMoves(i)
      BY <3>1 DEF ItemsMove
    <3>3. chains'[c].steps[k].launched => chains[c].steps[k].launched \/ items'[i].state = "started"
      BY DEF ChainsMove, ChainMoves
    <3> QED BY <3>1, <3>2, <3>3 DEF ItemMoves
  <2> QED BY <1>3, <2>1, <2>2
<1>6. ItemsHaveSteps'
  <2> SUFFICES ASSUME NEW i \in DOMAIN items, NEW c, c = items[i].chain, c # 0
               PROVE  /\ c \in DOMAIN chains
                      /\ \E k \in DOMAIN chains'[c].steps : chains'[c].steps[k].item = i
                      /\ items'[i].state \in Open => i = LastItem(c)'
    BY <1>1 DEF ItemsHaveSteps, ItemsMove, ItemMoves
  <2>1. /\ c \in DOMAIN chains /\ \E k \in DOMAIN chains[c].steps : chains[c].steps[k].item = i
        /\ items[i].state \in Open => i = LastItem(c)
    BY <1>1 DEF ItemsHaveSteps
  <2>2. items'[i].state \in Open => items[i].state \in Open
    BY DEF ItemsMove, ItemMoves
  <2> QED BY <1>3, <1>4, <2>1, <2>2
<1>7. StoppedNotWaiting'
  <2> SUFFICES ASSUME NEW c \in DOMAIN chains, chains'[c].ended = "operator"
               PROVE  items'[LastItem(c)].state # "waiting"
    BY <1>1, <1>4 DEF StoppedNotWaiting
  <2>1. CASE chains[c].ended = "operator"
    <3>1. items[LastItem(c)].state # "waiting" /\ LastItem(c) \in DOMAIN items
      BY <1>1, <2>1, LastStep DEF StoppedNotWaiting
    <3> QED BY <3>1 DEF ItemsMove, ItemMoves
  <2>2. CASE chains[c].ended # "operator"
    BY <2>2 DEF ChainsMove, ChainMoves
  <2> QED BY <2>1, <2>2
<1> QED BY <1>2, <1>5, <1>6, <1>7 DEF FilesFit

LEMMA SameItemsMove ==
    ASSUME TypeOK, FilesFit, items' = items
    PROVE  ItemsMove
<1>1. items \in Seq(Item) /\ \A i \in DOMAIN items : items[i] \in Item
  BY FileTypes DEF TypeOK
<1>2. \A i \in DOMAIN items : ItemMoves(i)
  BY <1>1 DEF ItemMoves, FilesFit, ItemsInShape
<1> QED BY <1>1, <1>2 DEF ItemsMove

LEMMA SameChainsMove ==
    ASSUME TypeOK, chains' = chains
    PROVE  ChainsMove
  BY DEF ChainsMove, ChainMoves, TypeOK

\* One item changes its state or its step.
LEMMA OneItemMoves ==
    ASSUME TypeOK, FilesFit, NEW i \in DOMAIN items,
           NEW state \in {"waiting", "starting", "started", "failed", "cancelled"},
           NEW step \in {"none", "running", "stopping", "verifying", "ok", "bad"},
           items' = [items EXCEPT
                        ![i] = [chain |-> items[i].chain, state |-> state, step |-> step]],
           items[i].state = "started" => state = "started",
           state \in Open => items[i].state \in Open,
           state = "waiting" => items[i].state = "waiting",
           state \in {"waiting", "failed", "cancelled"} => step = "none",
           step \in {"ok", "bad"} => state = "started",
           items[i].step = "ok" => step = "ok",
           step \in {"ok", "bad"} => items[i].step = step \/ Verified(i)
    PROVE  ItemsMove
<1> DEFINE x == [chain |-> items[i].chain, state |-> state, step |-> step]
<1>1. items \in Seq(Item) /\ \A j \in DOMAIN items : items[j] \in Item
  BY FileTypes DEF TypeOK
<1>2. x \in Item /\ x.chain = items[i].chain /\ x.state = state /\ x.step = step
  BY <1>1 DEF Item
<1> HIDE DEF x
<1>3. /\ items' \in Seq(Item) /\ Len(items') = Len(items) /\ DOMAIN items' = DOMAIN items
      /\ items'[i] = x /\ \A j \in DOMAIN items : j # i => items'[j] = items[j]
  <2>1. items' = [items EXCEPT ![i] = x]
    BY DEF x
  <2> QED BY <1>1, <1>2, <2>1, SeqExcept
<1>4. ItemMoves(i)
  BY <1>2, <1>3 DEF ItemMoves
<1>5. \A j \in DOMAIN items : j # i => ItemMoves(j)
  BY <1>1, <1>3 DEF ItemMoves, FilesFit, ItemsInShape
<1> QED BY <1>3, <1>4, <1>5 DEF ItemsMove

\* Setting one field of an item.
LEMMA FieldSet ==
    ASSUME NEW i \in DOMAIN items, items[i] \in Item, NEW v
    PROVE  /\ [items EXCEPT ![i].state = v] =
                 [items EXCEPT ![i] = [chain |-> items[i].chain, state |-> v,
                                       step |-> items[i].step]]
           /\ [items EXCEPT ![i].step = v] =
                 [items EXCEPT ![i] = [chain |-> items[i].chain, state |-> items[i].state,
                                       step |-> v]]
<1>1. /\ [items[i] EXCEPT !.state = v] =
            [chain |-> items[i].chain, state |-> v, step |-> items[i].step]
      /\ [items[i] EXCEPT !.step = v] =
            [chain |-> items[i].chain, state |-> items[i].state, step |-> v]
  BY DEF Item
<1>2. /\ [items EXCEPT ![i].state = v] = [items EXCEPT ![i] = [items[i] EXCEPT !.state = v]]
      /\ [items EXCEPT ![i].step = v] = [items EXCEPT ![i] = [items[i] EXCEPT !.step = v]]
  OBVIOUS
<1> QED BY <1>1, <1>2

\* What the queue, the agents and the operator do with an item.
QueueStep(i) ==
    \/ Pick(i) \/ StartGoesOn(i) \/ Verified(i) \/ CancelItem(i)
    \/ LaunchEnds(i, "running") \/ LaunchEnds(i, "stopping")

LEMMA QueueStepMoves ==
    ASSUME TypeOK, FilesFit, NEW i \in DOMAIN items, QueueStep(i)
    PROVE  ItemsMove /\ UNCHANGED <<chains, procs, todo, watch, crashes>>
<1>1. /\ items[i] \in Item
      /\ items[i].state \in {"waiting", "failed", "cancelled"} => items[i].step = "none"
      /\ items[i].step \in {"ok", "bad"} => items[i].state = "started"
  BY FileTypes DEF FilesFit, ItemsInShape
<1>2. \A v :
         /\ [items EXCEPT ![i].state = v] =
               [items EXCEPT ![i] = [chain |-> items[i].chain, state |-> v,
                                     step |-> items[i].step]]
         /\ [items EXCEPT ![i].step = v] =
               [items EXCEPT ![i] = [chain |-> items[i].chain, state |-> items[i].state,
                                     step |-> v]]
  BY <1>1, FieldSet
<1>3. CASE Pick(i)
  <2>1. items[i].state = "waiting" /\ items' = [items EXCEPT ![i].state = "starting"]
    BY <1>3 DEF Pick
  <2>2. items' = [items EXCEPT ![i] = [chain |-> items[i].chain, state |-> "starting",
                                       step |-> "none"]]
    BY <1>1, <1>2, <2>1
  <2>3. ItemsMove
    BY <1>1, <2>1, <2>2, OneItemMoves DEF Open
  <2> QED BY <1>3, <2>3 DEF Pick
<1>4. CASE StartGoesOn(i)
  <2>1. items[i].state = "starting"
    BY <1>4 DEF StartGoesOn
  <2>2. CASE items' = [items EXCEPT ![i].step = "running"] /\ items[i].step = "none"
    BY <1>1, <1>2, <1>4, <2>1, <2>2, OneItemMoves DEF StartGoesOn, Open, Item
  <2>3. CASE items' = [items EXCEPT ![i].state = "failed"] /\ items[i].step = "none"
    BY <1>1, <1>2, <1>4, <2>1, <2>3, OneItemMoves DEF StartGoesOn, Open, Item
  <2>4. CASE items' = [items EXCEPT ![i].state = "started"] /\ items[i].step # "none"
    BY <1>1, <1>2, <1>4, <2>1, <2>4, OneItemMoves DEF StartGoesOn, Open, Item
  <2> QED BY <1>4, <2>2, <2>3, <2>4 DEF StartGoesOn
<1>5. CASE Verified(i)
  <2>1. PICK o \in {"ok", "bad"} : items' = [items EXCEPT ![i].step = o]
    BY <1>5 DEF Verified, StepOutcome
  <2>2. items[i].step = "verifying" /\ items[i].state = "started"
    BY <1>5 DEF Verified
  <2> QED BY <1>1, <1>2, <1>5, <2>1, <2>2, OneItemMoves DEF Verified, Open, Item
<1>6. CASE CancelItem(i)
  <2>1. items[i].state = "waiting" /\ items' = [items EXCEPT ![i].state = "cancelled"]
    BY <1>6 DEF CancelItem
  <2> QED BY <1>1, <1>2, <1>6, <2>1, OneItemMoves DEF CancelItem, Open, Item
<1>7. CASE LaunchEnds(i, "running") \/ LaunchEnds(i, "stopping")
  <2>1. items[i].step \in {"running", "stopping"} /\ items' = [items EXCEPT ![i].step = "verifying"]
    BY <1>7 DEF LaunchEnds
  <2> QED BY <1>1, <1>2, <1>7, <2>1, OneItemMoves DEF LaunchEnds, Open, Item
<1> QED BY <1>3, <1>4, <1>5, <1>6, <1>7 DEF QueueStep

\* Stopping a launch.
LEMMA StoppedMoves ==
    ASSUME TypeOK, FilesFit, NEW i \in DOMAIN items, items' = Stopped(items, i)
    PROVE  ItemsMove
<1>1. /\ items[i] \in Item
      /\ items[i].state \in {"waiting", "failed", "cancelled"} => items[i].step = "none"
  BY FileTypes DEF FilesFit, ItemsInShape
<1>2. CASE items[i].step = "running"
  <2>1. items' = [items EXCEPT ![i] = [chain |-> items[i].chain, state |-> items[i].state,
                                       step |-> "stopping"]]
    BY <1>1, <1>2, FieldSet DEF Stopped
  <2>2. /\ items[i].state \in {"starting", "started"} /\ "stopping" \notin {"ok", "bad"}
        /\ items[i].step # "ok"
    BY <1>1, <1>2 DEF Item
  <2> QED BY <2>1, <2>2, OneItemMoves
<1>3. CASE items[i].step # "running"
  BY <1>3, SameItemsMove DEF Stopped
<1> QED BY <1>2, <1>3

LEMMA CrashMoves ==
    ASSUME TypeOK, FilesFit, Crash
    PROVE  ItemsMove /\ chains' = chains
<1>1. /\ Len(items) \in Nat /\ DOMAIN items = 1..Len(items)
      /\ \A i \in DOMAIN items : items[i] \in Item
  BY FileTypes
<1>2. items' = [i \in DOMAIN items |->
                   IF items[i].state # "starting" THEN items[i]
                   ELSE [items[i] EXCEPT !.state =
                            IF items[i].step = "none" THEN "failed" ELSE "started"]]
  BY DEF Crash
<1>3. ASSUME NEW i \in DOMAIN items PROVE ItemMoves(i)
  <2>1. CASE items[i].state # "starting"
    <3>1. items'[i] = items[i]
      BY <1>2, <2>1
    <3> QED BY <1>1, <2>1, <3>1 DEF ItemMoves, FilesFit, ItemsInShape
  <2>2. CASE items[i].state = "starting"
    <3>1. items'[i] = [items[i] EXCEPT !.state =
                          IF items[i].step = "none" THEN "failed" ELSE "started"]
      BY <1>2, <2>2
    <3>2. /\ items'[i] \in Item /\ items'[i].chain = items[i].chain
          /\ items'[i].step = items[i].step
          /\ items'[i].state = IF items[i].step = "none" THEN "failed" ELSE "started"
      BY <1>1, <3>1 DEF Item
    <3> QED BY <2>2, <3>2 DEF ItemMoves, Open
  <2> QED BY <2>1, <2>2
<1>4. items' \in Seq(Item) /\ Len(items') = Len(items) /\ DOMAIN items' = DOMAIN items
  <2>1. DOMAIN items' = 1..Len(items) /\ items' = [i \in 1..Len(items) |-> items'[i]]
    BY <1>1, <1>2
  <2>2. \A i \in 1..Len(items) : items'[i] \in Item
    BY <1>1, <1>3 DEF ItemMoves
  <2>3. items' \in [1..Len(items) -> Item]
    BY <2>1, <2>2
  <2> QED BY <1>1, <2>3
<1> QED BY <1>3, <1>4 DEF ItemsMove, Crash

\* One chain changes; its steps stay but for what the last one became.
LEMMA OneChainMoves ==
    ASSUME TypeOK, NEW c \in DOMAIN chains, NEW x \in Chain,
           chains' = [chains EXCEPT ![c] = x], ChainMoves(c)
    PROVE  ChainsMove
<1>1. chains \in Seq(Chain)
  BY DEF TypeOK
<1>2. /\ chains' \in Seq(Chain) /\ Len(chains') = Len(chains) /\ DOMAIN chains' = DOMAIN chains
      /\ \A d \in DOMAIN chains : d # c => chains'[d] = chains[d]
  BY <1>1, SeqExcept
<1>3. \A d \in DOMAIN chains : d # c => ChainMoves(d)
  BY <1>2 DEF ChainMoves
<1> QED BY <1>2, <1>3 DEF ChainsMove

LEMMA PatchedMoves ==
    ASSUME TypeOK, FilesFit, NEW c \in DOMAIN chains, NEW ended \in Endings,
           NEW step \in Step, chains' = Patched(c, ended, step),
           step.item = LastItem(c), Last(chains[c].steps).launched => step.launched,
           step.launched => \/ Last(chains[c].steps).launched
                            \/ items'[LastItem(c)].state = "started",
           chains[c].ended # "no" => ended = chains[c].ended,
           ended = "operator" => \/ chains[c].ended = "operator"
                                 \/ items'[LastItem(c)].state # "waiting"
    PROVE  /\ ChainsMove /\ chains'[c].ended = ended
           /\ chains'[c].steps[Len(chains[c].steps)] = step
           /\ \A k \in DOMAIN chains[c].steps :
                 k # Len(chains[c].steps) => chains'[c].steps[k] = chains[c].steps[k]
<1> DEFINE old == chains[c].steps
           n == Len(old)
           new == [old EXCEPT ![n] = step]
           x == [ended |-> ended, steps |-> new]
<1>1. old \in Seq(Step) /\ n \in DOMAIN old /\ Last(old) = old[n] /\ LastItem(c) = old[n].item
  BY FileTypes, LastStep DEF FilesFit
<1>2. /\ new \in Seq(Step) /\ Len(new) = n /\ DOMAIN new = DOMAIN old /\ new[n] = step
      /\ \A k \in DOMAIN old : k # n => new[k] = old[k]
  BY <1>1, SeqExcept
<1>3. chains' = [chains EXCEPT ![c] = x] /\ chains'[c] = x
  BY DEF Patched
<1>4. x \in Chain /\ chains'[c].ended = ended /\ chains'[c].steps = new
  <2> HIDE DEF new
  <2> QED BY <1>2, <1>3 DEF Chain, Endings
<1> HIDE DEF x, new
<1>5. \A k \in DOMAIN old :
         /\ new[k].item = old[k].item
         /\ old[k].launched => new[k].launched
         /\ new[k].launched => old[k].launched \/ items'[old[k].item].state = "started"
  BY <1>1, <1>2
<1>6. ChainMoves(c)
  BY <1>2, <1>4, <1>5 DEF ChainMoves
<1> QED BY <1>1, <1>2, <1>3, <1>4, <1>6, OneChainMoves

LEMMA EndedMoves ==
    ASSUME TypeOK, NEW c \in DOMAIN chains, NEW kind \in Endings,
           chains' = Ended(c, kind),
           kind = "operator" => items'[LastItem(c)].state # "waiting"
    PROVE  ChainsMove /\ \A d \in DOMAIN chains : chains'[d].steps = chains[d].steps
<1>1. CASE chains[c].ended # "no"
  BY <1>1, SameChainsMove DEF Ended
<1>2. CASE chains[c].ended = "no"
  <2> DEFINE x == [ended |-> kind, steps |-> chains[c].steps]
  <2>1. chains[c] \in Chain
    BY FileTypes
  <2>2. x \in Chain /\ x.ended = kind /\ x.steps = chains[c].steps
    BY <2>1 DEF Chain, Endings
  <2>3. [chains[c] EXCEPT !.ended = kind] = x
    BY <2>1 DEF Chain
  <2>4. chains' = [chains EXCEPT ![c] = x]
    BY <1>2, <2>3 DEF Ended
  <2> HIDE DEF x
  <2>5. chains'[c] = x /\ \A d \in DOMAIN chains : d # c => chains'[d] = chains[d]
    BY <2>4
  <2>6. ChainMoves(c)
    BY <1>2, <2>2, <2>5 DEF ChainMoves
  <2> QED BY <2>2, <2>4, <2>5, <2>6, OneChainMoves
<1> QED BY <1>1, <1>2

-----------------------------------------------------------------------------
(* The processes *)

\* What a step may do to the processes and to the walk.
ProcsFit ==
    /\ procs' \in [Procs -> Proc]
    /\ \A p \in Procs :
          procs'[p].at \in {"queueing", "advance", "deciding", "preflight"} =>
              procs'[p].chain \in DOMAIN chains'

LEMMA OneProcFits ==
    ASSUME TypeOK, OnFile, NEW p \in Procs, NEW x \in Proc,
           procs' = [procs EXCEPT ![p] = x], DOMAIN chains \subseteq DOMAIN chains',
           x.at \in {"queueing", "advance", "deciding", "preflight"} => x.chain \in DOMAIN chains'
    PROVE  ProcsFit
  BY DEF ProcsFit, OnFile, TypeOK

LEMMA SameProcsFit ==
    ASSUME TypeOK, OnFile, procs' = procs, DOMAIN chains \subseteq DOMAIN chains'
    PROVE  ProcsFit
  BY DEF ProcsFit, OnFile, TypeOK

LEMMA IdleIsProc == Idle \in Proc /\ Idle.at = "idle"
  BY ChainAssumption DEF Idle, Proc, ChainAssumption

LEMMA ReturnFits ==
    ASSUME TypeOK, OnFile, NEW p \in Procs, Return(p), DOMAIN chains \subseteq DOMAIN chains'
    PROVE  ProcsFit
  BY IdleIsProc, OneProcFits DEF Return

LEMMA AtFits ==
    ASSUME TypeOK, OnFile, NEW p \in Procs,
           NEW where \in {"idle", "single", "starting", "queueing", "advance", "deciding",
                          "preflight"},
           At(p, where), DOMAIN chains \subseteq DOMAIN chains',
           where \in {"queueing", "advance", "deciding", "preflight"} =>
               procs[p].chain \in DOMAIN chains
    PROVE  ProcsFit
<1> DEFINE x == [at |-> where, chain |-> procs[p].chain, length |-> 0]
<1>1. procs[p] \in Proc /\ 0 \in 0..MaxItems
  BY ChainAssumption DEF TypeOK, ChainAssumption
<1>2. x \in Proc /\ x.at = where /\ x.chain = procs[p].chain
  BY <1>1 DEF Proc
<1>3. procs' = [procs EXCEPT ![p] = x]
  BY DEF At
<1> HIDE DEF x
<1> QED BY <1>2, <1>3, OneProcFits

TodoFits == todo' \in Seq(Turn) /\ \A n \in DOMAIN todo' : todo'[n].chain \in DOMAIN chains

LEMMA TodoShrinks ==
    ASSUME TypeOK, OnFile, todo' \in {todo, <<>>} \/ (todo # <<>> /\ todo' = Tail(todo))
    PROVE  TodoFits
<1>1. todo \in Seq(Turn) /\ \A n \in DOMAIN todo : todo[n].chain \in DOMAIN chains
  BY DEF TypeOK, OnFile
<1>2. CASE todo' = todo
  BY <1>1, <1>2 DEF TodoFits
<1>3. CASE todo' = <<>>
  BY <1>3 DEF TodoFits
<1>4. CASE todo # <<>> /\ todo' = Tail(todo)
  <2>1. /\ todo' \in Seq(Turn) /\ Len(todo') = Len(todo) - 1
        /\ \A n \in 1..Len(todo') : todo'[n] = todo[n + 1]
    BY <1>1, <1>4, HeadTailProperties
  <2>2. Len(todo) \in Nat /\ DOMAIN todo = 1..Len(todo) /\ DOMAIN todo' = 1..Len(todo')
    BY <1>1, <2>1, SeqParts
  <2>3. \A n \in DOMAIN todo' : n + 1 \in DOMAIN todo
    BY <2>1, <2>2
  <2> QED BY <1>1, <2>1, <2>2, <2>3 DEF TodoFits
<1> QED BY <1>2, <1>3, <1>4

\* A step that adds nothing to the files keeps the invariant.
LEMMA MovesKeep ==
    ASSUME ChainInv, ItemsMove, ChainsMove, ProcsFit, TodoFits,
           watch' = watch, crashes' \in 0..MaxCrashes
    PROVE  ChainInv'
<1>1. TypeOK /\ FilesFit /\ OnFile
  BY DEF ChainInv
<1>2. TypeOK'
  <2>1. items' \in Seq(Item) /\ Len(items') <= MaxItems
    BY <1>1 DEF TypeOK, ItemsMove
  <2>2. chains' \in Seq(Chain) /\ Len(chains') <= MaxChains
    BY <1>1 DEF TypeOK, ChainsMove
  <2>3. procs' \in [Procs -> Proc] /\ todo' \in Seq(Turn) /\ watch' \in Watch
    BY <1>1 DEF TypeOK, ProcsFit, TodoFits
  <2> QED BY <2>1, <2>2, <2>3 DEF TypeOK
<1>3. FilesFit'
  BY <1>1, MovesFit
<1>4. OnFile'
  <2>1. DOMAIN chains' = DOMAIN chains
    BY DEF ChainsMove
  <2> QED BY <1>1, <2>1 DEF OnFile, ProcsFit, TodoFits
<1> QED BY <1>2, <1>3, <1>4 DEF ChainInv

-----------------------------------------------------------------------------
(* Each action keeps the invariant *)

LEMMA Constants ==
    /\ Cap \in Nat \ {0} /\ MaxChanges \in Nat /\ SlowStart \in BOOLEAN
    /\ MaxChains \in Nat /\ MaxItems \in Nat /\ MaxCrashes \in Nat
    /\ IsFiniteSet(Requests) /\ "timer" \notin Requests
  BY ChainAssumption DEF ChainAssumption

LEMMA InitKeeps == Init => ChainInv
<1> SUFFICES ASSUME Init PROVE ChainInv
  OBVIOUS
<1>1. /\ Len(items) = 0 /\ DOMAIN items = {} /\ items \in Seq(Item)
      /\ Len(chains) = 0 /\ DOMAIN chains = {} /\ chains \in Seq(Chain)
      /\ todo \in Seq(Turn) /\ DOMAIN todo = {}
  BY DEF Init
<1>2. procs = [p \in Procs |-> Idle] /\ procs \in [Procs -> Proc]
  BY IdleIsProc DEF Init
<1>3. TypeOK
  <2>1. watch \in Watch /\ crashes \in 0..MaxCrashes
    BY Constants DEF Init, Watch
  <2> QED BY <1>1, <1>2, <2>1, Constants DEF TypeOK
<1>4. FilesFit
  BY <1>1 DEF FilesFit, ItemsInShape, OneOpenItem, StepsHaveItems, ItemsHaveSteps,
              StoppedNotWaiting
<1>5. OnFile
  BY <1>1, <1>2, IdleIsProc DEF OnFile
<1> QED BY <1>3, <1>4, <1>5 DEF ChainInv

LEMMA QueueStepKeeps ==
    ASSUME ChainInv, NEW i \in DOMAIN items, QueueStep(i)
    PROVE  ChainInv'
<1>1. TypeOK /\ FilesFit /\ OnFile
  BY DEF ChainInv
<1>2. ItemsMove /\ UNCHANGED <<chains, procs, todo, watch, crashes>>
  BY <1>1, QueueStepMoves
<1>3. ChainsMove /\ ProcsFit /\ TodoFits
  BY <1>1, <1>2, SameChainsMove, SameProcsFit, TodoShrinks
<1> QED BY <1>1, <1>2, <1>3, MovesKeep DEF TypeOK

\* A request before it queues anything, and a tick that is over.
LEMMA RequestKeeps ==
    ASSUME ChainInv, NEW p \in Procs,
           \/ StartChain(p) \/ StartRefused(p) \/ StartSingle(p) \/ TickDone(p)
           \/ SingleQueued(p) /\ items' = items
    PROVE  ChainInv'
<1>1. TypeOK /\ FilesFit /\ OnFile
  BY DEF ChainInv
<1>2. UNCHANGED <<items, chains, todo, watch, crashes>>
  BY DEF StartChain, StartRefused, StartSingle, TickDone, SingleQueued
<1>3. ItemsMove /\ ChainsMove /\ TodoFits
  BY <1>1, <1>2, SameItemsMove, SameChainsMove, TodoShrinks
<1>4. ProcsFit
  <2>1. CASE At(p, "starting") \/ At(p, "single")
    BY <1>1, <1>2, <2>1, AtFits
  <2>2. CASE procs[p].at = "queueing" /\ At(p, "advance")
    BY <1>1, <1>2, <2>2, AtFits DEF OnFile
  <2>3. CASE Return(p)
    BY <1>1, <1>2, <2>3, ReturnFits
  <2> QED BY <2>1, <2>2, <2>3
          DEF StartChain, StartRefused, StartSingle, TickDone, SingleQueued, Reply, Return
<1> QED BY <1>1, <1>2, <1>3, <1>4, MovesKeep DEF TypeOK

\* What advance does to the chain it follows.
Follows(p, ended, changes) ==
    LET c == procs[p].chain
        step == Last(chains[c].steps)
    IN
    /\ chains[c].ended = "no"
    /\ step.launched \/ items[LastItem(c)].state = "started"
    /\ chains' = Patched(c, ended, [step EXCEPT !.launched = TRUE, !.changes = changes])

LEMMA AdvanceCases ==
    ASSUME ChainInv, NEW p \in Procs, Advance(p)
    PROVE  LET c == procs[p].chain IN
           /\ c \in DOMAIN chains /\ UNCHANGED <<items, todo, watch, crashes>>
           /\ procs[p].at = "advance"
           /\ \/ Return(p) /\ chains' \in {chains, Ended(c, "failed")}
              \/ /\ Return(p) /\ chains' = Ended(c, "operator")
                 /\ items[LastItem(c)].state = "cancelled"
              \/ \E ended \in {"no", "failed", "person"}, changes \in BOOLEAN :
                    /\ Follows(p, ended, changes)
                    /\ \/ Return(p)
                       \/ /\ ended = "no" /\ items[LastItem(c)].step = "ok"
                          /\ procs' = [procs EXCEPT ![p] =
                                [at |-> "deciding", chain |-> c, length |-> Len(chains[c].steps)]]
<1> DEFINE c == procs[p].chain
           step == Last(chains[c].steps)
<1>1. /\ TypeOK /\ StepsHaveItems /\ procs[p].at = "advance" /\ c \in DOMAIN chains
      /\ UNCHANGED <<items, todo, watch, crashes>>
  BY DEF ChainInv, FilesFit, OnFile, Advance
<1>2. /\ step = chains[c].steps[Len(chains[c].steps)] /\ step \in Step
      /\ step.item = LastItem(c)
  BY <1>1, LastStep
<1>3. step.changes \in BOOLEAN
  BY <1>2 DEF Step
<1> HIDE DEF step
<1> DEFINE Known(changes, ended) ==
              Patched(c, ended, [step EXCEPT !.launched = TRUE, !.changes = changes])
           known == step.launched \/ items[LastItem(c)].state = "started"
<1>4. \/ Return(p) /\ UNCHANGED chains
      \/ items[LastItem(c)].state = "cancelled" /\ End(p, c, "operator")
      \/ End(p, c, "failed")
      \/ /\ chains[c].ended = "no" /\ known
         /\ \/ chains' = Known(step.changes, "no") /\ Return(p)
            \/ chains' = Known(step.changes, "failed") /\ Return(p)
            \/ /\ items[LastItem(c)].step = "ok"
               /\ \E changes \in BOOLEAN :
                     \/ chains' = Known(changes, "person") /\ Return(p)
                     \/ /\ chains' = Known(changes, "no")
                        /\ procs' = [procs EXCEPT ![p] =
                              [at |-> "deciding", chain |-> c, length |-> Len(chains[c].steps)]]
  BY <1>1, <1>2 DEF Advance, Passed
<1>5. \A ended, changes : chains[c].ended = "no" /\ known /\ chains' = Known(changes, ended)
                          => Follows(p, ended, changes)
  BY DEF Follows, step
<1> HIDE DEF Known, known
<1> QED BY <1>1, <1>3, <1>4, <1>5 DEF End

LEMMA FollowsMoves ==
    ASSUME ChainInv, NEW p \in Procs, procs[p].chain \in DOMAIN chains, items' = items,
           NEW ended \in {"no", "failed", "person"}, NEW changes \in BOOLEAN,
           Follows(p, ended, changes)
    PROVE  /\ ChainsMove /\ chains'[procs[p].chain].ended = ended
           /\ LET c == procs[p].chain
                  n == Len(chains[c].steps)
              IN  /\ chains'[c].steps[n].launched
                  /\ \A k \in DOMAIN chains[c].steps :
                        k # n => chains'[c].steps[k] = chains[c].steps[k]
<1> DEFINE c == procs[p].chain
           step == Last(chains[c].steps)
           x == [step EXCEPT !.launched = TRUE, !.changes = changes]
<1>1. /\ TypeOK /\ FilesFit /\ step \in Step /\ step.item = LastItem(c)
      /\ step.launched => items[LastItem(c)].state = "started"
  BY LastStep DEF ChainInv, FilesFit
<1>2. /\ chains' = Patched(c, ended, x) /\ chains[c].ended = "no"
      /\ items[LastItem(c)].state = "started"
  BY <1>1 DEF Follows
<1> HIDE DEF step
<1>3. x \in Step /\ x.item = LastItem(c) /\ x.launched
  BY <1>1 DEF Step
<1>4. ItemsMove
  BY <1>1, SameItemsMove
<1> HIDE DEF x
<1>5. ended \in Endings /\ ended # "operator"
  BY DEF Endings
<1> QED BY <1>1, <1>2, <1>3, <1>4, <1>5, PatchedMoves

LEMMA AdvanceKeeps ==
    ASSUME ChainInv, NEW p \in Procs, Advance(p)
    PROVE  ChainInv'
<1> DEFINE c == procs[p].chain
           n == Len(chains[c].steps)
<1>1. /\ TypeOK /\ FilesFit /\ OnFile /\ c \in DOMAIN chains
      /\ UNCHANGED <<items, todo, watch, crashes>>
  BY AdvanceCases DEF ChainInv
<1>2. ItemsMove /\ TodoFits /\ crashes' \in 0..MaxCrashes
  BY <1>1, SameItemsMove, TodoShrinks DEF TypeOK
<1>3. ChainsMove
  <2>1. CASE chains' \in {chains, Ended(c, "failed")}
    BY <1>1, <2>1, SameChainsMove, EndedMoves DEF Endings
  <2>2. CASE chains' = Ended(c, "operator") /\ items[LastItem(c)].state = "cancelled"
    BY <1>1, <2>2, EndedMoves DEF Endings
  <2>3. CASE \E ended \in {"no", "failed", "person"}, changes \in BOOLEAN : Follows(p, ended, changes)
    BY <1>1, <2>3, FollowsMoves
  <2> QED BY <2>1, <2>2, <2>3, AdvanceCases
<1>4. ProcsFit
  <2>1. DOMAIN chains \subseteq DOMAIN chains'
    BY <1>3 DEF ChainsMove
  <2>2. CASE Return(p)
    BY <1>1, <2>1, <2>2, ReturnFits
  <2>3. CASE procs' = [procs EXCEPT ![p] = [at |-> "deciding", chain |-> c, length |-> n]]
    <3>1. n \in 0..MaxItems
      <4>1. n <= Len(items) /\ n \in Nat /\ Len(items) \in Nat /\ Len(items) <= MaxItems
        BY <1>1, LastStep, FileTypes DEF FilesFit, TypeOK
      <4> QED BY <4>1, Constants
    <3>2. procs[p] \in Proc
      BY <1>1 DEF TypeOK
    <3>3. [at |-> "deciding", chain |-> c, length |-> n] \in Proc
      BY <3>1, <3>2 DEF Proc
    <3> QED BY <1>1, <2>1, <2>3, <3>3, OneProcFits
  <2> QED BY <2>2, <2>3, AdvanceCases
<1> QED BY <1>1, <1>2, <1>3, <1>4, MovesKeep

LEMMA DecideKeeps ==
    ASSUME ChainInv, NEW p \in Procs,
           \/ Decide(p)
           \/ QueueNext(p) /\ items' = items
    PROVE  ChainInv' /\ ChainsMove /\ todo' = todo
<1> DEFINE c == procs[p].chain
<1>1. /\ TypeOK /\ FilesFit /\ OnFile /\ procs[p].at \in {"deciding", "preflight"}
      /\ c \in DOMAIN chains /\ UNCHANGED <<items, todo, watch, crashes>>
  BY DEF ChainInv, OnFile, Decide, QueueNext
<1>2. ItemsMove /\ TodoFits /\ crashes' \in 0..MaxCrashes
  BY <1>1, SameItemsMove, TodoShrinks DEF TypeOK
<1>3. \/ chains' = chains /\ (Return(p) \/ At(p, "preflight"))
      \/ \E kind \in {"person", "queue"} : End(p, c, kind)
  <2>1. ~(items' = Queued(c))
    <3>1. Len(Queued(c)) = Len(items) + 1 /\ Len(items) \in Nat
      BY <1>1 DEF Queued, TypeOK
    <3> QED BY <1>1, <3>1
  <2> QED BY <2>1 DEF Decide, QueueNext
<1>4. ChainsMove
  BY <1>1, <1>3, SameChainsMove, EndedMoves DEF End, Endings
<1>5. ProcsFit
  <2>1. DOMAIN chains \subseteq DOMAIN chains'
    BY <1>4 DEF ChainsMove
  <2> QED BY <1>1, <1>3, <2>1, ReturnFits, AtFits DEF End
<1> QED BY <1>1, <1>2, <1>4, <1>5, MovesKeep

\* An item is queued for chain c, a new or a running one, or for none (c = 0).
Adds(c) ==
    LET m == Len(items) + 1
        n == IF c \in DOMAIN chains THEN Len(chains[c].steps) ELSE 0
    IN
    /\ ~HasOpen /\ Len(items) < MaxItems /\ c \in 0..MaxChains
    /\ items' = Queued(c)
    /\ chains' \in Seq(Chain) /\ Len(chains') <= MaxChains
    /\ DOMAIN chains' = DOMAIN chains \cup ({c} \ {0})
    /\ \A d \in DOMAIN chains : d # c => chains'[d] = chains[d]
    /\ c # 0 =>
          /\ chains'[c].ended = "no" /\ (c \in DOMAIN chains => chains[c].ended = "no")
          /\ chains'[c].steps \in Seq(Step) /\ Len(chains'[c].steps) = n + 1
          /\ chains'[c].steps[n + 1].item = m /\ ~chains'[c].steps[n + 1].launched
          /\ \A k \in 1..n : chains'[c].steps[k] = chains[c].steps[k]

LEMMA AddedItem ==
    ASSUME TypeOK, NEW c, Adds(c)
    PROVE  LET m == Len(items) + 1 IN
           /\ items' \in Seq(Item) /\ Len(items') = m /\ Len(items') <= MaxItems
           /\ DOMAIN items' = DOMAIN items \cup {m} /\ m \in Nat /\ m \notin DOMAIN items
           /\ items'[m] = [chain |-> c, state |-> "waiting", step |-> "none"]
           /\ \A i \in DOMAIN items : items'[i] = items[i]
<1> DEFINE x == [chain |-> c, state |-> "waiting", step |-> "none"]
<1>1. /\ items \in Seq(Item) /\ items' = Append(items, x) /\ Len(items) < MaxItems
      /\ c \in 0..MaxChains /\ Len(items) \in Nat /\ DOMAIN items = 1..Len(items)
  BY FileTypes DEF TypeOK, Adds, Queued
<1>2. x \in Item
  BY <1>1 DEF Item
<1> HIDE DEF x
<1>3. /\ items' \in Seq(Item) /\ Len(items') = Len(items) + 1
      /\ DOMAIN items' = DOMAIN items \cup {Len(items) + 1}
      /\ items'[Len(items) + 1] = x /\ \A j \in DOMAIN items : items'[j] = items[j]
  BY <1>1, <1>2, SeqAppend
<1>4. Len(items) + 1 <= MaxItems /\ Len(items) + 1 \in Nat /\ Len(items) + 1 \notin DOMAIN items
  BY <1>1, Constants
<1> QED BY <1>3, <1>4 DEF x

LEMMA AddsFit ==
    ASSUME TypeOK, FilesFit, NEW c, Adds(c)
    PROVE  FilesFit'
<1> DEFINE m == Len(items) + 1
           n == IF c \in DOMAIN chains THEN Len(chains[c].steps) ELSE 0
<1>1. /\ ItemsInShape /\ OneOpenItem /\ StepsHaveItems /\ ItemsHaveSteps /\ StoppedNotWaiting
      /\ \A i \in DOMAIN items : items[i].state \notin Open
      /\ 0 \notin DOMAIN chains
  BY FileTypes DEF FilesFit, Adds, HasOpen
<1>2. /\ DOMAIN items' = DOMAIN items \cup {m} /\ m \notin DOMAIN items
      /\ items'[m] = [chain |-> c, state |-> "waiting", step |-> "none"]
      /\ \A i \in DOMAIN items : items'[i] = items[i]
      /\ DOMAIN items = 1..Len(items) /\ Len(items) \in Nat /\ m \in Nat
  BY AddedItem, FileTypes
<1>3. /\ DOMAIN chains' = DOMAIN chains \cup ({c} \ {0})
      /\ \A d \in DOMAIN chains : d # c => chains'[d] = chains[d]
  BY DEF Adds
<1>4. n \in Nat /\ n <= Len(items)
  BY <1>1, <1>2, LastStep, FileTypes
<1>5. ASSUME c # 0
      PROVE  /\ chains'[c].ended = "no" /\ Len(chains'[c].steps) = n + 1
             /\ DOMAIN chains'[c].steps = 1..(n + 1)
             /\ chains'[c].steps[n + 1].item = m /\ ~chains'[c].steps[n + 1].launched
             /\ \A k \in 1..n : chains'[c].steps[k] = chains[c].steps[k]
             /\ c \in DOMAIN chains => DOMAIN chains[c].steps = 1..n
  <2>1. chains'[c].steps \in Seq(Step) /\ Len(chains'[c].steps) = n + 1
    BY <1>5 DEF Adds
  <2> QED BY <1>5, <2>1, FileTypes DEF Adds
<1> HIDE DEF n
<1>6. ItemsInShape' /\ OneOpenItem'
  BY <1>1, <1>2 DEF ItemsInShape, OneOpenItem
<1>7. \A d \in DOMAIN chains : d # c => LastItem(d)' = LastItem(d) /\ LastItem(d) \in DOMAIN items
  BY <1>1, <1>3, LastStep DEF LastItem
<1>8. c # 0 => LastItem(c)' = m
  BY <1>5 DEF LastItem
<1>9. StepsHaveItems'
  <2> SUFFICES ASSUME NEW d \in DOMAIN chains'
               PROVE  LET steps == chains'[d].steps IN
                      /\ Len(steps) >= 1
                      /\ \A k \in DOMAIN steps :
                            /\ steps[k].item \in DOMAIN items'
                            /\ items'[steps[k].item].chain = d
                            /\ steps[k].launched => items'[steps[k].item].state = "started"
                            /\ k <= steps[k].item
                            /\ \A l \in DOMAIN steps : k < l => steps[k].item < steps[l].item
    BY DEF StepsHaveItems
  <2>1. CASE d # c
    <3>1. d \in DOMAIN chains /\ chains'[d] = chains[d]
      BY <1>3, <2>1
    <3> QED BY <1>1, <1>2, <3>1 DEF StepsHaveItems
  <2>2. CASE d = c
    <3>1. c # 0
      BY <1>1, <1>3, <2>2
    <3>2. Len(chains'[c].steps) >= 1
      BY <1>4, <1>5, <3>1
    <3>3. ASSUME NEW k \in 1..n
          PROVE  /\ chains'[c].steps[k].item \in DOMAIN items
                 /\ items'[chains'[c].steps[k].item].chain = c
                 /\ chains'[c].steps[k].launched =>
                       items'[chains'[c].steps[k].item].state = "started"
                 /\ k <= chains'[c].steps[k].item
                 /\ \A l \in 1..n : k < l => chains'[c].steps[k].item < chains'[c].steps[l].item
      <4>1. c \in DOMAIN chains /\ DOMAIN chains[c].steps = 1..n
        BY <1>4, <1>5, <3>1 DEF n
      <4>2. \A j \in DOMAIN chains[c].steps :
               /\ chains[c].steps[j].item \in DOMAIN items
               /\ items[chains[c].steps[j].item].chain = c
               /\ chains[c].steps[j].launched =>
                     items[chains[c].steps[j].item].state = "started"
               /\ j <= chains[c].steps[j].item
               /\ \A l \in DOMAIN chains[c].steps :
                     j < l => chains[c].steps[j].item < chains[c].steps[l].item
        BY <1>1, <4>1 DEF StepsHaveItems
      <4>3. \A l \in 1..n : chains'[c].steps[l] = chains[c].steps[l]
        BY <1>5, <3>1
      <4> QED BY <1>2, <4>1, <4>2, <4>3
    <3>4. \A k \in 1..n : chains'[c].steps[k].item < m
      BY <1>2, <3>3
    <3>5. ASSUME NEW k \in 1..(n + 1)
          PROVE  /\ chains'[c].steps[k].item \in DOMAIN items'
                 /\ items'[chains'[c].steps[k].item].chain = c
                 /\ chains'[c].steps[k].launched =>
                       items'[chains'[c].steps[k].item].state = "started"
                 /\ k <= chains'[c].steps[k].item
                 /\ \A l \in 1..(n + 1) :
                       k < l => chains'[c].steps[k].item < chains'[c].steps[l].item
      <4>1. CASE k = n + 1
        BY <1>2, <1>4, <1>5, <3>1, <4>1
      <4>2. CASE k # n + 1
        <5>1. k \in 1..n
          BY <1>4, <4>2
        <5>2. \A l \in 1..(n + 1) : k < l => chains'[c].steps[k].item < chains'[c].steps[l].item
          <6> SUFFICES ASSUME NEW l \in 1..(n + 1), k < l
                       PROVE  chains'[c].steps[k].item < chains'[c].steps[l].item
            OBVIOUS
          <6>1. CASE l = n + 1
            BY <1>5, <3>1, <3>4, <5>1, <6>1
          <6>2. CASE l # n + 1
            <7>1. l \in 1..n
              BY <1>4, <6>2
            <7> QED BY <3>3, <5>1, <7>1
          <6> QED BY <6>1, <6>2
        <5> QED BY <1>2, <3>3, <5>1, <5>2
      <4> QED BY <4>1, <4>2
    <3> QED BY <1>5, <2>2, <3>1, <3>2, <3>5
  <2> QED BY <2>1, <2>2
<1>10. ItemsHaveSteps'
  <2> SUFFICES ASSUME NEW i \in DOMAIN items', NEW d, d = items'[i].chain, d # 0
               PROVE  /\ d \in DOMAIN chains'
                      /\ \E k \in DOMAIN chains'[d].steps : chains'[d].steps[k].item = i
                      /\ items'[i].state \in Open => i = LastItem(d)'
    BY DEF ItemsHaveSteps
  <2>1. CASE i = m
    <3>1. d = c /\ d \in DOMAIN chains' /\ n + 1 \in DOMAIN chains'[d].steps
      BY <1>2, <1>3, <1>4, <1>5, <2>1
    <3> QED BY <1>5, <1>8, <2>1, <3>1
  <2>2. CASE i # m
    <3>1. i \in DOMAIN items /\ items'[i] = items[i] /\ items[i].state \notin Open
      BY <1>1, <1>2, <2>2
    <3>2. PICK k \in DOMAIN chains[d].steps : chains[d].steps[k].item = i
      BY <1>1, <3>1 DEF ItemsHaveSteps
    <3>3. d \in DOMAIN chains
      BY <1>1, <3>1 DEF ItemsHaveSteps
    <3>4. k \in DOMAIN chains'[d].steps /\ chains'[d].steps[k] = chains[d].steps[k]
      <4>1. CASE d # c
        BY <1>3, <3>2, <3>3, <4>1
      <4>2. CASE d = c
        BY <1>4, <1>5, <3>2, <3>3, <4>2
      <4> QED BY <4>1, <4>2
    <3> QED BY <1>3, <3>1, <3>2, <3>3, <3>4
  <2> QED BY <2>1, <2>2
<1>11. StoppedNotWaiting'
  <2> SUFFICES ASSUME NEW d \in DOMAIN chains', chains'[d].ended = "operator"
               PROVE  items'[LastItem(d)'].state # "waiting"
    BY DEF StoppedNotWaiting
  <2>1. d # c /\ d \in DOMAIN chains
    BY <1>1, <1>3, <1>5
  <2> QED BY <1>1, <1>2, <1>3, <1>7, <2>1 DEF StoppedNotWaiting
<1> QED BY <1>6, <1>9, <1>10, <1>11 DEF FilesFit

LEMMA AddsKeep ==
    ASSUME ChainInv, NEW c, Adds(c), ProcsFit, UNCHANGED <<todo, watch, crashes>>
    PROVE  ChainInv'
<1>1. TypeOK /\ FilesFit /\ OnFile
  BY DEF ChainInv
<1>2. TypeOK'
  <2>1. items' \in Seq(Item) /\ Len(items') <= MaxItems
    BY <1>1, AddedItem
  <2>2. chains' \in Seq(Chain) /\ Len(chains') <= MaxChains /\ procs' \in [Procs -> Proc]
    BY DEF Adds, ProcsFit
  <2> QED BY <1>1, <2>1, <2>2 DEF TypeOK
<1>3. OnFile'
  <2>1. DOMAIN chains \subseteq DOMAIN chains'
    BY DEF Adds
  <2> QED BY <1>1, <2>1 DEF OnFile, ProcsFit
<1> QED BY <1>1, <1>2, <1>3, AddsFit DEF ChainInv

LEMMA NewStepIsStep ==
    ASSUME TypeOK, Len(items) < MaxItems
    PROVE  /\ NewStep \in Step /\ NewStep.item = Len(items) + 1
           /\ ~NewStep.launched
<1>1. Len(items) + 1 \in 1..MaxItems
  BY FileTypes, Constants
<1> QED BY <1>1 DEF NewStep, Step

LEMMA ChainStartsAdds ==
    ASSUME ChainInv, NEW r \in Requests, ChainStarts(r)
    PROVE  /\ Adds(Len(chains) + 1) /\ UNCHANGED <<todo, watch, crashes>>
           /\ Len(chains) + 1 \notin DOMAIN chains /\ 1 \in DOMAIN chains'[Len(chains) + 1].steps
           /\ Len(chains'[Len(chains) + 1].steps) = 1
<1> DEFINE c == Len(chains) + 1
<1>1. /\ TypeOK /\ ~HasOpen /\ Len(items) < MaxItems /\ Len(chains) < MaxChains
      /\ items' = Queued(c) /\ UNCHANGED <<todo, watch, crashes>>
      /\ Len(chains) \in Nat /\ DOMAIN chains = 1..Len(chains)
  BY FileTypes DEF ChainInv, ChainStarts
<1>2. chains' = Append(chains, [ended |-> "no", steps |-> <<NewStep>>])
  BY DEF ChainStarts
<1> DEFINE x == NewStep
           steps == <<x>>
           new == [ended |-> "no", steps |-> steps]
<1>3. x \in Step /\ x.item = Len(items) + 1 /\ ~x.launched
  BY <1>1, NewStepIsStep
<1> HIDE DEF x
<1>4. steps \in Seq(Step) /\ Len(steps) = 1 /\ steps[1] = x /\ DOMAIN steps = 1..1
  BY <1>3
<1> HIDE DEF steps
<1>5. new \in Chain /\ new.ended = "no" /\ new.steps = steps
  BY <1>4 DEF Chain, Endings
<1> HIDE DEF new
<1>6. chains \in Seq(Chain) /\ chains' = Append(chains, new)
  BY <1>1, <1>2 DEF TypeOK, new, steps, x
<1>7. /\ chains' \in Seq(Chain) /\ Len(chains') = c
      /\ DOMAIN chains' = DOMAIN chains \cup {c} /\ chains'[c] = new
      /\ \A d \in DOMAIN chains : chains'[d] = chains[d]
  BY <1>5, <1>6, SeqAppend
<1>8. c # 0 /\ c \notin DOMAIN chains /\ c \in 0..MaxChains /\ c <= MaxChains
  BY <1>1, Constants
<1>9. /\ chains'[c].ended = "no" /\ chains'[c].steps = steps
      /\ steps[1].item = Len(items) + 1 /\ ~steps[1].launched
  BY <1>3, <1>4, <1>5, <1>7
<1> HIDE DEF c
<1>10. Adds(c)
  <2>1. (IF c \in DOMAIN chains THEN Len(chains[c].steps) ELSE 0) = 0
    BY <1>8
  <2>2. /\ chains'[c].steps \in Seq(Step) /\ Len(chains'[c].steps) = 0 + 1
        /\ chains'[c].steps[0 + 1].item = Len(items) + 1 /\ ~chains'[c].steps[0 + 1].launched
        /\ \A k \in 1..0 : chains'[c].steps[k] = chains[c].steps[k]
    BY <1>4, <1>9
  <2> QED BY <1>1, <1>7, <1>8, <1>9, <2>1, <2>2 DEF Adds
<1> QED BY <1>1, <1>4, <1>7, <1>8, <1>9, <1>10 DEF c

LEMMA QueueNextAdds ==
    ASSUME ChainInv, NEW p \in Procs, QueueNext(p), items' # items
    PROVE  LET c == procs[p].chain IN
           /\ procs[p].at = "preflight" /\ c \in DOMAIN chains
           /\ Adds(c) /\ At(p, "queueing") /\ UNCHANGED <<todo, watch, crashes>>
<1> DEFINE c == procs[p].chain
           old == chains[c].steps
           n == Len(old)
<1>1. /\ TypeOK /\ FilesFit /\ procs[p].at = "preflight" /\ c \in DOMAIN chains
      /\ chains[c].ended = "no" /\ ~HasOpen /\ Len(items) < MaxItems
      /\ items' = Queued(c) /\ At(p, "queueing") /\ UNCHANGED <<todo, watch, crashes>>
  BY DEF ChainInv, OnFile, QueueNext, StillOn
<1>2. chains' = [chains EXCEPT ![c] = [ended |-> "no", steps |-> Append(old, NewStep)]]
  BY <1>1 DEF QueueNext
<1> DEFINE x == NewStep
           steps == Append(old, x)
           new == [ended |-> "no", steps |-> steps]
<1>3. x \in Step /\ x.item = Len(items) + 1 /\ ~x.launched
  BY <1>1, NewStepIsStep
<1> HIDE DEF x
<1>4. /\ Len(chains) \in Nat /\ DOMAIN chains = 1..Len(chains) /\ Len(chains) <= MaxChains
      /\ chains \in Seq(Chain) /\ old \in Seq(Step) /\ DOMAIN old = 1..n
  BY <1>1, FileTypes DEF TypeOK
<1>5. /\ steps \in Seq(Step) /\ Len(steps) = n + 1 /\ steps[n + 1] = x
      /\ \A k \in 1..n : steps[k] = old[k]
  <2> HIDE DEF old
  <2> QED BY <1>3, <1>4, SeqAppend
<1> HIDE DEF steps
<1>6. new \in Chain /\ new.ended = "no" /\ new.steps = steps
  BY <1>5 DEF Chain, Endings
<1>7. chains' = [chains EXCEPT ![c] = new]
  BY <1>2 DEF new, steps, x
<1> HIDE DEF new
<1>8. /\ chains' \in Seq(Chain) /\ Len(chains') = Len(chains) /\ DOMAIN chains' = DOMAIN chains
      /\ chains'[c] = new /\ \A d \in DOMAIN chains : d # c => chains'[d] = chains[d]
  BY <1>1, <1>4, <1>6, <1>7, SeqExcept
<1>9. c # 0 /\ c \in 0..MaxChains
  BY <1>1, <1>4, Constants
<1>10. Adds(c)
  BY <1>1, <1>3, <1>4, <1>5, <1>6, <1>8, <1>9 DEF Adds
<1> QED BY <1>1, <1>10

LEMMA SingleQueuedAdds ==
    ASSUME ChainInv, NEW r \in Requests, SingleQueued(r), items' # items
    PROVE  Adds(0) /\ chains' = chains /\ Return(r) /\ UNCHANGED <<todo, watch, crashes>>
<1>1. TypeOK /\ chains \in Seq(Chain) /\ 0 \in 0..MaxChains
  BY Constants DEF ChainInv, TypeOK
<1> QED BY <1>1 DEF SingleQueued, Adds, Reply, Return, TypeOK

LEMMA AddingKeeps ==
    ASSUME ChainInv,
           \/ \E r \in Requests : ChainStarts(r) \/ (SingleQueued(r) /\ items' # items)
           \/ \E p \in Procs : QueueNext(p) /\ items' # items
    PROVE  ChainInv'
<1>1. TypeOK /\ FilesFit /\ OnFile /\ Requests \subseteq Procs
  BY DEF ChainInv, Procs
<1>2. \A c : Adds(c) => DOMAIN chains \subseteq DOMAIN chains'
  BY DEF Adds
<1>3. ASSUME NEW r \in Requests, ChainStarts(r) PROVE ChainInv'
  <2> DEFINE c == Len(chains) + 1
             x == [at |-> "queueing", chain |-> c, length |-> 0]
  <2>1. Adds(c) /\ UNCHANGED <<todo, watch, crashes>> /\ procs' = [procs EXCEPT ![r] = x]
    BY <1>3, ChainStartsAdds DEF ChainStarts
  <2>2. c \in 0..MaxChains /\ c # 0 /\ c \in DOMAIN chains' /\ 0 \in 0..MaxItems
    BY <1>1, <2>1, FileTypes, Constants DEF Adds
  <2>3. x \in Proc /\ x.chain \in DOMAIN chains'
    BY <2>2 DEF Proc
  <2> HIDE DEF x, c
  <2>4. ProcsFit
    BY <1>1, <1>2, <2>1, <2>3, OneProcFits
  <2> QED BY <2>1, <2>4, AddsKeep
<1>4. ASSUME NEW r \in Requests, SingleQueued(r), items' # items PROVE ChainInv'
  <2>1. Adds(0) /\ Return(r) /\ UNCHANGED <<todo, watch, crashes>>
    BY <1>4, SingleQueuedAdds
  <2>2. ProcsFit
    BY <1>1, <1>2, <2>1, ReturnFits
  <2> QED BY <2>1, <2>2, AddsKeep
<1>5. ASSUME NEW p \in Procs, QueueNext(p), items' # items PROVE ChainInv'
  <2> DEFINE c == procs[p].chain
  <2>1. Adds(c) /\ At(p, "queueing") /\ UNCHANGED <<todo, watch, crashes>> /\ c \in DOMAIN chains
    BY <1>5, QueueNextAdds
  <2>2. ProcsFit
    BY <1>1, <1>2, <2>1, AtFits
  <2> QED BY <2>1, <2>2, AddsKeep
<1> QED BY <1>3, <1>4, <1>5

\* Stop leaves the last step launched, or no longer waiting to be.
LEMMA StopMoves ==
    ASSUME ChainInv, NEW c \in DOMAIN chains, Stop(c)
    PROVE  ItemsMove /\ ChainsMove /\ UNCHANGED <<procs, todo, watch, crashes>>
<1> DEFINE step == Last(chains[c].steps)
           i == LastItem(c)
           known == step.launched \/ items[i].state = "started"
           x == [step EXCEPT !.launched = known]
<1>1. /\ TypeOK /\ FilesFit /\ step \in Step /\ step.item = i
      /\ i \in DOMAIN items /\ items[i] \in Item
      /\ step.launched => items[i].state = "started"
  BY LastStep, FileTypes DEF ChainInv, FilesFit
<1>2. /\ chains[c].ended = "no" /\ chains' = Patched(c, "operator", x)
      /\ items' = IF known THEN Stopped(items, i)
                  ELSE IF items[i].state = "waiting"
                  THEN [items EXCEPT ![i].state = "cancelled"] ELSE items
      /\ UNCHANGED <<procs, todo, watch, crashes>>
  BY <1>1 DEF Stop
<1> HIDE DEF step
<1>3. x \in Step /\ x.item = i /\ x.launched = known
  BY <1>1 DEF Step
<1> HIDE DEF x
<1>4. ItemsMove /\ items'[i].state # "waiting"
  <2>1. CASE known
    <3>1. ItemsMove
      BY <1>1, <1>2, <2>1, StoppedMoves
    <3> QED BY <1>1, <2>1, <3>1 DEF ItemsMove, ItemMoves
  <2>2. CASE ~known /\ items[i].state = "waiting"
    <3>1. items' = [items EXCEPT ![i] = [chain |-> items[i].chain, state |-> "cancelled",
                                         step |-> items[i].step]]
      BY <1>1, <1>2, <2>2, FieldSet
    <3>2. items[i].step = "none"
      BY <1>1, <2>2 DEF FilesFit, ItemsInShape
    <3>3. ItemsMove
      BY <1>1, <2>2, <3>1, <3>2, OneItemMoves DEF Open
    <3>4. items'[i].state = "cancelled"
      BY <1>1, <3>1
    <3> QED BY <3>3, <3>4
  <2>3. CASE ~known /\ items[i].state # "waiting"
    BY <1>1, <1>2, <2>3, SameItemsMove
  <2> QED BY <2>1, <2>2, <2>3
<1>5. known => items'[i].state = "started"
  BY <1>1, <1>4 DEF ItemsMove, ItemMoves
<1>6. ChainsMove
  <2> HIDE DEF known
  <2>1. step.launched => known
    BY DEF known
  <2>2. /\ Last(chains[c].steps).launched => x.launched
        /\ x.launched => items'[LastItem(c)].state = "started"
    BY <1>3, <1>5, <2>1 DEF step
  <2>3. "operator" \in Endings
    BY DEF Endings
  <2> HIDE DEF i
  <2> QED BY <1>1, <1>2, <1>3, <1>4, <2>2, <2>3, PatchedMoves DEF i
<1> QED BY <1>2, <1>4, <1>6

LEMMA TurnMoves ==
    ASSUME ChainInv, TimerTurns
    PROVE  /\ ItemsMove /\ ChainsMove /\ ProcsFit /\ TodoFits
           /\ UNCHANGED <<watch, crashes>>
<1> DEFINE c == Head(todo).chain
           step == Last(chains[c].steps)
           i == LastItem(c)
           late == Head(todo).ended = "operator" /\ LateStart(c)
           x == [step EXCEPT !.launched = TRUE]
<1>1. /\ TypeOK /\ FilesFit /\ OnFile /\ todo # <<>> /\ todo' = Tail(todo)
      /\ UNCHANGED <<watch, crashes>>
  BY DEF ChainInv, TimerTurns
<1>2. c \in DOMAIN chains /\ c \in 1..MaxChains
  <2>1. todo \in Seq(Turn)
    BY <1>1 DEF TypeOK
  <2>2. Head(todo) = todo[1] /\ 1 \in DOMAIN todo /\ todo[1] \in Turn
    BY <1>1, <2>1, SeqParts
  <2> QED BY <1>1, <2>2 DEF OnFile, Turn
<1>3. /\ step \in Step /\ step.item = i /\ i \in DOMAIN items
      /\ step.launched => items[i].state = "started"
  BY <1>1, <1>2, LastStep DEF FilesFit
<1>4. TodoFits
  BY <1>1, TodoShrinks
<1>5. ItemsMove /\ ChainsMove
  <2>1. CASE ~late
    <3>1. items' = items /\ chains' = chains
      BY <2>1 DEF TimerTurns
    <3> QED BY <1>1, <3>1, SameItemsMove, SameChainsMove
  <2>2. CASE late
    <3>1. /\ items' = Stopped(items, i) /\ chains' = Patched(c, chains[c].ended, x)
          /\ items[i].state = "started"
      BY <1>3, <2>2 DEF TimerTurns, LateStart
    <3>2. ItemsMove
      BY <1>1, <1>3, <3>1, StoppedMoves
    <3>3. items'[i].state = "started"
      BY <1>3, <3>1, <3>2 DEF ItemsMove, ItemMoves
    <3>4. chains[c].ended \in Endings
      BY <1>1, <1>2, FileTypes DEF Chain, Endings
    <3> HIDE DEF step
    <3>5. x \in Step /\ x.item = i /\ x.launched
      BY <1>3 DEF Step
    <3> HIDE DEF x, i, c
    <3>6. ChainsMove
      BY <1>1, <1>2, <3>1, <3>2, <3>3, <3>4, <3>5, PatchedMoves DEF i
    <3> QED BY <3>2, <3>6
  <2> QED BY <2>1, <2>2
<1>6. ProcsFit
  <2> DEFINE y == [at |-> "advance", chain |-> c, length |-> 0]
  <2>1. "timer" \in Procs /\ DOMAIN chains \subseteq DOMAIN chains'
    BY <1>5 DEF Procs, ChainsMove
  <2>2. procs' = procs \/ procs' = [procs EXCEPT !["timer"] = y]
    BY DEF TimerTurns
  <2>3. c \in 0..MaxChains /\ 0 \in 0..MaxItems /\ c \in DOMAIN chains'
    BY <1>2, <2>1, Constants
  <2> HIDE DEF c
  <2>4. y \in Proc /\ y.chain = c
    BY <2>3 DEF Proc
  <2> HIDE DEF y
  <2> QED BY <1>1, <2>1, <2>2, <2>3, <2>4, SameProcsFit, OneProcFits
<1> QED BY <1>1, <1>4, <1>5, <1>6

LEMMA OperatorKeeps ==
    ASSUME ChainInv, TimerTurns \/ Crash \/ \E c \in DOMAIN chains : Stop(c)
    PROVE  ChainInv'
<1>1. TypeOK /\ FilesFit /\ OnFile
  BY DEF ChainInv
<1>2. CASE TimerTurns
  BY <1>1, <1>2, TurnMoves, MovesKeep DEF TypeOK
<1>3. CASE Crash
  <2>1. ItemsMove /\ ChainsMove
    BY <1>1, <1>3, CrashMoves, SameChainsMove
  <2>2. ProcsFit
    BY <1>3, IdleIsProc DEF Crash, ProcsFit
  <2>3. TodoFits /\ watch' = watch
    BY <1>1, <1>3, TodoShrinks DEF Crash
  <2>4. crashes' \in 0..MaxCrashes
    BY <1>1, <1>3, Constants DEF Crash, TypeOK
  <2> QED BY <2>1, <2>2, <2>3, <2>4, MovesKeep
<1>4. CASE \E c \in DOMAIN chains : Stop(c)
  <2>1. ItemsMove /\ ChainsMove /\ UNCHANGED <<procs, todo, watch, crashes>>
    BY <1>4, StopMoves
  <2>2. ProcsFit /\ TodoFits
    BY <1>1, <2>1, SameProcsFit, TodoShrinks DEF ChainsMove
  <2> QED BY <1>1, <2>1, <2>2, MovesKeep DEF TypeOK
<1> QED BY <1>2, <1>3, <1>4

LEMMA WalkKeeps ==
    ASSUME ChainInv, TimerBegins \/ QueueAfterChain \/ AfterChain \/ UNCHANGED vars
    PROVE  ChainInv'
<1>1. /\ TypeOK /\ FilesFit /\ OnFile /\ UNCHANGED <<items, chains, procs, crashes>>
      /\ Len(chains) \in Nat /\ DOMAIN chains = 1..Len(chains) /\ Len(chains) <= MaxChains
  BY FileTypes DEF ChainInv, TypeOK, TimerBegins, QueueAfterChain, AfterChain, vars
<1>2. FilesFit'
  BY <1>1, SameItemsMove, SameChainsMove, MovesFit
<1>3. TodoFits
  <2>1. CASE todo' = todo
    BY <1>1, <2>1, TodoShrinks
  <2>2. CASE TimerBegins
    <3>1. /\ DOMAIN todo' = 1..Len(chains)
          /\ todo' = [c \in 1..Len(chains) |-> [chain |-> c, ended |-> chains[c].ended]]
      BY <1>1, <2>2 DEF TimerBegins
    <3>2. \A c \in 1..Len(chains) : chains[c].ended \in Endings /\ c \in 1..MaxChains
      <4>1. \A c \in 1..Len(chains) : chains[c].ended \in Endings
        BY <1>1, FileTypes DEF Chain
      <4> QED BY <1>1, <4>1, Constants
    <3>3. todo' \in [1..Len(chains) -> Turn]
      BY <3>1, <3>2 DEF Turn
    <3> QED BY <1>1, <3>1, <3>3 DEF TodoFits
  <2> QED BY <2>1, <2>2 DEF QueueAfterChain, AfterChain, vars
<1>4. watch' \in Watch
  <2>1. watch \in Watch /\ Len(chains) \in 0..MaxChains /\ 0 \in 0..MaxChains
    BY <1>1, Constants DEF TypeOK
  <2>2. CASE QueueAfterChain
    BY <2>1, <2>2 DEF QueueAfterChain, Watch
  <2>3. CASE AfterChain
    <3>1. \A n \in 0..MaxChains, state \in {"waiting", "started"} :
             [state |-> state, since |-> FALSE, id |-> n] \in Watch
      BY DEF Watch
    <3>2. \/ watch' = [state |-> "waiting", since |-> FALSE, id |-> Len(chains)]
          \/ watch' = [state |-> "started", since |-> FALSE, id |-> 0]
      BY <2>3 DEF AfterChain
    <3> QED BY <2>1, <3>1, <3>2
  <2> QED BY <2>1, <2>2, <2>3 DEF TimerBegins, vars
<1>5. TypeOK' /\ OnFile'
  BY <1>1, <1>3, <1>4 DEF TypeOK, OnFile, TodoFits
<1> QED BY <1>2, <1>5 DEF ChainInv

LEMMA StepKeeps == ChainInv /\ [Next]_vars => ChainInv'
<1> SUFFICES ASSUME ChainInv, [Next]_vars PROVE ChainInv'
  OBVIOUS
<1>1. Requests \subseteq Procs
  BY DEF Procs
<1>2. CASE \E i \in DOMAIN items : QueueStep(i)
  BY <1>2, QueueStepKeeps
<1>3. CASE \E r \in Requests : \/ StartChain(r) \/ StartRefused(r) \/ ChainStarts(r)
                               \/ StartSingle(r) \/ SingleQueued(r)
  <2> PICK r \in Requests : \/ StartChain(r) \/ StartRefused(r) \/ ChainStarts(r)
                           \/ StartSingle(r) \/ SingleQueued(r)
    BY <1>3
  <2>1. CASE ChainStarts(r) \/ (SingleQueued(r) /\ items' # items)
    BY <2>1, AddingKeeps
  <2>2. CASE \/ StartChain(r) \/ StartRefused(r) \/ StartSingle(r)
             \/ SingleQueued(r) /\ items' = items
    BY <1>1, <2>2, RequestKeeps
  <2> QED BY <2>1, <2>2
<1>4. CASE \E p \in Procs : AdvanceStep(p)
  BY <1>4, RequestKeeps, AdvanceKeeps, DecideKeeps, AddingKeeps DEF AdvanceStep
<1>5. CASE (\E c \in DOMAIN chains : Stop(c)) \/ TimerTurns \/ Crash
  BY <1>5, OperatorKeeps
<1>6. CASE TimerBegins \/ QueueAfterChain \/ AfterChain \/ UNCHANGED vars
  BY <1>6, WalkKeeps
<1> QED BY <1>2, <1>3, <1>4, <1>5, <1>6 DEF Next, QueueStep

-----------------------------------------------------------------------------
(* What the chains promise *)

\* The queue's items and the chains' steps fit each other whatever was awaited,
\* stopped or restarted, and what the timer and the requests work on is on file.
THEOREM ChainsFit == Spec => [](TypeOK /\ FilesFit /\ OnFile)
<1>1. ChainInv => TypeOK /\ FilesFit /\ OnFile
  BY DEF ChainInv
<1> QED BY <1>1, InitKeeps, StepKeeps, PTL DEF Spec

\* Only a start adds a chain, and only the queueing of a next step a step.
LEMMA StepKinds ==
    ASSUME ChainInv, [Next]_vars
    PROVE  \/ ChainsMove
           \/ \E r \in Requests : ChainStarts(r)
           \/ \E p \in Procs : QueueNext(p) /\ Adds(procs[p].chain) /\ procs[p].chain \in DOMAIN chains
<1>1. TypeOK /\ FilesFit
  BY DEF ChainInv
<1>2. CASE chains' = chains
  BY <1>1, <1>2, SameChainsMove
<1>3. CASE \E p \in Procs : Advance(p)
  <2> PICK p \in Procs : Advance(p)
    BY <1>3
  <2> DEFINE c == procs[p].chain
  <2>1. c \in DOMAIN chains /\ items' = items
    BY AdvanceCases
  <2>2. CASE chains' \in {chains, Ended(c, "failed")}
    BY <1>1, <2>1, <2>2, SameChainsMove, EndedMoves DEF Endings
  <2>3. CASE chains' = Ended(c, "operator") /\ items[LastItem(c)].state = "cancelled"
    BY <1>1, <2>1, <2>3, EndedMoves DEF Endings
  <2>4. CASE \E ended \in {"no", "failed", "person"}, changes \in BOOLEAN : Follows(p, ended, changes)
    BY <2>1, <2>4, FollowsMoves
  <2> QED BY <2>2, <2>3, <2>4, AdvanceCases
<1>4. CASE \E p \in Procs : Decide(p) \/ QueueNext(p)
  <2> PICK p \in Procs : Decide(p) \/ QueueNext(p)
    BY <1>4
  <2>1. CASE items' = items
    BY <2>1, DecideKeeps
  <2>2. CASE items' # items
    <3>1. QueueNext(p)
      BY <2>2 DEF Decide
    <3> QED BY <2>2, <3>1, QueueNextAdds
  <2> QED BY <2>1, <2>2
<1>5. CASE TimerTurns
  BY <1>5, TurnMoves
<1>6. CASE \E c \in DOMAIN chains : Stop(c)
  BY <1>6, StopMoves
<1> QED
  BY <1>2, <1>3, <1>4, <1>5, <1>6
  DEF Next, AdvanceStep, TickDone, Pick, StartGoesOn, Verified, CancelItem, LaunchEnds,
      StartChain, StartRefused, StartSingle, SingleQueued, TimerBegins, Crash,
      QueueAfterChain, AfterChain, vars

\* No step follows the end of a chain, and a stopped chain's waiting step never
\* starts: with any number of starts at once, slow ones included.
THEOREM NothingFollowsAnEnd == Spec => NothingAfterEnd
<1> DEFINE A ==
       /\ \A c \in DOMAIN chains :
             chains[c].ended # "no" => Len(chains'[c].steps) = Len(chains[c].steps)
       /\ \A i \in DOMAIN items :
             items[i].chain # 0 /\ chains[items[i].chain].ended = "operator"
             => ~(items[i].state = "waiting" /\ items'[i].state = "starting")
<1>1. ChainInv /\ [Next]_vars => A
  <2> SUFFICES ASSUME ChainInv, [Next]_vars PROVE A
    OBVIOUS
  <2>1. ASSUME NEW c \in DOMAIN chains, chains[c].ended # "no"
        PROVE  Len(chains'[c].steps) = Len(chains[c].steps)
    <3>1. CASE ChainsMove
      BY <3>1 DEF ChainsMove, ChainMoves
    <3>2. CASE \E d : Adds(d)
      BY <2>1, <3>2 DEF Adds
    <3> QED BY <3>1, <3>2, StepKinds, ChainStartsAdds
  <2>2. ASSUME NEW i \in DOMAIN items, items[i].chain # 0,
               chains[items[i].chain].ended = "operator"
        PROVE  items[i].state # "waiting"
    <3>1. /\ items[i].chain \in DOMAIN chains
          /\ items[i].state \in Open => i = LastItem(items[i].chain)
      BY <2>2 DEF ChainInv, FilesFit, ItemsHaveSteps
    <3>2. items[LastItem(items[i].chain)].state # "waiting"
      BY <2>2, <3>1 DEF ChainInv, FilesFit, StoppedNotWaiting
    <3> QED BY <3>1, <3>2 DEF Open
  <2> QED BY <2>1, <2>2
<1> QED BY <1>1, InitKeeps, StepKeeps, PTL DEF Spec, NothingAfterEnd

\* A request is at the start of a chain only after StartChain, and goes on with a
\* step of the chain only after ChainStarts; the timer, after its turn.
LEMMA ProcsGoOn ==
    ASSUME TypeOK, [Next]_vars, NEW q \in Procs
    PROVE  \/ procs'[q] \in {procs[q], Idle}
           \/ q \in Requests /\ (StartChain(q) \/ StartSingle(q) \/ ChainStarts(q))
           \/ AdvanceStep(q) /\ procs'[q].at \notin {"starting", "single"}
           \/ q = "timer" /\ TimerTurns /\ procs'[q].at = "advance"
<1>1. procs \in [Procs -> Proc] /\ Requests \subseteq Procs
  BY DEF TypeOK, Procs
<1>2. CASE \E i \in DOMAIN items : QueueStep(i)
  BY <1>2 DEF QueueStep, Pick, StartGoesOn, Verified, CancelItem, LaunchEnds
<1>3. CASE \E r \in Requests : StartRefused(r) \/ SingleQueued(r)
  BY <1>1, <1>3 DEF StartRefused, SingleQueued, Reply
<1>4. CASE \E r \in Requests : StartChain(r) \/ StartSingle(r) \/ ChainStarts(r)
  BY <1>1, <1>4 DEF StartChain, StartSingle, ChainStarts, At
<1>5. CASE \E p \in Procs : AdvanceStep(p)
  <2> PICK p \in Procs : AdvanceStep(p)
    BY <1>5
  <2>1. \/ procs' = procs \/ procs' = [procs EXCEPT ![p] = Idle]
        \/ \E x : procs' = [procs EXCEPT ![p] = x] /\ x.at \notin {"starting", "single"}
    <3>1. CASE TickDone(p) \/ Decide(p) \/ QueueNext(p)
      <4>1. \/ Return(p) \/ At(p, "advance") \/ At(p, "preflight") \/ At(p, "queueing")
        BY <3>1 DEF TickDone, Decide, QueueNext, End
      <4> QED BY <4>1 DEF Return, At
    <3>2. CASE Advance(p)
      <4>1. \/ Return(p)
            \/ \E n : procs' = [procs EXCEPT ![p] =
                               [at |-> "deciding", chain |-> procs[p].chain, length |-> n]]
        BY <3>2 DEF Advance, End
      <4> QED BY <4>1 DEF Return
    <3> QED BY <3>1, <3>2 DEF AdvanceStep
  <2> QED BY <1>1, <2>1
<1>6. CASE TimerTurns
  BY <1>1, <1>6 DEF TimerTurns, Procs
<1>7. CASE Crash
  BY <1>7 DEF Crash
<1>8. CASE \/ (\E c \in DOMAIN chains : Stop(c)) \/ TimerBegins
          \/ QueueAfterChain \/ AfterChain \/ UNCHANGED vars
  BY <1>8 DEF Stop, TimerBegins, QueueAfterChain, AfterChain, vars
<1> QED BY <1>2, <1>3, <1>4, <1>5, <1>6, <1>7, <1>8 DEF Next, QueueStep

\* Whoever asks while a chain runs is refused: no request gets past the check.
LEMMA CheckRefuses ==
    ASSUME ChainInv, [Next]_vars, Running # {}
    PROVE  PastCheck' \subseteq PastCheck
<1>1. TypeOK /\ procs \in [Procs -> Proc] /\ Requests \subseteq Procs /\ ActiveChain
  BY DEF ChainInv, TypeOK, Procs, Running, ActiveChain
<1> SUFFICES ASSUME NEW r \in Requests, procs'[r].at \in {"starting", "single"}
             PROVE  procs[r].at \in {"starting", "single"}
  BY DEF PastCheck
<1>2. ~StartChain(r) /\ ~StartSingle(r)
  BY <1>1 DEF StartChain, StartSingle
<1>3. ChainStarts(r) => procs'[r].at = "queueing"
  BY <1>1 DEF ChainStarts
<1>4. r # "timer"
  BY Constants
<1> QED BY <1>1, <1>2, <1>3, <1>4, ProcsGoOn, IdleIsProc

\* The requests past the check when a chain is recorded, itself included, are all
\* that can ever run beside it.
THEOREM OverlapIsBounded == Spec => []OverlapBounded
<1>1. Init => OverlapBounded
  <2> SUFFICES ASSUME Init PROVE Running = {}
    BY DEF OverlapBounded
  <2> QED BY DEF Init, Running
<1>2. ChainInv /\ OverlapBounded /\ [Next]_vars => OverlapBounded'
  <2> SUFFICES ASSUME ChainInv, OverlapBounded, [Next]_vars, Running' # {}
               PROVE  Cardinality(Running') + Cardinality(PastCheck') <= Cardinality(Requests)
    BY DEF OverlapBounded
  <2>1. /\ TypeOK /\ IsFiniteSet(Requests) /\ IsFiniteSet(DOMAIN chains)
        /\ Cardinality(Requests) \in Nat
    BY Constants, FileTypes, FS_Interval, FS_CardinalityType DEF ChainInv
  <2>2. /\ Running \subseteq DOMAIN chains /\ PastCheck \subseteq Requests
    BY DEF Running, PastCheck
  <2>3. /\ IsFiniteSet(Running) /\ Cardinality(Running) \in Nat
        /\ IsFiniteSet(PastCheck) /\ Cardinality(PastCheck) \in Nat
        /\ Cardinality(PastCheck) <= Cardinality(Requests)
    BY <2>1, <2>2, FS_Subset, FS_CardinalityType
  <2>4. CASE \E r \in Requests : ChainStarts(r)
    <3> PICK r \in Requests : ChainStarts(r)
      BY <2>4
    <3> DEFINE c == Len(chains) + 1
    <3>1. /\ Adds(c) /\ c \notin DOMAIN chains
          /\ procs' = [procs EXCEPT ![r] = [at |-> "queueing", chain |-> c, length |-> 0]]
          /\ procs[r].at = "starting" /\ procs \in [Procs -> Proc] /\ r \in Procs
          /\ Requests \subseteq Procs /\ c # 0
      <4>1. Adds(c) /\ c \notin DOMAIN chains
        BY ChainStartsAdds
      <4>2. procs \in [Procs -> Proc] /\ r \in Procs /\ Requests \subseteq Procs
        BY <2>1 DEF TypeOK, Procs
      <4>3. c # 0
        BY <2>1, FileTypes
      <4> QED BY <4>1, <4>2, <4>3 DEF ChainStarts
    <3> HIDE DEF c
    <3>2. Running' = Running \cup {c} /\ c \notin Running
      BY <3>1 DEF Adds, Running
    <3>3. PastCheck' = PastCheck \ {r} /\ r \in PastCheck
      BY <3>1 DEF PastCheck
    <3>4. Cardinality(Running') = Cardinality(Running) + 1
      BY <2>3, <3>2, FS_AddElement
    <3>5. Cardinality(PastCheck') = Cardinality(PastCheck) - 1
      BY <2>3, <3>3, FS_RemoveElement
    <3>6. CASE Running = {}
      <4>1. Cardinality(Running) = 0
        BY <3>6, FS_EmptySet
      <4> QED BY <2>1, <2>3, <3>4, <3>5, <4>1
    <3>7. CASE Running # {}
      BY <2>1, <2>3, <3>4, <3>5, <3>7 DEF OverlapBounded
    <3> QED BY <3>6, <3>7
  <2>5. CASE ~\E r \in Requests : ChainStarts(r)
    <3>1. Running' \subseteq Running
      <4>1. CASE ChainsMove
        BY <4>1 DEF ChainsMove, ChainMoves, Running
      <4>2. CASE \E d \in DOMAIN chains : Adds(d)
        <5>1. 0 \notin DOMAIN chains
          BY <2>1, FileTypes
        <5> QED BY <4>2, <5>1 DEF Adds, Running
      <4> QED BY <2>5, <4>1, <4>2, StepKinds
    <3>2. PastCheck' \subseteq PastCheck
      BY <3>1, CheckRefuses
    <3>3. /\ Cardinality(Running') <= Cardinality(Running) /\ Cardinality(Running') \in Nat
          /\ Cardinality(PastCheck') <= Cardinality(PastCheck)
          /\ Cardinality(PastCheck') \in Nat
      BY <2>3, <3>1, <3>2, FS_Subset, FS_CardinalityType
    <3>4. Cardinality(Running) + Cardinality(PastCheck) <= Cardinality(Requests)
      BY <3>1 DEF OverlapBounded
    <3> QED BY <2>1, <2>3, <3>3, <3>4
  <2> QED BY <2>4, <2>5
<1> QED BY <1>1, <1>2, InitKeeps, StepKeeps, PTL DEF Spec

\* Every step moves what is on file, or adds one item and its step.
LEMMA StepMoves ==
    ASSUME ChainInv, [Next]_vars
    PROVE  \/ ItemsMove /\ ChainsMove
           \/ \E r \in Requests : ChainStarts(r)
           \/ Adds(0) /\ chains' = chains
           \/ \E p \in Procs : /\ QueueNext(p) /\ Adds(procs[p].chain) /\ At(p, "queueing")
                               /\ procs[p].chain \in DOMAIN chains
<1>1. TypeOK /\ FilesFit
  BY DEF ChainInv
<1>2. ASSUME NEW p \in Procs, QueueNext(p), Adds(procs[p].chain), procs[p].chain \in DOMAIN chains
      PROVE  At(p, "queueing")
  <2>1. items' # items
    <3>1. Len(items') = Len(items) + 1 /\ Len(items) \in Nat
      BY <1>1, <1>2, AddedItem, FileTypes
    <3> QED BY <3>1
  <2> QED BY <1>2, <2>1, QueueNextAdds
<1>3. CASE items' = items
  <2>1. ItemsMove
    BY <1>1, <1>3, SameItemsMove
  <2> QED BY <1>2, <2>1, StepKinds
<1>4. CASE \E i \in DOMAIN items : QueueStep(i)
  BY <1>1, <1>4, QueueStepMoves, SameChainsMove
<1>5. CASE TimerTurns
  BY <1>5, TurnMoves
<1>6. CASE \E c \in DOMAIN chains : Stop(c)
  BY <1>6, StopMoves
<1>7. CASE Crash
  BY <1>1, <1>7, CrashMoves, SameChainsMove
<1>8. CASE \E r \in Requests : SingleQueued(r) /\ items' # items
  BY <1>8, SingleQueuedAdds
<1>9. CASE \E p \in Procs : QueueNext(p) /\ items' # items
  BY <1>9, QueueNextAdds
<1> QED
  BY <1>3, <1>4, <1>5, <1>6, <1>7, <1>8, <1>9
  DEF Next, QueueStep, AdvanceStep, TickDone, Advance, Decide, StartChain, StartRefused,
      StartSingle, TimerBegins, QueueAfterChain, AfterChain, vars

\* Items and steps stay, and so does what became known of them; a chain grows
\* only where its next step is queued.
LEMMA FilesGoOn ==
    ASSUME ChainInv, [Next]_vars
    PROVE  /\ \A i \in DOMAIN items :
                 /\ i \in DOMAIN items' /\ items'[i].chain = items[i].chain
                 /\ items[i].step = "ok" => items'[i].step = "ok"
                 /\ items'[i].step \in {"ok", "bad"} => items[i].step = items'[i].step \/ Verified(i)
           /\ \A c \in DOMAIN chains :
                 /\ c \in DOMAIN chains'
                 /\ \A k \in DOMAIN chains[c].steps :
                       /\ chains'[c].steps[k].item = chains[c].steps[k].item
                       /\ chains[c].steps[k].launched => chains'[c].steps[k].launched
                 /\ \/ Len(chains'[c].steps) = Len(chains[c].steps)
                    \/ /\ Len(chains'[c].steps) = Len(chains[c].steps) + 1
                       /\ \E p \in Procs : /\ QueueNext(p) /\ procs[p].chain = c
                                           /\ At(p, "queueing")
           /\ \A c \in DOMAIN chains' :
                 c \notin DOMAIN chains => Len(chains'[c].steps) = 1
<1>1. TypeOK
  BY DEF ChainInv
<1>2. CASE ItemsMove /\ ChainsMove
  BY <1>2 DEF ItemsMove, ItemMoves, ChainsMove, ChainMoves
<1>3. \A c : Adds(c) => \A i \in DOMAIN items : i \in DOMAIN items' /\ items'[i] = items[i]
  BY <1>1, AddedItem
<1>4. CASE Adds(0) /\ chains' = chains
  BY <1>3, <1>4
<1>5. CASE \E r \in Requests : ChainStarts(r)
  <2>1. Adds(Len(chains) + 1) /\ Len(chains'[Len(chains) + 1].steps) = 1
    BY <1>5, ChainStartsAdds
  <2>2. Len(chains) + 1 \notin DOMAIN chains
    BY <1>5, ChainStartsAdds
  <2>3. /\ DOMAIN chains' \subseteq DOMAIN chains \cup {Len(chains) + 1}
        /\ \A c \in DOMAIN chains : c \in DOMAIN chains' /\ chains'[c] = chains[c]
    BY <2>1, <2>2 DEF Adds
  <2> QED BY <1>3, <2>1, <2>2, <2>3
<1>6. CASE \E p \in Procs : /\ QueueNext(p) /\ Adds(procs[p].chain) /\ At(p, "queueing")
                            /\ procs[p].chain \in DOMAIN chains
  <2> PICK p \in Procs : /\ QueueNext(p) /\ Adds(procs[p].chain) /\ At(p, "queueing")
                         /\ procs[p].chain \in DOMAIN chains
    BY <1>6
  <2> DEFINE c == procs[p].chain
  <2>1. /\ DOMAIN chains' = DOMAIN chains
        /\ \A d \in DOMAIN chains : d # c => chains'[d] = chains[d]
    BY <1>1, FileTypes DEF Adds
  <2>2. /\ Len(chains'[c].steps) = Len(chains[c].steps) + 1
        /\ \A k \in DOMAIN chains[c].steps : chains'[c].steps[k] = chains[c].steps[k]
    <3>1. c # 0 /\ DOMAIN chains[c].steps = 1..Len(chains[c].steps)
      BY <1>1, FileTypes
    <3> QED BY <3>1 DEF Adds
  <2> QED BY <1>3, <2>1, <2>2
<1> QED BY <1>2, <1>4, <1>5, <1>6, StepMoves

\* The last item of a chain after the step, also where the chain is named by a state.
LastItemThen(c) == chains'[c].steps[Len(chains'[c].steps)].item

\* Only the timer decides, from a step that was verified: the first step of a
\* start still followed by its request is not.
LEMMA GrowsFromVerified ==
    ASSUME OrderInv, [Next]_vars, NEW c \in DOMAIN chains,
           Len(chains'[c].steps) # Len(chains[c].steps)
    PROVE  /\ QueueNext("timer") /\ procs["timer"].chain = c /\ At("timer", "queueing")
           /\ Len(chains'[c].steps) = Len(chains[c].steps) + 1 /\ Len(chains[c].steps) < Cap
           /\ chains[c].steps[Len(chains[c].steps)].launched /\ items[LastItem(c)].step = "ok"
<1>1. PICK p \in Procs : QueueNext(p) /\ procs[p].chain = c /\ At(p, "queueing")
  BY FilesGoOn DEF OrderInv
<1>2. procs[p].at = "preflight"
  BY <1>1 DEF QueueNext
<1>3. p = "timer"
  BY <1>2 DEF OrderInv, StartsStayBehind, Procs
<1>4. Len(chains'[c].steps) = Len(chains[c].steps) + 1
  BY FilesGoOn DEF OrderInv
<1> QED BY <1>1, <1>2, <1>3, <1>4 DEF OrderInv, GoesOnFromVerified

LEMMA OthersStayVerified ==
    ASSUME OrderInv, [Next]_vars
    PROVE  OthersVerified'
<1>1. ChainInv /\ ChainInv' /\ TypeOK /\ StepsHaveItems
  BY StepKeeps DEF OrderInv, ChainInv, FilesFit
<1> SUFFICES ASSUME NEW c \in DOMAIN chains'
             PROVE  LET steps == chains'[c].steps
                        n     == Len(steps)
                    IN  /\ n <= Cap
                        /\ \A k \in DOMAIN steps :
                              k < n => steps[k].launched /\ items'[steps[k].item].step = "ok"
  BY DEF OthersVerified
<1> DEFINE n == Len(chains[c].steps)
<1>2. DOMAIN chains'[c].steps = 1..Len(chains'[c].steps)
  <2>1. chains' \in Seq(Chain)
    BY <1>1 DEF ChainInv, TypeOK
  <2>2. chains'[c] \in Chain
    BY <2>1, SeqParts
  <2>3. chains'[c].steps \in Seq(Step)
    BY <2>2 DEF Chain
  <2> QED BY <2>3
<1>3. CASE c \notin DOMAIN chains
  <2>1. Len(chains'[c].steps) = 1
    BY <1>1, <1>3, FilesGoOn
  <2>2. DOMAIN chains'[c].steps = 1..1
    BY <1>2, <2>1
  <2> QED BY <2>1, <2>2, Constants
<1>4. CASE c \in DOMAIN chains
  <2>1. /\ n \in Nat /\ DOMAIN chains[c].steps = 1..n /\ n <= Cap
        /\ \A k \in 1..n : chains[c].steps[k].item \in DOMAIN items
    BY <1>1, <1>4, FileTypes DEF OrderInv, OthersVerified, StepsHaveItems
  <2>2. \A k \in 1..n :
           chains[c].steps[k].launched /\ items[chains[c].steps[k].item].step = "ok"
           => chains'[c].steps[k].launched /\ items'[chains'[c].steps[k].item].step = "ok"
    BY <1>1, <1>4, <2>1, FilesGoOn
  <2>3. \A k \in 1..n : k < n =>
           chains[c].steps[k].launched /\ items[chains[c].steps[k].item].step = "ok"
    BY <1>4, <2>1 DEF OrderInv, OthersVerified
  <2>4. CASE Len(chains'[c].steps) = n
    BY <1>2, <2>1, <2>2, <2>3, <2>4
  <2>5. CASE Len(chains'[c].steps) # n
    <3>1. /\ Len(chains'[c].steps) = n + 1 /\ n < Cap
          /\ chains[c].steps[n].launched /\ items[LastItem(c)].step = "ok"
      BY <1>4, <2>5, GrowsFromVerified
    <3>2. \A k \in 1..n :
             chains[c].steps[k].launched /\ items[chains[c].steps[k].item].step = "ok"
      BY <2>1, <2>3, <3>1 DEF LastItem
    <3>3. n + 1 <= Cap /\ \A k \in 1..(n + 1) : k < n + 1 => k \in 1..n
      BY <2>1, <3>1, Constants
    <3> QED BY <1>2, <2>2, <3>1, <3>2, <3>3
  <2> QED BY <2>4, <2>5
<1> QED BY <1>3, <1>4

LEMMA StartsStay ==
    ASSUME OrderInv, [Next]_vars, ~SlowStart
    PROVE  StartsStayBehind'
<1>1. /\ ChainInv /\ TypeOK /\ OnFile /\ StepsHaveItems /\ StartsStayBehind
      /\ Requests \subseteq Procs /\ procs \in [Procs -> Proc]
  BY DEF OrderInv, ChainInv, FilesFit, TypeOK, Procs
<1> SUFFICES ASSUME NEW r \in Requests
             PROVE  /\ procs'[r].at \notin {"deciding", "preflight"}
                    /\ procs'[r].at \in {"queueing", "advance"} =>
                          LET c == procs'[r].chain IN
                          /\ Len(chains'[c].steps) = 1
                          /\ items'[LastItemThen(c)].step \notin {"ok", "bad"}
  BY DEF StartsStayBehind, LastItem, LastItemThen
<1> DEFINE c == procs[r].chain
<1>2. /\ procs[r].at \notin {"deciding", "preflight"}
      /\ procs[r].at \in {"queueing", "advance"} =>
            /\ c \in DOMAIN chains /\ Len(chains[c].steps) = 1
            /\ items[LastItem(c)].step \notin {"ok", "bad"}
  BY <1>1 DEF StartsStayBehind, OnFile
\* While its request follows it, the chain has its first step, not verified yet.
<1>3. ASSUME procs[r].at \in {"queueing", "advance"}
      PROVE  Len(chains'[c].steps) = 1 /\ items'[LastItemThen(c)].step \notin {"ok", "bad"}
  <2>1. c \in DOMAIN chains /\ LastItem(c) \in DOMAIN items /\ items[LastItem(c)].chain = c
    BY <1>1, <1>2, <1>3, LastStep
  <2>2. Len(chains'[c].steps) = 1
    BY <1>2, <1>3, <2>1, GrowsFromVerified
  <2>3. LastItemThen(c) = LastItem(c)
    <3>1. 1 \in DOMAIN chains[c].steps
      BY <1>1, <1>2, <1>3, <2>1, LastStep
    <3> QED BY <1>1, <1>2, <1>3, <2>1, <2>2, <3>1, FilesGoOn DEF LastItem, LastItemThen
  <2>4. ~Verified(LastItem(c))
    BY <1>3, <2>1 DEF Verified, StartersTick
  <2>5. items'[LastItem(c)].step \in {"ok", "bad"} => items[LastItem(c)].step \in {"ok", "bad"}
    BY <1>1, <2>1, <2>4, FilesGoOn
  <2> QED BY <1>2, <1>3, <2>2, <2>3, <2>5
<1>4. CASE procs'[r] \in {procs[r], Idle}
  BY <1>2, <1>3, <1>4, IdleIsProc
<1>5. CASE StartChain(r) \/ StartSingle(r)
  <2>1. procs'[r].at \in {"starting", "single"}
    BY <1>1, <1>5 DEF StartChain, StartSingle, At
  <2> QED BY <2>1
<1>6. CASE ChainStarts(r)
  <2> DEFINE d == Len(chains) + 1
             m == Len(items) + 1
  <2>1. procs'[r] = [at |-> "queueing", chain |-> d, length |-> 0]
    BY <1>1, <1>6 DEF ChainStarts
  <2>2. /\ Adds(d) /\ d \notin DOMAIN chains /\ Len(chains'[d].steps) = 1
        /\ d # 0
    BY <1>1, <1>6, ChainStartsAdds, FileTypes
  <2>3. items'[m] = [chain |-> d, state |-> "waiting", step |-> "none"]
    BY <1>1, <2>2, AddedItem
  <2>4. chains'[d].steps[1].item = m
    BY <2>2 DEF Adds
  <2>5. LastItemThen(d) = m
    BY <2>2, <2>4 DEF LastItemThen
  <2> HIDE DEF d, m
  <2> QED BY <2>1, <2>2, <2>3, <2>5
<1>7. CASE AdvanceStep(r)
  <2>1. CASE TickDone(r)
    <3>1. procs[r].at = "queueing" /\ procs'[r] = [at |-> "advance", chain |-> c, length |-> 0]
      BY <1>1, <2>1 DEF TickDone, At
    <3> QED BY <1>3, <3>1
  <2>2. CASE Advance(r)
    <3>1. Return(r)
      <4>1. procs[r].at = "advance"
        BY <2>2 DEF Advance
      <4> QED BY <1>1, <1>2, <2>2, <4>1, AdvanceCases
    <3>2. procs'[r] = Idle
      BY <1>1, <3>1 DEF Return
    <3> QED BY <3>2, IdleIsProc
  <2> QED BY <1>2, <1>7, <2>1, <2>2 DEF AdvanceStep, Decide, QueueNext
<1>8. r # "timer"
  BY Constants
<1> QED BY <1>1, <1>4, <1>5, <1>6, <1>7, <1>8, ProcsGoOn

LEMMA TimerGoesOn ==
    ASSUME OrderInv, [Next]_vars
    PROVE  GoesOnFromVerified'
<1> DEFINE t == procs["timer"]
           c == t.chain
           n == Len(chains[c].steps)
<1>1. /\ ChainInv /\ TypeOK /\ OnFile /\ StepsHaveItems /\ GoesOnFromVerified
      /\ "timer" \in Procs /\ procs \in [Procs -> Proc] /\ "timer" \notin Requests
  BY Constants DEF OrderInv, ChainInv, FilesFit, TypeOK, Procs
<1> DEFINE Goal == procs'["timer"].at \in {"deciding", "preflight"} =>
                      LET d == procs'["timer"].chain
                          m == Len(chains'[d].steps)
                      IN  /\ chains'[d].steps[m].launched /\ items'[LastItemThen(d)].step = "ok"
                          /\ procs'["timer"].at = "deciding" => procs'["timer"].length = m
                          /\ procs'["timer"].at = "preflight" => m < Cap
<1> SUFFICES Goal
  BY DEF GoesOnFromVerified, LastItem, LastItemThen
\* Where no step is queued, the chain it decided about stays as it is.
<1>2. ASSUME c \in DOMAIN chains, procs'["timer"].at # "queueing"
      PROVE  /\ Len(chains'[c].steps) = n /\ LastItemThen(c) = LastItem(c)
             /\ LastItem(c) \in DOMAIN items
             /\ chains[c].steps[n].launched => chains'[c].steps[n].launched
             /\ items[LastItem(c)].step = "ok" => items'[LastItem(c)].step = "ok"
  <2>1. n \in DOMAIN chains[c].steps /\ LastItem(c) \in DOMAIN items
    BY <1>1, <1>2, LastStep
  <2>2. Len(chains'[c].steps) = n
    <3>1. ~At("timer", "queueing")
      BY <1>1, <1>2 DEF At
    <3> QED BY <1>2, <3>1, GrowsFromVerified
  <2> QED BY <1>1, <1>2, <2>1, <2>2, FilesGoOn DEF LastItem, LastItemThen
<1>3. CASE procs'["timer"] = procs["timer"]
  <2>1. t.at \in {"deciding", "preflight"} => c \in DOMAIN chains
    BY <1>1 DEF OnFile
  <2> QED BY <1>1, <1>2, <1>3, <2>1 DEF GoesOnFromVerified
<1>4. CASE procs'["timer"] = Idle
  BY <1>4, IdleIsProc
<1>5. CASE TimerTurns /\ procs'["timer"].at = "advance"
  BY <1>5
<1>6. CASE AdvanceStep("timer")
  <2>1. CASE TickDone("timer")
    <3>1. procs'["timer"].at = "advance"
      BY <1>1, <2>1 DEF TickDone, At
    <3> QED BY <3>1
  <2>2. CASE Advance("timer")
    <3>1. CASE Return("timer")
      BY <1>1, <3>1, IdleIsProc DEF Return
    <3>2. CASE \E changes \in BOOLEAN :
                  /\ Follows("timer", "no", changes) /\ items[LastItem(c)].step = "ok"
                  /\ procs' = [procs EXCEPT !["timer"] =
                                  [at |-> "deciding", chain |-> c, length |-> n]]
      <4>1. c \in DOMAIN chains /\ items' = items
        BY <1>1, <2>2, AdvanceCases
      <4>2. procs'["timer"] = [at |-> "deciding", chain |-> c, length |-> n]
        BY <1>1, <3>2
      <4>3. chains'[c].steps[n].launched
        BY <1>1, <3>2, <4>1, FollowsMoves
      <4> QED BY <1>2, <3>2, <4>1, <4>2, <4>3
    <3> QED BY <1>1, <2>2, <3>1, <3>2, AdvanceCases
  <2>3. CASE Decide("timer")
    <3>1. CASE End("timer", c, "person")
      BY <1>1, <3>1, IdleIsProc DEF End, Return
    <3>2. CASE ~CapReached("timer") /\ At("timer", "preflight")
      <4>1. t.at = "deciding" /\ c \in DOMAIN chains
        BY <1>1, <2>3 DEF Decide, OnFile
      <4>2. procs'["timer"] = [at |-> "preflight", chain |-> c, length |-> 0]
        BY <1>1, <3>2 DEF At
      <4>3. n < Cap
        <5>1. t.length = n /\ n \in Nat
          BY <1>1, <4>1, FileTypes DEF GoesOnFromVerified
        <5> QED BY <3>2, <5>1, Constants DEF CapReached
      <4> QED BY <1>1, <1>2, <4>1, <4>2, <4>3 DEF GoesOnFromVerified
    <3> QED BY <2>3, <3>1, <3>2 DEF Decide
  <2>4. CASE QueueNext("timer")
    <3>1. Return("timer") \/ At("timer", "queueing")
      BY <2>4 DEF QueueNext, End
    <3>2. procs'["timer"].at \in {"idle", "queueing"}
      BY <1>1, <3>1, IdleIsProc DEF Return, At
    <3> QED BY <3>2
  <2> QED BY <1>6, <2>1, <2>2, <2>3, <2>4 DEF AdvanceStep
<1> QED BY <1>1, <1>3, <1>4, <1>5, <1>6, ProcsGoOn

\* Only the newest item may be open: nothing is queued while one is.
OpenIsNewest == \A i \in DOMAIN items : items[i].state \in Open => i = Len(items)

LEMMA NewestStays ==
    ASSUME ChainInv, OpenIsNewest, [Next]_vars
    PROVE  OpenIsNewest'
<1>1. TypeOK
  BY DEF ChainInv
<1>2. CASE ItemsMove
  BY <1>2 DEF ItemsMove, ItemMoves, OpenIsNewest
<1>3. ASSUME NEW c, Adds(c) PROVE OpenIsNewest'
  <2>1. \A i \in DOMAIN items : items[i].state \notin Open
    BY <1>3 DEF Adds, HasOpen
  <2>2. /\ DOMAIN items' = DOMAIN items \cup {Len(items) + 1} /\ Len(items') = Len(items) + 1
        /\ \A i \in DOMAIN items : items'[i] = items[i]
    BY <1>1, <1>3, AddedItem
  <2> QED BY <2>1, <2>2 DEF OpenIsNewest
<1> QED BY <1>2, <1>3, StepMoves, ChainStartsAdds

\* Only enqueue's refusal ends a chain for the queue's sake.
LEMMA QueueEnds ==
    ASSUME ChainInv, [Next]_vars, NEW c \in DOMAIN chains,
           chains[c].ended # "queue", chains'[c].ended = "queue"
    PROVE  /\ items' = items /\ HasOpen
           /\ \E p \in Procs : procs[p].at = "preflight" /\ procs[p].chain = c
<1>1. /\ TypeOK /\ DOMAIN chains = 1..Len(chains)
      /\ \A d \in DOMAIN chains : chains[d] \in Chain
  BY FileTypes DEF ChainInv
\* What becomes of one chain's ending when another or the same chain is written.
<1>2. \A d, x : chains' = [chains EXCEPT ![d] = x] => d = c /\ x.ended = "queue"
  OBVIOUS
<1>3. \A d, kind : chains' = Ended(d, kind) => d = c /\ kind = "queue"
  <2> SUFFICES ASSUME NEW d, NEW kind, chains' = Ended(d, kind)
               PROVE  d = c /\ kind = "queue"
    OBVIOUS
  <2>1. chains' # chains
    OBVIOUS
  <2>2. chains' = [chains EXCEPT ![d].ended = kind]
    BY <2>1 DEF Ended
  <2> QED BY <1>1, <2>2 DEF Chain
<1>4. \A d, kind, step : chains' = Patched(d, kind, step) => kind = "queue"
  BY <1>2 DEF Patched
<1>5. ASSUME NEW p \in Procs, AdvanceStep(p)
      PROVE  QueueNext(p) /\ items' = items /\ HasOpen /\ procs[p].chain = c
  <2>1. CASE Advance(p)
    <3>1. \/ chains' \in {chains, Ended(procs[p].chain, "failed")}
          \/ chains' = Ended(procs[p].chain, "operator")
          \/ \E ended \in {"no", "failed", "person"}, changes \in BOOLEAN :
                Follows(p, ended, changes)
      BY <2>1, AdvanceCases
    <3>2. \A ended, changes : Follows(p, ended, changes) => ended = "queue"
      BY <1>4 DEF Follows
    <3> QED BY <1>3, <3>1, <3>2
  <2>2. CASE Decide(p)
    BY <1>3, <2>2 DEF Decide, End
  <2>3. CASE QueueNext(p)
    BY <1>2, <1>3, <2>3 DEF QueueNext, End
  <2> QED BY <1>5, <2>1, <2>2, <2>3 DEF AdvanceStep, TickDone
<1>6. ~TimerTurns
  <2> SUFFICES ASSUME TimerTurns PROVE FALSE
    OBVIOUS
  <2> DEFINE d == Head(todo).chain
  <2>1. \/ chains' = chains
        \/ \E step : chains' = Patched(d, chains[d].ended, step) /\ Head(todo).ended = "operator"
    BY DEF TimerTurns
  <2>2. \E step : chains' = Patched(d, chains[d].ended, step)
    BY <2>1
  <2>3. d = c
    BY <1>2, <2>2 DEF Patched
  <2> QED BY <1>4, <2>2, <2>3
<1>7. \A d \in DOMAIN chains : ~Stop(d)
  BY <1>4 DEF Stop
<1>8. \A r \in Requests : ~ChainStarts(r)
  <2> SUFFICES ASSUME NEW r \in Requests, ChainStarts(r) PROVE FALSE
    OBVIOUS
  <2>1. Adds(Len(chains) + 1) /\ Len(chains) + 1 \notin DOMAIN chains
    BY ChainStartsAdds
  <2> QED BY <2>1 DEF Adds
<1>9. \E p \in Procs : AdvanceStep(p)
  BY <1>6, <1>7, <1>8
  DEF Next, Pick, StartGoesOn, Verified, CancelItem, LaunchEnds, StartChain, StartRefused,
      StartSingle, SingleQueued, TimerBegins, Crash, QueueAfterChain, AfterChain, vars
<1> QED BY <1>5, <1>9 DEF QueueNext

\* The strengthened order is kept where a start's own tick cannot outlast the
\* step it started.
LEMMA ChainOrder == ~SlowStart => (Spec => []OrderInv)
<1> SUFFICES ASSUME ~SlowStart PROVE Spec => []OrderInv
  OBVIOUS
<1>1. Init => OrderInv
  <2> SUFFICES ASSUME Init PROVE OrderInv
    OBVIOUS
  <2>1. /\ DOMAIN chains = {} /\ procs["timer"].at = "idle"
        /\ \A r \in Requests : procs[r].at = "idle"
    BY IdleIsProc DEF Init, Procs
  <2> QED BY <2>1, InitKeeps
          DEF OrderInv, StartsStayBehind, GoesOnFromVerified, OthersVerified
<1>2. OrderInv /\ [Next]_vars => OrderInv'
  BY StepKeeps, StartsStay, TimerGoesOn, OthersStayVerified DEF OrderInv
<1> QED BY <1>1, <1>2, PTL DEF Spec

\* Where a start's own tick cannot outlast the step it started: a chain's steps
\* but the last were verified, only the last is out, and there are at most Cap.
THEOREM ChainStepsInOrder == ~SlowStart => (Spec => []StepsInOrder)
<1> SUFFICES ASSUME ~SlowStart PROVE Spec => []StepsInOrder
  OBVIOUS
<1>1. OrderInv => StepsInOrder
  <2> SUFFICES ASSUME OrderInv, NEW c \in DOMAIN chains
               PROVE  LET steps == chains[c].steps
                          n     == Len(steps)
                      IN  /\ n <= Cap
                          /\ \A k \in 1..(n - 1) :
                                steps[k].launched /\ items[steps[k].item].step = "ok"
                          /\ \A i \in DOMAIN items :
                                items[i].chain = c /\ (InFlight(i) \/ items[i].state \in Open)
                                => i = steps[n].item
    BY DEF StepsInOrder, OrderInv, ChainInv
  <2> DEFINE steps == chains[c].steps
             n == Len(steps)
  <2>1. /\ TypeOK /\ ItemsHaveSteps /\ n \in Nat /\ DOMAIN steps = 1..n /\ c # 0 /\ n <= Cap
        /\ \A k \in DOMAIN steps : k < n => steps[k].launched /\ items[steps[k].item].step = "ok"
    BY FileTypes DEF OrderInv, ChainInv, FilesFit, OthersVerified
  <2>2. ASSUME NEW i \in DOMAIN items, items[i].chain = c,
               InFlight(i) \/ items[i].state \in Open
        PROVE  i = steps[n].item
    <3>1. PICK k \in DOMAIN steps : steps[k].item = i
      BY <2>1, <2>2 DEF ItemsHaveSteps
    <3>2. CASE items[i].state \in Open
      BY <2>1, <2>2, <3>2 DEF ItemsHaveSteps, LastItem
    <3>3. CASE InFlight(i)
      <4>1. items[i].step # "ok"
        BY <3>3 DEF InFlight
      <4>2. k = n
        BY <2>1, <3>1, <4>1
      <4> QED BY <3>1, <4>2
    <3> QED BY <2>2, <3>2, <3>3
  <2> QED BY <2>1, <2>2
<1> QED BY <1>1, ChainOrder, PTL DEF Spec

\* There too, chains give way to others only, however many were asked for at once.
THEOREM ChainsApart == ~SlowStart => (Spec => []ChainsKeepApart)
<1> SUFFICES ASSUME ~SlowStart PROVE Spec => []ChainsKeepApart
  OBVIOUS
<1> DEFINE Inv == OpenIsNewest /\ YieldsToOthers
<1>1. Init => Inv
  BY DEF Init, OpenIsNewest, YieldsToOthers
<1>2. OrderInv /\ OrderInv' /\ Inv /\ [Next]_vars => Inv'
  <2> SUFFICES ASSUME OrderInv, OrderInv', OpenIsNewest, YieldsToOthers, [Next]_vars
               PROVE  YieldsToOthers'
    BY NewestStays DEF OrderInv
  <2>1. /\ ChainInv /\ TypeOK /\ ItemsInShape /\ StepsHaveItems /\ ItemsHaveSteps
        /\ ChainInv' /\ TypeOK' /\ StepsHaveItems'
    BY DEF OrderInv, ChainInv, FilesFit
  <2> SUFFICES ASSUME NEW c \in DOMAIN chains', chains'[c].ended = "queue"
               PROVE  \E i \in DOMAIN items' :
                         items'[i].chain # c /\ i > chains'[c].steps[1].item
    <3>1. \A d : Head(chains'[d].steps) = chains'[d].steps[1]
      OBVIOUS
    <3> QED BY <3>1 DEF YieldsToOthers
  <2>2. c \in DOMAIN chains
    <3>1. CASE ChainsMove
      BY <3>1 DEF ChainsMove
    <3>2. CASE \E d : Adds(d)
      BY <3>2 DEF Adds
    <3> QED BY <2>1, <3>1, <3>2, StepKinds, ChainStartsAdds
  <2>3. /\ 1 \in DOMAIN chains[c].steps /\ chains'[c].steps[1].item = chains[c].steps[1].item
        /\ chains[c].steps[1].item \in DOMAIN items
        /\ items[chains[c].steps[1].item].chain = c
    BY <2>1, <2>2, FileTypes, FilesGoOn DEF StepsHaveItems
  <2>4. \A i \in DOMAIN items : i \in DOMAIN items' /\ items'[i].chain = items[i].chain
    BY <2>1, FilesGoOn
  <2>5. CASE chains[c].ended = "queue"
    <3>1. Head(chains[c].steps) = chains[c].steps[1]
      OBVIOUS
    <3> QED BY <2>2, <2>3, <2>4, <2>5, <3>1 DEF YieldsToOthers
  <2>6. CASE chains[c].ended # "queue"
    <3>1. /\ HasOpen
          /\ \E p \in Procs : procs[p].at = "preflight" /\ procs[p].chain = c
      BY <2>1, <2>2, <2>6, QueueEnds
    <3>2. procs["timer"].at = "preflight" /\ procs["timer"].chain = c
      BY <3>1 DEF OrderInv, StartsStayBehind, Procs
    <3>3. items[LastItem(c)].step = "ok" /\ LastItem(c) \in DOMAIN items
      BY <2>1, <2>2, <3>2, LastStep DEF OrderInv, GoesOnFromVerified
    <3>4. PICK i \in DOMAIN items : items[i].state \in Open
      BY <3>1 DEF HasOpen
    <3>5. items[i].chain # c
      BY <2>1, <2>2, <3>3, <3>4, FileTypes DEF ItemsInShape, ItemsHaveSteps, Open
    <3>6. i > chains[c].steps[1].item
      BY <2>1, <2>3, <3>4, <3>5, FileTypes DEF OpenIsNewest
    <3> QED BY <2>3, <2>4, <3>4, <3>5, <3>6
  <2> QED BY <2>5, <2>6
<1>3. Inv /\ OverlapBounded => ChainsKeepApart
  BY DEF ChainsKeepApart
<1> HIDE DEF Inv
<1> QED BY <1>1, <1>2, <1>3, ChainOrder, OverlapIsBounded, PTL DEF Spec
=============================================================================
