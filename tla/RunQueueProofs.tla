---------------------------- MODULE RunQueueProofs ----------------------------
(***************************************************************************)
(* What holds of the Run queue for any tasks, any cap, any number of items,  *)
(* kept rows and restarts, and also while a second server starts Runs of its *)
(* own in the same launch directory.                                        *)
(***************************************************************************)
EXTENDS RunQueue, FiniteSetTheorems, TLAPS

-----------------------------------------------------------------------------
(* Lemmas about the operators *)

LEMMA ConstantTypes ==
    /\ Knowledge \notin Tasks
    /\ Cap \in Nat \ {0} /\ KeepEnded \in Nat \ {0} /\ KeepPerKey \in Nat \ {0}
    /\ MaxItems \in Nat /\ MaxCrashes \in Nat
  BY QueueAssumption DEF QueueAssumption

\* A set of numbers up to n has a largest one: of the sets of those of its
\* numbers that are at least x, for each of its x, one has no proper subset.
LEMMA HasLargest ==
    ASSUME NEW n \in Nat, NEW S \in SUBSET (1..n), S # {}
    PROVE  \E m \in S : \A j \in S : j <= m
<1> DEFINE from(x) == {y \in S : y >= x}
           T == {from(x) : x \in S}
<1>1. IsFiniteSet(1..n)
  BY FS_Interval
<1>2. IsFiniteSet(S)
  BY <1>1, FS_Subset
<1>3. \A x \in S : from(x) \in SUBSET S /\ IsFiniteSet(from(x))
  BY <1>2, FS_Subset
<1>4. T \subseteq FiniteSubsetsOf(S) /\ T # {}
  BY <1>3 DEF FiniteSubsetsOf
<1>5. \E U \in T : \A V \in T : ~(<<V, U>> \in StrictSubsetOrdering(S))
  <2>1. IsWellFoundedOn(StrictSubsetOrdering(S), FiniteSubsetsOf(S))
    BY FS_StrictSubsetOrderingWellFounded
  <2> HIDE DEF T
  <2> QED BY <1>4, <2>1, WFMin
<1>6. PICK m \in S : \A x \in S : ~(<<from(x), from(m)>> \in StrictSubsetOrdering(S))
  BY <1>5
<1>7. ASSUME NEW j \in S, ~(j <= m) PROVE FALSE
  <2>1. j \in Int /\ m \in Int /\ j > m
    BY <1>7
  <2>2. from(j) \subseteq from(m) /\ m \in from(m) /\ m \notin from(j)
    <3>1. \A y \in S : y \in Int
      OBVIOUS
    <3>2. \A y \in S : y >= j => y >= m
      BY <2>1, <3>1
    <3>3. m >= m /\ ~(m >= j)
      BY <2>1
    <3> QED BY <3>2, <3>3
  <2>3. <<from(j), from(m)>> \in (SUBSET S) \X (SUBSET S)
    BY <1>3
  <2>4. <<from(j), from(m)>> \in StrictSubsetOrdering(S)
    BY <2>2, <2>3 DEF StrictSubsetOrdering
  <2> QED BY <1>6, <2>4
<1> QED BY <1>7

\* latest(key) is the youngest launch of the key.
LEMMA LatestIsYoungest ==
    ASSUME TypeOK, NEW k
    PROVE  /\ Latest(k) \in 0..Len(keys) /\ Len(keys) \in Nat
           /\ LaunchesOf(k) = {} => Latest(k) = 0
           /\ LaunchesOf(k) # {} => Latest(k) \in LaunchesOf(k) /\ Latest(k) # 0
           /\ \A j \in LaunchesOf(k) : j <= Latest(k)
<1>1. Len(keys) \in Nat /\ LaunchesOf(k) \in SUBSET (1..Len(keys))
  BY DEF TypeOK, LaunchesOf
<1>2. CASE LaunchesOf(k) = {}
  BY <1>1, <1>2 DEF Latest
<1>3. CASE LaunchesOf(k) # {}
  <2>1. \E m \in LaunchesOf(k) : \A j \in LaunchesOf(k) : j <= m
    BY <1>1, <1>3, HasLargest
  <2>2. Latest(k) \in LaunchesOf(k) /\ \A j \in LaunchesOf(k) : j <= Latest(k)
    BY <1>3, <2>1 DEF Latest
  <2> QED BY <1>1, <1>3, <2>2
<1> QED BY <1>2, <1>3

\* Saving the queue drops ended items and changes none.
LEMMA KeptItems ==
    ASSUME NEW q
    PROVE  /\ DOMAIN Kept(q) \subseteq DOMAIN q
           /\ \A i \in DOMAIN Kept(q) : Kept(q)[i] = q[i]
           /\ \A i \in DOMAIN q : q[i].state \in Open => i \in DOMAIN Kept(q)
  BY DEF Kept, Restrict, EndedIn

\* Ending an item changes that item only.
LEMMA EndedItem ==
    ASSUME TypeOK, NEW i \in DOMAIN items, NEW state \in Unstarted, EndItem(i, state)
    PROVE  /\ DOMAIN items' \subseteq DOMAIN items /\ clock' = clock + 1
           /\ \A j \in DOMAIN items' \ {i} : items'[j] = items[j]
           /\ \A j \in DOMAIN items \ {i} : items[j].state \in Open => j \in DOMAIN items'
           /\ i \in DOMAIN items' =>
                 items'[i] = [items[i] EXCEPT !.state = state, !.endedAt = clock]
           /\ \A j \in DOMAIN items' : items'[j] \in Item
<1> DEFINE q == [items EXCEPT ![i].state = state, ![i].endedAt = clock]
<1>1. /\ DOMAIN q = DOMAIN items
      /\ \A j \in DOMAIN items \ {i} : q[j] = items[j]
      /\ q[i] = [items[i] EXCEPT !.state = state, !.endedAt = clock]
  OBVIOUS
<1>2. \A j \in DOMAIN items : q[j] \in Item
  <2>1. items[i] \in Item /\ clock \in Nat
    BY DEF TypeOK
  <2>2. q[i] \in Item
    BY <1>1, <2>1 DEF Item
  <2> QED BY <1>1, <2>2 DEF TypeOK
<1>3. items' = Kept(q) /\ clock' = clock + 1
  BY DEF EndItem
<1> HIDE DEF q
<1>4. /\ DOMAIN items' \subseteq DOMAIN items
      /\ \A j \in DOMAIN items' : items'[j] = q[j]
  BY <1>1, <1>3, KeptItems
<1>5. \A j \in DOMAIN items \ {i} : items[j].state \in Open => j \in DOMAIN items'
  BY <1>1, <1>3, KeptItems
<1> QED BY <1>1, <1>2, <1>3, <1>4, <1>5

\* What an after item waits on, once that is known.
LEMMA AwaitedIs ==
    ASSUME TypeOK, NEW q, NEW i \in DOMAIN q, q[i] \in Item, Awaited(q, i) # 0
    PROVE  /\ Awaited(q, i) \in 1..MaxItems
           /\ \/ q[i].after.kind = "launch" /\ Awaited(q, i) = q[i].after.id
              \/ /\ q[i].after.kind = "item" /\ Awaited(q, i) = q[i].after.id
                 /\ q[i].after.id \in DOMAIN q /\ q[q[i].after.id].state = "started"
              \/ /\ q[i].after.kind = "since"
                 /\ Awaited(q, i) \in DOMAIN launches /\ Awaited(q, i) <= Len(keys)
<1> DEFINE ref == q[i].after
           last == Latest(q[i].task)
<1>1. ref.kind \in {"item", "launch", "since"} /\ ref.id \in 0..MaxItems /\ MaxItems \in Nat
  BY ConstantTypes DEF Item, Reference
<1>2. /\ last \in 0..Len(keys) /\ Len(keys) \in Nat /\ Len(keys) <= MaxItems
      /\ last # 0 => last \in LaunchesOf(q[i].task)
  BY LatestIsYoungest DEF TypeOK
<1>3. CASE ref.kind = "launch"
  BY <1>1, <1>3 DEF Awaited
<1>4. CASE ref.kind = "item"
  BY <1>1, <1>4 DEF Awaited
<1>5. CASE ref.kind = "since"
  <2>1. Awaited(q, i) = IF last > ref.id THEN last ELSE 0
    BY <1>5 DEF Awaited
  <2>2. Awaited(q, i) = last /\ last # 0
    BY <2>1
  <2> QED BY <1>1, <1>2, <1>5, <2>2 DEF LaunchesOf
<1> QED BY <1>1, <1>3, <1>4, <1>5

\* The pass over the after triggers changes waiting items only.
LEMMA ResolvedItem ==
    ASSUME TypeOK, NEW q, NEW i \in DOMAIN q, q[i] \in Item
    PROVE  LET p == Resolved(q)[i] IN
           /\ p \in Item /\ p.when = q[i].when
           /\ \/ p.state = q[i].state
              \/ q[i].state = "waiting" /\ p.state = "failed"
           /\ \/ p.after = q[i].after
              \/ /\ q[i].state = "waiting" /\ q[i].when = "after" /\ Awaited(q, i) # 0
                 /\ p.after = [kind |-> "launch", id |-> Awaited(q, i)]
                 /\ p.state = "waiting"
<1> DEFINE x == q[i]
           ended == [x EXCEPT !.state = "failed", !.endedAt = clock]
           found == [x EXCEPT !.after = [kind |-> "launch", id |-> Awaited(q, i)]]
<1>1. /\ Resolved(q)[i] \in {x, ended, found}
      /\ Resolved(q)[i] # x => x.state = "waiting" /\ x.when = "after"
      /\ Resolved(q)[i] \notin {x, ended} => Awaited(q, i) # 0
  BY DEF Resolved
<1>2. x \in Item /\ clock \in Nat
  BY DEF TypeOK
<1>3. /\ ended \in Item /\ ended.state = "failed"
      /\ ended.when = x.when /\ ended.after = x.after
  BY <1>2 DEF Item, Unstarted
<1>4. Awaited(q, i) # 0 =>
         /\ found \in Item /\ found.state = x.state /\ found.when = x.when
         /\ found.after = [kind |-> "launch", id |-> Awaited(q, i)]
  <2> SUFFICES ASSUME Awaited(q, i) # 0
               PROVE  /\ found \in Item /\ found.state = x.state /\ found.when = x.when
                      /\ found.after = [kind |-> "launch", id |-> Awaited(q, i)]
    OBVIOUS
  <2>1. Awaited(q, i) \in 1..MaxItems /\ MaxItems \in Nat
    BY AwaitedIs, ConstantTypes
  <2>2. [kind |-> "launch", id |-> Awaited(q, i)] \in Reference
    BY <2>1 DEF Reference
  <2> QED BY <1>2, <2>2 DEF Item
<1> HIDE DEF x, ended, found
<1>5. CASE Resolved(q)[i] = x
  BY <1>2, <1>5 DEF x
<1>6. CASE Resolved(q)[i] # x /\ Resolved(q)[i] = ended
  BY <1>1, <1>3, <1>6 DEF x
<1>7. CASE Resolved(q)[i] \notin {x, ended}
  BY <1>1, <1>4, <1>7 DEF x
<1> QED BY <1>5, <1>6, <1>7

-----------------------------------------------------------------------------
(* How a step may change the items on record *)

\* Item i was picked: it waited, and what it waited for is over.
Picked(i) ==
    LET ref == items[i].after IN
    /\ items[i].state = "waiting" /\ items'[i].state = "starting"
    /\ items[i].when = "after" /\ ref.kind # "since" =>
          /\ ~InFlight(ref.id)
          /\ ~(ref.id \in DOMAIN items /\ items[ref.id].state \in Open)

\* Item i was found to wait for a launch.
Found(i) ==
    LET ref == items'[i].after IN
    /\ items'[i].state = "waiting"
    /\ ref.kind = "launch" /\ ref.id # i /\ ref.id <= Len(keys)
    /\ ~(ref.id \in DOMAIN items' /\ items'[ref.id].state \in Open)

Moves(i) ==
    /\ items'[i] \in Item
    /\ (items'[i].when = "after") <=> (items[i].when = "after")
    /\ \/ items'[i].state = items[i].state
       \/ /\ items[i].state \in Open /\ items'[i].state \in Unstarted
          /\ i \notin DOMAIN launches
       \/ items[i].state = "starting" /\ items'[i].state = "started"
       \/ Picked(i)
    /\ items'[i].after = items[i].after \/ Found(i)

ItemsMove ==
    /\ DOMAIN items' \subseteq DOMAIN items
    /\ \A i \in DOMAIN items' : Moves(i)

LEMMA CancelMoves ==
    ASSUME Coherent, NEW i, Cancel(i)
    PROVE  ItemsMove
<1>1. TypeOK /\ i \in DOMAIN items /\ items[i].state = "waiting" /\ EndItem(i, "cancelled")
  BY DEF Coherent, Cancel
<1>2. i \notin DOMAIN launches
  BY <1>1 DEF Coherent, NotYetRun
<1>3. /\ DOMAIN items' \subseteq DOMAIN items
      /\ \A j \in DOMAIN items' \ {i} : items'[j] = items[j]
      /\ i \in DOMAIN items' =>
            items'[i] = [items[i] EXCEPT !.state = "cancelled", !.endedAt = clock]
      /\ \A j \in DOMAIN items' : items'[j] \in Item
  BY <1>1, EndedItem DEF Unstarted
<1>4. ASSUME NEW j \in DOMAIN items', j # i PROVE Moves(j)
  BY <1>3, <1>4 DEF Moves
<1>5. ASSUME i \in DOMAIN items' PROVE Moves(i)
  <2>1. items[i] \in Item
    BY <1>1 DEF TypeOK
  <2>2. /\ items'[i].state = "cancelled" /\ items'[i].after = items[i].after
        /\ items'[i].when = items[i].when
    BY <1>3, <1>5, <2>1 DEF Item
  <2> QED BY <1>1, <1>2, <1>3, <1>5, <2>2 DEF Moves, Open, Unstarted
<1> QED BY <1>3, <1>4, <1>5 DEF ItemsMove

\* A start that ends without a launch.
LEMMA StartOverMoves ==
    ASSUME Coherent, server \in {"starting", "begun", "aborting"},
           NEW state \in Unstarted, StartOver(state)
    PROVE  ItemsMove
<1>1. /\ TypeOK /\ EndItem(current, state) /\ current \in DOMAIN items
      /\ items[current].state = "starting" /\ current \notin DOMAIN launches
  BY DEF Coherent, StartAgrees, StartOver
<1>2. /\ DOMAIN items' \subseteq DOMAIN items
      /\ \A j \in DOMAIN items' \ {current} : items'[j] = items[j]
      /\ current \in DOMAIN items' =>
            items'[current] = [items[current] EXCEPT !.state = state, !.endedAt = clock]
      /\ \A j \in DOMAIN items' : items'[j] \in Item
  BY <1>1, EndedItem
<1>3. ASSUME NEW j \in DOMAIN items', j # current PROVE Moves(j)
  BY <1>2, <1>3 DEF Moves
<1>4. ASSUME current \in DOMAIN items'
      PROVE  /\ items'[current] \in Item /\ items'[current].state = state
             /\ items'[current].after = items[current].after
             /\ items'[current].when = items[current].when
  <2>1. items[current] \in Item
    BY <1>1 DEF TypeOK
  <2> QED BY <1>2, <1>4, <2>1 DEF Item
<1>5. ASSUME NEW j \in DOMAIN items', j = current PROVE Moves(j)
  BY <1>1, <1>4, <1>5 DEF Moves, Open
<1> QED BY <1>2, <1>3, <1>5 DEF ItemsMove

LEMMA TimePassesMoves ==
    ASSUME Coherent, NEW i, TimePasses(i)
    PROVE  ItemsMove
<1>1. /\ TypeOK /\ i \in DOMAIN items /\ items[i].when \in {"at", "due"}
      /\ items' = [items EXCEPT ![i].when = IF items[i].when = "at" THEN "due" ELSE "late"]
  BY DEF Coherent, TimePasses
<1>2. items[i] \in Item /\ DOMAIN items' = DOMAIN items
  BY <1>1 DEF TypeOK
<1>3. /\ items'[i] \in Item /\ items'[i].state = items[i].state
      /\ items'[i].after = items[i].after /\ items'[i].when \in {"due", "late"}
  BY <1>1, <1>2 DEF Item
<1>4. \A j \in DOMAIN items' \ {i} : items'[j] = items[j] /\ items'[j] \in Item
  BY <1>1, <1>2 DEF TypeOK
<1>5. ASSUME NEW j \in DOMAIN items' PROVE Moves(j)
  BY <1>1, <1>2, <1>3, <1>4 DEF Moves
<1> QED BY <1>2, <1>5 DEF ItemsMove

\* The pick found what the item waits for over.
LEMMA PickMoves ==
    ASSUME Coherent, NEW i, Pick(i)
    PROVE  /\ ItemsMove /\ i \in DOMAIN items' /\ items'[i].state = "starting"
           /\ items[i].state = "waiting"
           /\ \A j \in DOMAIN items' \ {i} : items'[j] = items[j]
<1> DEFINE q == [items EXCEPT ![i].state = "starting"]
<1>1. /\ TypeOK /\ i \in DOMAIN items /\ Ready(i) /\ items[i].state = "waiting"
      /\ items' = Kept(q) /\ items[i] \in Item
  BY DEF Coherent, TypeOK, Pick, Ready
<1>2. /\ DOMAIN q = DOMAIN items /\ q[i] \in Item /\ q[i].state = "starting"
      /\ q[i].after = items[i].after /\ q[i].when = items[i].when
      /\ \A j \in DOMAIN items \ {i} : q[j] = items[j] /\ q[j] \in Item
  <2>1. DOMAIN q = DOMAIN items /\ q[i] = [items[i] EXCEPT !.state = "starting"]
    BY <1>1
  <2>2. /\ q[i] \in Item /\ q[i].state = "starting"
        /\ q[i].after = items[i].after /\ q[i].when = items[i].when
    BY <1>1, <2>1 DEF Item, Open
  <2> QED BY <1>1, <2>1, <2>2 DEF TypeOK
<1> HIDE DEF q
<1>3. /\ DOMAIN items' \subseteq DOMAIN items /\ i \in DOMAIN items'
      /\ \A j \in DOMAIN items' : items'[j] = q[j]
  BY <1>1, <1>2, KeptItems DEF Open
<1>4. Picked(i)
  <2> DEFINE ref == items[i].after
  <2> SUFFICES ASSUME items[i].when = "after", ref.kind # "since"
               PROVE  ~InFlight(ref.id) /\ ~(ref.id \in DOMAIN items /\ items[ref.id].state \in Open)
    BY <1>1, <1>2, <1>3 DEF Picked
  <2>1. Awaited(items, i) # 0 /\ Over(Awaited(items, i))
    BY <1>1 DEF Ready, Fired
  <2>2. Awaited(items, i) = ref.id
    BY <1>1, <2>1, AwaitedIs
  <2>3. ~InFlight(ref.id)
    BY <2>1, <2>2 DEF Over, InFlight
  <2>4. CASE ref.kind = "launch"
    BY <1>1, <2>3, <2>4 DEF Coherent, AwaitsAnother
  <2>5. CASE ref.kind # "launch"
    BY <1>1, <2>1, <2>3, <2>5, AwaitedIs DEF Open
  <2> QED BY <2>4, <2>5
<1>5. ASSUME NEW j \in DOMAIN items' PROVE Moves(j)
  BY <1>2, <1>3, <1>4 DEF Moves
<1> QED BY <1>1, <1>2, <1>3, <1>5 DEF ItemsMove

LEMMA ReportMoves ==
    ASSUME Coherent, Report
    PROVE  /\ ItemsMove /\ \A j \in DOMAIN items' \ {current} : items'[j] = items[j]
           /\ current \in DOMAIN items' => items'[current].state = "started"
<1> DEFINE q == [items EXCEPT ![current].state = "started"]
<1>1. /\ TypeOK /\ current \in DOMAIN items /\ items[current].state = "starting"
      /\ items' = Kept(q) /\ items[current] \in Item
  BY DEF Coherent, TypeOK, StartAgrees, Report
<1>2. /\ DOMAIN q = DOMAIN items /\ q[current] \in Item /\ q[current].state = "started"
      /\ q[current].after = items[current].after /\ q[current].when = items[current].when
      /\ \A j \in DOMAIN items \ {current} : q[j] = items[j] /\ q[j] \in Item
  <2>1. DOMAIN q = DOMAIN items /\ q[current] = [items[current] EXCEPT !.state = "started"]
    BY <1>1
  <2>2. /\ q[current] \in Item /\ q[current].state = "started"
        /\ q[current].after = items[current].after /\ q[current].when = items[current].when
    BY <1>1, <2>1 DEF Item
  <2> QED BY <1>1, <2>1, <2>2 DEF TypeOK
<1> HIDE DEF q
<1>3. /\ DOMAIN items' \subseteq DOMAIN items
      /\ \A j \in DOMAIN items' : items'[j] = q[j]
  BY <1>1, <1>2, KeptItems
<1>4. ASSUME NEW j \in DOMAIN items' PROVE Moves(j)
  BY <1>1, <1>2, <1>3 DEF Moves
<1> QED BY <1>2, <1>3, <1>4 DEF ItemsMove

\* The pass: left-behind starts are settled, missed and dead triggers fail, and
\* an after item whose step has started waits for that launch.
LEMMA TickMoves ==
    ASSUME Coherent, TickBegins
    PROVE  ItemsMove /\ \A i \in DOMAIN items' : items'[i].state # "starting"
<1> DEFINE first == [i \in DOMAIN items |->
                        CASE items[i].state = "starting" -> LeftBehind(items[i], i)
                          [] items[i].state = "waiting"  -> Due(items[i])
                          [] OTHER -> items[i]]
           passed == Resolved(first)
<1>1. TypeOK /\ clock \in Nat /\ items' = Kept(passed)
  BY DEF Coherent, TypeOK, TickBegins
<1>2. ASSUME NEW i \in DOMAIN items
      PROVE  /\ first[i] \in Item /\ first[i].state # "starting"
             /\ first[i].after = items[i].after
             /\ (first[i].when = "after") <=> (items[i].when = "after")
             /\ \/ first[i].state = items[i].state
                \/ /\ items[i].state \in Open /\ first[i].state = "failed"
                   /\ i \notin DOMAIN launches
                \/ /\ items[i].state = "starting" /\ first[i].state = "started"
  <2> DEFINE x == items[i]
             late == [x EXCEPT !.state = "failed", !.endedAt = clock]
             seen == [x EXCEPT !.when = "seen"]
             launched == [x EXCEPT !.state = "started"]
  <2>1. x \in Item
    BY <1>1 DEF TypeOK
  <2>2. /\ late \in Item /\ late.state = "failed" /\ late.after = x.after
        /\ late.when = x.when
    BY <1>1, <2>1 DEF Item, Unstarted
  <2>3. /\ seen \in Item /\ seen.state = x.state /\ seen.after = x.after
        /\ seen.when = "seen"
    BY <2>1 DEF Item
  <2>4. /\ launched \in Item /\ launched.state = "started" /\ launched.after = x.after
        /\ launched.when = x.when
    BY <2>1 DEF Item
  <2>5. CASE x.state = "starting"
    <3>1. first[i] = IF i \in DOMAIN launches THEN launched ELSE late
      BY <2>5 DEF LeftBehind
    <3> HIDE DEF x, late, seen, launched, first
    <3>2. x = items[i]
      BY DEF x
    <3> QED BY <2>2, <2>4, <2>5, <3>1, <3>2 DEF Open
  <2>6. CASE x.state = "waiting"
    <3>1. /\ first[i] \in {x, late, seen}
          /\ first[i] # x => x.when \in {"due", "late"}
      BY <2>6 DEF Due
    <3>2. i \notin DOMAIN launches
      BY <2>6 DEF Coherent, NotYetRun
    <3> HIDE DEF x, late, seen, launched, first
    <3>3. x = items[i]
      BY DEF x
    <3> QED BY <2>1, <2>2, <2>3, <2>6, <3>1, <3>2, <3>3 DEF Open
  <2>7. CASE x.state \notin {"starting", "waiting"}
    BY <2>1, <2>7
  <2> QED BY <2>5, <2>6, <2>7
<1>3. DOMAIN first = DOMAIN items /\ DOMAIN passed = DOMAIN items
  BY DEF Resolved
<1>4. ASSUME NEW i \in DOMAIN items
      PROVE  /\ passed[i] \in Item /\ passed[i].when = first[i].when
             /\ \/ passed[i].state = first[i].state
                \/ first[i].state = "waiting" /\ passed[i].state = "failed"
             /\ \/ passed[i].after = first[i].after
                \/ /\ first[i].state = "waiting" /\ first[i].when = "after"
                   /\ Awaited(first, i) # 0 /\ passed[i].state = "waiting"
                   /\ passed[i].after = [kind |-> "launch", id |-> Awaited(first, i)]
  <2> HIDE DEF first
  <2>1. i \in DOMAIN first /\ first[i] \in Item
    BY <1>2, <1>3
  <2> QED BY <1>1, <2>1, ResolvedItem
<1> HIDE DEF first, passed
<1>5. /\ DOMAIN items' \subseteq DOMAIN items
      /\ \A i \in DOMAIN items' : items'[i] = passed[i]
  BY <1>1, <1>3, KeptItems
<1>6. ASSUME NEW i \in DOMAIN items, first[i].state \notin Open
      PROVE  ~(i \in DOMAIN items' /\ items'[i].state \in Open)
  BY <1>4, <1>5, <1>6 DEF Open
<1>7. ASSUME NEW i \in DOMAIN items', first[i].state = "waiting", first[i].when = "after",
             Awaited(first, i) # 0, passed[i].state = "waiting",
             passed[i].after = [kind |-> "launch", id |-> Awaited(first, i)]
      PROVE  Found(i)
  <2> DEFINE w == Awaited(first, i)
  <2>1. /\ i \in DOMAIN items /\ items[i].state = "waiting" /\ items[i].when = "after"
        /\ first[i].after = items[i].after /\ AwaitsAnother(i)
        /\ i \notin DOMAIN launches
    BY <1>2, <1>5, <1>7 DEF Coherent, NotYetRun, Open
  <2>2. \/ items[i].after.kind = "launch" /\ w = items[i].after.id
        \/ /\ items[i].after.kind = "item" /\ w = items[i].after.id
           /\ w \in DOMAIN items /\ first[w].state = "started"
        \/ w \in DOMAIN launches /\ w <= Len(keys)
    BY <1>1, <1>2, <1>3, <1>7, <2>1, AwaitedIs
  <2>3. w # i /\ w <= Len(keys)
    BY <2>1, <2>2 DEF AwaitsAnother
  <2>4. ~(w \in DOMAIN items' /\ items'[w].state \in Open)
    <3>1. CASE items[i].after.kind = "launch" /\ w = items[i].after.id
      BY <1>2, <1>5, <1>6, <2>1, <3>1 DEF AwaitsAnother, Open
    <3>2. CASE w \in DOMAIN items /\ first[w].state = "started"
      BY <1>6, <3>2 DEF Open
    <3>3. CASE w \in DOMAIN launches
      <4>1. w \in DOMAIN items => first[w].state \notin Open
        BY <1>2, <3>3 DEF Coherent, NotYetRun, Open
      <4> QED BY <1>5, <1>6, <4>1
    <3> QED BY <2>2, <3>1, <3>2, <3>3
  <2>5. /\ items'[i].state = "waiting" /\ items'[i].after.kind = "launch"
        /\ items'[i].after.id = w
    BY <1>5, <1>7
  <2> QED BY <2>3, <2>4, <2>5 DEF Found
<1>8. ASSUME NEW i \in DOMAIN items' PROVE Moves(i) /\ items'[i].state # "starting"
  <2>1. i \in DOMAIN items /\ items'[i] = passed[i]
    BY <1>5
  <2>2. items'[i].after = items[i].after \/ Found(i)
    BY <1>2, <1>4, <1>7, <2>1
  <2>3. \/ items'[i].state = items[i].state
        \/ /\ items[i].state \in Open /\ items'[i].state \in Unstarted
           /\ i \notin DOMAIN launches
        \/ items[i].state = "starting" /\ items'[i].state = "started"
    <3>1. CASE passed[i].state = first[i].state
      BY <1>2, <2>1, <3>1 DEF Unstarted
    <3>2. CASE first[i].state = "waiting" /\ passed[i].state = "failed"
      BY <1>2, <2>1, <3>2 DEF Coherent, NotYetRun, Open, Unstarted
    <3> QED BY <1>4, <2>1, <3>1, <3>2
  <2>4. items'[i].state # "starting"
    BY <1>2, <1>4, <2>1
  <2>5. items'[i] \in Item
    BY <1>4, <2>1
  <2>6. (items'[i].when = "after") <=> (items[i].when = "after")
    <3>1. items'[i].when = first[i].when
      BY <1>4, <2>1
    <3>2. (first[i].when = "after") <=> (items[i].when = "after")
      BY <1>2, <2>1
    <3> QED BY <3>1, <3>2
  <2> QED BY <2>2, <2>3, <2>4, <2>5, <2>6 DEF Moves
<1> QED BY <1>5, <1>8 DEF ItemsMove

-----------------------------------------------------------------------------
(* Type correctness *)

LEMMA InitType == Init => TypeOK
  BY ConstantTypes DEF Init, TypeOK

\* Steps that start or end nothing in the two directories.
LEMMA QueueType ==
    ASSUME Coherent, ItemsMove, keys' = keys, launches' = launches, steps' = steps,
           current' \in 0..Len(keys), foreign' = foreign, clock' \in Nat, crashes' = crashes,
           server' \in {"idle", "picking", "starting", "begun", "aborting", "spawned"}
    PROVE  TypeOK'
<1>1. TypeOK
  BY DEF Coherent
<1>2. DOMAIN items' \subseteq 1..Len(keys) /\ \A i \in DOMAIN items' : items'[i] \in Item
  BY <1>1 DEF ItemsMove, Moves, TypeOK
<1> QED BY <1>1, <1>2 DEF TypeOK

\* A launch that an after trigger is resolved to at once has no open item.
LEMMA ResolveAfterIs ==
    ASSUME TypeOK, NEW k
    PROVE  LET ref == ResolveAfter(k) IN
           /\ ref \in Reference /\ ref.id \in 0..Len(keys)
           /\ ref.kind = "launch" =>
                 ~(ref.id \in DOMAIN items /\ items[ref.id].state \in Open)
<1> DEFINE queued == {i \in DOMAIN items : keys[i] = k /\ items[i].state \in Open}
           last == Latest(k)
           ref == ResolveAfter(k)
<1>1. /\ last \in 0..Len(keys) /\ Len(keys) \in Nat /\ Len(keys) <= MaxItems
      /\ MaxItems \in Nat
      /\ last # 0 => last \in LaunchesOf(k)
  BY LatestIsYoungest, ConstantTypes DEF TypeOK
<1>2. CASE queued # {}
  <2>1. \E i \in queued : ref = [kind |-> "item", id |-> i]
    BY <1>2 DEF ResolveAfter
  <2> HIDE DEF ref
  <2>2. ref.kind = "item" /\ ref.id \in queued
    BY <2>1
  <2>3. ref.id \in 1..Len(keys)
    BY <2>2 DEF TypeOK
  <2>4. ref \in Reference
    BY <1>1, <2>1, <2>2, <2>3 DEF Reference
  <2> QED BY <1>1, <2>2, <2>3, <2>4 DEF ref
<1>3. CASE queued = {}
  <2>1. \/ ref = [kind |-> "launch", id |-> last] /\ last # 0
        \/ ref = [kind |-> "since", id |-> last]
    BY <1>3 DEF ResolveAfter
  <2> HIDE DEF ref, last
  <2>2. ref \in Reference /\ ref.id = last
    BY <1>1, <2>1 DEF Reference
  <2>3. ref.kind = "launch" => keys[last] = k
    BY <1>1, <2>1 DEF LaunchesOf
  <2> QED BY <1>1, <1>3, <2>2, <2>3 DEF ref
<1> QED BY <1>2, <1>3

\* A request adds one waiting item, with the next number.
LEMMA EnqueueAdds ==
    ASSUME TypeOK, NEW k \in Keys, NEW when \in {"now", "at", "after"}, NEW task \in Keys,
           Enqueue(k, when, task)
    PROVE  LET n == Len(keys) + 1 IN
           /\ TypeOK' /\ n \in Nat /\ Len(keys') = n /\ keys'[n] = k
           /\ \A i \in 1..Len(keys) : keys'[i] = keys[i]
           /\ DOMAIN items' \subseteq DOMAIN items \cup {n} /\ n \notin DOMAIN items
           /\ \A i \in DOMAIN items' \ {n} : items'[i] = items[i]
           /\ \A i \in DOMAIN items : items[i].state \in Open => i \in DOMAIN items'
           /\ n \in DOMAIN items' =>
                 /\ items'[n].state = "waiting" /\ items'[n].when = when
                 /\ when = "after" => items'[n].after = ResolveAfter(task)
<1> DEFINE n == Len(keys) + 1
           new == [state |-> "waiting", when |-> when, task |-> task,
                   after |-> IF when = "after" THEN ResolveAfter(task) ELSE Nothing,
                   enqueuedAt |-> clock, endedAt |-> 0]
           q == [i \in DOMAIN items \cup {n} |-> IF i \in DOMAIN items THEN items[i] ELSE new]
<1>1. /\ keys \in Seq(Keys) /\ Len(keys) \in Nat /\ Len(keys) < MaxItems /\ MaxItems \in Nat
      /\ keys' = Append(keys, k) /\ items' = Kept(q) /\ clock' = clock + 1 /\ clock \in Nat
  BY ConstantTypes DEF TypeOK, Enqueue
<1>2. /\ keys' \in Seq(Keys) /\ Len(keys') = n /\ keys'[n] = k
      /\ \A i \in 1..Len(keys) : keys'[i] = keys[i]
  BY <1>1
<1>3. n \notin DOMAIN items
  BY <1>1 DEF TypeOK
<1>4. new \in Item
  <2>1. ResolveAfter(task) \in Reference /\ Nothing \in Reference
    BY <1>1, ResolveAfterIs DEF Reference, Nothing
  <2> QED BY <1>1, <2>1 DEF Item, Open
<1>5. /\ DOMAIN q = DOMAIN items \cup {n} /\ q[n] = new
      /\ \A i \in DOMAIN items : q[i] = items[i]
  BY <1>3
<1>6. /\ new.state = "waiting" /\ new.when = when
      /\ when = "after" => new.after = ResolveAfter(task)
  OBVIOUS
<1> HIDE DEF new, q
<1>7. /\ DOMAIN items' \subseteq DOMAIN items \cup {n}
      /\ \A i \in DOMAIN items' : items'[i] = q[i]
  BY <1>1, <1>5, KeptItems
<1>8. \A i \in DOMAIN items : items[i].state \in Open => i \in DOMAIN items'
  BY <1>1, <1>5, KeptItems
<1>9. TypeOK'
  <2>1. DOMAIN items' \subseteq 1..Len(keys') /\ \A i \in DOMAIN items' : items'[i] \in Item
    BY <1>1, <1>2, <1>4, <1>5, <1>7 DEF TypeOK
  <2>2. UNCHANGED <<launches, steps, server, current, foreign, crashes>>
    BY DEF Enqueue
  <2>3. Len(keys') <= MaxItems /\ 1..Len(keys) \subseteq 1..Len(keys') /\ clock' \in Nat
        /\ 0..Len(keys) \subseteq 0..Len(keys')
    BY <1>1, <1>2
  <2> QED BY <1>2, <2>1, <2>2, <2>3 DEF TypeOK
<1> QED BY <1>1, <1>2, <1>3, <1>5, <1>6, <1>7, <1>8, <1>9

-----------------------------------------------------------------------------
(* The queue file and the directories stay coherent *)

\* What the invariant says of the files alone.
FilesAgree ==
    /\ OneOpenItem /\ OpenIsNewest /\ NotYetRun /\ NewestRuns
    /\ \A i \in DOMAIN items : AwaitsAnother(i)
    /\ AfterRanFirst

\* A step over the items on record, during which no launch and no step record
\* appears and no result disappears.
LEMMA ItemsMoveAgree ==
    ASSUME Coherent, AfterRanFirst, ItemsMove, keys' = keys, launches' = launches,
           DOMAIN steps' = DOMAIN steps, \A j : Verifying(j)' => Verifying(j)
    PROVE  FilesAgree'
<1>1. /\ TypeOK /\ OneOpenItem /\ OpenIsNewest /\ NotYetRun /\ NewestRuns
      /\ \A i \in DOMAIN items : AwaitsAnother(i)
  BY DEF Coherent
<1>2. \A i \in DOMAIN items' : i \in DOMAIN items /\ Moves(i)
  BY DEF ItemsMove
<1>3. \A i \in DOMAIN items' : items'[i].state \in Open => items[i].state \in Open
  BY <1>2 DEF Moves, Picked, Open, Unstarted
<1>4. OneOpenItem'
  BY <1>1, <1>2, <1>3 DEF OneOpenItem
<1>5. OpenIsNewest'
  BY <1>1, <1>2, <1>3 DEF OpenIsNewest
<1>6. NewestRuns'
  BY <1>1 DEF NewestRuns, Active
<1>7. NotYetRun'
  <2> SUFFICES ASSUME NEW i \in DOMAIN items'
               PROVE  /\ items'[i].state = "waiting" => i \notin DOMAIN steps
                      /\ items'[i].state \in Unstarted \cup {"waiting"} => i \notin DOMAIN launches
    BY DEF NotYetRun
  <2>1. i \in DOMAIN items /\ Moves(i)
    BY <1>2
  <2>2. items'[i].state = "waiting" => items[i].state = "waiting"
    BY <2>1 DEF Moves, Picked, Unstarted
  <2>3. items'[i].state \in Unstarted =>
           items[i].state \in Unstarted \/ i \notin DOMAIN launches
    BY <2>1 DEF Moves, Picked, Unstarted
  <2> QED BY <1>1, <2>1, <2>2, <2>3 DEF NotYetRun
<1>8. ASSUME NEW i \in DOMAIN items', NEW j, j = items'[i].after.id,
             items'[i].when = "after"
      PROVE  /\ j # i /\ j <= Len(keys)
             /\ \/ items'[i].after.kind = "launch"
                \/ /\ items'[i].after.kind = "item"
                   /\ items'[i].state \in {"starting", "started"}
                => ~(j \in DOMAIN items' /\ items'[j].state \in Open)
             /\ /\ items'[i].state \in {"starting", "started"}
                /\ items'[i].after.kind # "since"
                => ~InFlight(j)
  <2>1. i \in DOMAIN items /\ Moves(i) /\ items[i].when = "after"
    BY <1>2, <1>8 DEF Moves
  <2>2. CASE Found(i)
    BY <1>8, <2>2 DEF Found
  <2>3. CASE items'[i].after = items[i].after
    <3>1. AwaitsAnother(i) /\ j = items[i].after.id /\ j # i /\ j <= Len(keys)
      BY <1>1, <1>8, <2>1, <2>3 DEF AwaitsAnother
    <3>2. CASE Picked(i)
      BY <1>2, <1>3, <2>1, <2>3, <3>1, <3>2 DEF Picked, AwaitsAnother
    <3>3. CASE ~Picked(i)
      <4>1. items'[i].state \in {"starting", "started"} =>
               items[i].state \in {"starting", "started"}
        BY <2>1, <3>3 DEF Moves, Unstarted
      <4>2. /\ items'[i].state \in {"starting", "started"}
            /\ items'[i].after.kind # "since"
            => ~InFlight(j)
        BY <2>1, <2>3, <3>1, <4>1 DEF AfterRanFirst
      <4>3. \/ items'[i].after.kind = "launch"
            \/ /\ items'[i].after.kind = "item"
               /\ items'[i].state \in {"starting", "started"}
            => ~(j \in DOMAIN items' /\ items'[j].state \in Open)
        BY <1>2, <1>3, <2>1, <2>3, <3>1, <4>1 DEF AwaitsAnother
      <4> QED BY <3>1, <4>2, <4>3
    <3> QED BY <3>2, <3>3
  <2> QED BY <2>1, <2>2, <2>3 DEF Moves
<1>9. \A j : InFlight(j)' => InFlight(j)
  BY DEF InFlight, IsRunning, Active
<1>10. (\A i \in DOMAIN items : AwaitsAnother(i))'
  BY <1>8 DEF AwaitsAnother
<1>11. AfterRanFirst'
  BY <1>8, <1>9 DEF AfterRanFirst
<1> QED BY <1>4, <1>5, <1>6, <1>7, <1>10, <1>11 DEF FilesAgree

\* A step over the directories in which nothing starts.
LEMMA EndingsAgree ==
    ASSUME Coherent, AfterRanFirst, items' = items, keys' = keys,
           DOMAIN launches' \subseteq DOMAIN launches, DOMAIN steps' \subseteq DOMAIN steps,
           \A j : IsRunning(j)' => IsRunning(j), \A j : Verifying(j)' => Verifying(j)
    PROVE  FilesAgree'
<1>1. /\ OneOpenItem /\ OpenIsNewest /\ NotYetRun /\ NewestRuns
      /\ \A i \in DOMAIN items : AwaitsAnother(i)
  BY DEF Coherent
<1>2. OneOpenItem' /\ OpenIsNewest' /\ NotYetRun'
  BY <1>1 DEF OneOpenItem, OpenIsNewest, NotYetRun
<1>3. NewestRuns'
  BY <1>1 DEF NewestRuns, IsRunning
<1>4. (\A i \in DOMAIN items : AwaitsAnother(i))'
  BY <1>1 DEF AwaitsAnother
<1>5. \A j : InFlight(j)' => InFlight(j)
  BY DEF InFlight
<1>6. AfterRanFirst'
  BY <1>5 DEF AfterRanFirst
<1> QED BY <1>2, <1>3, <1>4, <1>6 DEF FilesAgree

-----------------------------------------------------------------------------
(* The inductive invariant *)

QueueInv == Coherent /\ AfterRanFirst

LEMMA InvParts ==
    ASSUME TypeOK', FilesAgree', StartAgrees', StartsAlone'
    PROVE  QueueInv'
  BY DEF QueueInv, Coherent, FilesAgree

LEMMA InitInv == Init => QueueInv
<1> SUFFICES ASSUME Init PROVE QueueInv
  OBVIOUS
<1>1. TypeOK
  BY InitType
<1>2. DOMAIN items = {} /\ DOMAIN launches = {} /\ DOMAIN steps = {}
  BY DEF Init
<1>3. FilesAgree
  BY <1>2 DEF FilesAgree, OneOpenItem, OpenIsNewest, NotYetRun, NewestRuns, AfterRanFirst,
              Active
<1>4. StartAgrees /\ StartsAlone
  BY DEF Init, StartAgrees, StartsAlone
<1> QED BY <1>1, <1>3, <1>4 DEF QueueInv, Coherent, FilesAgree

LEMMA EnqueueInv ==
    ASSUME QueueInv, NEW k \in Keys, NEW when \in {"now", "at", "after"}, NEW task \in Keys,
           Enqueue(k, when, task)
    PROVE  QueueInv'
<1> DEFINE n == Len(keys) + 1
<1>1. /\ TypeOK /\ OneOpenItem /\ OpenIsNewest /\ NotYetRun /\ NewestRuns
      /\ StartAgrees /\ StartsAlone /\ AfterRanFirst
      /\ \A i \in DOMAIN items : AwaitsAnother(i)
  BY DEF QueueInv, Coherent
<1>2. /\ TypeOK' /\ n \in Nat /\ Len(keys') = n /\ keys'[n] = k
      /\ \A i \in 1..Len(keys) : keys'[i] = keys[i]
      /\ DOMAIN items' \subseteq DOMAIN items \cup {n} /\ n \notin DOMAIN items
      /\ \A i \in DOMAIN items' \ {n} : items'[i] = items[i]
      /\ \A i \in DOMAIN items : items[i].state \in Open => i \in DOMAIN items'
      /\ n \in DOMAIN items' =>
            /\ items'[n].state = "waiting" /\ items'[n].when = when
            /\ when = "after" => items'[n].after = ResolveAfter(task)
  BY <1>1, EnqueueAdds
<1>3. /\ UNCHANGED <<launches, steps, server, current>>
      /\ \A i \in DOMAIN items : keys[i] = k => items[i].state \notin Open
  BY DEF Enqueue, HasOpen
<1>4. /\ DOMAIN items \subseteq 1..Len(keys) /\ DOMAIN launches \subseteq 1..Len(keys)
      /\ DOMAIN steps \subseteq 1..Len(keys) /\ Len(keys) \in Nat
      /\ n \notin 1..Len(keys)
  BY <1>1, <1>2 DEF TypeOK
<1>5. /\ \A i \in DOMAIN items : keys'[i] = keys[i]
      /\ \A i \in DOMAIN launches : keys'[i] = keys[i]
      /\ \A i \in DOMAIN steps : keys'[i] = keys[i]
  BY <1>2, <1>4
<1>6. \A i \in DOMAIN items' : i = n \/ (i \in DOMAIN items /\ items'[i] = items[i])
  BY <1>2
<1> HIDE DEF n
<1>7. OneOpenItem'
  BY <1>1, <1>2, <1>3, <1>5, <1>6 DEF OneOpenItem
<1>8. OpenIsNewest'
  <2>1. \A j \in DOMAIN launches : j <= n
    BY <1>4 DEF n
  <2> QED BY <1>1, <1>3, <1>5, <1>6, <2>1 DEF OpenIsNewest
<1>9. NotYetRun'
  BY <1>1, <1>3, <1>4, <1>6 DEF NotYetRun
<1>10. NewestRuns'
  BY <1>1, <1>3, <1>5 DEF NewestRuns, Active
<1>11. ASSUME NEW i \in DOMAIN items' PROVE AwaitsAnother(i)'
  <2>1. CASE i = n
    <3>1. /\ ResolveAfter(task) \in Reference /\ ResolveAfter(task).id \in 0..Len(keys)
          /\ ResolveAfter(task).kind = "launch" =>
                ~(/\ ResolveAfter(task).id \in DOMAIN items
                  /\ items[ResolveAfter(task).id].state \in Open)
      BY <1>1, ResolveAfterIs
    <3>2. ResolveAfter(task).id # n /\ ResolveAfter(task).id <= n
      BY <1>4, <3>1 DEF n
    <3>3. items'[n].state = "waiting"
      BY <1>2, <2>1
    <3>4. CASE items'[n].when = "after"
      <4>1. items'[n].after = ResolveAfter(task)
        BY <1>2, <2>1, <3>4
      <4> QED BY <1>2, <1>6, <2>1, <3>1, <3>2, <3>3, <4>1 DEF AwaitsAnother
    <3>5. CASE items'[n].when # "after"
      BY <2>1, <3>5 DEF AwaitsAnother
    <3> QED BY <3>4, <3>5
  <2>2. CASE i # n
    <3>1. i \in DOMAIN items /\ items'[i] = items[i] /\ AwaitsAnother(i)
      BY <1>1, <1>6, <2>2
    <3>2. CASE items[i].when = "after"
      <4>1. items[i].after.id \in Int
        BY <1>1, <3>1 DEF TypeOK, Item, Reference
      <4>2. items[i].after.id # n /\ items[i].after.id <= n /\ items[i].after.id # i
        BY <1>4, <3>1, <3>2, <4>1 DEF AwaitsAnother, n
      <4> QED BY <1>2, <1>6, <3>1, <3>2, <4>2 DEF AwaitsAnother
    <3>3. CASE items[i].when # "after"
      BY <3>1, <3>3 DEF AwaitsAnother
    <3> QED BY <3>2, <3>3
  <2> QED BY <2>1, <2>2
<1>12. \A j : InFlight(j)' <=> InFlight(j)
  BY <1>3 DEF InFlight, IsRunning, Active, Verifying
<1>13. AfterRanFirst'
  <2> SUFFICES ASSUME NEW i \in DOMAIN items', NEW j, j = items'[i].after.id,
                      items'[i].when = "after", items'[i].state \in {"starting", "started"},
                      items'[i].after.kind # "since"
               PROVE  ~InFlight(j) /\ j # i
    BY <1>12 DEF AfterRanFirst
  <2>1. i # n
    BY <1>2
  <2> QED BY <1>1, <1>6, <2>1 DEF AfterRanFirst
<1>14. StartAgrees'
  <2>1. server \notin {"idle", "picking"} =>
           /\ current \in DOMAIN items /\ items[current].state = "starting"
           /\ current \in DOMAIN items' /\ items'[current] = items[current]
    BY <1>1, <1>2, <1>6 DEF StartAgrees, Open
  <2>2. server # "idle" => \A i \in DOMAIN items' : items'[i].state = "starting" => i = current
    BY <1>1, <1>2, <1>6 DEF StartAgrees
  <2> QED BY <1>1, <1>3, <2>1, <2>2 DEF StartAgrees, Verifying
<1>15. StartsAlone'
  <2> SUFFICES ASSUME server \notin {"idle", "picking"},
                      NEW j \in DOMAIN launches \cup DOMAIN steps,
                      InFlight(j), keys'[j] = keys'[current]
               PROVE  j = current
    BY <1>3, <1>12 DEF StartsAlone
  <2>1. keys'[j] = keys[j] /\ keys'[current] = keys[current]
    BY <1>1, <1>5 DEF StartAgrees
  <2> QED BY <1>1, <2>1 DEF StartsAlone
<1>16. FilesAgree'
  BY <1>7, <1>8, <1>9, <1>10, <1>11, <1>13 DEF FilesAgree
<1> QED BY <1>2, <1>14, <1>15, <1>16, InvParts

LEMMA CancelInv ==
    ASSUME QueueInv, NEW i, Cancel(i)
    PROVE  QueueInv'
<1>1. /\ Coherent /\ TypeOK /\ StartAgrees /\ StartsAlone /\ ItemsMove
      /\ UNCHANGED <<keys, launches, steps, server, current, foreign, crashes>>
      /\ i \in DOMAIN items /\ items[i].state = "waiting" /\ EndItem(i, "cancelled")
  BY CancelMoves DEF QueueInv, Coherent, Cancel
<1>2. /\ clock' \in Nat /\ \A j \in DOMAIN items' \ {i} : items'[j] = items[j]
      /\ \A j \in DOMAIN items \ {i} : items[j].state \in Open => j \in DOMAIN items'
      /\ i \in DOMAIN items' => items'[i].state = "cancelled"
  <2>1. items[i] \in Item /\ clock \in Nat /\ "cancelled" \in Unstarted
    BY <1>1 DEF TypeOK, Unstarted
  <2>2. /\ clock' = clock + 1 /\ \A j \in DOMAIN items' \ {i} : items'[j] = items[j]
        /\ \A j \in DOMAIN items \ {i} : items[j].state \in Open => j \in DOMAIN items'
        /\ i \in DOMAIN items' =>
              items'[i] = [items[i] EXCEPT !.state = "cancelled", !.endedAt = clock]
    BY <1>1, <2>1, EndedItem
  <2>3. i \in DOMAIN items' => items'[i].state = "cancelled"
    BY <2>1, <2>2 DEF Item
  <2>4. clock' \in Nat
    BY <2>1, <2>2
  <2> QED BY <2>2, <2>3, <2>4
<1>3. TypeOK'
  BY <1>1, <1>2, QueueType DEF TypeOK
<1>4. FilesAgree'
  BY <1>1, ItemsMoveAgree DEF QueueInv, Verifying
<1>5. StartAgrees'
  <2>1. \A j \in DOMAIN items' : items'[j].state = "starting" =>
           j \in DOMAIN items /\ items[j].state = "starting"
    BY <1>1, <1>2 DEF ItemsMove
  <2>2. server \notin {"idle", "picking"} =>
           current \in DOMAIN items' /\ items'[current].state = "starting"
    BY <1>1, <1>2 DEF StartAgrees, Open
  <2> QED BY <1>1, <2>1, <2>2 DEF StartAgrees, Verifying
<1>6. StartsAlone'
  BY <1>1 DEF StartsAlone, InFlight, IsRunning, Active, Verifying
<1> QED BY <1>3, <1>4, <1>5, <1>6, InvParts

LEMMA TickBeginsInv ==
    ASSUME QueueInv, TickBegins
    PROVE  QueueInv'
<1>1. /\ Coherent /\ TypeOK /\ StartAgrees
      /\ ItemsMove /\ \A i \in DOMAIN items' : items'[i].state # "starting"
      /\ UNCHANGED <<keys, launches, steps, current, foreign, crashes>>
      /\ server = "idle" /\ server' = "picking" /\ current = 0
  BY TickMoves DEF QueueInv, Coherent, TickBegins, StartAgrees
<1>2. clock' \in Nat
  <2>1. clock' \in {clock, clock + 1} /\ clock \in Nat
    BY <1>1 DEF TickBegins, TypeOK
  <2> QED BY <2>1
<1>3. TypeOK'
  BY <1>1, <1>2, QueueType DEF TypeOK
<1>4. FilesAgree'
  BY <1>1, ItemsMoveAgree DEF QueueInv, Verifying
<1>5. StartAgrees' /\ StartsAlone'
  BY <1>1 DEF StartAgrees, StartsAlone
<1> QED BY <1>3, <1>4, <1>5, InvParts

\* The item picked was waiting, so nothing of it is in the directories, and its
\* key is not busy, so nothing else of its key is in flight.
LEMMA PickInv ==
    ASSUME QueueInv, NEW i, Pick(i)
    PROVE  QueueInv'
<1>1. /\ Coherent /\ TypeOK /\ StartAgrees /\ NotYetRun /\ NewestRuns /\ ItemsMove
      /\ i \in DOMAIN items /\ i \in DOMAIN items' /\ items'[i].state = "starting"
      /\ items[i].state = "waiting" /\ \A j \in DOMAIN items' \ {i} : items'[j] = items[j]
      /\ UNCHANGED <<keys, launches, steps, foreign, clock, crashes>>
      /\ server = "picking" /\ server' = "starting" /\ current' = i
      /\ ~Busy(keys[i])
  BY PickMoves DEF QueueInv, Coherent, Pick, Ready
<1>2. TypeOK'
  <2>1. clock' \in Nat /\ i \in 0..Len(keys)
    BY <1>1 DEF TypeOK
  <2> QED BY <1>1, <2>1, QueueType
<1>3. FilesAgree'
  BY <1>1, ItemsMoveAgree DEF QueueInv, Verifying
<1>4. StartAgrees'
  <2>1. i \notin DOMAIN launches \cup DOMAIN steps
    BY <1>1 DEF NotYetRun
  <2>2. \A j \in DOMAIN items' \ {i} : j \in DOMAIN items /\ items'[j].state # "starting"
    BY <1>1 DEF ItemsMove, StartAgrees, TypeOK
  <2> QED BY <1>1, <2>1, <2>2 DEF StartAgrees
<1>5. StartsAlone'
  <2> SUFFICES ASSUME NEW j \in DOMAIN launches \cup DOMAIN steps,
                      InFlight(j), keys[j] = keys[i]
               PROVE  FALSE
    BY <1>1 DEF StartsAlone, InFlight, IsRunning, Active, Verifying
  <2>1. CASE Verifying(j)
    BY <1>1, <2>1 DEF Busy, Verifying
  <2>2. CASE IsRunning(j)
    <3>1. j \in LaunchesOf(keys[i]) /\ \A l \in LaunchesOf(keys[i]) : l <= j
      BY <1>1, <2>2 DEF IsRunning, Active, LaunchesOf, NewestRuns
    <3>2. Latest(keys[i]) \in LaunchesOf(keys[i]) /\ \A l \in LaunchesOf(keys[i]) : l <= Latest(keys[i])
      BY <1>1, <3>1, LatestIsYoungest
    <3>3. Latest(keys[i]) <= j /\ j <= Latest(keys[i])
      BY <3>1, <3>2
    <3>4. Latest(keys[i]) \in Int /\ j \in Int
      BY <1>1, <3>1, <3>2 DEF LaunchesOf, TypeOK
    <3> QED BY <1>1, <2>2, <3>3, <3>4 DEF Busy
  <2> QED BY <2>1, <2>2 DEF InFlight
<1> QED BY <1>2, <1>3, <1>4, <1>5, InvParts

\* A start that ends without a launch, its step record, if any, with a result.
LEMMA StartOverInv ==
    ASSUME QueueInv, server \in {"starting", "begun", "aborting"},
           NEW state \in Unstarted, StartOver(state),
           DOMAIN steps' = DOMAIN steps,
           \A j \in DOMAIN steps : steps'[j] \in {steps[j], "done"}
    PROVE  QueueInv'
<1>1. /\ Coherent /\ TypeOK /\ StartAgrees /\ ItemsMove
      /\ UNCHANGED <<keys, launches, foreign, crashes>>
      /\ server' = "picking" /\ current' = 0
      /\ current \in DOMAIN items /\ EndItem(current, state)
      /\ \A j : Verifying(j)' => Verifying(j)
  BY StartOverMoves DEF QueueInv, Coherent, StartOver, StartAgrees, Verifying
<1>2. /\ clock' \in Nat /\ \A j \in DOMAIN items' \ {current} : items'[j] = items[j]
      /\ current \in DOMAIN items' => items'[current].state = state
  <2>1. items[current] \in Item /\ clock \in Nat
    BY <1>1 DEF TypeOK
  <2>2. /\ clock' = clock + 1 /\ \A j \in DOMAIN items' \ {current} : items'[j] = items[j]
        /\ current \in DOMAIN items' =>
              items'[current] = [items[current] EXCEPT !.state = state, !.endedAt = clock]
    BY <1>1, EndedItem
  <2>3. current \in DOMAIN items' => items'[current].state = state
    BY <2>1, <2>2 DEF Item
  <2>4. clock' \in Nat
    BY <2>1, <2>2
  <2> QED BY <2>2, <2>3, <2>4
<1>3. TypeOK'
  <2>1. DOMAIN items' \subseteq 1..Len(keys) /\ \A i \in DOMAIN items' : items'[i] \in Item
    BY <1>1 DEF ItemsMove, Moves, TypeOK
  <2>2. \A j \in DOMAIN steps' : steps'[j] \in {"verifying", "done"}
    BY <1>1 DEF TypeOK
  <2>3. Len(keys) \in Nat
    BY <1>1 DEF TypeOK
  <2> QED BY <1>1, <1>2, <2>1, <2>2, <2>3 DEF TypeOK
<1>4. FilesAgree'
  BY <1>1, ItemsMoveAgree DEF QueueInv
<1>5. \A j \in DOMAIN items' : items'[j].state # "starting"
  BY <1>1, <1>2 DEF StartAgrees, ItemsMove, Unstarted
<1>6. StartAgrees' /\ StartsAlone'
  BY <1>1, <1>5 DEF StartAgrees, StartsAlone
<1> QED BY <1>3, <1>4, <1>6, InvParts

LEMMA ReportInv ==
    ASSUME QueueInv, Report
    PROVE  QueueInv'
<1>1. /\ Coherent /\ TypeOK /\ StartAgrees /\ ItemsMove
      /\ \A j \in DOMAIN items' \ {current} : items'[j] = items[j]
      /\ current \in DOMAIN items' => items'[current].state = "started"
      /\ UNCHANGED <<keys, launches, steps, foreign, clock, crashes>>
      /\ server = "spawned" /\ server' = "picking" /\ current' = 0
  BY ReportMoves DEF QueueInv, Coherent, Report
<1>2. TypeOK'
  <2>1. clock' \in Nat /\ 0 \in 0..Len(keys)
    BY <1>1 DEF TypeOK
  <2> QED BY <1>1, <2>1, QueueType
<1>3. FilesAgree'
  BY <1>1, ItemsMoveAgree DEF QueueInv, Verifying
<1>4. \A j \in DOMAIN items' : items'[j].state # "starting"
  BY <1>1 DEF StartAgrees, ItemsMove
<1>5. StartAgrees' /\ StartsAlone'
  BY <1>1, <1>4 DEF StartAgrees, StartsAlone
<1> QED BY <1>2, <1>3, <1>5, InvParts

LEMMA TimePassesInv ==
    ASSUME QueueInv, NEW i, TimePasses(i)
    PROVE  QueueInv'
<1>1. /\ Coherent /\ TypeOK /\ StartAgrees /\ StartsAlone /\ ItemsMove
      /\ UNCHANGED <<keys, launches, steps, server, current, foreign, clock, crashes>>
      /\ i \in DOMAIN items /\ items[i].state = "waiting" /\ DOMAIN items' = DOMAIN items
      /\ \A j \in DOMAIN items \ {i} : items'[j] = items[j]
  BY TimePassesMoves DEF QueueInv, Coherent, TimePasses
<1>2. TypeOK'
  BY <1>1, QueueType DEF TypeOK
<1>3. FilesAgree'
  BY <1>1, ItemsMoveAgree DEF QueueInv, Verifying
<1>4. items'[i].state # "starting"
  BY <1>1 DEF ItemsMove, Moves, Picked, TimePasses, TypeOK, Item
<1>5. StartAgrees'
  BY <1>1, <1>4 DEF StartAgrees, Verifying
<1>6. StartsAlone'
  BY <1>1 DEF StartsAlone, InFlight, IsRunning, Active, Verifying
<1> QED BY <1>2, <1>3, <1>5, <1>6, InvParts

\* begin saves the step record of the item being started.
LEMMA BeginInv ==
    ASSUME QueueInv, Begin
    PROVE  QueueInv'
<1>1. /\ TypeOK /\ OneOpenItem /\ OpenIsNewest /\ NotYetRun /\ NewestRuns
      /\ StartAgrees /\ StartsAlone /\ AfterRanFirst
      /\ \A i \in DOMAIN items : AwaitsAnother(i)
      /\ UNCHANGED <<keys, items, launches, current, foreign, clock, crashes>>
      /\ server = "starting" /\ server' = "begun"
      /\ current \in DOMAIN items /\ items[current].state = "starting"
      /\ current \notin DOMAIN launches \cup DOMAIN steps
  BY DEF QueueInv, Coherent, Begin, StartAgrees
<1>2. /\ DOMAIN steps' = DOMAIN steps \cup {current} /\ steps'[current] = "verifying"
      /\ \A j \in DOMAIN steps : steps'[j] = steps[j]
  BY <1>1 DEF Begin
<1>3. TypeOK'
  BY <1>1, <1>2 DEF TypeOK
<1>4. \A j : j # current => (InFlight(j)' <=> InFlight(j))
  BY <1>1, <1>2 DEF InFlight, IsRunning, Active, Verifying
<1>5. AfterRanFirst'
  <2> SUFFICES ASSUME NEW i \in DOMAIN items, NEW j, j = items[i].after.id,
                      items[i].when = "after", items[i].state \in {"starting", "started"},
                      items[i].after.kind # "since"
               PROVE  ~InFlight(j)' /\ j # i
    BY <1>1 DEF AfterRanFirst
  <2>1. ~InFlight(j) /\ j # i
    BY <1>1 DEF AfterRanFirst
  <2>2. items[i].after.kind \in {"item", "launch"}
    BY <1>1 DEF TypeOK, Item, Reference
  <2>3. j # current
    BY <1>1, <2>2 DEF AwaitsAnother, Open
  <2> QED BY <1>4, <2>1, <2>3
<1>6. FilesAgree'
  <2>1. OneOpenItem' /\ OpenIsNewest' /\ NewestRuns'
    BY <1>1 DEF OneOpenItem, OpenIsNewest, NewestRuns, Active
  <2>2. NotYetRun'
    BY <1>1, <1>2 DEF NotYetRun
  <2>3. (\A i \in DOMAIN items : AwaitsAnother(i))'
    BY <1>1 DEF AwaitsAnother
  <2> QED BY <1>5, <2>1, <2>2, <2>3 DEF FilesAgree
<1>7. StartAgrees'
  BY <1>1, <1>2 DEF StartAgrees, Verifying
<1>8. StartsAlone'
  BY <1>1, <1>2, <1>4 DEF StartsAlone
<1> QED BY <1>3, <1>6, <1>7, <1>8, InvParts

\* The launch recorded is of the item being started, the youngest of its key.
LEMMA SpawnInv ==
    ASSUME QueueInv, Spawn
    PROVE  QueueInv'
<1> DEFINE kept == KeptLaunches(keys[current])
<1>1. /\ TypeOK /\ OneOpenItem /\ OpenIsNewest /\ NotYetRun /\ NewestRuns
      /\ StartAgrees /\ StartsAlone /\ AfterRanFirst
      /\ \A i \in DOMAIN items : AwaitsAnother(i)
      /\ UNCHANGED <<keys, items, current, foreign, clock, crashes>>
      /\ server \in {"starting", "begun"} /\ server' = "spawned"
      /\ current \in DOMAIN items /\ items[current].state = "starting"
      /\ current \notin DOMAIN launches
  BY DEF QueueInv, Coherent, Spawn, StartAgrees
<1>2. /\ DOMAIN launches' = kept \cup {current} /\ launches'[current] = "running"
      /\ kept \subseteq DOMAIN launches
      /\ \A j \in kept : launches'[j] = launches[j]
      /\ DOMAIN steps' \subseteq DOMAIN steps /\ \A j \in DOMAIN steps' : steps'[j] = steps[j]
  BY <1>1 DEF Spawn, KeptLaunches, Restrict
<1> HIDE DEF kept
<1>3. TypeOK'
  BY <1>1, <1>2 DEF TypeOK
<1>4. \A j : j # current => (InFlight(j)' => InFlight(j))
  BY <1>1, <1>2 DEF InFlight, IsRunning, Active, Verifying
<1>5. AfterRanFirst'
  <2> SUFFICES ASSUME NEW i \in DOMAIN items, NEW j, j = items[i].after.id,
                      items[i].when = "after", items[i].state \in {"starting", "started"},
                      items[i].after.kind # "since"
               PROVE  ~InFlight(j)' /\ j # i
    BY <1>1 DEF AfterRanFirst
  <2>1. ~InFlight(j) /\ j # i
    BY <1>1 DEF AfterRanFirst
  <2>2. items[i].after.kind \in {"item", "launch"}
    BY <1>1 DEF TypeOK, Item, Reference
  <2>3. j # current
    BY <1>1, <2>2 DEF AwaitsAnother, Open
  <2> QED BY <1>4, <2>1, <2>3
<1>6. OpenIsNewest'
  <2> SUFFICES ASSUME NEW i \in DOMAIN items, NEW j \in DOMAIN launches',
                      items[i].state \in Open, keys[i] = keys[j]
               PROVE  j <= i
    BY <1>1 DEF OpenIsNewest
  <2>1. CASE j = current
    <3>1. i = j /\ i \in Int
      BY <1>1, <2>1 DEF OneOpenItem, Open, TypeOK
    <3> QED BY <3>1
  <2>2. CASE j # current
    BY <1>1, <1>2, <2>2 DEF OpenIsNewest
  <2> QED BY <2>1, <2>2
<1>7. NewestRuns'
  <2> SUFFICES ASSUME NEW i \in DOMAIN launches', launches'[i] = "running",
                      NEW j \in DOMAIN launches', keys[i] = keys[j]
               PROVE  j <= i
    BY <1>1 DEF NewestRuns, Active
  <2>1. CASE i = current
    <3>1. j \in DOMAIN launches \/ (j = i /\ i \in Int)
      BY <1>1, <1>2, <2>1 DEF TypeOK
    <3> QED BY <1>1, <2>1, <3>1 DEF OpenIsNewest, Open
  <2>2. CASE i # current
    <3>1. i \in DOMAIN launches /\ InFlight(i)
      BY <1>2, <2>2 DEF InFlight, IsRunning, Active
    <3>2. keys[i] # keys[current]
      BY <1>1, <2>2, <3>1 DEF StartsAlone
    <3> QED BY <1>1, <1>2, <2>2, <3>1, <3>2 DEF NewestRuns, Active
  <2> QED BY <2>1, <2>2
<1>8. FilesAgree'
  <2>1. OneOpenItem'
    BY <1>1 DEF OneOpenItem
  <2>2. NotYetRun'
    BY <1>1, <1>2 DEF NotYetRun, Unstarted
  <2>3. (\A i \in DOMAIN items : AwaitsAnother(i))'
    BY <1>1 DEF AwaitsAnother
  <2> QED BY <1>5, <1>6, <1>7, <2>1, <2>2, <2>3 DEF FilesAgree
<1>9. StartAgrees'
  BY <1>1, <1>2 DEF StartAgrees
<1>10. StartsAlone'
  BY <1>1, <1>2, <1>4 DEF StartsAlone
<1> QED BY <1>3, <1>8, <1>9, <1>10, InvParts

\* A step that leaves the queue file alone and starts nothing.
LEMMA EndingsInv ==
    ASSUME QueueInv, TypeOK', items' = items, keys' = keys,
           DOMAIN launches' = DOMAIN launches, DOMAIN steps' = DOMAIN steps,
           \A j : IsRunning(j)' => IsRunning(j), \A j : Verifying(j)' => Verifying(j),
           StartAgrees', server' \notin {"idle", "picking"} =>
                             current' = current /\ server \notin {"idle", "picking"}
    PROVE  QueueInv'
<1>1. Coherent /\ AfterRanFirst /\ StartsAlone
  BY DEF QueueInv, Coherent
<1>2. FilesAgree'
  BY <1>1, EndingsAgree
<1>3. StartsAlone'
  <2>1. \A j : InFlight(j)' => InFlight(j)
    BY DEF InFlight
  <2> QED BY <1>1, <2>1 DEF StartsAlone
<1> QED BY <1>2, <1>3, InvParts

LEMMA TickEndsInv ==
    ASSUME QueueInv, TickEnds
    PROVE  QueueInv'
<1>1. /\ TypeOK /\ StartAgrees
      /\ UNCHANGED <<keys, items, launches, steps, current, foreign, clock, crashes>>
      /\ server = "picking" /\ server' = "idle"
  BY DEF QueueInv, Coherent, TickEnds
<1>2. TypeOK'
  BY <1>1 DEF TypeOK
<1>3. StartAgrees'
  BY <1>1 DEF StartAgrees
<1> QED BY <1>1, <1>2, <1>3, EndingsInv DEF IsRunning, Active, Verifying

LEMMA RefuseInv ==
    ASSUME QueueInv, Refuse \/ Skip
    PROVE  QueueInv'
<1>1. server = "starting" /\ steps' = steps
  BY DEF Refuse, Skip
<1>2. PICK state \in Unstarted : StartOver(state)
  BY DEF Refuse, Skip, Unstarted
<1> QED BY <1>1, <1>2, StartOverInv

LEMMA AbortInv ==
    ASSUME QueueInv, Abort
    PROVE  QueueInv'
<1>1. /\ TypeOK /\ StartAgrees
      /\ UNCHANGED <<keys, items, launches, steps, current, foreign, clock, crashes>>
      /\ server = "begun" /\ server' = "aborting"
  BY DEF QueueInv, Coherent, Abort
<1>2. TypeOK'
  BY <1>1 DEF TypeOK
<1>3. StartAgrees'
  BY <1>1 DEF StartAgrees, Verifying
<1> QED BY <1>1, <1>2, <1>3, EndingsInv DEF IsRunning, Active, Verifying

LEMMA AbortedInv ==
    ASSUME QueueInv, Aborted
    PROVE  QueueInv'
<1>1. server = "aborting" /\ StartOver("failed") /\ "failed" \in Unstarted
  BY DEF Aborted, Unstarted
<1>2. steps' = [steps EXCEPT ![current] = "done"]
  BY DEF Aborted
<1>3. DOMAIN steps' = DOMAIN steps /\ \A j \in DOMAIN steps : steps'[j] \in {steps[j], "done"}
  BY <1>2
<1> QED BY <1>1, <1>3, StartOverInv

LEMMA LaunchEndsInv ==
    ASSUME QueueInv, NEW i, LaunchEnds(i)
    PROVE  QueueInv'
<1>1. /\ TypeOK /\ StartAgrees
      /\ UNCHANGED <<keys, items, steps, server, current, foreign, clock, crashes>>
      /\ launches' = [launches EXCEPT ![i] = "ended"]
  BY DEF QueueInv, Coherent, LaunchEnds
<1>2. /\ DOMAIN launches' = DOMAIN launches
      /\ \A j \in DOMAIN launches : launches'[j] \in {launches[j], "ended"}
  BY <1>1
<1>3. TypeOK'
  BY <1>1, <1>2 DEF TypeOK
<1>4. StartAgrees'
  BY <1>1, <1>2 DEF StartAgrees, Verifying
<1> QED BY <1>1, <1>2, <1>3, <1>4, EndingsInv DEF IsRunning, Active, Verifying

LEMMA VerifyInv ==
    ASSUME QueueInv, NEW i, Verify(i)
    PROVE  QueueInv'
<1>1. /\ TypeOK /\ StartAgrees
      /\ UNCHANGED <<keys, items, launches, server, current, foreign, clock, crashes>>
      /\ steps' = [steps EXCEPT ![i] = "done"]
      /\ ~(i = current /\ server = "begun")
  BY DEF QueueInv, Coherent, Verify
<1>2. /\ DOMAIN steps' = DOMAIN steps
      /\ \A j \in DOMAIN steps : steps'[j] \in {steps[j], "done"}
      /\ \A j \in DOMAIN steps \ {i} : steps'[j] = steps[j]
  BY <1>1
<1>3. TypeOK'
  BY <1>1, <1>2 DEF TypeOK
<1>4. StartAgrees'
  BY <1>1, <1>2 DEF StartAgrees, Verifying
<1> QED BY <1>1, <1>2, <1>3, <1>4, EndingsInv DEF IsRunning, Active, Verifying

LEMMA CrashInv ==
    ASSUME QueueInv, Crash
    PROVE  QueueInv'
<1>1. /\ TypeOK
      /\ UNCHANGED <<keys, items, steps, clock>>
      /\ server' = "idle" /\ current' = 0
      /\ crashes < MaxCrashes /\ crashes' = crashes + 1
      /\ foreign' \in {foreign, "idle"}
  BY DEF QueueInv, Coherent, Crash
<1>2. /\ DOMAIN launches' = DOMAIN launches
      /\ \A j \in DOMAIN launches : launches'[j] \in {launches[j], "ended"}
  BY DEF Crash
<1>3. TypeOK'
  <2>1. crashes' \in 0..MaxCrashes /\ MaxCrashes \in Nat
    BY <1>1, ConstantTypes DEF TypeOK
  <2> QED BY <1>1, <1>2, <2>1 DEF TypeOK
<1>4. StartAgrees'
  BY <1>1 DEF StartAgrees
<1> QED BY <1>1, <1>2, <1>3, <1>4, EndingsInv DEF IsRunning, Active, Verifying

\* What the other server does is seen in the launch directory only.
LEMMA ForeignInv ==
    ASSUME QueueInv, ForeignPick \/ ForeignStep \/ UNCHANGED vars
    PROVE  QueueInv'
<1>1. /\ TypeOK /\ StartAgrees
      /\ UNCHANGED <<keys, items, launches, steps, server, current, clock, crashes>>
      /\ foreign' \in {"idle", "starting", "running"}
  BY DEF QueueInv, Coherent, TypeOK, ForeignPick, ForeignStep, vars
<1>2. TypeOK'
  BY <1>1 DEF TypeOK
<1>3. StartAgrees'
  BY <1>1 DEF StartAgrees, Verifying
<1> QED BY <1>1, <1>2, <1>3, EndingsInv DEF IsRunning, Active, Verifying

LEMMA StepInv == QueueInv /\ [NextBeside]_vars => QueueInv'
<1> SUFFICES ASSUME QueueInv, [NextBeside]_vars PROVE QueueInv'
  OBVIOUS
<1>1. CASE \E k \in Keys : \/ \E when \in {"now", "at"} : Enqueue(k, when, k)
                           \/ \E t \in Tasks : k # Knowledge /\ Enqueue(k, "after", t)
  BY <1>1, EnqueueInv DEF Keys
<1>2. CASE \E i \in Ids : Cancel(i) \/ Pick(i) \/ LaunchEnds(i) \/ Verify(i) \/ TimePasses(i)
  BY <1>2, CancelInv, PickInv, LaunchEndsInv, VerifyInv, TimePassesInv
<1>3. CASE TickBegins \/ TickEnds \/ Crash
  BY <1>3, TickBeginsInv, TickEndsInv, CrashInv
<1>4. CASE StartStep
  BY <1>4, RefuseInv, BeginInv, SpawnInv, ReportInv, AbortInv, AbortedInv DEF StartStep
<1>5. CASE ForeignPick \/ ForeignStep \/ UNCHANGED vars
  BY <1>5, ForeignInv
<1> QED BY <1>1, <1>2, <1>3, <1>4, <1>5 DEF NextBeside, Next

-----------------------------------------------------------------------------
(* What the queue promises *)

\* The files of the queue and what the tick holds in memory agree at every
\* moment of a start, whenever the dashboard or the machine stops.
THEOREM QueueIsCoherent == SharedSpec => [](Coherent /\ TypeOK)
<1>1. QueueInv => Coherent /\ TypeOK
  BY DEF QueueInv, Coherent
<1> QED BY <1>1, InitInv, StepInv, PTL DEF SharedSpec

LEMMA SpecIsShared == Spec => SharedSpec
<1>1. [Next]_vars => [NextBeside]_vars
  BY DEF NextBeside
<1> QED BY <1>1, PTL DEF Spec, SharedSpec

\* An item that failed, was cancelled or was skipped never ran.
THEOREM QueueFailedNeverRan == SharedSpec => []FailedNeverRan
<1>1. Coherent => FailedNeverRan
  BY DEF Coherent, NotYetRun, FailedNeverRan
<1> QED BY <1>1, QueueIsCoherent, PTL

\* What a started after item waited for was over when it started and stays so.
THEOREM QueueAfterRanFirst == SharedSpec => []AfterRanFirst
<1>1. QueueInv => AfterRanFirst
  BY DEF QueueInv
<1> QED BY <1>1, InitInv, StepInv, PTL DEF SharedSpec

\* Nothing comes to be in flight but the item being started.
LEMMA OnlyTheStartedFlies ==
    ASSUME QueueInv, [NextBeside]_vars
    PROVE  /\ \A j \in 1..Len(keys) : keys'[j] = keys[j]
           /\ \A j : InFlight(j)' => \/ InFlight(j)
                                     \/ j = current' /\ server' \notin {"idle", "picking"}
<1>1. TypeOK /\ StartAgrees
  BY DEF QueueInv, Coherent
<1>2. CASE /\ UNCHANGED <<launches, steps>>
           /\ keys' = keys \/ \E k \in Keys : keys' = Append(keys, k)
  BY <1>1, <1>2 DEF InFlight, IsRunning, Active, Verifying, TypeOK
<1>3. CASE \E i \in Ids : LaunchEnds(i) \/ Verify(i)
  BY <1>3 DEF LaunchEnds, Verify, InFlight, IsRunning, Active, Verifying
<1>4. CASE Aborted \/ Crash
  BY <1>4 DEF Aborted, StartOver, Crash, InFlight, IsRunning, Active, Verifying
<1>5. CASE Begin
  BY <1>5 DEF Begin, InFlight, IsRunning, Active, Verifying
<1>6. CASE Spawn
  BY <1>6 DEF Spawn, KeptLaunches, Restrict, InFlight, IsRunning, Active, Verifying
<1>7. QED
  <2>1. \/ /\ UNCHANGED <<launches, steps>>
           /\ keys' = keys \/ \E k \in Keys : keys' = Append(keys, k)
        \/ (\E i \in Ids : LaunchEnds(i) \/ Verify(i)) \/ Aborted \/ Crash \/ Begin \/ Spawn
    BY DEF NextBeside, Next, StartStep, Enqueue, Cancel, Pick, TimePasses, TickBegins,
           TickEnds, Refuse, Skip, StartOver, Report, Abort, ForeignPick, ForeignStep, vars
  <2> QED BY <2>1, <1>2, <1>3, <1>4, <1>5, <1>6

\* One step at a time per task.
THEOREM QueueOneStepPerTask == SharedSpec => []OneStepPerTask
<1>1. Init => OneStepPerTask
  BY DEF Init, OneStepPerTask
<1>2. QueueInv /\ QueueInv' /\ OneStepPerTask /\ [NextBeside]_vars => OneStepPerTask'
  <2> SUFFICES ASSUME QueueInv, QueueInv', OneStepPerTask, [NextBeside]_vars,
                      NEW i, NEW j, i \in (DOMAIN launches \cup DOMAIN steps)',
                      j \in (DOMAIN launches \cup DOMAIN steps)',
                      InFlight(i)', InFlight(j)', keys'[i] = keys'[j]
               PROVE  i = j
    BY DEF OneStepPerTask
  <2>1. StartsAlone' /\ TypeOK
    BY DEF QueueInv, Coherent
  <2>2. /\ \A l \in 1..Len(keys) : keys'[l] = keys[l]
        /\ \A l : InFlight(l)' => \/ InFlight(l)
                                  \/ l = current' /\ server' \notin {"idle", "picking"}
    BY OnlyTheStartedFlies
  <2>3. CASE server' \notin {"idle", "picking"} /\ current' \in {i, j}
    BY <2>1, <2>3 DEF StartsAlone
  <2>4. CASE InFlight(i) /\ InFlight(j)
    <3>1. {i, j} \subseteq DOMAIN launches \cup DOMAIN steps
      BY <2>4 DEF InFlight, IsRunning, Active, Verifying
    <3>2. {i, j} \subseteq 1..Len(keys)
      BY <2>1, <3>1 DEF TypeOK
    <3> QED BY <2>2, <2>4, <3>1, <3>2 DEF OneStepPerTask
  <2> QED BY <2>2, <2>3, <2>4
<1> QED BY <1>1, <1>2, InitInv, StepInv, PTL DEF SharedSpec

\* The launches that run and the one being started.
Out == Active \cup ({current} \ {0})

LEMMA FinitelyMany ==
    ASSUME TypeOK
    PROVE  /\ IsFiniteSet(Active) /\ Cardinality(Active) \in Nat
           /\ IsFiniteSet(Out) /\ Cardinality(Out) \in Nat
<1>1. Len(keys) \in Nat /\ Active \subseteq 1..Len(keys) /\ Out \subseteq 0..Len(keys)
  BY DEF TypeOK, Active, Out
<1>2. IsFiniteSet(1..Len(keys)) /\ IsFiniteSet(0..Len(keys))
  BY <1>1, FS_Interval
<1> QED BY <1>1, <1>2, FS_Subset, FS_CardinalityType

\* An item is picked only while fewer than Cap launches run.
LEMMA PickLeavesRoom ==
    ASSUME TypeOK, NEW i, Pick(i)
    PROVE  Cardinality(Active) < Cap
<1> DEFINE away == {j \in DOMAIN items : items[j].state = "starting" /\ ~IsRunning(j)}
           f == IF foreign = "running" THEN 1 ELSE 0
<1>1. Cardinality(away) \in Nat
  <2>1. Len(keys) \in Nat /\ away \subseteq 1..Len(keys)
    BY DEF TypeOK
  <2>2. IsFiniteSet(1..Len(keys))
    BY <2>1, FS_Interval
  <2> HIDE DEF away
  <2> QED BY <2>1, <2>2, FS_Subset, FS_CardinalityType
<1>2. Cardinality(Active) + f + Cardinality(away) < Cap
  BY DEF Pick, RunningNow
<1> HIDE DEF away
<1> QED BY <1>1, <1>2, FinitelyMany, ConstantTypes

\* The cap: what runs and what is being started.
THEOREM QueueCapRespected == SharedSpec => []CapRespected
<1>1. Init => CapRespected
  <2> SUFFICES ASSUME Init PROVE Cardinality(Out) <= Cap
    BY DEF CapRespected, Out
  <2>1. Out = {}
    BY DEF Init, Out, Active
  <2> QED BY <2>1, FS_EmptySet, ConstantTypes
<1>2. QueueInv /\ QueueInv' /\ CapRespected /\ [NextBeside]_vars => CapRespected'
  <2> SUFFICES ASSUME QueueInv, QueueInv', CapRespected, [NextBeside]_vars
               PROVE  Cardinality(Out') <= Cap
    BY DEF CapRespected, Out
  <2>1. TypeOK /\ TypeOK' /\ StartAgrees
    BY DEF QueueInv, Coherent
  <2>2. Cardinality(Out) <= Cap
    BY DEF CapRespected, Out
  <2>3. IsFiniteSet(Out) /\ Cardinality(Out) \in Nat /\ Cardinality(Active) \in Nat
        /\ IsFiniteSet(Active)
    BY <2>1, FinitelyMany
  <2>4. CASE \E i \in Ids : Pick(i)
    <3>1. PICK i \in Ids : Pick(i)
      BY <2>4
    <3>2. Out' = Active \cup {i} /\ i \in 1..Len(keys) /\ Len(keys) \in Nat
      BY <2>1, <3>1 DEF Pick, Out, Active, TypeOK
    <3>3. Cardinality(Active \cup {i}) \in {Cardinality(Active), Cardinality(Active) + 1}
      BY <2>3, FS_AddElement
    <3>4. Cardinality(Active) < Cap
      BY <2>1, <3>1, PickLeavesRoom
    <3> QED BY <2>3, <3>2, <3>3, <3>4, ConstantTypes
  <2>5. CASE ~ \E i \in Ids : Pick(i)
    <3>1. Out' \subseteq Out
      <4>1. CASE Spawn
        BY <4>1, <2>1 DEF Spawn, StartAgrees, KeptLaunches, Out, Active, TypeOK
      <4>2. CASE \E i \in Ids : LaunchEnds(i)
        BY <4>2, <2>1 DEF LaunchEnds, Out, Active, TypeOK
      <4>3. CASE Crash
        BY <4>3, <2>1 DEF Crash, Out, Active
      <4>4. CASE launches' = launches /\ current' \in {current, 0}
        BY <4>4, <2>1 DEF Out, Active
      <4> QED
        BY <2>5, <4>1, <4>2, <4>3, <4>4
        DEF NextBeside, Next, StartStep, Enqueue, Cancel, Verify, TimePasses, TickBegins,
            TickEnds, Refuse, Skip, StartOver, Begin, Report, Abort, Aborted,
            ForeignPick, ForeignStep, vars
    <3>2. Cardinality(Out') <= Cardinality(Out) /\ Cardinality(Out') \in Nat
      BY <2>3, <3>1, FS_Subset, FS_CardinalityType
    <3> QED BY <2>2, <2>3, <3>2, ConstantTypes
  <2> QED BY <2>4, <2>5
<1> QED BY <1>1, <1>2, InitInv, StepInv, PTL DEF SharedSpec

\* A launch is only ever started for an item that is being started and has none
\* yet, and an item that has ended keeps its ending: no item runs twice, also
\* when its launch was pruned and whatever was interrupted.
RunsOnce ==
    [][/\ \A i : IsRunning(i)' /\ ~IsRunning(i) =>
             /\ i \in DOMAIN items /\ items[i].state = "starting"
             /\ i \notin DOMAIN launches
       /\ \A i \in DOMAIN items : items[i].state \notin Open =>
             i \notin DOMAIN items' \/ items'[i].state = items[i].state]_vars

\* Items change as Moves allows, whatever the step; a queued item is a new one.
LEMMA StepMoves ==
    ASSUME QueueInv, [NextBeside]_vars
    PROVE  \A i \in DOMAIN items : i \in DOMAIN items' =>
              items'[i] = items[i] \/ Moves(i)
<1>1. Coherent /\ TypeOK
  BY DEF QueueInv, Coherent
<1>2. CASE items' = items
  BY <1>2
<1>3. CASE \E k \in Keys : \/ \E when \in {"now", "at"} : Enqueue(k, when, k)
                           \/ \E t \in Tasks : k # Knowledge /\ Enqueue(k, "after", t)
  <2>1. PICK k \in Keys, when \in {"now", "at", "after"}, task \in Keys : Enqueue(k, when, task)
    BY <1>3 DEF Keys
  <2>2. \A i \in DOMAIN items' \ {Len(keys) + 1} : items'[i] = items[i]
    BY <1>1, <2>1, EnqueueAdds
  <2>3. Len(keys) + 1 \notin DOMAIN items
    BY <1>1, <2>1, EnqueueAdds
  <2> QED BY <2>2, <2>3
<1>4. CASE ItemsMove
  BY <1>4 DEF ItemsMove
<1>5. QED
  <2>1. (\E i \in Ids : Cancel(i) \/ Pick(i) \/ TimePasses(i)) \/ TickBegins \/ Report => ItemsMove
    BY <1>1, CancelMoves, PickMoves, TimePassesMoves, TickMoves, ReportMoves
  <2>2. Refuse \/ Skip \/ Aborted => ItemsMove
    BY <1>1, StartOverMoves DEF Refuse, Skip, Aborted, Unstarted
  <2> QED
    BY <1>2, <1>3, <1>4, <2>1, <2>2
    DEF NextBeside, Next, StartStep, LaunchEnds, Verify, TickEnds, Begin, Spawn, Abort,
        Crash, ForeignPick, ForeignStep, vars

\* No item runs twice.
THEOREM QueueRunsOnce == SharedSpec => RunsOnce
<1> DEFINE A ==
       /\ \A i : IsRunning(i)' /\ ~IsRunning(i) =>
             /\ i \in DOMAIN items /\ items[i].state = "starting"
             /\ i \notin DOMAIN launches
       /\ \A i \in DOMAIN items : items[i].state \notin Open =>
             i \notin DOMAIN items' \/ items'[i].state = items[i].state
<1>1. QueueInv /\ [NextBeside]_vars => A
  <2> SUFFICES ASSUME QueueInv, [NextBeside]_vars PROVE A
    OBVIOUS
  <2>1. ASSUME NEW i, IsRunning(i)', ~IsRunning(i)
        PROVE  /\ i \in DOMAIN items /\ items[i].state = "starting"
               /\ i \notin DOMAIN launches
    <3>1. Spawn /\ i = current
      <4>1. CASE launches' = launches
        BY <4>1, <2>1 DEF IsRunning, Active
      <4>2. CASE (\E j \in Ids : LaunchEnds(j)) \/ Crash
        BY <4>2, <2>1 DEF LaunchEnds, Crash, IsRunning, Active
      <4>3. CASE Spawn
        BY <4>3, <2>1 DEF Spawn, KeptLaunches, IsRunning, Active
      <4> QED
        BY <4>1, <4>2, <4>3
        DEF NextBeside, Next, StartStep, Enqueue, Cancel, Verify, TimePasses, TickBegins,
            TickEnds, Refuse, Skip, StartOver, Begin, Report, Abort, Aborted, Pick,
            ForeignPick, ForeignStep, vars
    <3>2. StartAgrees /\ server \in {"starting", "begun"}
      BY <3>1 DEF Spawn, QueueInv, Coherent
    <3> QED BY <2>1, <3>1, <3>2 DEF StartAgrees, IsRunning, Active
  <2>2. ASSUME NEW i \in DOMAIN items, items[i].state \notin Open, i \in DOMAIN items'
        PROVE  items'[i].state = items[i].state
    BY <2>2, StepMoves DEF Moves, Picked, Open
  <2> QED BY <2>1, <2>2
<1> QED BY <1>1, InitInv, StepInv, PTL DEF SharedSpec, RunsOnce
=============================================================================
